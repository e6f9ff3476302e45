SPECIFICATION AlarmSpec
CONSTANTS
  t1 = t1
  t2 = t2
  Thread = {t1}
  NoThread = NoThread
  Watcher = Watcher
  NoMsg = NoMsg
  Payload = {0, 1}
  Node = {1, 2}
  AlarmNode = 2
  AlarmReg = 1
  Ops = {"current"}
  Reg = {1}
  ScanUpTo = 3
  MaxCalls = 1
  Tick = {1}
  MaxDups = 0
  MaxAlarms = 1
INVARIANTS CountedOnce
