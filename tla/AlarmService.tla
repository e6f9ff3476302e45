---------------------------- MODULE AlarmService ----------------------------
(***************************************************************************)
(* The alarm bookkeeping of the server.  AlarmWatcher's thread looks at    *)
(* the slot of the alarm node every 500 ms; AlarmController.currentStatus  *)
(* asks the node for its sensor's value.  Whichever sees an alarm counts   *)
(* it, unless its timestamp is the one seen last, and remembers its        *)
(* timestamp.  lastAlarmTimestamp and totalAlarms are plain fields of      *)
(* AlarmWatcher, shared by the watcher and all request threads without a   *)
(* lock: comparing, reading the total, writing it back and stamping are    *)
(* four steps.                                                             *)
(***************************************************************************)
EXTENDS MessagesGateway, FiniteSets

CONSTANT Watcher   \* alarmWatcherThread

ASSUME AlarmAssumption == Watcher \notin Thread

Actor == Thread \cup {Watcher}

VARIABLES
  lastAlarmTimestamp,
  totalAlarms,
  stage,     \* how far each actor is with the alarm it has seen
  seen,      \* msg, the message the watcher retrieved
  read,      \* the value of totalAlarms each actor is about to increment
  counted    \* history: timestamps of the messages counted as alarms

alarmVars == <<lastAlarmTimestamp, totalAlarms, stage, seen, read, counted>>
allVars == <<vars, alarmVars>>

Stage == {"rest", "compare", "count", "write", "stamp", "done"}

AlarmTypeOK ==
  /\ TypeOK
  /\ lastAlarmTimestamp \in Nat
  /\ totalAlarms \in Nat
  /\ stage \in [Actor -> Stage]
  /\ seen \in Message \cup {NoMsg}
  /\ read \in [Actor -> Nat]
  /\ counted \subseteq Nat

AlarmInit ==
  /\ Init
  /\ lastAlarmTimestamp = 0
  /\ totalAlarms = 0
  /\ stage = [a \in Actor |-> "rest"]
  /\ seen = NoMsg
  /\ read = [a \in Actor |-> 0]
  /\ counted = {}

-----------------------------------------------------------------------------
(* Seeing an alarm *)

\* Mutant: the watcher's loop ends with the first alarm.
PollOnce ==
  /\ stage[Watcher] = "rest"
  /\ seen = NoMsg
  /\ udpMonitor = NoThread
  /\ responseMap[AlarmNode] # NoMsg
  /\ responseMap[AlarmNode].type = "ALARM"
  /\ seen' = responseMap[AlarmNode]
  /\ stage' = [stage EXCEPT ![Watcher] = "compare"]
  /\ UNCHANGED <<vars, lastAlarmTimestamp, totalAlarms, read, counted>>

\* Mutant: an empty slot makes the watcher forget the last alarm.
PollForgetting ==
  /\ stage[Watcher] = "rest"
  /\ udpMonitor = NoThread
  /\ \/ /\ responseMap[AlarmNode] # NoMsg
        /\ responseMap[AlarmNode].type = "ALARM"
        /\ seen' = responseMap[AlarmNode]
        /\ stage' = [stage EXCEPT ![Watcher] = "compare"]
        /\ UNCHANGED lastAlarmTimestamp
     \/ /\ responseMap[AlarmNode] = NoMsg
        /\ lastAlarmTimestamp' = 0
        /\ UNCHANGED <<seen, stage>>
  /\ UNCHANGED <<vars, totalAlarms, read, counted>>

\* retrieveMessage(nodeID), and the test of what it returned.
Poll ==
  /\ stage[Watcher] = "rest"
  /\ udpMonitor = NoThread
  /\ responseMap[AlarmNode] # NoMsg
  /\ responseMap[AlarmNode].type = "ALARM"
  /\ seen' = responseMap[AlarmNode]
  /\ stage' = [stage EXCEPT ![Watcher] = "compare"]
  /\ UNCHANGED <<vars, lastAlarmTimestamp, totalAlarms, read, counted>>

\* currentStatus got an answer whose first byte is 1, whatever it answers.
ReportsAlarm(t) ==
  /\ pc[t] = "returned"
  /\ call[t].op = "current"
  /\ outcome[t] = "ok"
  /\ answer[t].pay = 1

\* A message has been seen, and nothing done about it.
Seen(a) ==
  IF a = Watcher THEN stage[a] = "compare"
  ELSE ReportsAlarm(a) /\ stage[a] = "rest"

-----------------------------------------------------------------------------
(* Counting it: the same four steps in AlarmWatcher and AlarmController *)

Subject(a) == IF a = Watcher THEN seen ELSE answer[a]

\* Mutant: alarms are compared by age.
CompareOlder(a) ==
  /\ Seen(a)
  /\ stage' = [stage EXCEPT ![a] =
                 IF lastAlarmTimestamp < Subject(a).timestamp
                 THEN "stamp" ELSE "count"]
  /\ UNCHANGED <<vars, lastAlarmTimestamp, totalAlarms, seen, read, counted>>

\* if (lastAlarmTimestamp != msg.timestamp)
Compare(a) ==
  /\ Seen(a)
  /\ stage' = [stage EXCEPT ![a] =
                 IF lastAlarmTimestamp # Subject(a).timestamp
                 THEN "count" ELSE "stamp"]
  /\ UNCHANGED <<vars, lastAlarmTimestamp, totalAlarms, seen, read, counted>>

\* totalAlarms++ reads the field ...
ReadTotal(a) ==
  /\ stage[a] = "count"
  /\ read' = [read EXCEPT ![a] = totalAlarms]
  /\ stage' = [stage EXCEPT ![a] = "write"]
  /\ UNCHANGED <<vars, lastAlarmTimestamp, totalAlarms, seen, counted>>

\* ... and writes it.
WriteTotal(a) ==
  /\ stage[a] = "write"
  /\ totalAlarms' = read[a] + 1
  /\ counted' = counted \cup {Subject(a).timestamp}
  /\ stage' = [stage EXCEPT ![a] = "stamp"]
  /\ UNCHANGED <<vars, lastAlarmTimestamp, seen, read>>

\* Mutant: the alarm's timestamp is not remembered.
StampNothing(a) ==
  /\ stage[a] = "stamp"
  /\ stage' = [stage EXCEPT ![a] = IF a = Watcher THEN "rest" ELSE "done"]
  /\ UNCHANGED <<vars, lastAlarmTimestamp, totalAlarms, seen, read, counted>>

\* lastAlarmTimestamp = msg.timestamp
Stamp(a) ==
  /\ stage[a] = "stamp"
  /\ lastAlarmTimestamp' = Subject(a).timestamp
  /\ stage' = [stage EXCEPT ![a] = IF a = Watcher THEN "rest" ELSE "done"]
  /\ UNCHANGED <<vars, totalAlarms, seen, read, counted>>

Count(a) == Compare(a) \/ ReadTotal(a) \/ WriteTotal(a) \/ Stamp(a)

-----------------------------------------------------------------------------

\* A reply leaves only after the bookkeeping of its handler.
Finish(t) ==
  /\ Respond(t)
  /\ ReportsAlarm(t) => stage[t] = "done"
  /\ stage' = [stage EXCEPT ![t] = "rest"]
  /\ UNCHANGED <<lastAlarmTimestamp, totalAlarms, seen, read, counted>>

GatewayStep ==
  /\ \/ \E t \in Thread :
          \/ \E c \in Offered : Handle(t, c)
          \/ Exchange(t) \/ ScanStep(t)
     \/ Background
     \/ Idle
  /\ UNCHANGED alarmVars

WatcherStep == Poll \/ Count(Watcher)

AlarmNext ==
  \/ GatewayStep
  \/ WatcherStep
  \/ \E t \in Thread : Count(t) \/ Finish(t)

AlarmSpec == AlarmInit /\ [][AlarmNext]_allVars

\* The watcher's loop and the handlers keep running.  Weak fairness gives the
\* watcher its turn only if the UDP monitor is free for good in the end, which
\* it is once the calls of the instance are served: Java promises a thread
\* nothing while others keep taking the monitor.
AlarmFairSpec ==
  /\ AlarmSpec
  /\ WF_allVars(WatcherStep)
  /\ \A t \in Thread :
       /\ WF_allVars(Count(t) \/ Finish(t))
       /\ WF_allVars((Exchange(t) \/ TransmitPing(t) \/ ScanRead(t)
                       \/ ScanClear(t)) /\ UNCHANGED alarmVars)
       /\ SF_allVars(ScanEnd(t) /\ UNCHANGED alarmVars)

-----------------------------------------------------------------------------
(* Properties *)

\* The time the page shows as the last alarm is that of an alarm that is in
\* the total, however many handlers race with the watcher: nobody stamps
\* before it has counted or found the alarm counted.
LastWasCounted == lastAlarmTimestamp # 0 => lastAlarmTimestamp \in counted

\* No alarm is counted twice.  Holds of the watcher alone; beside it a handler
\* that got the alarm as its answer may find it not yet stamped and count it too.
CountedOnce == totalAlarms <= Cardinality(counted)

\* The time of the last alarm never goes back.  Holds of the watcher alone; a
\* handler may stamp the time of its older report over that of a newer alarm.
LastAdvances == [][lastAlarmTimestamp' >= lastAlarmTimestamp]_allVars

\* Bound on what an instance receives, and on its clock if it ticks by one.
MaxReceipts == MaxAlarms + MaxDups + (ScanUpTo - 1) * MaxCalls

\* An alarm that stays in its slot is counted in the end; one that is
\* overwritten, or cleared by a request to the node or by a scan, may not be.
AlarmWaits(ts) ==
  /\ responseMap[AlarmNode] # NoMsg
  /\ responseMap[AlarmNode].type = "ALARM"
  /\ responseMap[AlarmNode].timestamp = ts

AlarmNoticed ==
  \A ts \in 1 .. MaxReceipts + 1 :
    AlarmWaits(ts) ~> ts \in counted \/ ~AlarmWaits(ts)
=============================================================================
