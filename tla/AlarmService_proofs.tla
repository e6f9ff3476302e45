------------------------ MODULE AlarmService_proofs ------------------------
(***************************************************************************)
(* Proofs about AlarmService: the gateway underneath runs as before, and   *)
(* the last alarm shown is one that was counted.  Where no handler asks    *)
(* the sensor, the watcher counts every alarm once and in order.           *)
(***************************************************************************)
EXTENDS AlarmService, MessagesGateway_proofs, FiniteSetTheorems

\* The bookkeeping only adds steps of its own to the gateway's.
LEMMA AlarmStepIsNext == [AlarmNext]_allVars => [Next]_vars
  BY DEF AlarmNext, GatewayStep, WatcherStep, Poll, Count, Compare, ReadTotal,
     WriteTotal, Stamp, Finish, Next, allVars

LEMMA AlarmIsGateway == AlarmSpec => Spec
<1>1. AlarmInit => Init
  BY DEF AlarmInit
<1>. QED
  BY <1>1, AlarmStepIsNext, PTL DEF AlarmSpec, Spec

\* A call that succeeded, a scan apart, has a message to show for it.
Answered ==
  \A t \in Thread :
    pc[t] = "returned" /\ outcome[t] = "ok" /\ ~Scanning(t)
      => answer[t] \in Message

LEMMA NextAnswered == TypeOK /\ IInv /\ Answered /\ [Next]_vars => Answered'
<1>. SUFFICES ASSUME TypeOK, IInv, Answered, [Next]_vars, NEW t \in Thread,
                     pc'[t] = "returned", outcome'[t] = "ok", ~Scanning(t)'
              PROVE  answer'[t] \in Message
  BY DEF Answered
<1>. USE DEF TypeOK, UDPTypeOK, udpVars, callVars, resultVars, Goto, PC
<1>1. ASSUME pc[t] = "returned", outcome'[t] = outcome[t],
             answer'[t] = answer[t], UNCHANGED call
      PROVE  answer'[t] \in Message
  BY <1>1 DEF Answered, Scanning
<1>2. ASSUME PollHit(t)
      PROVE  answer'[t] \in Message
  BY <1>2, TargetType, SlotType DEF PollHit
<1>3. ASSUME NEW u \in Thread, Exchange(u) \/ ScanStep(u) \/ Respond(u)
      PROVE  answer'[t] \in Message
  <2>1. CASE u = t
    BY <1>2, <1>3, <2>1
    DEF Exchange, ScanStep, Respond, EnterGateway, EnterSend, Clear,
        TransmitRequest, TransmitPing, Transmitted, TransmitFails,
        EnterRetrieve, PollTimeout, Leave, ScanRead, ScanClear, ScanEnd,
        IInv, MonitorsHeld, Scanning
  <2>2. CASE u # t
    BY <1>1, <1>3, <2>2
    DEF Exchange, ScanStep, Respond, EnterGateway, EnterSend, Clear,
        TransmitRequest, TransmitPing, Transmitted, TransmitFails,
        EnterRetrieve, PollHit, PollTimeout, Leave, ScanRead, ScanClear,
        ScanEnd
  <2>. QED
    BY <2>1, <2>2
<1>4. ASSUME NEW u \in Thread, NEW c \in Calls, Handle(u, c)
      PROVE  answer'[t] \in Message
  <2>1. u # t
    BY <1>4 DEF Handle
  <2>. QED
    BY <1>4, <2>1 DEF Handle, Scanning, Answered
<1>5. CASE Background
  BY <1>1, <1>5 DEF Background
<1>6. CASE Idle \/ UNCHANGED vars
  BY <1>1, <1>6 DEF Idle, vars
<1>. QED
  BY <1>3, <1>4, <1>5, <1>6, OfferedCalls DEF Next

\* Bookkeeping goes on only while its handler has not replied, on a message
\* that stays the same, and nobody stamps a time that is not in the total.
AlarmInv ==
  /\ \A t \in Thread :
       stage[t] # "rest" => pc[t] = "returned" /\ answer[t] \in Message
  /\ stage[Watcher] # "rest" => seen \in Message
  /\ \A a \in Actor :
       stage[a] = "stamp" => Subject(a).timestamp \in counted \cup {0}
  /\ LastWasCounted

LEMMA InitAlarm == AlarmInit => AlarmTypeOK /\ AlarmInv /\ Answered
  BY InitTypeOK
  DEF AlarmInit, AlarmTypeOK, AlarmInv, Actor, Stage, LastWasCounted, Init,
      Answered

\* The message an actor is busy with has a time.
LEMMA SubjectType ==
  ASSUME AlarmTypeOK, AlarmInv, NEW a \in Actor, stage[a] # "rest"
  PROVE  Subject(a).timestamp \in Nat
<1>1. Subject(a) \in Message
  BY DEF AlarmInv, Subject, Actor
<1>. QED
  BY <1>1 DEF Message

\* So has the one it has seen.
LEMMA SeenType ==
  ASSUME AlarmTypeOK, AlarmInv, Answered, NEW a \in Actor, Seen(a)
  PROVE  Subject(a) \in Message
<1>1. CASE a = Watcher
  BY <1>1 DEF Seen, AlarmInv, Subject
<1>2. CASE a # Watcher
  <2>1. a \in Thread /\ ReportsAlarm(a) /\ Subject(a) = answer[a]
    BY <1>2 DEF Seen, Actor, Subject
  <2>. QED
    BY <2>1 DEF ReportsAlarm, Answered, Scanning
<1>. QED
  BY <1>1, <1>2

LEMMA CountStep ==
  ASSUME AlarmTypeOK, AlarmInv, Answered, NEW a \in Actor, Count(a), TypeOK'
  PROVE  AlarmTypeOK' /\ AlarmInv'
<1>. USE DEF AlarmTypeOK, AlarmInv, LastWasCounted, Subject, Actor, Stage
<1>1. UNCHANGED <<pc, answer, seen>>
  BY DEF Count, Compare, ReadTotal, WriteTotal, Stamp, vars
<1>2. CASE Compare(a)
  <2>1. Subject(a) \in Message
    BY <1>2, SeenType DEF Compare
  <2>2. a # Watcher => pc[a] = "returned"
    BY <1>2 DEF Compare, Seen, ReportsAlarm
  <2>3. /\ stage' = [stage EXCEPT ![a] =
                       IF lastAlarmTimestamp # Subject(a).timestamp
                       THEN "count" ELSE "stamp"]
        /\ UNCHANGED <<lastAlarmTimestamp, totalAlarms, seen, read, counted>>
    BY <1>2 DEF Compare
  <2>. QED
    BY <1>1, <2>1, <2>2, <2>3, AlarmAssumption
<1>3. CASE ReadTotal(a)
  BY <1>1, <1>3, AlarmAssumption DEF ReadTotal
<1>4. CASE WriteTotal(a)
  <2>1. Subject(a).timestamp \in Nat
    BY <1>4, SubjectType DEF WriteTotal
  <2>2. /\ totalAlarms' \in Nat
        /\ counted' = counted \cup {Subject(a).timestamp}
        /\ stage' = [stage EXCEPT ![a] = "stamp"]
        /\ UNCHANGED <<vars, lastAlarmTimestamp, seen, read>>
    BY <1>4 DEF WriteTotal
  <2>3. AlarmTypeOK'
    BY <2>1, <2>2
  <2>4. \A b \in Actor :
          stage'[b] = "stamp" => Subject(b)'.timestamp \in counted' \cup {0}
    BY <1>1, <2>2
  <2>5. stage[a] # "rest"
    BY <1>4 DEF WriteTotal
  <2>. QED
    BY <1>1, <2>2, <2>3, <2>4, <2>5
<1>5. CASE Stamp(a)
  <2>1. Subject(a).timestamp \in Nat
    BY <1>5, SubjectType DEF Stamp
  <2>. QED
    BY <1>1, <2>1, <1>5, AlarmAssumption DEF Stamp
<1>. QED
  BY <1>2, <1>3, <1>4, <1>5 DEF Count

LEMMA NextAlarm ==
  ASSUME AlarmTypeOK, AlarmInv, Answered, IInv, [AlarmNext]_allVars, TypeOK'
  PROVE  AlarmTypeOK' /\ AlarmInv'
<1>. USE AlarmAssumption DEF AlarmTypeOK, Actor, Stage
<1>1. ASSUME UNCHANGED alarmVars,
             \A t \in Thread : stage[t] # "rest" =>
               pc'[t] = pc[t] /\ answer'[t] = answer[t]
      PROVE  AlarmTypeOK' /\ AlarmInv'
  BY <1>1 DEF alarmVars, AlarmInv, Subject, LastWasCounted
<1>2. ASSUME GatewayStep
      PROVE  AlarmTypeOK' /\ AlarmInv'
  <2>1. ASSUME NEW t \in Thread, stage[t] # "rest"
        PROVE  pc'[t] = pc[t] /\ answer'[t] = answer[t]
    <3>1. pc[t] = "returned"
      BY <2>1 DEF AlarmInv
    <3>2. ASSUME NEW u \in Thread, Exchange(u) \/ ScanStep(u)
          PROVE  pc'[t] = pc[t] /\ answer'[t] = answer[t]
      BY <3>1, <3>2
      DEF Exchange, ScanStep, EnterGateway, EnterSend, Clear,
          TransmitRequest, TransmitPing, Transmitted, TransmitFails,
          EnterRetrieve, PollHit, PollTimeout, Leave, ScanRead, ScanClear,
          ScanEnd, Goto, resultVars, TypeOK
    <3>3. ASSUME NEW u \in Thread, NEW c \in Calls, Handle(u, c)
          PROVE  pc'[t] = pc[t] /\ answer'[t] = answer[t]
      BY <3>1, <3>3 DEF Handle, Goto, TypeOK
    <3>4. ASSUME Background \/ Idle
          PROVE  pc'[t] = pc[t] /\ answer'[t] = answer[t]
      BY <3>4 DEF Background, Idle, vars, resultVars
    <3>. QED
      BY <1>2, <3>2, <3>3, <3>4, OfferedCalls DEF GatewayStep
  <2>. QED
    BY <1>1, <1>2, <2>1 DEF GatewayStep
<1>3. CASE Poll
  <2>1. responseMap[AlarmNode] \in Message
    BY <1>3, SlotType, UDPAssumption DEF Poll, TypeOK, UDPTypeOK
  <2>. QED
    BY <1>3, <2>1 DEF Poll, AlarmInv, Subject, LastWasCounted, vars
<1>4. ASSUME NEW t \in Thread, Finish(t)
      PROVE  AlarmTypeOK' /\ AlarmInv'
  BY <1>4
  DEF Finish, Respond, Goto, resultVars, AlarmInv, Subject, LastWasCounted,
      TypeOK
<1>5. ASSUME NEW a \in Actor, Count(a)
      PROVE  AlarmTypeOK' /\ AlarmInv'
  BY <1>5, CountStep
<1>6. CASE UNCHANGED allVars
  BY <1>1, <1>6 DEF allVars, vars
<1>. QED
  BY <1>2, <1>3, <1>4, <1>5, <1>6, OfferedCalls DEF AlarmNext, WatcherStep

\* The inductive invariant of the server with its alarm bookkeeping.
ServerInv == AlarmTypeOK /\ IInv /\ Answered /\ AlarmInv

LEMMA InitServer == AlarmInit => ServerInv
  BY InitAlarm, InitIInv DEF AlarmInit, ServerInv

LEMMA NextServer == ServerInv /\ [AlarmNext]_allVars => ServerInv'
<1>. SUFFICES ASSUME ServerInv, [AlarmNext]_allVars PROVE ServerInv'
  OBVIOUS
<1>1. [Next]_vars
  BY AlarmStepIsNext
<1>2. TypeOK /\ TypeOK'
  BY <1>1, NextTypeOK DEF ServerInv, AlarmTypeOK
<1>3. IInv'
  BY <1>1, <1>2, NextMonitorsHeld, NextKnownNodes, NextFreshSlots, NextScanKeeps
  DEF ServerInv, IInv
<1>4. Answered'
  BY <1>1, <1>2, NextAnswered DEF ServerInv
<1>5. AlarmTypeOK' /\ AlarmInv'
  BY <1>2, NextAlarm DEF ServerInv
<1>. QED
  BY <1>3, <1>4, <1>5 DEF ServerInv

\* What the inductive invariant is for: nobody has stamped what is not counted.
LEMMA ServerCounted == ServerInv => LastWasCounted
  BY DEF ServerInv, AlarmInv

LEMMA AlarmInvariant == AlarmSpec => []ServerInv
  BY InitServer, NextServer, PTL DEF AlarmSpec

\* The alarm bookkeeping keeps its types.
THEOREM AlarmTypeCorrect == AlarmSpec => []AlarmTypeOK
<1>1. ServerInv => AlarmTypeOK
  BY DEF ServerInv
<1>. QED
  BY <1>1, AlarmInvariant, PTL

\* With any number of handlers racing with the watcher and with one another,
\* the time shown as the last alarm is that of an alarm counted.
THEOREM LastAlarmWasCounted == AlarmSpec => []LastWasCounted
  BY ServerCounted, AlarmInvariant, PTL

-----------------------------------------------------------------------------
(* The watcher alone *)

\* No handler of api/alarm/current is called.
WatcherAlone == "current" \notin Ops

\* Time goes on, and the alarm node's slot is kept, cleared or given a message
\* of the time it is.
LEMMA ClockStep ==
  ASSUME TypeOK, [Next]_vars
  PROVE  /\ clock' \in Nat /\ clock' >= clock
         /\ responseMap'[AlarmNode] \in {responseMap[AlarmNode], NoMsg}
              \/ responseMap'[AlarmNode].timestamp = clock'
<1> USE UDPAssumption, SlotType DEF TypeOK, UDPTypeOK
<1>1. ASSUME NEW m \in inbound, ListenerReceive(m)
      PROVE  /\ clock' \in Nat /\ clock' >= clock
             /\ responseMap'[AlarmNode] = responseMap[AlarmNode]
                  \/ responseMap'[AlarmNode].timestamp = clock'
  <2>1. PICK d \in Tick :
          /\ clock' = clock + d
          /\ responseMap' = [responseMap EXCEPT ![m.node] = fromBytes(m, clock + d)]
    BY <1>1 DEF ListenerReceive
  <2>2. fromBytes(m, clock + d).timestamp = clock + d
    BY DEF fromBytes
  <2> QED
    BY <2>1, <2>2
<1>2. ASSUME NEW t \in Thread, Clear(t) \/ ScanClear(t)
      PROVE  /\ clock' = clock
             /\ responseMap'[AlarmNode] \in {responseMap[AlarmNode], NoMsg}
  BY <1>2 DEF Clear, ScanClear, clearMessage, fieldVars
<1>3. UNCHANGED clock \/ \E m \in inbound : ListenerReceive(m)
  <2> USE DEF udpVars, fieldVars
  <2>1. ASSUME NEW t \in Thread, Exchange(t) \/ ScanStep(t)
        PROVE  UNCHANGED clock
    BY <2>1 DEF Exchange, ScanStep, EnterGateway, EnterSend, Clear, TransmitRequest,
       Transmitted, TransmitFails, EnterRetrieve, PollHit, PollTimeout, TransmitPing,
       ScanRead, ScanClear, ScanEnd
  <2>2. ASSUME NEW t \in Thread, Respond(t) \/ \E c \in Calls : Handle(t, c)
        PROVE  UNCHANGED clock
    BY <2>2 DEF Handle, Respond
  <2>3. CASE Background
    BY <2>3 DEF Background, Field, Listener, FieldAnswers, FieldAnswersAgain,
       FieldLoses, FieldAlarm
  <2>4. CASE Idle \/ UNCHANGED vars
    BY <2>4 DEF Idle, vars
  <2> QED
    BY <2>1, <2>2, <2>3, <2>4, OfferedCalls DEF Next
<1> QED
  BY <1>1, <1>2, <1>3, SlotStep

\* Handlers have nothing to count.
HandlersRest ==
  \A t \in Thread :
    stage[t] = "rest" /\ (pc[t] # "idle" => call[t].op \in Ops)

Busy == stage[Watcher] # "rest"

\* Alarms reach the watcher in the order of their times.
TimesOrdered ==
  /\ lastAlarmTimestamp <= clock
  /\ Busy => lastAlarmTimestamp <= seen.timestamp /\ seen.timestamp <= clock
  /\ responseMap[AlarmNode] # NoMsg =>
       /\ lastAlarmTimestamp <= responseMap[AlarmNode].timestamp
       /\ responseMap[AlarmNode].timestamp <= clock
       /\ Busy => seen.timestamp <= responseMap[AlarmNode].timestamp

\* What was counted is not later than the last alarm, but for the one that is
\* about to become it; and what is being counted is later.
Counting ==
  /\ IsFiniteSet(counted) /\ totalAlarms = Cardinality(counted)
  /\ \A c \in counted :
       \/ c <= lastAlarmTimestamp
       \/ stage[Watcher] = "stamp" /\ c = seen.timestamp
  /\ stage[Watcher] \in {"count", "write"} => seen.timestamp # lastAlarmTimestamp
  /\ stage[Watcher] = "write" => read[Watcher] = totalAlarms

\* Inductive where the watcher is alone.
WatcherInv == HandlersRest /\ TimesOrdered /\ Counting

LEMMA InitWatcher == AlarmInit => WatcherInv
  BY FS_EmptySet, SlotType, UDPAssumption
  DEF AlarmInit, Init, UDPInit, WatcherInv, HandlersRest, TimesOrdered, Busy,
      Counting, Actor

LEMMA NextHandlersRest ==
  ASSUME WatcherAlone, AlarmTypeOK, HandlersRest, [AlarmNext]_allVars
  PROVE  HandlersRest'
<1> USE AlarmAssumption DEF AlarmTypeOK, TypeOK, HandlersRest, Actor
<1>1. ASSUME NEW t \in Thread, NEW c \in Calls, c.op \in Ops, Handle(t, c),
             UNCHANGED alarmVars
      PROVE  HandlersRest'
  BY <1>1 DEF Handle, Goto, alarmVars
<1>2. ASSUME NEW t \in Thread, Exchange(t) \/ ScanStep(t), UNCHANGED alarmVars
      PROVE  HandlersRest'
  BY <1>2 DEF Exchange, ScanStep, EnterGateway, EnterSend, Clear, TransmitRequest,
     Transmitted, TransmitFails, EnterRetrieve, PollHit, PollTimeout, Leave,
     TransmitPing, ScanRead, ScanClear, ScanEnd, Goto, callVars, alarmVars
<1>3. ASSUME Background \/ Idle \/ UNCHANGED vars, UNCHANGED alarmVars
      PROVE  HandlersRest'
  BY <1>3 DEF Background, Idle, vars, callVars, alarmVars
<1>4. CASE WatcherStep
  BY <1>4 DEF WatcherStep, Poll, Count, Compare, ReadTotal, WriteTotal, Stamp,
     vars, callVars
<1>5. ASSUME NEW t \in Thread, Count(t)
      PROVE  FALSE
  BY <1>5 DEF Seen, ReportsAlarm, WatcherAlone, Count, Compare, ReadTotal,
     WriteTotal, Stamp
<1>6. ASSUME NEW t \in Thread, Finish(t)
      PROVE  HandlersRest'
  BY <1>6 DEF Finish, Respond, Goto, callVars
<1> QED
  BY <1>1, <1>2, <1>3, <1>4, <1>5, <1>6, OfferedCalls
  DEF AlarmNext, GatewayStep, allVars

\* While the watcher does nothing, what reaches its slot is later.
LEMMA WatcherWaits ==
  ASSUME AlarmTypeOK, AlarmInv, WatcherInv, [Next]_vars,
         stage'[Watcher] = stage[Watcher],
         UNCHANGED <<lastAlarmTimestamp, totalAlarms, seen, read, counted>>
  PROVE  TimesOrdered' /\ Counting'
<1>1. Counting'
  BY DEF WatcherInv, Counting
<1>2. Busy => seen.timestamp \in Nat
  BY SubjectType DEF Busy, Subject, Actor
<1>3. responseMap[AlarmNode] # NoMsg => responseMap[AlarmNode].timestamp \in Nat
  BY SlotType, UDPAssumption DEF AlarmTypeOK, TypeOK, UDPTypeOK, Message
<1>4. clock \in Nat /\ lastAlarmTimestamp \in Nat
  BY DEF AlarmTypeOK, TypeOK, UDPTypeOK
<1>5. TimesOrdered'
  BY <1>2, <1>3, <1>4, ClockStep DEF AlarmTypeOK, WatcherInv, TimesOrdered, Busy
<1> QED
  BY <1>1, <1>5

\* The watcher's four steps.
LEMMA WatcherCounts ==
  ASSUME AlarmTypeOK, AlarmInv, WatcherInv, Count(Watcher)
  PROVE  /\ TimesOrdered' /\ Counting'
         /\ lastAlarmTimestamp' >= lastAlarmTimestamp
<1> USE DEF WatcherInv, TimesOrdered, Busy, Counting
<1>1. Subject(Watcher) = seen /\ Watcher \in Actor
  BY DEF Subject, Actor
<1>2. seen.timestamp \in Nat /\ stage[Watcher] # "rest"
  BY <1>1, SubjectType DEF Count, Seen, Compare, ReadTotal, WriteTotal, Stamp
<1>3. UNCHANGED <<responseMap, clock, seen>>
  BY DEF Count, Compare, ReadTotal, WriteTotal, Stamp, vars, udpVars
<1>4. /\ lastAlarmTimestamp \in Nat /\ clock \in Nat /\ totalAlarms \in Nat
      /\ counted \subseteq Nat
      /\ stage = [a \in Actor |-> stage[a]] /\ read = [a \in Actor |-> read[a]]
  BY DEF AlarmTypeOK, TypeOK, UDPTypeOK
<1>5. CASE Compare(Watcher)
  BY <1>1, <1>2, <1>3, <1>4, <1>5 DEF Compare, Seen
<1>6. CASE ReadTotal(Watcher)
  BY <1>1, <1>2, <1>3, <1>4, <1>6 DEF ReadTotal
<1>7. CASE WriteTotal(Watcher)
  <2>1. /\ stage[Watcher] = "write" /\ stage'[Watcher] = "stamp"
        /\ totalAlarms' = totalAlarms + 1
        /\ counted' = counted \cup {seen.timestamp}
        /\ UNCHANGED lastAlarmTimestamp
    BY <1>1, <1>4, <1>7 DEF WriteTotal
  <2>2. seen.timestamp \notin counted
    BY <1>2, <1>4, <2>1
  <2>3. /\ IsFiniteSet(counted')
        /\ Cardinality(counted') = Cardinality(counted) + 1
    BY <2>1, <2>2, FS_AddElement
  <2> QED
    BY <1>2, <1>3, <1>4, <2>1, <2>3
<1>8. CASE Stamp(Watcher)
  <2>1. /\ stage[Watcher] = "stamp" /\ stage'[Watcher] = "rest"
        /\ lastAlarmTimestamp' = seen.timestamp
        /\ UNCHANGED <<totalAlarms, counted>>
    BY <1>1, <1>4, <1>8 DEF Stamp
  <2>2. \A c \in counted : c <= lastAlarmTimestamp'
    BY <1>2, <1>4, <2>1
  <2> QED
    BY <1>2, <1>3, <1>4, <2>1, <2>2
<1> QED
  BY <1>5, <1>6, <1>7, <1>8 DEF Count

LEMMA NextWatcher ==
  ASSUME WatcherAlone, AlarmTypeOK, AlarmInv, WatcherInv, [AlarmNext]_allVars,
         [Next]_vars
  PROVE  WatcherInv' /\ lastAlarmTimestamp' >= lastAlarmTimestamp
<1>1. HandlersRest'
  BY NextHandlersRest DEF WatcherInv
<1>2. lastAlarmTimestamp \in Nat
  BY DEF AlarmTypeOK
<1>3. CASE GatewayStep \/ UNCHANGED allVars
  BY <1>1, <1>2, <1>3, WatcherWaits DEF GatewayStep, allVars, alarmVars, WatcherInv
<1>4. ASSUME NEW t \in Thread, Finish(t)
      PROVE  WatcherInv' /\ lastAlarmTimestamp' >= lastAlarmTimestamp
  <2>1. stage'[Watcher] = stage[Watcher]
    BY <1>4, AlarmAssumption DEF Finish, AlarmTypeOK, Actor
  <2> QED
    BY <1>1, <1>2, <1>4, <2>1, WatcherWaits DEF Finish, WatcherInv
<1>5. ASSUME NEW t \in Thread, Count(t)
      PROVE  FALSE
  <2>1. t # Watcher
    BY AlarmAssumption
  <2> QED
    BY <1>5, <2>1 DEF WatcherInv, HandlersRest, Seen, ReportsAlarm, WatcherAlone,
       Count, Compare, ReadTotal, WriteTotal, Stamp
<1>6. CASE Poll
  <2>1. /\ stage'[Watcher] = "compare" /\ stage[Watcher] = "rest"
        /\ seen' = responseMap[AlarmNode] /\ responseMap[AlarmNode] # NoMsg
        /\ UNCHANGED <<responseMap, clock, lastAlarmTimestamp, totalAlarms, counted>>
    BY <1>6 DEF Poll, vars, udpVars, AlarmTypeOK, Actor
  <2>2. responseMap[AlarmNode].timestamp \in Nat
    BY <2>1, SlotType, UDPAssumption DEF AlarmTypeOK, TypeOK, UDPTypeOK, Message
  <2> QED
    BY <1>1, <1>2, <2>1, <2>2 DEF WatcherInv, TimesOrdered, Busy, Counting
<1>7. CASE Count(Watcher)
  BY <1>1, <1>7, WatcherCounts DEF WatcherInv
<1> QED
  BY <1>3, <1>4, <1>5, <1>6, <1>7, OfferedCalls DEF AlarmNext, WatcherStep

LEMMA WatcherInvariant ==
  ASSUME WatcherAlone
  PROVE  AlarmSpec => []WatcherInv
<1>1. ServerInv /\ WatcherInv /\ [AlarmNext]_allVars /\ [Next]_vars
      => WatcherInv'
  BY NextWatcher DEF ServerInv
<1> QED
  BY <1>1, InitWatcher, AlarmInvariant, AlarmIsGateway, PTL DEF AlarmSpec, Spec

\* Where no handler asks the sensor, no alarm is counted twice, whatever time
\* passes between two of them.
THEOREM WatcherCountsOnce ==
  ASSUME WatcherAlone
  PROVE  AlarmSpec => []CountedOnce
<1>1. WatcherInv => CountedOnce
  BY FS_CardinalityType DEF WatcherInv, Counting, CountedOnce
<1> QED
  BY <1>1, WatcherInvariant, PTL

\* And the time of the last alarm never goes back.
THEOREM WatcherLastAdvances ==
  ASSUME WatcherAlone
  PROVE  AlarmSpec => LastAdvances
<1>1. ServerInv /\ WatcherInv /\ [AlarmNext]_allVars /\ [Next]_vars
      => [lastAlarmTimestamp' >= lastAlarmTimestamp]_allVars
  BY NextWatcher DEF ServerInv
<1> QED
  BY <1>1, WatcherInvariant, AlarmInvariant, AlarmIsGateway, PTL
  DEF AlarmSpec, Spec, LastAdvances
=============================================================================
