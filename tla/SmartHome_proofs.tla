------------------------- MODULE SmartHome_proofs -------------------------
(***************************************************************************)
(* Gateway, radio and nodes are the field the server's module assumes, for *)
(* any nodes, requests, attempts, restarts and threads.  What has to be    *)
(* known of every frame and answer under way is which datagram it goes     *)
(* back to.                                                                *)
(***************************************************************************)
EXTENDS SmartHome, SensorNode_proofs

-----------------------------------------------------------------------------
(* The field runs as SensorNode says *)

LEMMA HomeIsField == [HomeNext]_homeVars => [SensorNext]_sensorVars
<1> SUFFICES ASSUME [HomeNext]_homeVars PROVE [SensorNext]_sensorVars
  OBVIOUS
<1>1. CASE Reach
  BY <1>1 DEF Reach, SensorNext
<1>2. CASE Deliver \/ Miss
  BY <1>2 DEF Deliver, Miss, Gateway, Loop, SensorNext
<1>3. CASE FieldStep
  BY <1>3 DEF FieldStep, Gateway, Loop, SensorNext
<1>4. CASE ServerStep
  BY <1>4 DEF ServerStep
<1>5. CASE UNCHANGED homeVars
  BY <1>5 DEF homeVars
<1> QED
  BY <1>1, <1>2, <1>3, <1>4, <1>5 DEF HomeNext

\* In the house, gateway, radio and nodes do what they do on their own: what
\* is proved of them holds.
THEOREM HouseRunsField == HomeSpec => SensorSpec
<1>1. HomeInit => SensorInit
  BY DEF HomeInit
<1> QED
  BY <1>1, HomeIsField, PTL DEF HomeSpec, SensorSpec

-----------------------------------------------------------------------------
(* What frames and answers go back to *)

\* The frames that were made of a datagram the gateway has received.
Asking == {f \in Frame : f.id \in DOMAIN posed /\ Carries(f, posed[f.id])}

\* An answer to the datagram q, as a device gives it.
AnswersTo(m, q) ==
  /\ q.type \in RequestType /\ m.type = AnswerType(q.type)
  /\ m.pay \in AnswerPayload(q)
  /\ ByteOf(m.node) = q.node /\ ByteOf(m.reg) = q.reg

\* The alarms of a reader, and the answers to what the gateway has received.
Given ==
  {m \in Reply :
     \/ m.type = "ALARM" /\ m.node \in Reader /\ m.reg = REG_SENSOR
     \/ m.type # "ALARM" /\ m.re \in DOMAIN posed /\ AnswersTo(m, posed[m.re])}

\* Only what the server has sent is received.
PosedInv ==
  /\ posed \in Seq(outbound)
  /\ Len(posed) = received

\* From the socket to the nodes and back there is nothing else.
ChannelInv ==
  /\ udp \in Seq(Asking)
  /\ gpc = "write" => frame \in Asking
  /\ inbox \in [Device -> Seq(Asking)]
  /\ out \in [Device -> Given \cup {NoMsg}]
  /\ air \in Seq(Given)
  /\ queue \in Seq(Given)

HomeInv == SensorInv /\ PosedInv /\ ChannelInv

LEMMA HomeInitInv == HomeInit => HomeInv
<1> SUFFICES ASSUME HomeInit PROVE HomeInv
  OBVIOUS
<1>1. SensorInv
  BY SensorInitTyped DEF HomeInit
<1>2. PosedInv
  BY DEF HomeInit, SensorInit, NodeInit, GatewayInit, PosedInv
<1>3. ChannelInv
  BY DEF HomeInit, SensorInit, NodeInit, RadioInit, GatewayInit, ChannelInv
<1> QED
  BY <1>1, <1>2, <1>3 DEF HomeInv

LEMMA SeqGrows ==
  ASSUME NEW S, NEW T, S \subseteq T
  PROVE  Seq(S) \subseteq Seq(T)
OBVIOUS

\* An answer of a device goes back to what the frame goes back to.
LEMMA AnswerGiven ==
  ASSUME NEW f \in Asking, NEW v \in Byte, f.type # "GET_RQ" => v = f.pay
  PROVE  Answer(f, v) \in Given
<1>1. f \in Frame /\ f.id \in DOMAIN posed /\ Carries(f, posed[f.id])
  BY DEF Asking
<1>2. Answer(f, v) \in Reply
  BY <1>1, AnswerTyped
<1>3. f.type \in RequestType
  BY <1>1 DEF Frame
<1>4. /\ Answer(f, v).type = AnswerType(f.type) /\ Answer(f, v).type # "ALARM"
      /\ Answer(f, v).node = f.node /\ Answer(f, v).reg = f.reg
      /\ Answer(f, v).pay = v /\ Answer(f, v).re = f.id
  BY <1>3 DEF Answer, AnswerType, RequestType
<1>5. AnswersTo(Answer(f, v), posed[f.id])
  BY <1>1, <1>3, <1>4, RadioAssumption DEF AnswersTo, Carries, AnswerPayload
<1> QED
  BY <1>1, <1>2, <1>4, <1>5 DEF Given

-----------------------------------------------------------------------------
(* The steps of gateway and nodes *)

LEMMA GatewayKeeps ==
  ASSUME NodeTypeOK, ChannelInv, UNCHANGED <<nodeVars, posed>>,
         Update \/ Forward \/ Drained \/ Recv \/ RecvNothing \/ Write
  PROVE  ChannelInv'
<1>1. Asking' = Asking /\ Given' = Given
  BY DEF Asking, Given
<1> HIDE DEF Asking
<1>2. CASE Update
  BY <1>1, <1>2 DEF Update, ChannelInv, nodeVars
<1>3. CASE Forward
  BY <1>1, <1>3 DEF Forward, ChannelInv, nodeVars, radioVars
<1>4. CASE Drained \/ RecvNothing
  BY <1>1, <1>4 DEF Drained, RecvNothing, ChannelInv, nodeVars, radioVars
<1>5. CASE Recv
  BY <1>1, <1>5 DEF Recv, ChannelInv, nodeVars, radioVars
<1>6. CASE Write
  <2>1. gpc = "write" /\ frame \in Asking /\ UNCHANGED <<udp, queue, out>>
    BY <1>6 DEF Write, ChannelInv, nodeVars
  <2>2. inbox' \in [Device -> Seq(Asking)]
    <3>1. \A n \in Device : /\ inbox[n] \in Seq(Asking)
                            /\ Append(inbox[n], frame) \in Seq(Asking)
      BY <2>1 DEF ChannelInv
    <3>2. /\ inbox' \in [Device -> Seq(Frame)]
          /\ \A n \in Device : inbox'[n] \in {inbox[n], Append(inbox[n], frame)}
      BY <1>6, <2>1, WriteStep
    <3> QED
      BY <3>1, <3>2
  <2> QED
    BY <1>1, <1>6, <2>1, <2>2, WriteStep DEF ChannelInv
<1> QED
  BY <1>2, <1>3, <1>4, <1>5, <1>6

LEMMA NodeKeeps ==
  ASSUME NodeTypeOK, ChannelInv, NEW n \in Device, NodeLoop(n) \/ Restart(n),
         UNCHANGED posed
  PROVE  ChannelInv'
<1>1. Asking' = Asking /\ Given' = Given
  BY DEF Asking, Given
<1>2. CASE Handle(n)
  <2> DEFINE q == Head(inbox[n])
  <2>1. q \in Asking /\ Tail(inbox[n]) \in Seq(Asking)
    BY <1>2, TailAt DEF Handle, ChannelInv
  <2>2. PICK v \in IF q.type = "GET_RQ" THEN Gotten(n, q.reg) ELSE {q.pay} :
          out' = [out EXCEPT ![n] = Answer(q, v)]
    BY <1>2 DEF Handle, Act
  <2>3. v \in Byte /\ (q.type # "GET_RQ" => v = q.pay)
    BY <2>1, <2>2, GottenTyped DEF Asking, Frame
  <2>4. Answer(q, v) \in Given
    BY <2>1, <2>3, AnswerGiven
  <2>5. out' \in [Device -> Given \cup {NoMsg}]
    <3> HIDE DEF q
    <3> QED
      BY <2>2, <2>4 DEF ChannelInv
  <2>6. inbox' \in [Device -> Seq(Asking)]
    BY <1>2, <2>1 DEF Handle, ChannelInv
  <2> QED
    BY <1>1, <1>2, <2>5, <2>6 DEF Handle, ChannelInv, gatewayVars
<1>3. CASE Respond(n)
  <2>1. out[n] \in Given
    BY <1>3, RespondStep, RadioAssumption DEF ChannelInv
  <2>2. air' \in Seq(Given)
    <3>1. air \in Seq(Given) /\ Append(air, out[n]) \in Seq(Given)
      BY <2>1 DEF ChannelInv
    <3> QED
      BY <1>3, <3>1, RespondStep
  <2>3. out' \in [Device -> Given \cup {NoMsg}]
    <3>1. out' \in [Device -> Reply \cup {NoMsg}]
      BY <1>3, RespondStep
    <3>2. \A k \in Device : out'[k] \in Given \cup {NoMsg}
      BY <1>3, RespondStep DEF ChannelInv
    <3> QED
      BY <3>1, <3>2
  <2> QED
    BY <1>1, <1>3, <2>2, <2>3 DEF Respond, ChannelInv, gatewayVars
<1>4. CASE Restart(n)
  BY <1>1, <1>4 DEF Restart, ChannelInv, gatewayVars
<1> QED
  BY <1>2, <1>3, <1>4 DEF NodeLoop

LEMMA ReaderKeeps ==
  ASSUME SensorInv, ChannelInv, NEW n \in Reader,
         ReaderLoop(n) \/ RestartReader(n) \/ Change(n), UNCHANGED posed
  PROVE  ChannelInv'
<1> USE ReaderAssumption DEF SensorInv
<1>1. Asking' = Asking /\ Given' = Given
  BY DEF Asking, Given
<1>2. CASE Change(n) \/ Sense(n) \/ ReadNothing(n)
  BY <1>1, <1>2 DEF Change, Sense, ReadNothing, relayVars, nodeVars, radioVars,
     gatewayVars, ChannelInv
<1>3. CASE Sample(n)
  <2>1. Alarm(n, sensor[n]) \in Reply
    BY AlarmTyped DEF AccountInv
  <2>2. Alarm(n, sensor[n]) \in Given
    BY <2>1 DEF Given, Alarm
  <2> QED
    BY <1>1, <1>3, <2>2 DEF Sample, ChannelInv, radioVars, gatewayVars
<1>4. CASE Raise(n) \/ AnswerOnce(n)
  <2>1. PICK ok \in BOOLEAN, to \in {"read", "sense"} :
          sendMsg(n, ok, ok \/ tries'[n] > NODE_ATTEMPTS, to)
    BY <1>4, Zenon DEF Raise, AnswerOnce
  <2>2. out[n] \in Given
    BY <1>4 DEF Raise, AnswerOnce, Carrying, ChannelInv
  <2>3. air \in Seq(Given) /\ Append(air, out[n]) \in Seq(Given)
    BY <2>2 DEF ChannelInv
  <2>4. air' \in Seq(Given)
    BY <2>1, <2>3 DEF sendMsg
  <2>5. out' \in [Device -> Given \cup {NoMsg}]
    <3>1. out' = [out EXCEPT ![n] = NoMsg] \/ out' = out
      BY <2>1, Zenon DEF sendMsg
    <3> QED
      BY <3>1 DEF ChannelInv
  <2> QED
    BY <1>1, <2>1, <2>4, <2>5 DEF sendMsg, ChannelInv, gatewayVars
<1>5. CASE Read(n)
  <2> DEFINE q == Head(inbox[n])
             v == IF q.type # "GET_RQ" THEN q.pay
                  ELSE IF q.reg = REG_SENSOR THEN sensor[n] ELSE 0
  <2>1. q \in Asking /\ Tail(inbox[n]) \in Seq(Asking)
    BY <1>5, TailAt DEF Read, ChannelInv
  <2>2. v \in Byte
    BY <2>1 DEF Asking, Frame, Byte, AccountInv
  <2>3. Answer(q, v) \in Given
    BY <2>1, <2>2, AnswerGiven
  <2>4. out' = [out EXCEPT ![n] = Answer(q, v)]
    BY <1>5, Zenon DEF Read
  <2>5. out' \in [Device -> Given \cup {NoMsg}]
    <3> HIDE DEF q, v
    <3> QED
      BY <2>3, <2>4 DEF ChannelInv
  <2>6. inbox' \in [Device -> Seq(Asking)]
    BY <1>5, <2>1 DEF Read, ChannelInv
  <2> QED
    BY <1>1, <1>5, <2>5, <2>6 DEF Read, ChannelInv, gatewayVars
<1>6. CASE RestartReader(n)
  BY <1>1, <1>6 DEF RestartReader, ChannelInv, gatewayVars
<1> QED
  BY <1>2, <1>3, <1>4, <1>5, <1>6 DEF ReaderLoop

-----------------------------------------------------------------------------
(* Datagrams come and go *)

\* What is known of a frame or an answer stays true when posed grows.
LEMMA PosedGrows ==
  ASSUME PosedInv, NEW q \in outbound, posed' = Append(posed, q)
  PROVE  Asking \subseteq Asking' /\ Given \subseteq Given'
<1>1. /\ DOMAIN posed \subseteq DOMAIN posed'
      /\ \A k \in DOMAIN posed : posed'[k] = posed[k]
  BY DEF PosedInv
<1> QED
  BY <1>1 DEF Asking, Given

LEMMA ReachKeeps ==
  ASSUME NodeTypeOK, PosedInv, ChannelInv, Reach
  PROVE  PosedInv' /\ ChannelInv'
<1>1. PICK q \in outbound, f \in Question :
        /\ Carries(f, q) /\ Arrive(f) /\ posed' = Append(posed, q)
        /\ UNCHANGED <<nodeVars, readerVars, serverVars>>
  BY DEF Reach
<1>2. PosedInv'
  BY <1>1 DEF PosedInv, Arrive, serverVars
<1>3. Asking \subseteq Asking' /\ Given \subseteq Given'
  BY <1>1, PosedGrows
<1> DEFINE g == [f EXCEPT !.id = received + 1]
<1>4. g \in Asking'
  <2>1. received \in Nat
    BY DEF NodeTypeOK, GatewayTypeOK
  <2>2. g \in Frame /\ g.id = received + 1
    BY <2>1, Numbered
  <2>3. received + 1 \in DOMAIN posed' /\ posed'[received + 1] = q
    BY <1>1, <2>1 DEF PosedInv
  <2>4. /\ g.node = f.node /\ g.type = f.type /\ g.reg = f.reg /\ g.pay = f.pay
    BY GatewayAssumption DEF Frame
  <2>5. Carries(g, q)
    BY <1>1, <2>4 DEF Carries
  <2> QED
    BY <2>2, <2>3, <2>5 DEF Asking, Carries
<1>5. udp' \in Seq(Asking')
  <2>1. udp \in Seq(Asking') /\ udp' = Append(udp, g)
    BY <1>1, <1>3, SeqGrows DEF Arrive, ChannelInv
  <2> HIDE DEF g
  <2> QED
    BY <1>4, <2>1
<1>6. /\ inbox' \in [Device -> Seq(Asking')]
      /\ out' \in [Device -> Given' \cup {NoMsg}]
      /\ air' \in Seq(Given') /\ queue' \in Seq(Given')
      /\ gpc' = "write" => frame' \in Asking'
  <2>1. Seq(Asking) \subseteq Seq(Asking') /\ Seq(Given) \subseteq Seq(Given')
    BY <1>3, SeqGrows
  <2>2. UNCHANGED <<inbox, air, gpc, queue, frame, out>>
    BY <1>1 DEF Arrive, radioVars, nodeVars
  <2> QED
    BY <1>3, <2>1, <2>2 DEF ChannelInv
<1> QED
  BY <1>2, <1>5, <1>6 DEF ChannelInv

\* The server takes no request back.
LEMMA ServerAsks ==
  ASSUME ServerStep
  PROVE  outbound \subseteq outbound'
<1> USE DEF Server!fieldVars, Server!udpVars, Server!vars
<1>1. ASSUME NEW t \in Thread, Server!Exchange(t)
      PROVE  outbound \subseteq outbound'
  BY <1>1
  DEF Server!Exchange, Server!EnterGateway, Server!EnterSend, Server!Clear,
      Server!TransmitRequest, Server!Transmitted, Server!socketSend,
      Server!TransmitFails, Server!EnterRetrieve, Server!PollHit,
      Server!PollTimeout
<1>2. ASSUME NEW t \in Thread, Server!ScanStep(t)
      PROVE  outbound \subseteq outbound'
  BY <1>2
  DEF Server!ScanStep, Server!TransmitPing, Server!Transmitted,
      Server!socketSend, Server!ScanRead, Server!ScanClear, Server!ScanEnd
<1>3. ASSUME NEW t \in Thread, \E c \in Server!Offered : Server!Handle(t, c)
      PROVE  outbound \subseteq outbound'
  BY <1>3 DEF Server!Handle
<1>4. ASSUME Server!Listener
      PROVE  outbound \subseteq outbound'
  BY <1>4 DEF Server!Listener, Server!ListenerReceive
<1>5. ASSUME Server!WatcherStep \/ \E t \in Thread : Server!Count(t)
      PROVE  outbound \subseteq outbound'
  BY <1>5
  DEF Server!WatcherStep, Server!Poll, Server!Count,
      Server!Compare, Server!ReadTotal, Server!WriteTotal, Server!Stamp
<1>6. ASSUME NEW t \in Thread, Server!Finish(t)
      PROVE  outbound \subseteq outbound'
  BY <1>6 DEF Server!Finish, Server!Respond
<1> QED
  BY <1>1, <1>2, <1>3, <1>4, <1>5, <1>6 DEF ServerStep

LEMMA HomeStepInv ==
  ASSUME HomeInv, [HomeNext]_homeVars
  PROVE  HomeInv'
<1> USE DEF HomeInv
<1>1. SensorInv'
  BY HomeIsField, SensorStepTyped
<1>2. NodeTypeOK
  BY DEF SensorInv
<1>3. CASE Reach
  BY <1>1, <1>2, <1>3, ReachKeeps
<1>4. CASE Deliver \/ Miss
  <2>1. /\ Forward /\ UNCHANGED <<nodeVars, posed, outbound>>
    BY <1>4 DEF Deliver, Miss, serverVars
  <2>2. PosedInv'
    BY <2>1 DEF PosedInv, Forward
  <2> QED
    BY <1>1, <1>2, <2>1, <2>2, GatewayKeeps
<1>5. CASE FieldStep
  <2>1. UNCHANGED <<posed, outbound>>
    BY <1>5 DEF FieldStep, serverVars
  <2>2. received' = received
    BY <1>5
    DEF FieldStep, Update, Drained, Recv, RecvNothing, Write, NodeLoop, Handle,
        Respond, Restart, ReaderLoop, Sense, Sample, Raise, ReadNothing, Read,
        AnswerOnce, sendMsg, RestartReader, Change, relayVars, gatewayVars
  <2>3. PosedInv'
    BY <2>1, <2>2 DEF PosedInv
  <2>4. ChannelInv'
    BY <1>2, <1>5, <2>1, GatewayKeeps, NodeKeeps, ReaderKeeps DEF FieldStep
  <2> QED
    BY <1>1, <2>3, <2>4
<1>6. CASE ServerStep
  <2>1. UNCHANGED <<sensorVars, posed>> /\ outbound \subseteq outbound'
    BY <1>6, ServerAsks DEF ServerStep
  <2>2. PosedInv'
    BY <2>1, SeqGrows DEF PosedInv, sensorVars, relayVars, gatewayVars
  <2>3. ChannelInv'
    BY <2>1 DEF ChannelInv, Asking, Given, sensorVars, relayVars, radioVars,
       gatewayVars, nodeVars
  <2> QED
    BY <1>1, <2>2, <2>3
<1>7. CASE UNCHANGED homeVars
  <2>1. UNCHANGED <<sensorVars, posed, outbound>>
    BY <1>7 DEF homeVars, serverVars
  <2>2. PosedInv' /\ ChannelInv'
    BY <2>1 DEF PosedInv, ChannelInv, Asking, Given, sensorVars, relayVars,
       radioVars, gatewayVars, nodeVars
  <2> QED
    BY <1>1, <2>2
<1> QED
  BY <1>3, <1>4, <1>5, <1>6, <1>7 DEF HomeNext

\* Gateway and nodes only ever carry what goes back to a request of the server,
\* or to the sensor, whatever is repeated, lost, restarted or late.
THEOREM CarriedIsAsked == HomeSpec => []HomeInv
BY HomeInitInv, HomeStepInv, PTL DEF HomeSpec

-----------------------------------------------------------------------------
(* The field the server assumes *)

\* An answer the gateway sends on is one of the field's.
LEMMA AnswerDelivered ==
  ASSUME PosedInv, Deliver, Head(queue) \in Given, Head(queue).type # "ALARM"
  PROVE  \E q \in outbound : Server!FieldAnswersAgain(q)
<1> DEFINE m == Head(queue)
           q == posed[m.re]
<1>1. m.re \in DOMAIN posed /\ AnswersTo(m, q)
  BY DEF Given
<1>2. q \in outbound
  BY <1>1 DEF PosedInv
<1>3. Datagram(m) = [node |-> q.node, type |-> m.type, reg |-> q.reg,
                     pay |-> m.pay, re |-> q.id]
  BY <1>1 DEF Datagram, AnswersTo
<1>4. m.type = Server!AnswerType(q.type)
  BY <1>1 DEF AnswersTo, AnswerType, Server!AnswerType, RequestType
<1>5. Datagram(m) = Server!Answer(q, m.pay)
  BY <1>3, <1>4 DEF Server!Answer
<1>6. m.pay \in Server!AnswerPayload(q)
  BY <1>1 DEF AnswersTo, AnswerPayload, Server!AnswerPayload
<1>7. /\ inbound' = inbound \cup {Datagram(m)}
      /\ answers < MaxAnswers /\ answers' = answers + 1
      /\ UNCHANGED <<responseMap, udpMonitor, outbound, clock, alarms, heard>>
  BY DEF Deliver
<1> HIDE DEF q, m
<1> QED
  BY <1>2, <1>5, <1>6, <1>7 DEF Server!FieldAnswersAgain

\* So is an alarm.
LEMMA AlarmDelivered ==
  ASSUME Deliver, Head(queue) \in Given, Head(queue).type = "ALARM"
  PROVE  Server!FieldAlarm
<1> DEFINE m == Head(queue)
<1>1. m \in Reply /\ m.node = AlarmNode /\ m.reg = 1 /\ AlarmReg = 1
  BY HomeAssumption DEF Given, REG_SENSOR
<1>2. m.pay \in Payload
  BY <1>1 DEF Reply
<1>3. ByteOf(1) = 1
  BY DEF ByteOf
<1>4. Datagram(m) = [node |-> Server!ByteOf(AlarmNode), type |-> "ALARM",
                     reg |-> AlarmReg, pay |-> m.pay, re |-> alarms + 1]
  BY <1>1, <1>3 DEF Datagram, Server!ByteOf, ByteOf
<1>5. /\ inbound' = inbound \cup {Datagram(m)}
      /\ alarms < MaxAlarms /\ alarms' = alarms + 1
      /\ UNCHANGED <<responseMap, udpMonitor, outbound, clock, answers, heard>>
  BY DEF Deliver
<1> HIDE DEF m
<1> QED
  BY <1>2, <1>4, <1>5 DEF Server!FieldAlarm

\* What the server has of its own: nothing outside it changes that.
LEMMA ServerRests ==
  ASSUME UNCHANGED serverVars
  PROVE  UNCHANGED Server!allVars
BY DEF serverVars, callerVars, watchVars, Server!allVars, Server!vars,
   Server!udpVars, Server!alarmVars

LEMMA HomeSimulates ==
  ASSUME HomeInv, [HomeNext]_homeVars
  PROVE  [Server!AlarmNext]_(Server!allVars)
<1>1. CASE Reach \/ Miss \/ FieldStep \/ UNCHANGED homeVars
  BY <1>1, ServerRests DEF Reach, Miss, FieldStep, homeVars
<1>2. CASE Deliver
  <2>1. Head(queue) \in Given
    BY <1>2, TailAt DEF Deliver, Forward, HomeInv, ChannelInv
  <2>2. Server!Field
    BY <1>2, <2>1, AnswerDelivered, AlarmDelivered DEF HomeInv, Server!Field
  <2>3. UNCHANGED <<callerVars, watchVars>>
    BY <1>2 DEF Deliver
  <2>4. Server!Background /\ UNCHANGED Server!alarmVars
    BY <2>2, <2>3
    DEF Server!Background, Server!callVars, Server!resultVars,
        Server!alarmVars, callerVars, watchVars
  <2> QED
    BY <2>4 DEF Server!AlarmNext, Server!GatewayStep
<1>3. CASE ServerStep
  <2>1. ASSUME UNCHANGED callerVars, Server!Listener
        PROVE  Server!Background
    BY <2>1 DEF Server!Background, Server!callVars, Server!resultVars, callerVars
  <2>2. watchVars = Server!alarmVars /\ watchVars' = Server!alarmVars'
    BY DEF watchVars, Server!alarmVars
  <2> QED
    BY <1>3, <2>1, <2>2
    DEF ServerStep, Server!AlarmNext, Server!GatewayStep
<1> QED
  BY <1>1, <1>2, <1>3 DEF HomeNext

\* To the server the house is the field its module assumes: every datagram
\* answers a request it sent, with the type and about the register asked for,
\* or is an alarm of the sensor.  What is proved of the server on its own
\* holds in the house.
THEOREM HouseIsField == HomeSpec => FieldAsAssumed
<1>1. HomeInit => Server!AlarmInit
  BY DEF HomeInit
<1>2. HomeInv /\ [HomeNext]_homeVars => [Server!AlarmNext]_(Server!allVars)
  BY HomeSimulates
<1> QED
  BY <1>1, <1>2, CarriedIsAsked, PTL
  DEF HomeSpec, FieldAsAssumed, Server!AlarmSpec

-----------------------------------------------------------------------------
(* What the server promises holds in the house *)

Proved == INSTANCE AlarmService_proofs WITH
            Node <- Known, MaxDups <- MaxAnswers, dups <- answers

\* The constants of the house are as the server's modules want them.
LEMMA ServerConstants ==
  /\ NoThread \notin Thread /\ Watcher \notin Thread
  /\ Payload \subseteq Int /\ 0 \in Payload
  /\ AlarmReg \in Int
  /\ NoMsg \notin Proved!Message
  /\ Ops \subseteq Proved!Op
  /\ Proved!ScanNode \subseteq Known
BY HomeAssumption, ServerAssumption, RadioAssumption
   DEF REG_SENSOR, Byte, Message, ReplyType, Proved!Message, Proved!ReplyType,
       Proved!Op, Proved!ScanNode

(* Server and Proved are two instances of the same definitions: a step of the *)
(* one is a step of the other.                                                *)

LEMMA SameInit == Server!AlarmInit => Proved!AlarmInit
BY DEF Server!AlarmInit, Server!Init, Server!UDPInit, Server!Slot, Server!ByteOf,
    Server!FirstCall, Server!Actor, Proved!AlarmInit, Proved!Init,
    Proved!UDPInit, Proved!Slot, Proved!ByteOf, Proved!FirstCall,
    Proved!Actor

LEMMA SameHandle ==
  ASSUME NEW t \in Thread, \E c \in Server!Offered : Server!Handle(t, c)
  PROVE  \E c \in Proved!Offered : Proved!Handle(t, c)
BY DEF Server!Offered, Server!CallsOf, Server!Handle, Server!Goto,
    Server!udpVars, Proved!Offered, Proved!CallsOf, Proved!Handle,
    Proved!Goto, Proved!udpVars

LEMMA SameExchange ==
  ASSUME NEW t \in Thread, Server!Exchange(t)
  PROVE  Proved!Exchange(t)
BY DEF Server!Exchange, Server!EnterGateway, Server!EnterSend, Server!Clear,
    Server!clearMessage, Server!TransmitRequest, Server!Transmitted,
    Server!socketSend, Server!RequestDatagram, Server!RequestOf,
    Server!toBytes, Server!ByteOf, Server!Target, Server!Scanning,
    Server!TransmitFails, Server!EnterRetrieve, Server!PollHit,
    Server!PollTimeout, Server!Leave, Server!Goto, Server!udpVars,
    Server!fieldVars, Server!callVars, Server!resultVars, Proved!Exchange,
    Proved!EnterGateway, Proved!EnterSend, Proved!Clear,
    Proved!clearMessage, Proved!TransmitRequest, Proved!Transmitted,
    Proved!socketSend, Proved!RequestDatagram, Proved!RequestOf,
    Proved!toBytes, Proved!ByteOf, Proved!Target, Proved!Scanning,
    Proved!TransmitFails, Proved!EnterRetrieve, Proved!PollHit,
    Proved!PollTimeout, Proved!Leave, Proved!Goto, Proved!udpVars,
    Proved!fieldVars, Proved!callVars, Proved!resultVars

LEMMA SameScan ==
  ASSUME NEW t \in Thread, Server!ScanStep(t)
  PROVE  Proved!ScanStep(t)
BY DEF Server!ScanStep, Server!TransmitPing, Server!Transmitted,
    Server!socketSend, Server!RequestDatagram, Server!RequestOf,
    Server!toBytes, Server!ByteOf, Server!Target, Server!Scanning,
    Server!ScanRead, Server!ScanNext, Server!ScanClear,
    Server!clearMessage, Server!ScanEnd, Server!Goto, Server!udpVars,
    Server!fieldVars, Server!callVars, Server!resultVars, Proved!ScanStep,
    Proved!TransmitPing, Proved!Transmitted, Proved!socketSend,
    Proved!RequestDatagram, Proved!RequestOf, Proved!toBytes,
    Proved!ByteOf, Proved!Target, Proved!Scanning, Proved!ScanRead,
    Proved!ScanNext, Proved!ScanClear, Proved!clearMessage,
    Proved!ScanEnd, Proved!Goto, Proved!udpVars, Proved!fieldVars,
    Proved!callVars, Proved!resultVars

LEMMA SameBackground == Server!Background => Proved!Background
BY DEF Server!Background, Server!Field, Server!FieldAnswers,
    Server!FieldAnswersAgain, Server!FieldLoses, Server!FieldAlarm,
    Server!AnswerPayload, Server!Answer, Server!AnswerType, Server!ByteOf,
    Server!Listener, Server!ListenerReceive, Server!fromBytes,
    Server!callVars, Server!resultVars, Proved!Background, Proved!Field,
    Proved!FieldAnswers, Proved!FieldAnswersAgain, Proved!FieldLoses,
    Proved!FieldAlarm, Proved!AnswerPayload, Proved!Answer,
    Proved!AnswerType, Proved!ByteOf, Proved!Listener,
    Proved!ListenerReceive, Proved!fromBytes, Proved!callVars,
    Proved!resultVars

LEMMA SameCounting ==
  /\ Server!WatcherStep => Proved!WatcherStep
  /\ \A t \in Thread : Server!Count(t) \/ Server!Finish(t)
                       => Proved!Count(t) \/ Proved!Finish(t)
BY DEF Server!WatcherStep, Server!Poll, Server!Count, Server!Compare,
    Server!Seen, Server!ReportsAlarm, Server!Subject, Server!ReadTotal,
    Server!WriteTotal, Server!Stamp, Server!Finish, Server!Respond,
    Server!Goto, Server!vars, Server!udpVars, Server!fieldVars,
    Server!callVars, Server!resultVars, Proved!WatcherStep, Proved!Poll,
    Proved!Count, Proved!Compare, Proved!Seen, Proved!ReportsAlarm,
    Proved!Subject, Proved!ReadTotal, Proved!WriteTotal, Proved!Stamp,
    Proved!Finish, Proved!Respond, Proved!Goto, Proved!vars,
    Proved!udpVars, Proved!fieldVars, Proved!callVars, Proved!resultVars

LEMMA SameStep ==
  [Server!AlarmNext]_(Server!allVars) => [Proved!AlarmNext]_(Proved!allVars)
<1> SUFFICES ASSUME [Server!AlarmNext]_(Server!allVars)
             PROVE  [Proved!AlarmNext]_(Proved!allVars)
  OBVIOUS
<1>1. CASE Server!GatewayStep
  <2>1. Server!Idle => Proved!Idle
    BY DEF Server!Idle, Server!vars, Server!udpVars, Proved!Idle, Proved!vars,
        Proved!udpVars
  <2>2. UNCHANGED Proved!alarmVars
    BY <1>1 DEF Server!GatewayStep, Server!alarmVars, Proved!alarmVars
  <2> QED
    BY <1>1, <2>1, <2>2, SameHandle, SameExchange, SameScan, SameBackground
    DEF Server!GatewayStep, Proved!GatewayStep, Proved!AlarmNext
<1>2. CASE Server!WatcherStep \/ \E t \in Thread : Server!Count(t) \/ Server!Finish(t)
  BY <1>2, SameCounting DEF Proved!AlarmNext
<1>3. CASE UNCHANGED Server!allVars
  BY <1>3 DEF Server!allVars, Server!vars, Server!udpVars, Server!alarmVars,
      Proved!allVars, Proved!vars, Proved!udpVars, Proved!alarmVars
<1> QED
  BY <1>1, <1>2, <1>3 DEF Server!AlarmNext

LEMMA HouseKeepsServer == HomeSpec => []Proved!ServerInv
<1>1. Server!AlarmInit => Proved!ServerInv
  BY SameInit, Proved!InitServer, ServerConstants, ServerAssumption
<1>2. Proved!ServerInv /\ [Server!AlarmNext]_(Server!allVars) => Proved!ServerInv'
  BY SameStep, Proved!NextServer, ServerConstants, ServerAssumption
<1> QED
  BY <1>1, <1>2, HouseIsField, PTL DEF FieldAsAssumed, Server!AlarmSpec

\* With the sensor's own alarms, its answers, the gateway's rewrites and the
\* handlers racing with the watcher: the time the page shows as the last alarm
\* is that of an alarm in the total.
THEOREM HouseCountsLast == HomeSpec => []LastIsCounted
<1>1. Proved!ServerInv => LastIsCounted
  <2>1. Proved!ServerInv => Proved!LastWasCounted
    BY Proved!ServerCounted, ServerConstants, ServerAssumption
  <2> QED
    BY <2>1 DEF LastIsCounted, Server!LastWasCounted, Proved!LastWasCounted
<1> QED
  BY <1>1, HouseKeepsServer, PTL
=============================================================================
