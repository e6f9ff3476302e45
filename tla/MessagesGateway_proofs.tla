---------------------- MODULE MessagesGateway_proofs ----------------------
(***************************************************************************)
(* Proofs about MessagesGateway, for any number of threads, nodes, calls,  *)
(* duplicates and alarms.                                                  *)
(***************************************************************************)
EXTENDS MessagesGateway, TLAPS

\* The byte of an int is an int, so every datagram is well-typed.
LEMMA ByteType == \A i \in Int : ByteOf(i) \in Int
  BY DEF ByteOf

\* An instance makes calls that can be made.
LEMMA OfferedCalls == \A c \in Offered : c \in Calls /\ c.op \in Ops
  BY MessagesAssumption DEF Offered, Calls, CallsOf, Op

\* Callers name nodes, registers and payloads the server knows.
LEMMA CallType ==
  \A c \in Calls :
    /\ c.node \in Node /\ c.reg \in Int /\ c.pay \in Payload /\ c.op \in Op
    /\ RequestOf(c.op) \in RequestType
  BY UDPAssumption, MessagesAssumption
  DEF Calls, CallsOf, Op, RequestOf, RequestType, ScanNode

LEMMA SlotType == /\ Node \subseteq Slot /\ Slot \subseteq Int
                  /\ ScanNode \subseteq Slot
                  /\ \A n \in Node : ByteOf(n) \in Slot
  BY UDPAssumption, MessagesAssumption, ByteType DEF Slot

\* What a thread sends to is a node, and what it sends is a request.
LEMMA TargetType ==
  ASSUME TypeOK, NEW t \in Thread
  PROVE  /\ Target(t) \in Node
         /\ RequestDatagram(t) \in Request
         /\ RequestDatagram(t).node \in Slot
<1>1. Target(t) \in Node
  BY MessagesAssumption, CallType DEF TypeOK, Target
<1>2. ByteOf(Target(t)) \in Int /\ ByteOf(Target(t)) \in Slot
  BY <1>1, ByteType, SlotType, UDPAssumption
<1>3. /\ ByteOf(call[t].reg) \in Int /\ call[t].pay \in Payload
      /\ id[t] \in Nat /\ RequestOf(call[t].op) \in RequestType
  BY CallType, ByteType DEF TypeOK
<1>. QED
  BY <1>1, <1>2, <1>3 DEF RequestDatagram, toBytes, Request

LEMMA AnswerTyping ==
  ASSUME NEW q \in Request, NEW v \in AnswerPayload(q)
  PROVE  Answer(q, v) \in Reply
<1>1. v \in Payload
  BY DEF AnswerPayload, Request
<1>2. AnswerType(q.type) \in ReplyType
  BY DEF AnswerType, ReplyType, Request, RequestType
<1>. QED
  BY <1>1, <1>2 DEF Answer, Reply, Request

LEMMA MessageTyping ==
  ASSUME NEW m \in Reply, NEW now \in Nat
  PROVE  fromBytes(m, now) \in Message /\ fromBytes(m, now).node = m.node
  BY DEF fromBytes, Reply, Message

-----------------------------------------------------------------------------
(* Type correctness *)

LEMMA InitTypeOK == Init => TypeOK
<1>. SUFFICES ASSUME Init PROVE TypeOK
  OBVIOUS
<1>1. UDPTypeOK
  BY DEF Init, UDPInit, UDPTypeOK
<1>2. FirstCall \in Calls
  BY UDPAssumption DEF FirstCall, Calls, CallsOf, Op
<1>. QED
  BY <1>1, <1>2, MessagesAssumption DEF Init, TypeOK, PC, Outcome, ScanNode

LEMMA BackgroundTypeOK == TypeOK /\ Background => TypeOK'
<1>. SUFFICES ASSUME TypeOK, Background PROVE TypeOK'
  OBVIOUS
<1>. USE DEF TypeOK, UDPTypeOK
<1>1. ASSUME NEW q \in outbound, FieldAnswers(q)
      PROVE  UDPTypeOK'
  BY <1>1, AnswerTyping DEF FieldAnswers
<1>2. ASSUME NEW q \in outbound, FieldAnswersAgain(q)
      PROVE  UDPTypeOK'
  BY <1>2, AnswerTyping DEF FieldAnswersAgain
<1>3. ASSUME NEW q \in outbound, FieldLoses(q)
      PROVE  UDPTypeOK'
  BY <1>3 DEF FieldLoses
<1>4. ASSUME FieldAlarm
      PROVE  UDPTypeOK'
  <2>1. ASSUME NEW v \in Payload
        PROVE  [node |-> ByteOf(AlarmNode), type |-> "ALARM",
                reg |-> AlarmReg, pay |-> v, re |-> alarms + 1] \in Reply
    BY UDPAssumption, ByteType DEF Reply, ReplyType
  <2>. QED
    BY <1>4, <2>1 DEF FieldAlarm
<1>5. ASSUME NEW m \in inbound, ListenerReceive(m)
      PROVE  UDPTypeOK'
  <2>1. PICK d \in Tick :
          /\ clock' = clock + d
          /\ responseMap' =
               [responseMap EXCEPT ![m.node] = fromBytes(m, clock + d)]
          /\ heard' = [heard EXCEPT ![m.node] =
                         @ \cup {fromBytes(m, clock + d)}]
    BY <1>5 DEF ListenerReceive
  <2>2. clock + d \in Nat
    BY UDPAssumption
  <2>3. fromBytes(m, clock + d) \in Message
    BY <2>2, MessageTyping
  <2>. QED
    BY <1>5, <2>1, <2>2, <2>3 DEF ListenerReceive
<1>6. UDPTypeOK'
  BY <1>1, <1>2, <1>3, <1>4, <1>5 DEF Background, Field, Listener
<1>. QED
  BY <1>6 DEF Background, callVars, resultVars

LEMMA NextTypeOK == TypeOK /\ [Next]_vars => TypeOK'
<1>. SUFFICES ASSUME TypeOK, [Next]_vars PROVE TypeOK'
  OBVIOUS
<1>. USE DEF TypeOK, UDPTypeOK, udpVars, fieldVars, callVars, resultVars, Goto,
             PC, Outcome
<1>1. ASSUME NEW t \in Thread, NEW c \in Calls, Handle(t, c)
      PROVE  TypeOK'
  BY <1>1 DEF Handle
<1>2. ASSUME NEW t \in Thread, Respond(t)
      PROVE  TypeOK'
  BY <1>2 DEF Respond
<1>3. ASSUME NEW t \in Thread, EnterGateway(t)
      PROVE  TypeOK'
  BY <1>3, MessagesAssumption DEF EnterGateway, ScanNode
<1>4. ASSUME NEW t \in Thread, EnterSend(t)
      PROVE  TypeOK'
  BY <1>4 DEF EnterSend
<1>5. ASSUME NEW t \in Thread, Clear(t)
      PROVE  TypeOK'
  BY <1>5 DEF Clear, clearMessage
<1>6. ASSUME NEW t \in Thread, TransmitRequest(t)
      PROVE  TypeOK'
  BY <1>6, TargetType DEF TransmitRequest, Transmitted, socketSend
<1>7. ASSUME NEW t \in Thread, TransmitPing(t)
      PROVE  TypeOK'
  BY <1>7, TargetType, MessagesAssumption
  DEF TransmitPing, Transmitted, socketSend, ScanNode
<1>8. ASSUME NEW t \in Thread, TransmitFails(t)
      PROVE  TypeOK'
  BY <1>8 DEF TransmitFails, Leave
<1>9. ASSUME NEW t \in Thread, EnterRetrieve(t)
      PROVE  TypeOK'
  BY <1>9 DEF EnterRetrieve
<1>10. ASSUME NEW t \in Thread, PollHit(t)
       PROVE  TypeOK'
  <2>1. responseMap[Target(t)] \in Message
    BY <1>10, TargetType, SlotType DEF PollHit
  <2>. QED
    BY <1>10, <2>1 DEF PollHit, Leave
<1>11. ASSUME NEW t \in Thread, PollTimeout(t)
       PROVE  TypeOK'
  BY <1>11 DEF PollTimeout, Leave
<1>12. ASSUME NEW t \in Thread, ScanRead(t)
       PROVE  TypeOK'
  BY <1>12, MessagesAssumption DEF ScanRead, ScanNext, ScanNode
<1>13. ASSUME NEW t \in Thread, ScanClear(t)
       PROVE  TypeOK'
  <2>1. scan' \in [Thread -> ScanNode]
    BY <1>13, MessagesAssumption DEF ScanClear, ScanNext, ScanNode
  <2>2. alive' \in [Thread -> SUBSET ScanNode]
    BY <1>13 DEF ScanClear
  <2>3. responseMap' \in [Slot -> Message \cup {NoMsg}]
    BY <1>13 DEF ScanClear, clearMessage
  <2>. QED
    BY <1>13, <2>1, <2>2, <2>3 DEF ScanClear
<1>14. ASSUME NEW t \in Thread, ScanEnd(t)
       PROVE  TypeOK'
  BY <1>14 DEF ScanEnd
<1>15. CASE Idle
  BY <1>15 DEF Idle, vars
<1>16. CASE UNCHANGED vars
  BY <1>16 DEF vars
<1>. QED
  BY <1>1, <1>2, <1>3, <1>4, <1>5, <1>6, <1>7, <1>8, <1>9, <1>10, <1>11, <1>12,
     <1>13, <1>14, <1>15, <1>16, BackgroundTypeOK, OfferedCalls
  DEF Next, Exchange, ScanStep

\* The variables of the gateway keep their types, whatever the field does.
THEOREM TypeCorrect == Spec => []TypeOK
  BY InitTypeOK, NextTypeOK, PTL DEF Spec

-----------------------------------------------------------------------------
(* The monitors, the slots and what any step may do to them *)

LEMMA NextMonitorsHeld ==
  TypeOK /\ MonitorsHeld /\ [Next]_vars => MonitorsHeld'
<1>. SUFFICES ASSUME TypeOK, MonitorsHeld, [Next]_vars
              PROVE  MonitorsHeld'
  OBVIOUS
<1>. USE UDPAssumption
     DEF TypeOK, UDPTypeOK, MonitorsHeld, InGateway, InUDP, Scanning, udpVars,
         fieldVars, callVars, resultVars, Goto, PC
<1>1. ASSUME NEW t \in Thread, NEW c \in Calls, Handle(t, c)
      PROVE  MonitorsHeld'
  BY <1>1 DEF Handle
<1>2. ASSUME NEW t \in Thread, Respond(t)
      PROVE  MonitorsHeld'
  BY <1>2 DEF Respond
<1>3. ASSUME NEW t \in Thread, EnterGateway(t)
      PROVE  MonitorsHeld'
  BY <1>3 DEF EnterGateway
<1>4. ASSUME NEW t \in Thread, EnterSend(t)
      PROVE  MonitorsHeld'
  BY <1>4 DEF EnterSend
<1>5. ASSUME NEW t \in Thread, Clear(t)
      PROVE  MonitorsHeld'
  BY <1>5 DEF Clear
<1>6. ASSUME NEW t \in Thread, TransmitRequest(t)
      PROVE  MonitorsHeld'
  BY <1>6 DEF TransmitRequest, Transmitted
<1>7. ASSUME NEW t \in Thread, TransmitPing(t)
      PROVE  MonitorsHeld'
  BY <1>7 DEF TransmitPing, Transmitted
<1>8. ASSUME NEW t \in Thread, TransmitFails(t)
      PROVE  MonitorsHeld'
  BY <1>8 DEF TransmitFails, Leave
<1>9. ASSUME NEW t \in Thread, EnterRetrieve(t)
      PROVE  MonitorsHeld'
  BY <1>9 DEF EnterRetrieve
<1>10. ASSUME NEW t \in Thread, PollHit(t)
       PROVE  MonitorsHeld'
  BY <1>10 DEF PollHit, Leave
<1>11. ASSUME NEW t \in Thread, PollTimeout(t)
       PROVE  MonitorsHeld'
  BY <1>11 DEF PollTimeout, Leave
<1>12. ASSUME NEW t \in Thread, ScanRead(t)
       PROVE  MonitorsHeld'
  BY <1>12 DEF ScanRead
<1>13. ASSUME NEW t \in Thread, ScanClear(t)
       PROVE  MonitorsHeld'
  BY <1>13 DEF ScanClear
<1>14. ASSUME NEW t \in Thread, ScanEnd(t)
       PROVE  MonitorsHeld'
  BY <1>14 DEF ScanEnd
<1>15. CASE Background
  BY <1>15 DEF Background, Field, Listener, FieldAnswers, FieldAnswersAgain,
     FieldLoses, FieldAlarm, ListenerReceive
<1>16. CASE Idle \/ UNCHANGED vars
  BY <1>16 DEF Idle, vars
<1>. QED
  BY <1>1, <1>2, <1>3, <1>4, <1>5, <1>6, <1>7, <1>8, <1>9, <1>10, <1>11, <1>12,
     <1>13, <1>14, <1>15, <1>16, OfferedCalls
  DEF Next, Exchange, ScanStep

\* Only the listener, sendMessage and the scan touch the slots.
LEMMA SlotStep ==
  ASSUME [Next]_vars
  PROVE  \/ UNCHANGED <<responseMap, heard>>
         \/ \E m \in inbound : ListenerReceive(m)
         \/ \E t \in Thread : Clear(t) \/ ScanClear(t)
<1>. USE DEF udpVars, fieldVars
<1>1. ASSUME NEW t \in Thread, Exchange(t)
      PROVE  UNCHANGED <<responseMap, heard>> \/ Clear(t)
  BY <1>1 DEF Exchange, EnterGateway, EnterSend, TransmitRequest, Transmitted,
     TransmitFails, EnterRetrieve, PollHit, PollTimeout
<1>2. ASSUME NEW t \in Thread, ScanStep(t)
      PROVE  UNCHANGED <<responseMap, heard>> \/ ScanClear(t)
  BY <1>2 DEF ScanStep, TransmitPing, Transmitted, ScanRead, ScanEnd
<1>3. ASSUME NEW t \in Thread, NEW c \in Calls, Handle(t, c) \/ Respond(t)
      PROVE  UNCHANGED <<responseMap, heard>>
  BY <1>3 DEF Handle, Respond
<1>4. ASSUME Background
      PROVE  \/ UNCHANGED <<responseMap, heard>>
             \/ \E m \in inbound : ListenerReceive(m)
  BY <1>4 DEF Background, Field, Listener, FieldAnswers, FieldAnswersAgain,
     FieldLoses, FieldAlarm
<1>5. ASSUME Idle \/ UNCHANGED vars
      PROVE  UNCHANGED <<responseMap, heard>>
  BY <1>5 DEF Idle, vars
<1>6. CASE \E t \in Thread : Respond(t)
  BY <1>6 DEF Respond
<1>. QED
  BY <1>1, <1>2, <1>3, <1>4, <1>5, <1>6, OfferedCalls DEF Next

\* What the listener puts into a slot.
LEMMA ReceiveSlot ==
  ASSUME TypeOK, NEW m \in inbound, ListenerReceive(m)
  PROVE  \E msg \in Message :
           /\ msg.node = m.node /\ msg.re = m.re
           /\ responseMap' = [responseMap EXCEPT ![m.node] = msg]
           /\ heard' = [heard EXCEPT ![m.node] = @ \cup {msg}]
<1>1. PICK d \in Tick :
        /\ responseMap' =
             [responseMap EXCEPT ![m.node] = fromBytes(m, clock + d)]
        /\ heard' = [heard EXCEPT ![m.node] =
                       @ \cup {fromBytes(m, clock + d)}]
  BY DEF ListenerReceive
<1>2. fromBytes(m, clock + d) \in Message /\ fromBytes(m, clock + d).node = m.node
  BY UDPAssumption, MessageTyping DEF TypeOK, UDPTypeOK
<1>3. fromBytes(m, clock + d).re = m.re
  BY DEF fromBytes
<1>. QED
  BY <1>1, <1>2, <1>3

LEMMA NextFreshSlots ==
  TypeOK /\ FreshSlots /\ [Next]_vars => FreshSlots'
<1>. SUFFICES ASSUME TypeOK, FreshSlots, [Next]_vars
              PROVE  FreshSlots'
  OBVIOUS
<1>. USE DEF FreshSlots, TypeOK, UDPTypeOK
<1>1. CASE UNCHANGED <<responseMap, heard>>
  BY <1>1
<1>2. ASSUME NEW m \in inbound, ListenerReceive(m)
      PROVE  FreshSlots'
  BY <1>2, ReceiveSlot
<1>3. ASSUME NEW t \in Thread, Clear(t)
      PROVE  FreshSlots'
  BY <1>3 DEF Clear, clearMessage
<1>4. ASSUME NEW t \in Thread, ScanClear(t)
      PROVE  FreshSlots'
  BY <1>4 DEF ScanClear, clearMessage
<1>. QED
  BY <1>1, <1>2, <1>3, <1>4, SlotStep

\* Only the sending threads and the background change what is in flight.
LEMMA FlightStep ==
  ASSUME [Next]_vars
  PROVE  \/ UNCHANGED <<outbound, inbound>>
         \/ \E t \in Thread : Transmitted(t)
         \/ Field
         \/ \E m \in inbound : ListenerReceive(m)
<1>. USE DEF udpVars, fieldVars
<1>1. ASSUME NEW t \in Thread, Exchange(t)
      PROVE  UNCHANGED <<outbound, inbound>> \/ Transmitted(t)
  BY <1>1 DEF Exchange, EnterGateway, EnterSend, Clear, TransmitRequest,
     TransmitFails, EnterRetrieve, PollHit, PollTimeout
<1>2. ASSUME NEW t \in Thread, ScanStep(t)
      PROVE  UNCHANGED <<outbound, inbound>> \/ Transmitted(t)
  BY <1>2 DEF ScanStep, TransmitPing, ScanRead, ScanClear, ScanEnd
<1>3. ASSUME NEW t \in Thread, NEW c \in Calls, Handle(t, c)
      PROVE  UNCHANGED <<outbound, inbound>>
  BY <1>3 DEF Handle
<1>4. ASSUME NEW t \in Thread, Respond(t)
      PROVE  UNCHANGED <<outbound, inbound>>
  BY <1>4 DEF Respond
<1>5. ASSUME Idle \/ UNCHANGED vars
      PROVE  UNCHANGED <<outbound, inbound>>
  BY <1>5 DEF Idle, vars
<1>. QED
  BY <1>1, <1>2, <1>3, <1>4, <1>5, OfferedCalls DEF Next, Background, Listener

LEMMA NextKnownNodes ==
  TypeOK /\ KnownNodes /\ [Next]_vars => KnownNodes'
<1>. SUFFICES ASSUME TypeOK, KnownNodes, [Next]_vars
              PROVE  KnownNodes'
  OBVIOUS
<1>. USE DEF KnownNodes
<1>1. CASE UNCHANGED <<outbound, inbound>>
  BY <1>1
<1>2. ASSUME NEW t \in Thread, Transmitted(t)
      PROVE  KnownNodes'
  BY <1>2, TargetType DEF Transmitted, socketSend
<1>3. ASSUME Field
      PROVE  KnownNodes'
  <2>1. ASSUME NEW q \in outbound,
               FieldAnswers(q) \/ FieldAnswersAgain(q) \/ FieldLoses(q)
        PROVE  KnownNodes'
    BY <2>1 DEF FieldAnswers, FieldAnswersAgain, FieldLoses, Answer
  <2>2. CASE FieldAlarm
    BY <2>2, UDPAssumption, SlotType DEF FieldAlarm
  <2>. QED
    BY <1>3, <2>1, <2>2 DEF Field
<1>4. ASSUME NEW m \in inbound, ListenerReceive(m)
      PROVE  KnownNodes'
  BY <1>4 DEF ListenerReceive
<1>. QED
  BY <1>1, <1>2, <1>3, <1>4, FlightStep

\* A thread that comes to "scanclear" has just found a message there; nobody
\* else is inside a method, and the listener only adds messages.
LEMMA NextScanKeeps ==
  TypeOK /\ MonitorsHeld /\ ScanKeeps /\ [Next]_vars => ScanKeeps'
<1>. SUFFICES ASSUME TypeOK, MonitorsHeld, ScanKeeps, [Next]_vars,
                     NEW t \in Thread, pc'[t] = "scanclear"
              PROVE  responseMap'[scan'[t]] # NoMsg
  BY DEF ScanKeeps
<1>. USE DEF TypeOK, UDPTypeOK, udpVars, callVars, resultVars, fieldVars, Goto
<1>1. ASSUME pc[t] = "scanclear", scan'[t] = scan[t],
             UNCHANGED responseMap \/ \E m \in inbound : ListenerReceive(m)
      PROVE  responseMap'[scan'[t]] # NoMsg
  <2>1. responseMap[scan[t]] # NoMsg /\ scan[t] \in Slot
    BY <1>1, SlotType DEF ScanKeeps
  <2>. QED
    BY <1>1, <2>1, ReceiveSlot, UDPAssumption
<1>2. ASSUME NEW u \in Thread, Exchange(u) \/ ScanStep(u)
      PROVE  responseMap'[scan'[t]] # NoMsg
  <2>1. CASE u # t
    <3>1. pc[t] = "scanclear"
      BY <1>2, <2>1 DEF Exchange, ScanStep, EnterGateway, EnterSend, Clear,
         TransmitRequest, TransmitPing, TransmitFails, EnterRetrieve, PollHit,
         PollTimeout, ScanRead, ScanClear, ScanEnd, Leave
    <3>2. msgMonitor = t /\ EnterGateway(u) => FALSE
      BY UDPAssumption DEF EnterGateway
    <3>3. msgMonitor = t
      BY <3>1 DEF MonitorsHeld, InGateway
    <3>4. pc[u] \in {"idle", "enter", "returned"}
      BY <2>1, <3>3 DEF MonitorsHeld, InGateway, PC
    <3>. QED
      BY <1>2, <3>2, <3>3, <3>4 DEF Exchange, ScanStep, EnterSend, Clear,
         TransmitRequest, TransmitPing, Transmitted, TransmitFails,
         EnterRetrieve, PollHit, PollTimeout, ScanRead, ScanClear, ScanEnd
  <2>2. CASE u = t
    <3>1. ScanRead(t)
      BY <1>2, <2>2 DEF Exchange, ScanStep, EnterGateway, EnterSend, Clear,
         TransmitRequest, TransmitPing, TransmitFails, EnterRetrieve, PollHit,
         PollTimeout, ScanClear, ScanEnd, Leave, PC
    <3>. QED
      BY <3>1 DEF ScanRead
  <2>. QED
    BY <2>1, <2>2
<1>3. ASSUME NEW u \in Thread, NEW c \in Calls, Handle(u, c)
      PROVE  responseMap'[scan'[t]] # NoMsg
  BY <1>1, <1>3 DEF Handle
<1>4. ASSUME NEW u \in Thread, Respond(u)
      PROVE  responseMap'[scan'[t]] # NoMsg
  BY <1>1, <1>4 DEF Respond
<1>5. CASE Background
  BY <1>1, <1>5 DEF Background, Field, Listener, FieldAnswers,
     FieldAnswersAgain, FieldLoses, FieldAlarm
<1>6. CASE Idle \/ UNCHANGED vars
  BY <1>1, <1>6 DEF Idle, vars
<1>. QED
  BY <1>2, <1>3, <1>4, <1>5, <1>6, OfferedCalls DEF Next

LEMMA InitIInv == Init => IInv
  BY UDPAssumption
  DEF Init, UDPInit, IInv, MonitorsHeld, InGateway, InUDP, KnownNodes,
      FreshSlots, ScanKeeps

\* The monitors are held as the synchronized methods say, a slot holds only
\* messages of its node received since it was last asked, and a scan clears a
\* message it has read.
THEOREM MonitorDiscipline == Spec => []IInv
<1>1. TypeOK /\ IInv /\ [Next]_vars => IInv'
  BY NextMonitorsHeld, NextKnownNodes, NextFreshSlots, NextScanKeeps DEF IInv
<1>. QED
  BY <1>1, InitIInv, TypeCorrect, PTL DEF Spec

-----------------------------------------------------------------------------
(* An answer that has arrived is not taken away *)

LEMMA StepAnswerKept ==
  ASSUME TypeOK, IInv, [Next]_vars, NEW t \in Thread,
         pc[t] \in {"await", "poll"}, responseMap[Target(t)] # NoMsg
  PROVE  responseMap'[Target(t)] # NoMsg
<1>1. msgMonitor = t
  BY DEF IInv, MonitorsHeld, InGateway
<1>2. ASSUME NEW u \in Thread, Clear(u) \/ ScanClear(u)
      PROVE  FALSE
  <2>1. pc[u] \in {"clear", "scanclear"}
    BY <1>2 DEF Clear, ScanClear, Goto
  <2>2. msgMonitor = u
    BY <2>1 DEF IInv, MonitorsHeld, InGateway
  <2>. QED
    BY <1>1, <2>1, <2>2
<1>3. ASSUME NEW m \in inbound, ListenerReceive(m)
      PROVE  responseMap'[Target(t)] # NoMsg
  <2>1. Target(t) \in Slot
    BY TargetType, SlotType
  <2>. QED
    BY <1>3, <2>1, ReceiveSlot, UDPAssumption DEF TypeOK, UDPTypeOK
<1>. QED
  BY <1>2, <1>3, SlotStep

\* While a call waits for its answer, no other call clears the slot it polls.
THEOREM AnswersAreKept == Spec => AnswerKept
<1>1. TypeOK /\ IInv /\ [Next]_vars =>
        [\A t \in Thread :
           /\ pc[t] \in {"await", "poll"} /\ pc'[t] \in {"await", "poll"}
           /\ responseMap[Target(t)] # NoMsg
           => responseMap'[Target(t)] # NoMsg]_vars
  BY StepAnswerKept
<1>. QED
  BY <1>1, TypeCorrect, MonitorDiscipline, PTL DEF Spec, AnswerKept

-----------------------------------------------------------------------------
(* Answers and their requests: with a prompt field, a call returns the       *)
(* answer to its own request or none                                         *)

\* Apart from the alarm node's, all that is in flight belongs to the call
\* being served.
OwnFlight ==
  /\ \A q \in outbound : q.node # ByteOf(AlarmNode) =>
       msgMonitor \in Thread /\ q.id = id[msgMonitor]
  /\ \A m \in inbound : m.node # ByteOf(AlarmNode) =>
       msgMonitor \in Thread /\ m.re = id[msgMonitor]

\* From clearMessage on, so does what is in the slot the call looks at.
OwnSlot ==
  \A t \in Thread :
    /\ pc[t] \in {"transmit", "await", "poll"} /\ ~Scanning(t)
    /\ Target(t) # ByteOf(AlarmNode)
    /\ responseMap[Target(t)] # NoMsg
    => responseMap[Target(t)].re = id[t]

\* OwnAnswer says nothing of a call before it returns; these two do, and with
\* them it is inductive.
Own == OwnFlight /\ OwnSlot /\ OwnAnswer

LEMMA InitOwn == Init => Own
  BY DEF Init, UDPInit, Own, OwnFlight, OwnSlot, OwnAnswer

\* The end of a call, when nothing but alarms is in flight.
LEMMA QuietFlight ==
  ASSUME UNCHANGED <<outbound, inbound>>,
         \A m \in InFlight : m.node = ByteOf(AlarmNode)
  PROVE  OwnFlight'
  BY DEF InFlight, OwnFlight

LEMMA NextOwnFlight ==
  TypeOK /\ IInv /\ OwnFlight /\ [PromptNext]_vars => OwnFlight'
<1>. SUFFICES ASSUME TypeOK, IInv, OwnFlight, [PromptNext]_vars
              PROVE  OwnFlight'
  OBVIOUS
<1>. USE UDPAssumption
     DEF TypeOK, UDPTypeOK, udpVars, fieldVars, callVars, resultVars, Goto, PC
<1>1. ASSUME UNCHANGED <<outbound, inbound, msgMonitor, id>>
      PROVE  OwnFlight'
  BY <1>1 DEF OwnFlight
<1>2. ASSUME NEW t \in Thread, Leave(t, outcome'[t]) \/ ScanEnd(t),
             UNCHANGED <<outbound, inbound>>, PromptNext, InGateway(t)
      PROVE  OwnFlight'
  <2>1. msgMonitor = t /\ msgMonitor' = NoThread
    BY <1>2 DEF IInv, MonitorsHeld, Leave, ScanEnd
  <2>2. \A m \in InFlight : m.node = ByteOf(AlarmNode)
    BY <1>2, <2>1 DEF PromptNext
  <2>. QED
    BY <1>2, <2>2, QuietFlight
<1>3. ASSUME NEW t \in Thread, NEW c \in Calls, Handle(t, c)
      PROVE  OwnFlight'
  <2>1. msgMonitor # t
    BY <1>3 DEF Handle, IInv, MonitorsHeld, InGateway
  <2>. QED
    BY <1>3, <2>1 DEF Handle, OwnFlight
<1>4. ASSUME NEW t \in Thread, EnterGateway(t)
      PROVE  OwnFlight'
  BY <1>4 DEF EnterGateway, OwnFlight
<1>5. ASSUME NEW t \in Thread, Transmitted(t)
      PROVE  OwnFlight'
  <2>1. msgMonitor = t
    BY <1>5 DEF Transmitted, IInv, MonitorsHeld, InGateway
  <2>2. RequestDatagram(t).id = id[t]
    BY DEF RequestDatagram, toBytes
  <2>. QED
    BY <1>5, <2>1, <2>2 DEF Transmitted, socketSend, OwnFlight
<1>6. ASSUME Background
      PROVE  OwnFlight'
  <2>1. ASSUME NEW q \in outbound,
               FieldAnswers(q) \/ FieldAnswersAgain(q) \/ FieldLoses(q)
        PROVE  OwnFlight'
    BY <1>6, <2>1
    DEF Background, FieldAnswers, FieldAnswersAgain, FieldLoses, Answer,
        OwnFlight
  <2>2. CASE FieldAlarm
    BY <1>6, <2>2 DEF Background, FieldAlarm, OwnFlight
  <2>3. ASSUME NEW m \in inbound, ListenerReceive(m)
        PROVE  OwnFlight'
    BY <1>6, <2>3 DEF Background, ListenerReceive, OwnFlight
  <2>. QED
    BY <1>6, <2>1, <2>2, <2>3 DEF Background, Field, Listener
<1>7. ASSUME NEW t \in Thread, Exchange(t) \/ ScanStep(t) \/ Respond(t),
             PromptNext
      PROVE  OwnFlight'
  <2>1. ASSUME EnterSend(t) \/ Clear(t) \/ EnterRetrieve(t) \/ ScanRead(t)
                 \/ ScanClear(t) \/ Respond(t)
        PROVE  OwnFlight'
    BY <1>1, <2>1
    DEF EnterSend, Clear, EnterRetrieve, ScanRead, ScanClear, Respond
  <2>2. ASSUME TransmitFails(t) \/ PollHit(t) \/ PollTimeout(t)
        PROVE  OwnFlight'
    BY <1>2, <1>7, <2>2
    DEF TransmitFails, PollHit, PollTimeout, Leave, InGateway
  <2>3. ASSUME ScanEnd(t)
        PROVE  OwnFlight'
    BY <1>2, <1>7, <2>3 DEF ScanEnd, InGateway
  <2>. QED
    BY <1>4, <1>5, <1>7, <2>1, <2>2, <2>3
    DEF Exchange, ScanStep, TransmitRequest, TransmitPing
<1>8. CASE Idle \/ UNCHANGED vars
  BY <1>1, <1>8 DEF Idle, vars
<1>. QED
  BY <1>3, <1>6, <1>7, <1>8, OfferedCalls DEF PromptNext, Next

LEMMA NextOwnSlot ==
  TypeOK /\ IInv /\ OwnFlight /\ OwnSlot /\ [Next]_vars => OwnSlot'
<1>. SUFFICES ASSUME TypeOK, IInv, OwnFlight, OwnSlot, [Next]_vars,
                     NEW t \in Thread,
                     pc'[t] \in {"transmit", "await", "poll"},
                     ~Scanning(t)', Target(t)' # ByteOf(AlarmNode),
                     responseMap'[Target(t)'] # NoMsg
              PROVE  responseMap'[Target(t)'].re = id'[t]
  BY DEF OwnSlot
<1>. USE UDPAssumption
     DEF TypeOK, UDPTypeOK, udpVars, fieldVars, callVars, resultVars, Goto, PC
<1>1. ASSUME pc[t] \in {"transmit", "await", "poll"},
             UNCHANGED <<responseMap, call, id>>
      PROVE  responseMap'[Target(t)'].re = id'[t]
  BY <1>1 DEF OwnSlot, Scanning, Target
<1>2. ASSUME NEW u \in Thread, Exchange(u) \/ ScanStep(u) \/ Respond(u)
      PROVE  responseMap'[Target(t)'].re = id'[t]
  <2>1. CASE u = t
    <3>1. ASSUME Clear(t)
          PROVE  FALSE
      <4>1. Target(t)' = Target(t)
        BY <3>1 DEF Clear, Target, Scanning
      <4>2. Target(t) \in Slot
        BY TargetType, SlotType
      <4>3. responseMap'[Target(t)] = NoMsg
        BY <3>1, <4>2 DEF Clear, clearMessage
      <4>. QED
        BY <4>1, <4>3
    <3>. QED
      BY <1>1, <1>2, <2>1, <3>1
      DEF Exchange, ScanStep, Respond, EnterGateway, EnterSend,
          TransmitRequest, TransmitPing, Transmitted, TransmitFails,
          EnterRetrieve, PollHit, PollTimeout, Leave, ScanRead, ScanClear,
          ScanEnd, Scanning
  <2>2. CASE u # t
    <3>1. pc'[t] = pc[t] /\ call' = call /\ id' = id
      BY <1>2, <2>2
      DEF Exchange, ScanStep, Respond, EnterGateway, EnterSend, Clear,
          TransmitRequest, TransmitPing, Transmitted, TransmitFails,
          EnterRetrieve, PollHit, PollTimeout, Leave, ScanRead, ScanClear,
          ScanEnd
    <3>2. msgMonitor = t
      BY <3>1 DEF IInv, MonitorsHeld, InGateway
    <3>3. ~Clear(u) /\ ~ScanClear(u)
      BY <2>2, <3>2 DEF IInv, MonitorsHeld, InGateway, Clear, ScanClear
    <3>4. UNCHANGED responseMap
      BY <1>2, <3>3
      DEF Exchange, ScanStep, Respond, EnterGateway, EnterSend,
          TransmitRequest, TransmitPing, Transmitted, TransmitFails,
          EnterRetrieve, PollHit, PollTimeout, ScanRead, ScanEnd
    <3>. QED
      BY <1>1, <3>1, <3>4
  <2>. QED
    BY <2>1, <2>2
<1>3. ASSUME NEW u \in Thread, NEW c \in Calls, Handle(u, c)
      PROVE  responseMap'[Target(t)'].re = id'[t]
  <2>1. u # t
    BY <1>3 DEF Handle
  <2>. QED
    BY <1>3, <2>1 DEF Handle, OwnSlot, Scanning, Target
<1>4. ASSUME NEW m \in inbound, ListenerReceive(m), Background
      PROVE  responseMap'[Target(t)'].re = id'[t]
  <2>1. pc' = pc /\ call' = call /\ id' = id /\ scan' = scan
    BY <1>4 DEF Background
  <2>2. msgMonitor = t
    BY <2>1 DEF IInv, MonitorsHeld, InGateway
  <2>3. Target(t)' = Target(t) /\ Target(t) \in Slot
    BY <2>1, TargetType, SlotType DEF Target, Scanning
  <2>4. PICK msg \in Message :
          /\ msg.re = m.re
          /\ responseMap' = [responseMap EXCEPT ![m.node] = msg]
    BY <1>4, ReceiveSlot
  <2>5. CASE m.node = Target(t)
    BY <2>1, <2>2, <2>3, <2>4, <2>5 DEF OwnFlight
  <2>6. CASE m.node # Target(t)
    <3>1. responseMap'[Target(t)] = responseMap[Target(t)]
      BY <2>3, <2>4, <2>6
    <3>. QED
      BY <2>1, <2>3, <3>1 DEF OwnSlot, Scanning
  <2>. QED
    BY <2>5, <2>6
<1>5. ASSUME Background, Field
      PROVE  responseMap'[Target(t)'].re = id'[t]
  BY <1>1, <1>5
  DEF Background, Field, FieldAnswers, FieldAnswersAgain, FieldLoses,
      FieldAlarm
<1>6. CASE Idle \/ UNCHANGED vars
  BY <1>1, <1>6 DEF Idle, vars
<1>. QED
  BY <1>2, <1>3, <1>4, <1>5, <1>6, OfferedCalls DEF Next, Background, Listener

LEMMA NextOwnAnswer ==
  TypeOK /\ IInv /\ OwnSlot /\ OwnAnswer /\ [Next]_vars => OwnAnswer'
<1>. SUFFICES ASSUME TypeOK, IInv, OwnSlot, OwnAnswer, [Next]_vars,
                     NEW t \in Thread, pc'[t] = "returned",
                     outcome'[t] = "ok", ~Scanning(t)',
                     call'[t].node # ByteOf(AlarmNode)
              PROVE  answer'[t].re = id'[t]
  BY DEF OwnAnswer
<1>. USE DEF TypeOK, UDPTypeOK, udpVars, callVars, resultVars, Goto, PC
<1>1. ASSUME pc[t] = "returned", outcome'[t] = outcome[t],
             answer'[t] = answer[t], UNCHANGED <<call, id>>
      PROVE  answer'[t].re = id'[t]
  BY <1>1 DEF OwnAnswer, Scanning
<1>2. ASSUME PollHit(t)
      PROVE  answer'[t].re = id'[t]
  <2>1. ~Scanning(t) /\ Target(t) = call[t].node /\ call' = call /\ id' = id
    BY <1>2 DEF PollHit, Leave, Scanning, Target
  <2>2. responseMap[Target(t)].re = id[t]
    BY <1>2, <2>1 DEF PollHit, OwnSlot
  <2>. QED
    BY <1>2, <2>1, <2>2 DEF PollHit
<1>3. ASSUME NEW u \in Thread, Exchange(u) \/ ScanStep(u) \/ Respond(u)
      PROVE  answer'[t].re = id'[t]
  <2>1. CASE u = t
    BY <1>2, <1>3, <2>1
    DEF Exchange, ScanStep, Respond, EnterGateway, EnterSend, Clear,
        TransmitRequest, TransmitPing, Transmitted, TransmitFails,
        EnterRetrieve, PollTimeout, Leave, ScanRead, ScanClear, ScanEnd,
        IInv, MonitorsHeld, Scanning
  <2>2. CASE u # t
    BY <1>1, <1>3, <2>2
    DEF Exchange, ScanStep, Respond, EnterGateway, EnterSend, Clear,
        TransmitRequest, TransmitPing, Transmitted, TransmitFails,
        EnterRetrieve, PollHit, PollTimeout, Leave, ScanRead, ScanClear,
        ScanEnd
  <2>. QED
    BY <2>1, <2>2
<1>4. ASSUME NEW u \in Thread, NEW c \in Calls, Handle(u, c)
      PROVE  answer'[t].re = id'[t]
  <2>1. u # t
    BY <1>4 DEF Handle
  <2>. QED
    BY <1>1, <1>4, <2>1 DEF Handle, Scanning, OwnAnswer
<1>5. CASE Background
  BY <1>1, <1>5 DEF Background
<1>6. CASE Idle \/ UNCHANGED vars
  BY <1>1, <1>6 DEF Idle, vars
<1>. QED
  BY <1>3, <1>4, <1>5, <1>6, OfferedCalls DEF Next

LEMMA PromptIsSpec == PromptSpec => Spec
<1>1. [PromptNext]_vars => [Next]_vars
  BY DEF PromptNext
<1>. QED
  BY <1>1, PTL DEF PromptSpec, Spec

\* If the field is prompt, a call to a node that raises no alarms never
\* returns the answer to another request.
THEOREM PromptAnswersAreOwn == PromptSpec => []OwnAnswer
<1>1. TypeOK /\ IInv /\ Own /\ [PromptNext]_vars => Own'
  BY NextOwnFlight, NextOwnSlot, NextOwnAnswer DEF Own, PromptNext
<1>2. Own => OwnAnswer
  BY DEF Own
<1>. QED
  BY <1>1, <1>2, InitOwn, PromptIsSpec, TypeCorrect, MonitorDiscipline, PTL
  DEF PromptSpec

-----------------------------------------------------------------------------
(* MessagesGateway implements RequestService: every step of the gateway is, *)
(* seen through Phase and AskedBy, a step of the service or a stutter.       *)

\* The refinement mapping, spelled out for the steps below.
PhaseMap == [t \in Thread |-> Phase(t)]
AskedMap == [t \in Thread |-> AskedBy(t)]

LEMMA InitRefines == Init => RS!Init
<1>. SUFFICES ASSUME Init PROVE RS!Init
  OBVIOUS
<1>1. call \in [Thread -> Calls]
  BY InitTypeOK DEF TypeOK
<1>2. \A t \in Thread : Phase(t) = "idle" /\ AskedBy(t) = {}
  BY DEF Init, Phase, AskedBy, Scanning
<1>. QED
  BY <1>1, <1>2 DEF Init, UDPInit, RS!Init

\* A thread whose pc, call and loop variable stay where they are looks the
\* same to the service.
LEMMA MapUnchanged ==
  ASSUME NEW t \in Thread, pc'[t] = pc[t], call'[t] = call[t],
         scan'[t] = scan[t]
  PROVE  Phase(t)' = Phase(t) /\ AskedBy(t)' = AskedBy(t)
  BY DEF Phase, AskedBy, Scanning

\* Steps of one thread change the view of that thread at most.
LEMMA MapExcept ==
  ASSUME NEW t \in Thread,
         \A u \in Thread \ {t} :
           pc'[u] = pc[u] /\ call'[u] = call[u] /\ scan'[u] = scan[u]
  PROVE  /\ PhaseMap' = [PhaseMap EXCEPT ![t] = Phase(t)']
         /\ AskedMap' = [AskedMap EXCEPT ![t] = AskedBy(t)']
<1>1. \A u \in Thread \ {t} : Phase(u)' = Phase(u) /\ AskedBy(u)' = AskedBy(u)
  BY MapUnchanged
<1>. QED
  BY <1>1 DEF PhaseMap, AskedMap

\* A step inside a method that leaves the view of its thread alone is a
\* stutter of the service.
LEMMA Stutter ==
  ASSUME PhaseMap' = PhaseMap, AskedMap' = AskedMap,
         UNCHANGED <<call, heard, resultVars>>
  PROVE  UNCHANGED RS!vars
  BY DEF RS!vars, PhaseMap, AskedMap, resultVars

LEMMA ThreadStep ==
  ASSUME TypeOK, NEW t \in Thread,
         Exchange(t) \/ ScanStep(t) \/ Respond(t)
           \/ \E c \in Calls : Handle(t, c)
  PROVE  \A u \in Thread \ {t} :
           pc'[u] = pc[u] /\ call'[u] = call[u] /\ scan'[u] = scan[u]
<1>. USE DEF TypeOK, Goto, callVars
<1>1. CASE Exchange(t)
  BY <1>1 DEF Exchange, EnterGateway, EnterSend, Clear, TransmitRequest,
     Transmitted, TransmitFails, EnterRetrieve, PollHit, PollTimeout, Leave
<1>2. CASE ScanStep(t)
  BY <1>2 DEF ScanStep, TransmitPing, Transmitted, ScanRead, ScanNext,
     ScanClear, ScanEnd
<1>3. CASE Respond(t)
  BY <1>3 DEF Respond
<1>4. CASE \E c \in Calls : Handle(t, c)
  BY <1>4 DEF Handle
<1>. QED
  BY <1>1, <1>2, <1>3, <1>4

LEMMA ExchangeRefines ==
  ASSUME TypeOK, IInv, NEW t \in Thread, Exchange(t)
  PROVE  RS!Next \/ UNCHANGED RS!vars
<1>. USE DEF TypeOK, UDPTypeOK, PC, Goto, callVars, resultVars, fieldVars,
             udpVars
<1>1. /\ PhaseMap' = [PhaseMap EXCEPT ![t] = Phase(t)']
      /\ AskedMap' = [AskedMap EXCEPT ![t] = AskedBy(t)']
  BY ThreadStep, MapExcept
<1>2. PhaseMap[t] = Phase(t) /\ AskedMap[t] = AskedBy(t)
  BY DEF PhaseMap, AskedMap
<1>3. ASSUME EnterGateway(t)
      PROVE  RS!Next
  <2>1. \A u \in Thread : Phase(u) # "asking"
    BY <1>3, UDPAssumption
    DEF EnterGateway, IInv, MonitorsHeld, InGateway, Phase
  <2>2. Phase(t) = "waiting" /\ Phase(t)' = "asking"
    BY <1>3 DEF EnterGateway, Phase
  <2>3. AskedBy(t)' = AskedBy(t)
    <3>1. AskedBy(t) = {}
      BY <1>3 DEF EnterGateway, AskedBy
    <3>2. pc'[t] = "send" /\ scan'[t] = 1 /\ call' = call
      BY <1>3 DEF EnterGateway
    <3>3. \A n \in ScanNode : ~(n < 1)
      BY MessagesAssumption DEF ScanNode
    <3>4. AskedBy(t)' = {}
      BY <3>2, <3>3 DEF AskedBy, Scanning
    <3>. QED
      BY <3>1, <3>4
  <2>4. RS!Start(t)
    BY <1>1, <1>2, <1>3, <2>1, <2>2, <2>3
    DEF EnterGateway, RS!Start, PhaseMap, AskedMap
  <2>. QED
    BY <2>4 DEF RS!Next
<1>4. ASSUME EnterSend(t)
      PROVE  UNCHANGED RS!vars
  <2>1. Phase(t)' = Phase(t) /\ AskedBy(t)' = AskedBy(t)
    BY <1>4 DEF EnterSend, Phase, AskedBy, Scanning
  <2>. QED
    BY <1>1, <1>2, <1>4, <2>1, Stutter DEF EnterSend, PhaseMap, AskedMap
<1>5. ASSUME Clear(t)
      PROVE  RS!Next
  <2>1. Phase(t) = "asking" /\ Phase(t)' = "asking"
    BY <1>5 DEF Clear, Phase
  <2>2. AskedBy(t)' = AskedBy(t) \cup {Target(t)}
    BY <1>5, MessagesAssumption
    DEF Clear, AskedBy, Scanning, Target, ScanNode
  <2>3. PhaseMap' = PhaseMap
    BY <1>1, <1>2, <2>1 DEF PhaseMap
  <2>4. /\ PhaseMap[t] = "asking"
        /\ AskedMap' = [AskedMap EXCEPT ![t] = AskedMap[t] \cup {Target(t)}]
    BY <1>1, <1>2, <2>1, <2>2
  <2>5. RS!Ask(t, Target(t))
    BY <1>5, <2>3, <2>4 DEF Clear, RS!Ask, PhaseMap, AskedMap
  <2>. QED
    BY <2>5, TargetType, SlotType DEF RS!Next
<1>6. ASSUME TransmitRequest(t)
      PROVE  UNCHANGED RS!vars
  <2>1. Phase(t)' = Phase(t) /\ AskedBy(t)' = AskedBy(t)
    BY <1>6 DEF TransmitRequest, Transmitted, Phase, AskedBy, Scanning
  <2>. QED
    BY <1>1, <1>2, <1>6, <2>1, Stutter
    DEF TransmitRequest, Transmitted, PhaseMap, AskedMap
<1>7. ASSUME TransmitFails(t) \/ PollTimeout(t)
      PROVE  RS!Next
  <2>1. Phase(t) = "asking" /\ Phase(t)' = "returned" /\ AskedBy(t)' = {}
    BY <1>7 DEF TransmitFails, PollTimeout, Leave, Phase, AskedBy, Scanning
  <2>2. \E why \in {"Timeout", "IOException"} : RS!Return(t, why)
    BY <1>1, <1>2, <1>7, <2>1
    DEF TransmitFails, PollTimeout, Leave, RS!Return, PhaseMap, AskedMap
  <2>3. RS!Fail(t)
    BY <1>7, <2>2 DEF TransmitFails, PollTimeout, Leave, RS!Fail
  <2>. QED
    BY <2>3 DEF RS!Next
<1>8. ASSUME EnterRetrieve(t)
      PROVE  UNCHANGED RS!vars
  <2>1. Phase(t)' = Phase(t) /\ AskedBy(t)' = AskedBy(t)
    BY <1>8 DEF EnterRetrieve, Phase, AskedBy, Scanning
  <2>. QED
    BY <1>1, <1>2, <1>8, <2>1, Stutter DEF EnterRetrieve, PhaseMap, AskedMap
<1>9. ASSUME PollHit(t)
      PROVE  RS!Next
  <2>1. Phase(t) = "asking" /\ Phase(t)' = "returned" /\ AskedBy(t)' = {}
    BY <1>9 DEF PollHit, Leave, Phase, AskedBy, Scanning
  <2>2. call[t].op # "alive" /\ call[t].node = Target(t)
    BY <1>9 DEF PollHit, IInv, MonitorsHeld, Scanning, Target
  <2>3. Target(t) \in AskedBy(t)
    BY <1>9, <2>2 DEF PollHit, AskedBy, Scanning
  <2>4. responseMap[Target(t)] \in heard[Target(t)]
    BY <1>9, TargetType, SlotType DEF PollHit, IInv, FreshSlots
  <2>5. RS!Return(t, "ok")
    BY <1>1, <1>2, <1>9, <2>1
    DEF PollHit, Leave, RS!Return, PhaseMap, AskedMap
  <2>6. RS!Succeed(t)
    BY <1>2, <1>9, <2>2, <2>3, <2>4, <2>5
    DEF PollHit, Leave, RS!Succeed, AskedMap
  <2>. QED
    BY <2>6 DEF RS!Next
<1>. QED
  BY <1>3, <1>4, <1>5, <1>6, <1>7, <1>8, <1>9 DEF Exchange

LEMMA ScanRefines ==
  ASSUME TypeOK, IInv, NEW t \in Thread, ScanStep(t)
  PROVE  RS!Next \/ UNCHANGED RS!vars
<1>. USE DEF TypeOK, UDPTypeOK, PC, Goto, callVars, resultVars, fieldVars,
             udpVars
<1>1. /\ PhaseMap' = [PhaseMap EXCEPT ![t] = Phase(t)']
      /\ AskedMap' = [AskedMap EXCEPT ![t] = AskedBy(t)']
  BY ThreadStep, MapExcept
<1>2. PhaseMap[t] = Phase(t) /\ AskedMap[t] = AskedBy(t)
  BY DEF PhaseMap, AskedMap
<1>3. ASSUME TransmitPing(t)
      PROVE  UNCHANGED RS!vars
  <2>1. Phase(t)' = Phase(t)
    BY <1>3 DEF TransmitPing, Transmitted, Phase
  <2>2. AskedBy(t)' = AskedBy(t)
    BY <1>3, MessagesAssumption
    DEF TransmitPing, Transmitted, AskedBy, Scanning, ScanNode
  <2>. QED
    BY <1>1, <1>2, <1>3, <2>1, <2>2, Stutter
    DEF TransmitPing, Transmitted, PhaseMap, AskedMap
<1>4. ASSUME ScanRead(t)
      PROVE  UNCHANGED RS!vars
  <2>1. Phase(t)' = Phase(t) /\ AskedBy(t)' = AskedBy(t)
    BY <1>4 DEF ScanRead, IInv, MonitorsHeld, Phase, AskedBy, Scanning
  <2>. QED
    BY <1>1, <1>2, <1>4, <2>1, Stutter DEF ScanRead, PhaseMap, AskedMap
<1>5. ASSUME ScanClear(t)
      PROVE  RS!Next
  <2>1. Phase(t) = "asking" /\ Phase(t)' = Phase(t) /\ AskedBy(t)' = AskedBy(t)
    BY <1>5 DEF ScanClear, IInv, MonitorsHeld, Phase, AskedBy, Scanning
  <2>2. call[t].op = "alive" /\ scan[t] \in AskedBy(t)
    BY <1>5 DEF ScanClear, IInv, MonitorsHeld, AskedBy, Scanning
  <2>3. scan[t] \in Slot /\ heard[scan[t]] # {}
    BY <1>5, SlotType DEF ScanClear, IInv, ScanKeeps, FreshSlots
  <2>4. RS!Found(t, scan[t])
    BY <1>1, <1>2, <1>5, <2>1, <2>2, <2>3
    DEF ScanClear, RS!Found, PhaseMap, AskedMap
  <2>. QED
    BY <2>3, <2>4 DEF RS!Next
<1>6. ASSUME ScanEnd(t)
      PROVE  RS!Next
  <2>1. Phase(t) = "asking" /\ Phase(t)' = "returned" /\ AskedBy(t)' = {}
    BY <1>6 DEF ScanEnd, Phase, AskedBy, Scanning
  <2>2. call[t].op = "alive"
    BY <1>6 DEF ScanEnd, IInv, MonitorsHeld, Scanning
  <2>3. RS!Return(t, "ok")
    BY <1>1, <1>2, <1>6, <2>1 DEF ScanEnd, RS!Return, PhaseMap, AskedMap
  <2>4. RS!Succeed(t)
    BY <1>6, <2>2, <2>3 DEF ScanEnd, RS!Succeed
  <2>. QED
    BY <2>4 DEF RS!Next
<1>. QED
  BY <1>3, <1>4, <1>5, <1>6 DEF ScanStep

LEMMA HandlerRefines ==
  ASSUME TypeOK, NEW t \in Thread,
         Respond(t) \/ \E c \in Calls : Handle(t, c)
  PROVE  RS!Next
<1>. USE DEF TypeOK, PC, Goto, callVars, resultVars, udpVars
<1>1. /\ PhaseMap' = [PhaseMap EXCEPT ![t] = Phase(t)']
      /\ AskedMap' = [AskedMap EXCEPT ![t] = AskedBy(t)']
  BY ThreadStep, MapExcept
<1>2. PhaseMap[t] = Phase(t) /\ AskedMap[t] = AskedBy(t)
  BY DEF PhaseMap, AskedMap
<1>3. ASSUME NEW c \in Calls, Handle(t, c)
      PROVE  RS!Next
  <2>1. Phase(t) = "idle" /\ Phase(t)' = "waiting"
    BY <1>3 DEF Handle, Phase
  <2>2. AskedBy(t) = {} /\ AskedBy(t)' = {}
    BY <1>3 DEF Handle, AskedBy
  <2>3. AskedMap' = AskedMap
    BY <1>1, <1>2, <2>2 DEF AskedMap
  <2>4. PhaseMap[t] = "idle" /\ PhaseMap' = [PhaseMap EXCEPT ![t] = "waiting"]
    BY <1>1, <1>2, <2>1
  <2>5. RS!Arrive(t, c)
    BY <1>3, <2>3, <2>4 DEF Handle, RS!Arrive, PhaseMap, AskedMap
  <2>. QED
    BY <2>5 DEF RS!Next
<1>4. ASSUME Respond(t)
      PROVE  RS!Next
  <2>1. Phase(t) = "returned" /\ Phase(t)' = "idle"
    BY <1>4 DEF Respond, Phase
  <2>2. AskedBy(t) = {} /\ AskedBy(t)' = {}
    BY <1>4 DEF Respond, AskedBy
  <2>3. AskedMap' = AskedMap
    BY <1>1, <1>2, <2>2 DEF AskedMap
  <2>4. PhaseMap[t] = "returned" /\ PhaseMap' = [PhaseMap EXCEPT ![t] = "idle"]
    BY <1>1, <1>2, <2>1
  <2>5. UNCHANGED <<call, heard, answer, alive, outcome>>
    BY <1>4 DEF Respond
  <2>6. RS!Respond(t)
    BY <2>3, <2>4, <2>5 DEF RS!Respond, PhaseMap, AskedMap
  <2>. QED
    BY <2>6 DEF RS!Next
<1>. QED
  BY <1>3, <1>4

LEMMA BackgroundRefines ==
  ASSUME TypeOK, IInv, Background
  PROVE  RS!Next \/ UNCHANGED RS!vars
<1>1. PhaseMap' = PhaseMap /\ AskedMap' = AskedMap
  BY MapUnchanged DEF Background, callVars, PhaseMap, AskedMap
<1>2. UNCHANGED <<call, answer, alive, outcome>>
  BY DEF Background, callVars, resultVars
<1>3. ASSUME NEW m \in inbound, ListenerReceive(m)
      PROVE  RS!Next
  <2>1. PICK msg \in Message :
          heard' = [heard EXCEPT ![m.node] = @ \cup {msg}]
    BY <1>3, ReceiveSlot
  <2>2. m.node \in Slot
    BY DEF IInv, KnownNodes
  <2>3. heard \in [Slot -> SUBSET Message]
    BY DEF TypeOK, UDPTypeOK
  <2>4. heard'[m.node] = heard[m.node] \cup {msg}
    BY <2>1, <2>2, <2>3
  <2>5. /\ heard[m.node] \subseteq heard'[m.node]
        /\ heard'[m.node] \subseteq Message
        /\ heard' = [heard EXCEPT ![m.node] = heard'[m.node]]
    BY <2>1, <2>2, <2>3, <2>4
  <2>6. RS!Hear(m.node)
    BY <1>1, <1>2, <2>5
    DEF RS!Hear, RS!Message, RS!ReplyType, Message, ReplyType, PhaseMap,
        AskedMap
  <2>. QED
    BY <2>2, <2>6 DEF RS!Next
<1>4. ASSUME Field
      PROVE  UNCHANGED RS!vars
  <2>1. UNCHANGED heard
    BY <1>4 DEF Field, FieldAnswers, FieldAnswersAgain, FieldLoses, FieldAlarm
  <2>. QED
    BY <1>1, <1>2, <2>1, Stutter DEF resultVars
<1>. QED
  BY <1>3, <1>4 DEF Background, Listener

LEMMA NextRefines ==
  ASSUME TypeOK, IInv, [Next]_vars
  PROVE  [RS!Next]_RS!vars
<1>1. ASSUME UNCHANGED vars
      PROVE  UNCHANGED RS!vars
  <2>1. PhaseMap' = PhaseMap /\ AskedMap' = AskedMap
    BY <1>1, MapUnchanged DEF vars, PhaseMap, AskedMap
  <2>. QED
    BY <1>1, <2>1, Stutter DEF vars, udpVars, resultVars
<1>. QED
  BY <1>1, ExchangeRefines, ScanRefines, HandlerRefines, BackgroundRefines,
     OfferedCalls
  DEF Next, Idle

\* The gateway keeps the promise of RequestService for any number of threads,
\* nodes and calls: one call at a time, and no answer older than its question.
THEOREM GatewayServes == Spec => ServesRequests
<1>1. TypeOK /\ IInv /\ [Next]_vars => [RS!Next]_RS!vars
  BY NextRefines
<1>. QED
  BY <1>1, InitRefines, TypeCorrect, MonitorDiscipline, PTL
  DEF Spec, ServesRequests, RS!Spec
=============================================================================
