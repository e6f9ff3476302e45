--------------------------- MODULE RelayNode_proofs ---------------------------
(***************************************************************************)
(* Proofs about the NRF gateway and the relay nodes: type correctness, and *)
(* that no command overtakes another and no answer another, for any number *)
(* of devices, requests, attempts and restarts.  Then that the server      *)
(* never gets an answer about a relay that ignores an earlier command: an  *)
(* id stays with one request, commands are executed in the order of their  *)
(* ids, so pin_states is what the last of them left, and no later command  *)
(* changes what an answer on its way had to say.                           *)
(***************************************************************************)
EXTENDS RelayNode, TLAPS, SequenceTheorems

-----------------------------------------------------------------------------
(* Types *)

\* What a device answers is a datagram for the server.
LEMMA AnswerTyped ==
  ASSUME NEW q \in Frame, NEW v \in Byte
  PROVE  /\ Answer(q, v) \in Reply
         /\ Answer(q, v).node = q.node
         /\ Answer(q, v).re = q.id
<1>1. AnswerType(q.type) \in ReplyType
  BY DEF Frame, RequestType, ReplyType, AnswerType
<1> QED
  BY <1>1, RadioAssumption DEF Frame, Answer, Reply, Byte

\* A GET_RQ is answered with bytes.
LEMMA GottenTyped ==
  ASSUME NodeTypeOK, NEW n \in Device, NEW reg \in Byte
  PROVE  Gotten(n, reg) \subseteq Byte
<1>1. reg \in Pin => pins[n][reg].state \in {0, 1, 128}
  BY DEF NodeTypeOK, PinRecord
<1>2. (reg * 2) % 256 \in Byte
  BY DEF Byte
<1>3. reg \in Pin /\ pins[n][reg].state # 128 => pins[n][reg].state \in Byte
  BY <1>1 DEF Byte
<1> QED
  BY <1>2, <1>3, NodeAssumption DEF Gotten

\* A request is numbered when it arrives.
LEMMA Numbered ==
  ASSUME NEW q \in Question, NEW k \in Nat
  PROVE  [q EXCEPT !.id = k] \in Frame /\ [q EXCEPT !.id = k].id = k
<1>1. q \in Frame
  BY GatewayAssumption
<1> QED
  BY <1>1 DEF Frame

\* A command leaves a pin in one of its states.
LEMMA SwitchedTyped ==
  ASSUME NEW n \in Device, NEW q \in Frame, NEW pin \in PinRecord
  PROVE  Switched(n, q, pin) \in PinRecord
BY DEF Switched, Level, PinRecord

\* The switch statement keeps the types and files one answer.
LEMMA ActStep ==
  ASSUME NodeTypeOK, NEW n \in Device, NEW q \in Frame, Act(n, q)
  PROVE  /\ pins' \in [Device -> [Pin -> PinRecord]]
         /\ executed' \in [Device -> SUBSET Frame]
         /\ last' = [last EXCEPT ![n] = q.id]
         /\ \E m \in Reply : /\ m.node = q.node /\ m.re = q.id
                             /\ out' = [out EXCEPT ![n] = m]
<1>1. PICK v \in IF q.type = "GET_RQ" THEN Gotten(n, q.reg) ELSE {q.pay} :
        out' = [out EXCEPT ![n] = Answer(q, v)]
  BY DEF Act
<1>2. v \in Byte
  BY <1>1, GottenTyped, RadioAssumption DEF Frame
<1>3. pins' \in [Device -> [Pin -> PinRecord]]
  <2>1. q.pay \in Pin => Switched(n, q, pins[n][q.pay]) \in PinRecord
    BY SwitchedTyped DEF NodeTypeOK
  <2>2. [pins EXCEPT ![n][q.pay] = Switched(n, q, @)]
          \in [Device -> [Pin -> PinRecord]]
    BY <2>1 DEF NodeTypeOK
  <2> QED
    BY <2>2 DEF Act, NodeTypeOK
<1>4. executed' \in [Device -> SUBSET Frame]
  BY DEF Act, NodeTypeOK
<1> QED
  BY <1>1, <1>2, <1>3, <1>4, AnswerTyped DEF Act

\* A write leaves the receiver with a sequence of frames.
LEMMA WrittenTyped ==
  ASSUME NEW S, NEW box \in Seq(S), NEW f \in S, NEW next, NEW ok \in BOOLEAN,
         Written(f, box, next, ok)
  PROVE  next \in Seq(S) /\ next \in {box, Append(box, f)}
BY DEF Written

\* One write of the gateway, at its node or nowhere.
LEMMA WriteStep ==
  ASSUME NodeTypeOK, gpc = "write", Write
  PROVE  /\ frame \in Frame
         /\ inbox' \in [Device -> Seq(Frame)]
         /\ \A n \in Device :
              \/ inbox'[n] = inbox[n]
              \/ n = frame.node /\ inbox'[n] = Append(inbox[n], frame)
         /\ air' = air
         /\ gpc' \in {"write", "update"}
         /\ gpc' = "write" => frame' = frame /\ attempts' < MAX_REWRITE_ATTEMPTS
         /\ frame' \in {frame, NoMsg}
<1>1. frame \in Frame
  BY DEF NodeTypeOK, GatewayTypeOK
<1>2. PICK ok \in BOOLEAN :
        NextWrite(ok, ok \/ attempts' >= MAX_REWRITE_ATTEMPTS)
  BY DEF Write
<1>3. /\ inbox' \in [Device -> Seq(Frame)]
      /\ \A n \in Device :
           \/ inbox'[n] = inbox[n]
           \/ n = frame.node /\ inbox'[n] = Append(inbox[n], frame)
  <2>1. CASE frame.node \in Device
    <3>1. PICK next \in {inbox[frame.node], Append(inbox[frame.node], frame)} :
            inbox' = [inbox EXCEPT ![frame.node] = next]
      BY <1>1, <1>2, <2>1 DEF NextWrite, WriteTo
    <3>2. /\ inbox[frame.node] \in Seq(Frame)
          /\ Append(inbox[frame.node], frame) \in Seq(Frame)
      BY <1>1, <2>1 DEF NodeTypeOK, RadioTypeOK
    <3> QED
      BY <2>1, <3>1, <3>2 DEF NodeTypeOK, RadioTypeOK
  <2>2. CASE frame.node \notin Device
    BY <1>2, <2>2 DEF NextWrite, WriteTo, NodeTypeOK, RadioTypeOK
  <2> QED
    BY <2>1, <2>2
<1>4. attempts' \in Nat
  BY GatewayAssumption DEF Write, NodeTypeOK, GatewayTypeOK
<1> QED
  BY <1>1, <1>2, <1>3, <1>4, GatewayAssumption DEF NextWrite, WriteTo

\* One write of a node's answer.
LEMMA RespondStep ==
  ASSUME NodeTypeOK, NEW n \in Device, Respond(n)
  PROVE  /\ out[n] \in Reply
         /\ air' \in Seq(Reply) /\ air' \in {air, Append(air, out[n])}
         /\ npc' \in [Device -> {"loop", "write", "halted"}]
         /\ out' \in [Device -> Reply \cup {NoMsg}]
         /\ \A k \in Device : out'[k] \in {out[k], NoMsg}
         /\ tries' \in [Device -> 0 .. NODE_ATTEMPTS + 1]
         /\ \A k \in Device :
              npc'[k] = "write" => out'[k] # NoMsg /\ tries'[k] <= NODE_ATTEMPTS
<1> USE DEF NodeTypeOK
<1>1. PICK ok \in BOOLEAN : WriteAnswer(n, ok, ok \/ tries'[n] > NODE_ATTEMPTS)
  BY DEF Respond
<1>2. out[n] \in Reply /\ npc[n] = "write"
  BY DEF Respond
<1>3. air' \in {air, Append(air, out[n])} /\ air' \in Seq(Reply)
  <2>1. air \in Seq(Reply) /\ Append(air, out[n]) \in Seq(Reply)
    BY <1>2 DEF RadioTypeOK
  <2>2. air' \in {air, Append(air, out[n])}
    BY <1>1 DEF WriteAnswer
  <2> QED
    BY <2>1, <2>2
<1>4. /\ tries' \in [Device -> 0 .. NODE_ATTEMPTS + 1]
      /\ tries'[n] = tries[n] + 1
      /\ \A k \in Device \ {n} : tries'[k] = tries[k]
  <2>1. tries[n] + 1 \in 0 .. NODE_ATTEMPTS + 1
    BY <1>2, NodeAssumption
  <2> QED
    BY <2>1 DEF Respond
<1>5. CASE ok \/ tries'[n] > NODE_ATTEMPTS
  <2>1. npc' = [npc EXCEPT ![n] = "loop"] /\ out' = [out EXCEPT ![n] = NoMsg]
    BY <1>1, <1>5 DEF WriteAnswer
  <2> QED
    BY <1>2, <1>3, <1>4, <2>1
<1>6. CASE ~ok /\ ~(tries'[n] > NODE_ATTEMPTS)
  <2>1. npc' = npc /\ out' = out
    BY <1>1, <1>6 DEF WriteAnswer
  <2>2. tries'[n] <= NODE_ATTEMPTS
    BY <1>4, <1>6, NodeAssumption
  <2> QED
    BY <1>2, <1>3, <1>4, <2>1, <2>2
<1> QED
  BY <1>5, <1>6

-----------------------------------------------------------------------------
(* Sequences *)

\* What a tail holds, and where.
LEMMA TailAt ==
  ASSUME NEW S, NEW s \in Seq(S), s # <<>>
  PROVE  /\ 1 \in DOMAIN s /\ Head(s) = s[1] /\ Head(s) \in S
         /\ Tail(s) \in Seq(S)
         /\ \A i \in DOMAIN Tail(s) :
              i \in Nat \ {0} /\ i + 1 \in DOMAIN s /\ Tail(s)[i] = s[i + 1]
OBVIOUS

\* What an appended sequence holds, and where.
LEMMA AppendAt ==
  ASSUME NEW S, NEW s \in Seq(S), NEW e \in S
  PROVE  /\ Append(s, e) \in Seq(S)
         /\ \A i \in DOMAIN Append(s, e) :
              \/ i \in DOMAIN s /\ Append(s, e)[i] = s[i]
              \/ /\ Append(s, e)[i] = e
                 /\ \A j \in DOMAIN s : j < i
                 /\ \A j \in DOMAIN Append(s, e) : j <= i
         /\ DOMAIN s \subseteq Nat
OBVIOUS

\* What a concatenation holds, and where.
LEMMA ConcatAt ==
  ASSUME NEW S, NEW s \in Seq(S), NEW t \in Seq(S)
  PROVE  /\ s \o t \in Seq(S)
         /\ \A i \in DOMAIN (s \o t) :
              \/ i \in DOMAIN s /\ (s \o t)[i] = s[i]
              \/ /\ i - Len(s) \in DOMAIN t /\ (s \o t)[i] = t[i - Len(s)]
                 /\ i > Len(s)
         /\ DOMAIN s = 1 .. Len(s) /\ Len(s) \in Nat
OBVIOUS

-----------------------------------------------------------------------------
(* The type invariant *)

LEMMA TypeInit == NodeInit => NodeTypeOK
<1>1. FreshPins \in [Pin -> PinRecord]
  BY DEF FreshPins, PinRecord
<1> SUFFICES ASSUME NodeInit PROVE NodeTypeOK
  OBVIOUS
<1>2. RadioTypeOK
  BY DEF NodeInit, RadioInit, RadioTypeOK
<1>3. GatewayTypeOK
  <2>1. 0 \in 0 .. MAX_REWRITE_ATTEMPTS
    BY GatewayAssumption
  <2>2. udp \in Seq(Frame) /\ queue \in Seq(Reply)
    BY DEF NodeInit, GatewayInit
  <2> QED
    BY <2>1, <2>2 DEF NodeInit, GatewayInit, GatewayTypeOK
<1> QED
  BY <1>1, <1>2, <1>3, NodeAssumption DEF NodeInit, NodeTypeOK

LEMMA TypeStep == NodeTypeOK /\ [RelayNext]_relayVars => NodeTypeOK'
<1> SUFFICES ASSUME NodeTypeOK, [RelayNext]_relayVars
             PROVE  NodeTypeOK'
  OBVIOUS
<1> USE DEF NodeTypeOK, RadioTypeOK, GatewayTypeOK
<1>1. ASSUME NEW q \in Question, Arrive(q), UNCHANGED nodeVars
      PROVE  NodeTypeOK'
  <2>1. [q EXCEPT !.id = received + 1] \in Frame
    <3>1. received + 1 \in Nat
      OBVIOUS
    <3> QED
      BY <3>1, Numbered
  <2> QED
    BY <1>1, <2>1, AppendAt DEF Arrive, nodeVars, radioVars
<1>2. CASE Update /\ UNCHANGED nodeVars
  BY <1>2, ConcatAt DEF Update, nodeVars
<1>3. CASE Forward /\ UNCHANGED nodeVars
  <2>1. Head(queue) \in Reply /\ Tail(queue) \in Seq(Reply)
    BY <1>3, TailAt DEF Forward
  <2> QED
    BY <1>3, <2>1 DEF Forward, nodeVars, radioVars
<1>4. CASE Drained /\ UNCHANGED nodeVars
  BY <1>4 DEF Drained, nodeVars, radioVars
<1>5. CASE Recv /\ UNCHANGED nodeVars
  <2>1. Head(udp) \in Frame /\ Tail(udp) \in Seq(Frame)
    BY <1>5, TailAt DEF Recv
  <2>2. /\ attempts' \in 0 .. MAX_REWRITE_ATTEMPTS
        /\ attempts' < MAX_REWRITE_ATTEMPTS
    BY <1>5, GatewayAssumption DEF Recv
  <2> QED
    BY <1>5, <2>1, <2>2 DEF Recv, nodeVars, radioVars
<1>6. CASE RecvNothing /\ UNCHANGED nodeVars
  BY <1>6 DEF RecvNothing, nodeVars, radioVars
<1>7. CASE Write /\ UNCHANGED nodeVars
  <2>1. attempts' \in 0 .. MAX_REWRITE_ATTEMPTS
    <3>1. attempts < MAX_REWRITE_ATTEMPTS /\ attempts' = attempts + 1
      BY <1>7 DEF Write
    <3> QED
      BY <3>1, GatewayAssumption
  <2> QED
    BY <1>7, <2>1, WriteStep, GatewayAssumption DEF Write, nodeVars
<1>8. ASSUME NEW n \in Device, Handle(n)
      PROVE  NodeTypeOK'
  <2>1. Head(inbox[n]) \in Frame /\ Tail(inbox[n]) \in Seq(Frame)
    BY <1>8, TailAt DEF Handle
  <2>2. Act(n, Head(inbox[n]))
    BY <1>8 DEF Handle
  <2>3. PICK m \in Reply : out' = [out EXCEPT ![n] = m]
    BY <2>1, <2>2, ActStep
  <2>4. /\ pins' \in [Device -> [Pin -> PinRecord]]
        /\ executed' \in [Device -> SUBSET Frame]
        /\ last' \in [Device -> Nat]
    <3>1. Head(inbox[n]).id \in Nat
      BY <2>1 DEF Frame
    <3>2. last' = [last EXCEPT ![n] = Head(inbox[n]).id]
      BY <2>1, <2>2, ActStep
    <3> QED
      BY <2>1, <2>2, <3>1, <3>2, ActStep
  <2>5. /\ tries' \in [Device -> 0 .. NODE_ATTEMPTS + 1]
        /\ npc' \in [Device -> {"loop", "write", "halted"}]
        /\ out' \in [Device -> Reply \cup {NoMsg}]
        /\ \A k \in Device :
             npc'[k] = "write" => out'[k] # NoMsg /\ tries'[k] <= NODE_ATTEMPTS
    BY <1>8, <2>3, NodeAssumption, RadioAssumption DEF Handle
  <2>6. inbox' \in [Device -> Seq(Frame)] /\ UNCHANGED <<air, restarts>>
    BY <1>8, <2>1 DEF Handle
  <2> QED
    BY <1>8, <2>4, <2>5, <2>6 DEF Handle, gatewayVars
<1>9. ASSUME NEW n \in Device, Respond(n)
      PROVE  NodeTypeOK'
  <2>1. /\ air' \in Seq(Reply)
        /\ npc' \in [Device -> {"loop", "write", "halted"}]
        /\ out' \in [Device -> Reply \cup {NoMsg}]
        /\ tries' \in [Device -> 0 .. NODE_ATTEMPTS + 1]
        /\ \A k \in Device :
             npc'[k] = "write" => out'[k] # NoMsg /\ tries'[k] <= NODE_ATTEMPTS
    BY <1>9, RespondStep
  <2> QED
    BY <1>9, <2>1 DEF Respond, gatewayVars
<1>10. ASSUME NEW n \in Device, Restart(n)
       PROVE  NodeTypeOK'
  <2>1. FreshPins \in [Pin -> PinRecord]
    BY DEF FreshPins, PinRecord
  <2> QED
    BY <1>10, <2>1, NodeAssumption DEF Restart, gatewayVars
<1>11. CASE UNCHANGED relayVars
  BY <1>11 DEF relayVars, radioVars, gatewayVars, nodeVars
<1> QED
  BY <1>1, <1>2, <1>3, <1>4, <1>5, <1>6, <1>7, <1>8, <1>9, <1>10, <1>11
     DEF RelayNext, Gateway, Loop, NodeLoop

\* Everything the specification can reach is of its type.
THEOREM RelayTypeCorrect == RelaySpec => []NodeTypeOK
BY TypeInit, TypeStep, PTL DEF RelaySpec

-----------------------------------------------------------------------------
(* The order of requests *)

\* The steps that leave the requests where they are.
Waiting == <<udp, received, inbox, last>>

\* What each step does to the requests on their way to the nodes.
LEMMA RequestStep ==
  ASSUME NodeTypeOK, [RelayNext]_relayVars
  PROVE  \/ \E q \in Question :
              /\ udp' = Append(udp, [q EXCEPT !.id = received + 1])
              /\ received' = received + 1
              /\ UNCHANGED <<gpc, frame, inbox, last>>
         \/ /\ gpc = "recv" /\ gpc' = "write"
            /\ udp # <<>> /\ udp' = Tail(udp) /\ frame' = Head(udp)
            /\ UNCHANGED <<received, inbox, last>>
         \/ /\ gpc = "write" /\ Write
            /\ UNCHANGED <<udp, received, last>>
         \/ \E n \in Device :
              /\ Handle(n)
              /\ UNCHANGED <<udp, received, gpc, frame>>
         \/ \E n \in Device :
              /\ inbox' = [inbox EXCEPT ![n] = <<>>]
              /\ UNCHANGED <<udp, received, gpc, frame, last>>
         \/ /\ UNCHANGED Waiting
            /\ \/ gpc' # "write"
               \/ UNCHANGED <<gpc, frame>>
<1> USE DEF Waiting
<1>1. ASSUME NEW q \in Question, Arrive(q), UNCHANGED nodeVars
      PROVE  /\ udp' = Append(udp, [q EXCEPT !.id = received + 1])
             /\ received' = received + 1
             /\ UNCHANGED <<gpc, frame, inbox, last>>
  BY <1>1 DEF Arrive, nodeVars, radioVars
<1>2. ASSUME Recv, UNCHANGED nodeVars
      PROVE  /\ gpc = "recv" /\ gpc' = "write"
             /\ udp # <<>> /\ udp' = Tail(udp) /\ frame' = Head(udp)
             /\ UNCHANGED <<received, inbox, last>>
  BY <1>2 DEF Recv, nodeVars, radioVars
<1>3. ASSUME Write, UNCHANGED nodeVars
      PROVE  gpc = "write" /\ Write /\ UNCHANGED <<udp, received, last>>
  BY <1>3 DEF Write, nodeVars
<1>4. ASSUME Update \/ Forward \/ Drained \/ RecvNothing, UNCHANGED nodeVars
      PROVE  UNCHANGED Waiting /\ (gpc' # "write" \/ UNCHANGED <<gpc, frame>>)
  BY <1>4 DEF Update, Forward, Drained, RecvNothing, nodeVars, radioVars
<1>5. ASSUME NEW n \in Device, Handle(n)
      PROVE  Handle(n) /\ UNCHANGED <<udp, received, gpc, frame>>
  BY <1>5 DEF Handle, gatewayVars
<1>6. ASSUME NEW n \in Device, Respond(n)
      PROVE  UNCHANGED Waiting /\ (gpc' # "write" \/ UNCHANGED <<gpc, frame>>)
  BY <1>6 DEF Respond, gatewayVars
<1>7. ASSUME NEW n \in Device, Restart(n)
      PROVE  /\ inbox' = [inbox EXCEPT ![n] = <<>>]
             /\ UNCHANGED <<udp, received, gpc, frame, last>>
  BY <1>7 DEF Restart, gatewayVars
<1>8. ASSUME UNCHANGED relayVars
      PROVE  UNCHANGED Waiting /\ (gpc' # "write" \/ UNCHANGED <<gpc, frame>>)
  BY <1>8 DEF relayVars, radioVars, gatewayVars, nodeVars
<1> QED
  BY <1>1, <1>2, <1>3, <1>4, <1>5, <1>6, <1>7, <1>8
     DEF RelayNext, Gateway, Loop, NodeLoop

\* A request that was no later than those to come stays so.
LEMMA NotLaterKept ==
  ASSUME NodeTypeOK, [RelayNext]_relayVars, NEW k \in Nat, NotLater(k)
  PROVE  NotLater(k)'
<1> USE DEF NotLater
<1>0. udp \in Seq(Frame) /\ received \in Nat
  BY DEF NodeTypeOK, GatewayTypeOK
<1>1. ASSUME NEW q \in Question,
             udp' = Append(udp, [q EXCEPT !.id = received + 1]),
             received' = received + 1, UNCHANGED <<gpc, frame>>
      PROVE  NotLater(k)'
  <2>1. /\ [q EXCEPT !.id = received + 1] \in Frame
        /\ [q EXCEPT !.id = received + 1].id = received + 1
    BY <1>0, Numbered
  <2>2. \A i \in DOMAIN udp' :
          (i \in DOMAIN udp /\ udp'[i] = udp[i]) \/ udp'[i].id = received + 1
    BY <1>0, <1>1, <2>1, AppendAt
  <2> QED
    BY <1>0, <1>1, <2>2
<1>2. ASSUME gpc = "recv", udp # <<>>, udp' = Tail(udp), frame' = Head(udp),
             UNCHANGED received
      PROVE  NotLater(k)'
  BY <1>0, <1>2, TailAt
<1>3. ASSUME gpc = "write", Write, UNCHANGED <<udp, received>>
      PROVE  NotLater(k)'
  BY <1>3, WriteStep
<1>4. ASSUME UNCHANGED <<udp, received>>, gpc' # "write" \/ UNCHANGED <<gpc, frame>>
      PROVE  NotLater(k)'
  BY <1>4
<1> QED
  BY <1>1, <1>2, <1>3, <1>4, RequestStep DEF Waiting

LEMMA RequestsStay ==
  ASSUME NodeTypeOK, RequestsInOrder, [RelayNext]_relayVars
  PROVE  RequestsInOrder'
<1>0. udp \in Seq(Frame) /\ received \in Nat
  BY DEF NodeTypeOK, GatewayTypeOK
<1>1. ASSUME NEW q \in Question,
             udp' = Append(udp, [q EXCEPT !.id = received + 1]),
             received' = received + 1
      PROVE  Sorted(udp)' /\ (\A i \in DOMAIN udp : udp[i].id <= received)'
  <2>1. /\ [q EXCEPT !.id = received + 1] \in Frame
        /\ [q EXCEPT !.id = received + 1].id = received + 1
    BY <1>0, Numbered
  <2>2. \A i \in DOMAIN udp' :
          \/ i \in DOMAIN udp /\ udp'[i] = udp[i]
          \/ udp'[i].id = received + 1 /\ \A j \in DOMAIN udp' : j <= i
    BY <1>0, <1>1, <2>1, AppendAt
  <2>3. \A i \in DOMAIN udp : udp[i].id <= received /\ udp[i].id \in Nat
    <3>1. \A i \in DOMAIN udp : udp[i] \in Frame
      BY <1>0
    <3> QED
      BY <3>1 DEF RequestsInOrder, Frame
  <2>4. DOMAIN udp' \subseteq Nat
    BY <1>0, <1>1, <2>1, AppendAt
  <2> QED
    BY <1>0, <1>1, <2>2, <2>3, <2>4 DEF RequestsInOrder, Sorted
<1>2. ASSUME udp # <<>>, udp' = Tail(udp), frame' = Head(udp),
             gpc' = "write", UNCHANGED received
      PROVE  RequestsInOrder'
  <2>1. Head(udp).id \in Nat /\ 1 \in DOMAIN udp /\ Head(udp) = udp[1]
    <3>1. Head(udp) \in Frame
      BY <1>0, <1>2, TailAt
    <3> QED
      BY <1>0, <1>2, <3>1, TailAt DEF Frame
  <2>2. \A i \in DOMAIN udp' :
          i \in Nat \ {0} /\ i + 1 \in DOMAIN udp /\ udp'[i] = udp[i + 1]
    BY <1>0, <1>2, TailAt
  <2>3. Sorted(udp)' /\ (\A i \in DOMAIN udp : udp[i].id <= received)'
    BY <1>2, <2>2 DEF RequestsInOrder, Sorted
  <2>4. \A i \in DOMAIN udp' : Head(udp).id <= udp'[i].id
    <3>1. \A i \in DOMAIN udp' : 1 < i + 1
      BY <2>2
    <3> QED
      BY <2>1, <2>2, <3>1 DEF RequestsInOrder, Sorted
  <2>5. NotLater(frame.id)'
    BY <1>2, <2>1, <2>4 DEF RequestsInOrder, NotLater
  <2> QED
    BY <2>3, <2>5 DEF RequestsInOrder
<1>3. ASSUME UNCHANGED <<udp, received>>,
             gpc' = "write" => gpc = "write" /\ frame' = frame
      PROVE  RequestsInOrder'
  BY <1>3 DEF RequestsInOrder, Sorted, NotLater
<1>4. ASSUME UNCHANGED <<gpc, frame>>, gpc' = "write"
      PROVE  NotLater(frame.id)'
  <2>1. frame.id \in Nat /\ NotLater(frame.id)
    BY <1>4 DEF NodeTypeOK, GatewayTypeOK, RequestsInOrder, Frame
  <2>2. (frame').id = frame.id
    BY <1>4
  <2>3. \A k \in Nat : NotLater(k) => NotLater(k)'
    BY NotLaterKept
  <2> QED
    BY <1>4, <2>1, <2>2, <2>3 DEF NotLater
<1> QED
  BY <1>1, <1>2, <1>3, <1>4, RequestStep, WriteStep DEF Waiting, RequestsInOrder

-----------------------------------------------------------------------------
(* The order of frames and commands *)

LEMMA FramesStay ==
  ASSUME NodeTypeOK, RequestsInOrder, FramesInOrder, [RelayNext]_relayVars
  PROVE  FramesInOrder' /\ \A n \in Device : last'[n] >= last[n]
<1>0. /\ inbox \in [Device -> Seq(Frame)] /\ last \in [Device -> Nat]
      /\ gpc = "write" => frame \in Frame
  BY DEF NodeTypeOK, RadioTypeOK, GatewayTypeOK
<1>1. \A n \in Device : \A i \in DOMAIN inbox[n] : inbox[n][i].id \in Nat
  <2>1. \A n \in Device : \A i \in DOMAIN inbox[n] : inbox[n][i] \in Frame
    BY <1>0
  <2> QED
    BY <2>1 DEF Frame
<1>2. \A k \in Nat : NotLater(k) => NotLater(k)'
  BY NotLaterKept
<1>3. \A n \in Device : FramesOf(n) /\ last[n] <= last[n]
  BY <1>0 DEF FramesInOrder
<1>4. ASSUME NEW n \in Device, inbox'[n] = inbox[n], last'[n] = last[n]
      PROVE  FramesOf(n)' /\ last'[n] >= last[n]
  BY <1>0, <1>1, <1>2, <1>3, <1>4 DEF FramesOf, Sorted
<1>5. ASSUME NEW n \in Device, inbox'[n] = <<>>, last'[n] = last[n]
      PROVE  FramesOf(n)' /\ last'[n] >= last[n]
  BY <1>0, <1>2, <1>3, <1>5 DEF FramesOf, Sorted
<1>6. ASSUME gpc = "write", Write, UNCHANGED last,
             NEW n \in Device, n = frame.node,
             inbox'[n] = Append(inbox[n], frame)
      PROVE  FramesOf(n)' /\ last'[n] >= last[n]
  <2>1. frame \in Frame /\ frame.id \in Nat /\ NotLater(frame.id)
    BY <1>0, <1>6 DEF RequestsInOrder, Frame
  <2>2. /\ \A i \in DOMAIN inbox'[n] :
             \/ i \in DOMAIN inbox[n] /\ inbox'[n][i] = inbox[n][i]
             \/ /\ inbox'[n][i] = frame
                /\ \A j \in DOMAIN inbox'[n] : j <= i
        /\ DOMAIN inbox'[n] \subseteq Nat
    BY <1>0, <1>6, <2>1, AppendAt
  <2>3. /\ last[n] <= frame.id
        /\ \A i \in DOMAIN inbox[n] : inbox[n][i].id <= frame.id
    BY <1>3, <1>6 DEF FramesOf, NotLater
  <2>4. Sorted(inbox[n])'
    BY <1>1, <1>3, <2>1, <2>2, <2>3 DEF FramesOf, Sorted
  <2>5. (\A i \in DOMAIN inbox[n] : /\ inbox[n][i].node = n
                                   /\ last[n] <= inbox[n][i].id
                                   /\ NotLater(inbox[n][i].id))'
    BY <1>1, <1>2, <1>3, <1>6, <2>1, <2>2, <2>3 DEF FramesOf, NotLater
  <2>6. NotLater(last[n])'
    BY <1>0, <1>2, <1>3, <1>6 DEF FramesOf, NotLater
  <2> QED
    BY <1>0, <1>6, <2>4, <2>5, <2>6 DEF FramesOf
<1>7. ASSUME NEW n \in Device, Handle(n)
      PROVE  /\ FramesOf(n)' /\ last'[n] >= last[n]
             /\ \A k \in Device \ {n} : inbox'[k] = inbox[k] /\ last'[k] = last[k]
  <2>1. /\ inbox[n] # <<>> /\ inbox[n] \in Seq(Frame)
        /\ inbox' = [inbox EXCEPT ![n] = Tail(inbox[n])]
        /\ last' = [last EXCEPT ![n] = Head(inbox[n]).id]
    BY <1>0, <1>7 DEF Handle, Act
  <2>2. /\ 1 \in DOMAIN inbox[n] /\ Head(inbox[n]) = inbox[n][1]
        /\ \A i \in DOMAIN inbox'[n] :
             /\ i \in Nat \ {0} /\ i + 1 \in DOMAIN inbox[n]
             /\ inbox'[n][i] = inbox[n][i + 1]
    BY <1>0, <2>1, TailAt
  <2>3. last'[n] = inbox[n][1].id /\ last'[n] \in Nat
    BY <1>0, <1>1, <2>1, <2>2
  <2>4. last'[n] >= last[n] /\ NotLater(last[n])'
    <3>1. /\ inbox[n][1].id \in Nat /\ last[n] <= inbox[n][1].id
          /\ NotLater(inbox[n][1].id)
      BY <1>1, <1>3, <2>2 DEF FramesOf
    <3>2. \A k \in Nat : NotLater(k) /\ last'[n] = k => NotLater(last[n])'
      BY <1>2 DEF NotLater
    <3> QED
      BY <1>0, <2>3, <3>1, <3>2
  <2>5. Sorted(inbox[n])'
    BY <1>3, <2>2 DEF FramesOf, Sorted
  <2>6. (\A i \in DOMAIN inbox[n] : /\ inbox[n][i].node = n
                                   /\ last[n] <= inbox[n][i].id
                                   /\ NotLater(inbox[n][i].id))'
    <3>1. \A i \in DOMAIN inbox'[n] : 1 < i + 1
      BY <2>2
    <3> QED
      BY <1>1, <1>2, <1>3, <2>2, <2>3, <3>1 DEF FramesOf, Sorted, NotLater
  <2> QED
    BY <1>0, <2>1, <2>4, <2>5, <2>6 DEF FramesOf
<1>8. ASSUME gpc = "write", Write, UNCHANGED last, NEW n \in Device
      PROVE  FramesOf(n)' /\ last'[n] >= last[n]
  BY <1>4, <1>6, <1>8, WriteStep
<1>9. ASSUME NEW k \in Device, NEW n \in Device,
             inbox' = [inbox EXCEPT ![k] = <<>>], UNCHANGED last
      PROVE  FramesOf(n)' /\ last'[n] >= last[n]
  BY <1>0, <1>4, <1>5, <1>9
<1>10. ASSUME NEW n \in Device
       PROVE  FramesOf(n)' /\ last'[n] >= last[n]
  BY <1>4, <1>7, <1>8, <1>9, RequestStep DEF Waiting
<1> QED
  BY <1>10 DEF FramesInOrder

-----------------------------------------------------------------------------
(* The order of answers *)

\* Answers on their way are datagrams, numbered.
LEMMA AnswersTyped ==
  ASSUME NodeTypeOK
  PROVE  /\ \A i \in DOMAIN queue : queue[i].re \in Nat
         /\ \A i \in DOMAIN air : air[i].re \in Nat
         /\ \A n \in Device : sent[n] # NoMsg => sent[n].re \in Nat
         /\ \A n \in Device : out[n] # NoMsg => out[n].re \in Nat
         /\ last \in [Device -> Nat]
<1>1. /\ queue \in Seq(Reply) /\ air \in Seq(Reply)
      /\ sent \in [Device -> Reply \cup {NoMsg}]
      /\ out \in [Device -> Reply \cup {NoMsg}]
  BY DEF NodeTypeOK, RadioTypeOK, GatewayTypeOK
<1>2. \A m \in Reply : m.re \in Nat
  BY DEF Reply
<1>3. /\ \A i \in DOMAIN queue : queue[i] \in Reply
      /\ \A i \in DOMAIN air : air[i] \in Reply
  BY <1>1
<1> QED
  BY <1>1, <1>2, <1>3 DEF NodeTypeOK

\* Only Forward tells the server anything: the oldest answer taken in.
LEMMA SentStep ==
  ASSUME NodeTypeOK, Ordered(queue), Forward
  PROVE  /\ 1 \in DOMAIN queue
         /\ \A n \in Device :
              \/ sent'[n] = sent[n]
              \/ n = queue[1].node /\ sent'[n] = queue[1] /\ queue[1] \in Reply
<1>1. queue \in Seq(Reply) /\ sent \in [Device -> Reply \cup {NoMsg}]
  BY DEF NodeTypeOK, GatewayTypeOK
<1>2. /\ 1 \in DOMAIN queue /\ Head(queue) = queue[1] /\ queue[1] \in Reply
  BY <1>1, TailAt DEF Forward
<1>3. queue[1].node \in Device
  BY <1>2 DEF Ordered
<1>4. sent' = sent \/ sent' = [sent EXCEPT ![queue[1].node] = queue[1]]
  BY <1>2 DEF Forward
<1> QED
  BY <1>1, <1>2, <1>3, <1>4

LEMMA AnswersStay ==
  ASSUME FlowInv, [RelayNext]_relayVars, NodeTypeOK',
         \A n \in Device : last'[n] >= last[n]
  PROVE  AnswersFlow'
<1> USE AnswersTyped DEF FlowInv
<1>0. queue \in Seq(Reply) /\ air \in Seq(Reply)
  BY DEF NodeTypeOK, RadioTypeOK, GatewayTypeOK
<1>1. ASSUME UNCHANGED <<sent, queue, air, last>>,
             \A n \in Device : out'[n] \in {out[n], NoMsg}
      PROVE  AnswersFlow'
  BY <1>1 DEF AnswersFlow, Ordered
<1>2. ASSUME NEW n \in Device, Handle(n)
      PROVE  AnswersFlow'
  <2>1. /\ inbox[n] # <<>> /\ inbox[n] \in Seq(Frame)
        /\ Act(n, Head(inbox[n])) /\ UNCHANGED <<sent, queue, air>>
    BY <1>2 DEF Handle, gatewayVars, NodeTypeOK, RadioTypeOK
  <2>2. /\ Head(inbox[n]) \in Frame /\ 1 \in DOMAIN inbox[n]
        /\ Head(inbox[n]) = inbox[n][1]
    BY <2>1, TailAt
  <2>3. Head(inbox[n]).node = n
    BY <2>2 DEF FramesInOrder, FramesOf
  <2>4. PICK m \in Reply : /\ m.node = n /\ m.re = Head(inbox[n]).id
                            /\ out' = [out EXCEPT ![n] = m]
    BY <2>1, <2>2, <2>3, ActStep
  <2>5. last' = [last EXCEPT ![n] = Head(inbox[n]).id]
    BY <2>1 DEF Act
  <2>6. \A k \in Device : out'[k] # NoMsg => out'[k].node = k /\ out'[k].re = last'[k]
    BY <2>4, <2>5 DEF AnswersFlow, NodeTypeOK
  <2>7. Ordered(queue)' /\ Ordered(air)'
    BY <2>1 DEF AnswersFlow, Ordered, NodeTypeOK
  <2> QED
    BY <2>1, <2>6, <2>7 DEF AnswersFlow, NodeTypeOK
<1>3. ASSUME Update, UNCHANGED nodeVars
      PROVE  AnswersFlow'
  <2>1. /\ queue' = queue \o air /\ air' = <<>>
        /\ UNCHANGED <<sent, out, last>>
    BY <1>3 DEF Update, nodeVars
  <2>2. /\ \A i \in DOMAIN queue' :
             \/ i \in DOMAIN queue /\ queue'[i] = queue[i]
             \/ /\ i - Len(queue) \in DOMAIN air
                /\ queue'[i] = air[i - Len(queue)] /\ i > Len(queue)
        /\ DOMAIN queue = 1 .. Len(queue) /\ Len(queue) \in Nat
        /\ DOMAIN queue' \subseteq Nat
    BY <1>0, <2>1, ConcatAt
  <2>3. \A i, j \in DOMAIN queue' :
          i < j /\ queue'[i].node = queue'[j].node => queue'[i].re <= queue'[j].re
    <3> SUFFICES ASSUME NEW i \in DOMAIN queue', NEW j \in DOMAIN queue',
                        i < j, queue'[i].node = queue'[j].node
                 PROVE  queue'[i].re <= queue'[j].re
      OBVIOUS
    <3> USE <2>2 DEF AnswersFlow, Ordered
    <3>1. CASE i \in DOMAIN queue /\ j \in DOMAIN queue
      <4>1. queue'[i] = queue[i] /\ queue'[j] = queue[j]
        BY <3>1
      <4> QED
        BY <3>1, <4>1
    <3>2. CASE i \in DOMAIN queue /\ j > Len(queue)
      <4>1. /\ queue'[i] = queue[i]
            /\ j - Len(queue) \in DOMAIN air /\ queue'[j] = air[j - Len(queue)]
        BY <3>2
      <4> QED
        BY <3>2, <4>1
    <3>3. CASE i > Len(queue) /\ j > Len(queue)
      <4>1. /\ i - Len(queue) \in DOMAIN air /\ queue'[i] = air[i - Len(queue)]
            /\ j - Len(queue) \in DOMAIN air /\ queue'[j] = air[j - Len(queue)]
            /\ i - Len(queue) < j - Len(queue)
        BY <3>3
      <4> QED
        BY <4>1
    <3> QED
      BY <3>1, <3>2, <3>3
  <2>4. Ordered(queue)'
    BY <2>1, <2>2, <2>3 DEF AnswersFlow, Ordered
  <2>5. Ordered(air)'
    BY <2>1 DEF Ordered
  <2> QED
    BY <2>1, <2>4, <2>5 DEF AnswersFlow
<1>4. ASSUME Forward, UNCHANGED nodeVars
      PROVE  AnswersFlow'
  <2>1. /\ queue # <<>> /\ queue' = Tail(queue)
        /\ UNCHANGED <<air, out, last>>
    BY <1>4 DEF Forward, nodeVars, radioVars
  <2>2. /\ 1 \in DOMAIN queue /\ Head(queue) = queue[1]
        /\ \A i \in DOMAIN queue' :
             /\ i \in Nat \ {0} /\ i + 1 \in DOMAIN queue
             /\ queue'[i] = queue[i + 1] /\ 1 < i + 1
    BY <1>0, <2>1, TailAt
  <2>3. \A n \in Device :
          sent'[n] = sent[n] \/ (n = queue[1].node /\ sent'[n] = queue[1])
    BY <1>4, SentStep DEF AnswersFlow
  <2>4. Ordered(queue)'
    BY <2>1, <2>2, <2>3 DEF AnswersFlow, Ordered
  <2>5. Ordered(air)'
    BY <2>1, <2>2, <2>3 DEF AnswersFlow, Ordered
  <2> QED
    BY <2>1, <2>2, <2>3, <2>4, <2>5 DEF AnswersFlow, Ordered
<1>5. ASSUME NEW n \in Device, Respond(n)
      PROVE  AnswersFlow'
  <2>1. /\ out[n] \in Reply /\ air' \in {air, Append(air, out[n])}
        /\ \A k \in Device : out'[k] \in {out[k], NoMsg}
        /\ UNCHANGED <<queue, sent, last>>
    BY <1>5, RespondStep DEF Respond, gatewayVars
  <2>2. CASE air' = air
    BY <1>1, <2>1, <2>2
  <2>3. CASE air' = Append(air, out[n])
    <3>1. /\ out[n].node = n /\ out[n].re = last[n] /\ out[n].re \in Nat
      BY <2>1, RadioAssumption DEF AnswersFlow
    <3>2. /\ \A i \in DOMAIN air' :
               \/ i \in DOMAIN air /\ air'[i] = air[i]
               \/ air'[i] = out[n] /\ \A j \in DOMAIN air' : j <= i
          /\ DOMAIN air' \subseteq Nat
      BY <1>0, <2>1, <2>3, AppendAt
    <3>3. Ordered(air)'
      BY <2>1, <3>1, <3>2 DEF AnswersFlow, Ordered
    <3>4. Ordered(queue)'
      BY <2>1 DEF AnswersFlow, Ordered
    <3> QED
      BY <2>1, <3>1, <3>2, <3>3, <3>4 DEF AnswersFlow, Ordered
  <2> QED
    BY <2>1, <2>2, <2>3
<1>6. ASSUME NEW q \in Question, Arrive(q), UNCHANGED nodeVars
      PROVE  AnswersFlow'
  BY <1>1, <1>6 DEF Arrive, nodeVars, radioVars
<1>7. ASSUME Drained \/ Recv \/ RecvNothing, UNCHANGED nodeVars
      PROVE  AnswersFlow'
  BY <1>1, <1>7 DEF Drained, Recv, RecvNothing, nodeVars, radioVars
<1>8. ASSUME Write, UNCHANGED nodeVars
      PROVE  AnswersFlow'
  <2>1. gpc = "write" /\ UNCHANGED <<sent, queue, air, last, out>>
    BY <1>8, WriteStep DEF Write, nodeVars
  <2> QED
    BY <1>1, <2>1
<1>9. ASSUME NEW n \in Device, Restart(n)
      PROVE  AnswersFlow'
  BY <1>1, <1>9 DEF Restart, gatewayVars, NodeTypeOK
<1>10. ASSUME UNCHANGED relayVars
       PROVE  AnswersFlow'
  BY <1>1, <1>10 DEF relayVars, radioVars, gatewayVars, nodeVars
<1> QED
  BY <1>2, <1>3, <1>4, <1>5, <1>6, <1>7, <1>8, <1>9, <1>10
     DEF RelayNext, Gateway, Loop, NodeLoop

-----------------------------------------------------------------------------
(* The theorems *)

LEMMA FlowInit == NodeInit => FlowInv
<1> SUFFICES ASSUME NodeInit PROVE FlowInv
  OBVIOUS
<1>1. NodeTypeOK
  BY TypeInit
<1>2. RequestsInOrder /\ FramesInOrder
  BY DEF NodeInit, RadioInit, GatewayInit, RequestsInOrder, FramesInOrder,
         FramesOf, Sorted, NotLater
<1>3. AnswersFlow
  BY DEF NodeInit, RadioInit, GatewayInit, AnswersFlow, Ordered
<1> QED
  BY <1>1, <1>2, <1>3 DEF FlowInv

LEMMA FlowStep == FlowInv /\ [RelayNext]_relayVars => FlowInv'
BY TypeStep, RequestsStay, FramesStay, AnswersStay DEF FlowInv

\* From the server's socket to the nodes and back, nothing overtakes anything.
THEOREM FlowInOrder == RelaySpec => []FlowInv
BY FlowInit, FlowStep, PTL DEF RelaySpec

\* A node never acts on an older request after a newer one.
THEOREM NoCommandIsStale == RelaySpec => NoStaleCommand
<1>1. FlowInv /\ [RelayNext]_relayVars
        => [\A n \in Device : last'[n] >= last[n]]_relayVars
  BY FramesStay DEF FlowInv
<1> QED
  BY <1>1, FlowInOrder, PTL DEF RelaySpec, NoStaleCommand

\* The last answer the server has of a node is the latest there is.
THEOREM AnswersAreInOrder == RelaySpec => AnswersInOrder
<1>1. ASSUME FlowInv, [RelayNext]_relayVars, NEW n \in Device, sent[n] # NoMsg
      PROVE  sent'[n] # NoMsg /\ sent'[n].re >= sent[n].re
  <2>1. Ordered(queue) /\ NodeTypeOK /\ sent[n].re \in Nat
    BY <1>1, AnswersTyped DEF FlowInv, AnswersFlow
  <2>2. CASE Forward
    <3>1. PICK m \in Reply \cup {NoMsg} : m = sent'[n] /\
            \/ m = sent[n]
            \/ n = queue[1].node /\ m = queue[1] /\ m \in Reply
      BY <2>1, <2>2, SentStep DEF NodeTypeOK, GatewayTypeOK
    <3> QED
      BY <1>1, <2>1, <2>2, <3>1, SentStep, RadioAssumption DEF Ordered
  <2>3. CASE ~Forward
    <3>1. sent' = sent
      BY <1>1, <2>3 DEF RelayNext, Gateway, Loop, NodeLoop, Arrive, Update, Drained,
         Recv, RecvNothing, Write, Handle, Respond, Restart, gatewayVars, relayVars
    <3> QED
      BY <1>1, <2>1, <3>1
  <2> QED
    BY <2>2, <2>3
<1>2. FlowInv /\ [RelayNext]_relayVars
        => [\A n \in Device :
             sent[n] # NoMsg =>
               sent'[n] # NoMsg /\ sent'[n].re >= sent[n].re]_relayVars
  BY <1>1
<1> QED
  BY <1>2, FlowInOrder, PTL DEF RelaySpec, AnswersInOrder

-----------------------------------------------------------------------------
(* Commands and answers *)

\* A truthful answer stays truthful when the commands are forgotten or a
\* command after its question is executed.
LEMMA TruthStays ==
  ASSUME NEW C \in SUBSET Frame, NEW D \in SUBSET Frame, NEW m,
         Truthful(C, m),
         m # NoMsg => m.re \in Nat,
         \/ D = {}
         \/ /\ C \subseteq D
            /\ m # NoMsg => \A q \in D \ C : q.id >= m.re
  PROVE  Truthful(D, m)
<1> SUFFICES ASSUME m # NoMsg, m.type = "GET_RP", NEW q \in D,
                    LastOf(q, {r \in D : r.pay = m.reg /\ r.id < m.re})
             PROVE  m.pay = Position(q)
  BY DEF Truthful
<1>1. C \subseteq D /\ \A r \in D \ C : r.id >= m.re
  OBVIOUS
<1>2. \A r \in D : r.id \in Nat
  BY DEF Frame
<1>3. \A r \in D : r.id < m.re => r \in C
  BY <1>1, <1>2
<1>4. {r \in D : r.pay = m.reg /\ r.id < m.re}
        = {r \in C : r.pay = m.reg /\ r.id < m.re}
  BY <1>1, <1>3
<1>5. q \in C
  BY <1>3 DEF LastOf
<1> QED
  BY <1>4, <1>5 DEF Truthful

\* After the newest command, the entries follow.
LEMMA FollowNewest ==
  ASSUME NEW C \in SUBSET Frame, NEW q \in Frame, NEW old \in [Pin -> PinRecord],
         NEW new \in [Pin -> PinRecord],
         Follow(old, C),
         \A r \in C : r.pay \in Pin /\ r.id <= q.id /\ (r.id = q.id => r = q),
         q.pay \in Pin,
         new[q.pay].state = Position(q),
         \A p \in Pin \ {q.pay} : new[p] = old[p]
  PROVE  Follow(new, C \cup {q})
<1> SUFFICES ASSUME NEW s \in C \cup {q},
                    LastOf(s, {r \in C \cup {q} : r.pay = s.pay})
             PROVE  new[s.pay].state = Position(s)
  BY DEF Follow
<1>1. \A r \in C \cup {q} : r.id \in Nat
  BY DEF Frame
<1>2. CASE s.pay = q.pay
  <2>1. q.id <= s.id
    BY <1>2 DEF LastOf
  <2>2. s = q
    BY <1>1, <2>1
  <2> QED
    BY <2>2
<1>3. CASE s.pay # q.pay
  <2>1. s \in C /\ new[s.pay] = old[s.pay]
    BY <1>3
  <2>2. {r \in C \cup {q} : r.pay = s.pay} = {r \in C : r.pay = s.pay}
    BY <1>3
  <2> QED
    BY <2>1, <2>2 DEF Follow
<1> QED
  BY <1>2, <1>3

\* The answer to q read from entries that follow the commands is truthful.
LEMMA GottenTruthful ==
  ASSUME NodeTypeOK, NEW n \in Device, NEW q \in Frame,
         Follow(pins[n], executed[n]),
         \A r \in executed[n] :
           /\ IsRelayCommand(r) /\ r.pay \in Pin /\ r.id <= q.id
           /\ r.id = q.id => r = q,
         NEW v \in IF q.type = "GET_RQ" THEN Gotten(n, q.reg) ELSE {q.pay}
  PROVE  Truthful(executed[n], Answer(q, v))
<1> DEFINE m == Answer(q, v)
<1>1. m.reg = q.reg /\ m.re = q.id /\ m.pay = v
  BY DEF Answer
<1>2. m.type = "GET_RP" => q.type = "GET_RQ"
  <2>1. m.type = AnswerType(q.type) /\ q.type \in RequestType
    BY DEF Answer, Frame
  <2> QED
    BY <2>1 DEF AnswerType, RequestType
<1> HIDE DEF m
<1> SUFFICES ASSUME q.type = "GET_RQ", NEW s \in executed[n],
                    LastOf(s, {r \in executed[n] : r.pay = q.reg /\ r.id < q.id})
             PROVE  v = Position(s)
  BY <1>1, <1>2 DEF Truthful, m
<1>3. \A r \in executed[n] : r.id \in Nat /\ r.id < q.id
  <2>1. \A r \in executed[n] : r \in Frame /\ r # q
    BY DEF NodeTypeOK, IsRelayCommand
  <2> QED
    BY <2>1 DEF Frame
<1>4. {r \in executed[n] : r.pay = q.reg /\ r.id < q.id}
        = {r \in executed[n] : r.pay = s.pay} /\ s.pay = q.reg
  BY <1>3 DEF LastOf
<1>5. pins[n][q.reg].state = Position(s) /\ q.reg \in Pin
  BY <1>4 DEF Follow
<1>6. q.reg \notin SensorReg
  BY <1>5, NodeAssumption DEF SensorReg
<1>7. Position(s) # 128
  BY DEF Position
<1> QED
  BY <1>5, <1>6, <1>7 DEF Gotten

-----------------------------------------------------------------------------
(* One request per id *)

\* A request enters play only when the gateway takes it from its socket.
LEMMA PlayStep ==
  ASSUME FlowInv, [RelayNext]_relayVars
  PROVE  \/ /\ InPlay' \subseteq InPlay
            /\ UNCHANGED <<udp, received>>
         \/ \E q \in Question :
              /\ InPlay' \subseteq InPlay
              /\ udp' = Append(udp, [q EXCEPT !.id = received + 1])
              /\ received' = received + 1
         \/ /\ udp # <<>> /\ udp' = Tail(udp) /\ UNCHANGED received
            /\ \A f \in InPlay' : f \in InPlay \/ f = Head(udp)
<1> USE DEF InPlay, Writing, Unread, FlowInv
<1>0. /\ inbox \in [Device -> Seq(Frame)]
      /\ executed \in [Device -> SUBSET Frame]
  BY DEF NodeTypeOK, RadioTypeOK
<1>1. ASSUME NEW q \in Question, Arrive(q), UNCHANGED nodeVars
      PROVE  /\ InPlay' = InPlay
             /\ udp' = Append(udp, [q EXCEPT !.id = received + 1])
             /\ received' = received + 1
  BY <1>1 DEF Arrive, nodeVars, radioVars
<1>2. ASSUME Update \/ Forward \/ Drained \/ RecvNothing, UNCHANGED nodeVars
      PROVE  InPlay' \subseteq InPlay /\ UNCHANGED <<udp, received>>
  BY <1>2 DEF Update, Forward, Drained, RecvNothing, nodeVars, radioVars
<1>3. ASSUME Recv, UNCHANGED nodeVars
      PROVE  /\ \A f \in InPlay' : f \in InPlay \/ f = Head(udp)
             /\ udp # <<>> /\ udp' = Tail(udp) /\ received' = received
  BY <1>3 DEF Recv, nodeVars, radioVars
<1>4. ASSUME Write, UNCHANGED nodeVars
      PROVE  InPlay' \subseteq InPlay /\ UNCHANGED <<udp, received>>
  <2>1. /\ gpc = "write" /\ UNCHANGED <<udp, received, executed>>
        /\ gpc' = "write" => frame' = frame
    BY <1>4, WriteStep DEF Write, nodeVars
  <2>2. ASSUME NEW n \in Device, NEW i \in DOMAIN inbox'[n]
        PROVE  inbox'[n][i] \in InPlay
    <3>1. \/ inbox'[n] = inbox[n]
          \/ inbox'[n] = Append(inbox[n], frame) /\ frame \in Frame
      BY <1>4, <2>1, WriteStep
    <3>2. \/ i \in DOMAIN inbox[n] /\ inbox'[n][i] = inbox[n][i]
          \/ inbox'[n][i] = frame
      BY <1>0, <2>2, <3>1, AppendAt
    <3> QED
      BY <2>1, <3>2
  <2> QED
    BY <2>1, <2>2
<1>5. ASSUME NEW n \in Device, Handle(n)
      PROVE  InPlay' \subseteq InPlay /\ UNCHANGED <<udp, received>>
  <2>1. /\ inbox[n] # <<>> /\ inbox[n] \in Seq(Frame)
        /\ inbox' = [inbox EXCEPT ![n] = Tail(inbox[n])]
        /\ UNCHANGED <<gpc, frame, udp, received>>
        /\ \/ executed' = executed
           \/ executed' = [executed EXCEPT ![n] = @ \cup {Head(inbox[n])}]
    BY <1>0, <1>5 DEF Handle, Act, gatewayVars
  <2>2. /\ 1 \in DOMAIN inbox[n] /\ Head(inbox[n]) = inbox[n][1]
        /\ \A i \in DOMAIN Tail(inbox[n]) :
             i + 1 \in DOMAIN inbox[n] /\ Tail(inbox[n])[i] = inbox[n][i + 1]
    BY <2>1, TailAt
  <2>3. \A k \in Device : Unread(k)' \subseteq Unread(k)
    BY <1>0, <2>1, <2>2
  <2>4. \A k \in Device : executed'[k] \subseteq executed[k] \cup Unread(k)
    BY <1>0, <2>1, <2>2
  <2>5. Writing' = Writing
    BY <2>1
  <2> QED
    BY <2>1, <2>3, <2>4, <2>5
<1>6. ASSUME NEW n \in Device, Respond(n)
      PROVE  InPlay' = InPlay /\ UNCHANGED <<udp, received>>
  BY <1>6 DEF Respond, gatewayVars
<1>7. ASSUME NEW n \in Device, Restart(n)
      PROVE  InPlay' \subseteq InPlay /\ UNCHANGED <<udp, received>>
  <2>1. /\ UNCHANGED <<gpc, frame, udp, received>>
        /\ \A k \in Device : Unread(k)' \subseteq Unread(k)
                             /\ executed'[k] \subseteq executed[k]
    BY <1>0, <1>7 DEF Restart, gatewayVars
  <2>2. Writing' = Writing
    BY <2>1
  <2> QED
    BY <2>1, <2>2
<1>8. ASSUME UNCHANGED relayVars
      PROVE  InPlay' = InPlay /\ UNCHANGED <<udp, received>>
  BY <1>8 DEF relayVars, radioVars, gatewayVars, nodeVars
<1> QED
  BY <1>1, <1>2, <1>3, <1>4, <1>5, <1>6, <1>7, <1>8
     DEF RelayNext, Gateway, Loop, NodeLoop

\* What is in play, and in the socket, are numbered frames.
LEMMA PlayTyped ==
  ASSUME NodeTypeOK
  PROVE  /\ InPlay \subseteq Frame /\ udp \in Seq(Frame)
         /\ \A f \in InPlay : f.id \in Nat
         /\ \A i \in DOMAIN udp : udp[i] \in Frame /\ udp[i].id \in Nat
         /\ received \in Nat
<1>1. /\ inbox \in [Device -> Seq(Frame)] /\ udp \in Seq(Frame)
      /\ executed \in [Device -> SUBSET Frame]
      /\ gpc = "write" => frame \in Frame
  BY DEF NodeTypeOK, RadioTypeOK, GatewayTypeOK
<1>2. InPlay \subseteq Frame
  BY <1>1 DEF InPlay, Writing, Unread
<1>3. \A f \in Frame : f.id \in Nat
  BY DEF Frame
<1> QED
  BY <1>1, <1>2, <1>3 DEF NodeTypeOK, GatewayTypeOK

LEMMA IdsStay ==
  ASSUME FlowInv, OneRequestPerId, SetsPins, [RelayNext]_relayVars
  PROVE  OneRequestPerId' /\ SetsPins'
<1>0. NodeTypeOK
  BY DEF FlowInv
<1>1. /\ udp \in Seq(Frame) /\ received \in Nat
      /\ \A f \in InPlay : f.id \in Nat
      /\ \A i \in DOMAIN udp : udp[i] \in Frame /\ udp[i].id \in Nat
  BY <1>0, PlayTyped
<1> USE DEF OneRequestPerId, SetsPins
<1>2. ASSUME InPlay' \subseteq InPlay, UNCHANGED <<udp, received>>
      PROVE  OneRequestPerId' /\ SetsPins'
  BY <1>2
<1>3. ASSUME NEW q \in Question, InPlay' \subseteq InPlay,
             udp' = Append(udp, [q EXCEPT !.id = received + 1]),
             received' = received + 1
      PROVE  OneRequestPerId' /\ SetsPins'
  <2> DEFINE f == [q EXCEPT !.id = received + 1]
  <2>1. /\ f \in Frame /\ f.id = received + 1
    <3>1. received + 1 \in Nat
      BY <1>1
    <3> QED
      BY <1>3, <3>1, Numbered
  <2>2. f.type = "SET_RQ" => f.pay \in Pin
    <3>1. q \in Frame
      BY GatewayAssumption
    <3>2. f.type = q.type /\ f.pay = q.pay
      BY <3>1 DEF Frame
    <3> QED
      BY <3>2, NodeAssumption
  <2> HIDE DEF f
  <2>3. udp' = Append(udp, f)
    BY <1>3 DEF f
  <2>4. /\ \A i \in DOMAIN udp' :
             \/ i \in DOMAIN udp /\ udp'[i] = udp[i]
             \/ /\ udp'[i] = f
                /\ \A j \in DOMAIN udp : j < i
                /\ \A j \in DOMAIN udp' : j <= i
        /\ DOMAIN udp' \subseteq Nat
    BY <1>1, <2>1, <2>3, AppendAt
  <2>5. \A i \in DOMAIN udp : udp[i].id <= received
    BY DEF FlowInv, RequestsInOrder
  <2>6. \A i, j \in DOMAIN udp' : i < j => udp'[i].id < udp'[j].id
    BY <1>1, <2>1, <2>4, <2>5
  <2>7. \A g \in InPlay' : /\ g.id <= received'
                           /\ \A i \in DOMAIN udp' : g.id < udp'[i].id
    BY <1>1, <1>3, <2>1, <2>4
  <2> QED
    BY <1>3, <2>2, <2>4, <2>6, <2>7
<1>4. ASSUME udp # <<>>, udp' = Tail(udp), UNCHANGED received,
             \A f \in InPlay' : f \in InPlay \/ f = Head(udp)
      PROVE  OneRequestPerId' /\ SetsPins'
  <2>1. /\ 1 \in DOMAIN udp /\ Head(udp) = udp[1]
        /\ \A i \in DOMAIN udp' :
             /\ i \in Nat \ {0} /\ i + 1 \in DOMAIN udp
             /\ udp'[i] = udp[i + 1] /\ 1 < i + 1
    BY <1>1, <1>4, TailAt
  <2>2. \A i, j \in DOMAIN udp' : i < j => udp'[i].id < udp'[j].id
    BY <2>1
  <2>3. Head(udp).id <= received
    BY <2>1 DEF FlowInv, RequestsInOrder
  <2>4. \A f \in InPlay' : /\ f.id <= received
                           /\ \A i \in DOMAIN udp' : f.id < udp'[i].id
    BY <1>4, <2>1, <2>3
  <2>5. \A f, g \in InPlay' : f.id = g.id => f = g
    <3>1. \A f \in InPlay : f.id < Head(udp).id
      BY <2>1
    <3>2. Head(udp).id \in Nat
      BY <1>1, <2>1
    <3> QED
      BY <1>1, <1>4, <3>1, <3>2
  <2>6. SetsPins'
    BY <1>4, <2>1
  <2> QED
    BY <1>4, <2>2, <2>4, <2>5, <2>6
<1> QED
  BY <1>2, <1>3, <1>4, PlayStep

-----------------------------------------------------------------------------
(* The pins, and the answers *)

\* A node executes the frame it reads: one in play, no earlier than anything
\* it executed before, and equal to what it executed under the same id.
LEMMA HandledStep ==
  ASSUME FlowInv, OneRequestPerId, SetsPins, PinsFollow,
         NEW n \in Device, Handle(n)
  PROVE  \E q \in Frame :
           /\ q = Head(inbox[n]) /\ Act(n, q) /\ q.node = n
           /\ q.type = "SET_RQ" => q.pay \in Pin
           /\ last[n] <= q.id
           /\ \A r \in executed[n] :
                /\ IsRelayCommand(r) /\ r.pay \in Pin /\ r.id <= q.id
                /\ r.id = q.id => r = q
<1>1. /\ inbox[n] # <<>> /\ inbox[n] \in Seq(Frame) /\ Act(n, Head(inbox[n]))
      /\ executed[n] \in SUBSET Frame /\ last[n] \in Nat
  BY DEF Handle, FlowInv, NodeTypeOK, RadioTypeOK
<1>2. /\ Head(inbox[n]) \in Frame /\ 1 \in DOMAIN inbox[n]
      /\ Head(inbox[n]) = inbox[n][1]
  BY <1>1, TailAt
<1>3. Head(inbox[n]) \in InPlay /\ executed[n] \subseteq InPlay
  BY <1>2 DEF InPlay, Unread
<1>4. last[n] <= Head(inbox[n]).id /\ Head(inbox[n]).node = n
  BY <1>2 DEF FlowInv, FramesInOrder, FramesOf
<1>5. \A r \in executed[n] : IsRelayCommand(r) /\ r.id <= last[n] /\ r.id \in Nat
  BY <1>1 DEF PinsFollow, Frame
<1>6. \A r \in executed[n] : r.pay \in Pin
  BY <1>3, <1>5 DEF SetsPins, IsRelayCommand
<1>7. Head(inbox[n]).id \in Nat
  BY <1>2 DEF Frame
<1> QED
  BY <1>1, <1>2, <1>3, <1>4, <1>5, <1>6, <1>7 DEF OneRequestPerId, SetsPins

LEMMA PinsStay ==
  ASSUME FlowInv, OneRequestPerId, SetsPins, PinsFollow, [RelayNext]_relayVars
  PROVE  PinsFollow'
<1>0. /\ executed \in [Device -> SUBSET Frame] /\ last \in [Device -> Nat]
      /\ pins \in [Device -> [Pin -> PinRecord]]
  BY DEF FlowInv, NodeTypeOK
<1>1. ASSUME NEW k \in Device, Handle(k), NEW n \in Device
      PROVE  /\ \A q \in executed'[n] : IsRelayCommand(q) /\ q.id <= last'[n]
             /\ Follow(pins'[n], executed'[n])
  <2>1. PICK q \in Frame :
          /\ Act(k, q) /\ (q.type = "SET_RQ" => q.pay \in Pin) /\ last[k] <= q.id
          /\ \A r \in executed[k] :
               /\ IsRelayCommand(r) /\ r.pay \in Pin /\ r.id <= q.id
               /\ r.id = q.id => r = q
    BY <1>1, HandledStep
  <2>2. last'[k] = q.id /\ q.id \in Nat
    BY <1>0, <2>1 DEF Act, Frame
  <2>3. pins' \in [Device -> [Pin -> PinRecord]]
    BY <2>1, ActStep DEF FlowInv
  <2>4. CASE n # k
    <3>1. executed'[n] = executed[n] /\ last'[n] = last[n] /\ pins'[n] = pins[n]
      BY <1>0, <2>1, <2>4 DEF Act
    <3> QED
      BY <3>1 DEF PinsFollow
  <2>5. CASE n = k /\ IsRelayCommand(q)
    <3>1. /\ q.type = "SET_RQ" /\ q.pay \in Pin
          /\ executed'[k] = executed[k] \cup {q}
          /\ pins'[k] = [pins[k] EXCEPT ![q.pay] = Switched(k, q, pins[k][q.pay])]
      BY <1>0, <2>1, <2>5 DEF Act, IsRelayCommand
    <3>2. /\ pins'[k][q.pay].state = Position(q)
          /\ \A p \in Pin \ {q.pay} : pins'[k][p] = pins[k][p]
      BY <1>0, <2>5, <3>1 DEF Switched, Position, IsRelayCommand, RELAY_ON, RELAY_OFF
    <3>3. Follow(pins[k], executed[k])
      BY DEF PinsFollow
    <3>4. Follow(pins'[k], executed[k] \cup {q})
      BY <1>0, <2>1, <2>3, <3>1, <3>2, <3>3, FollowNewest
    <3> QED
      BY <2>1, <2>2, <2>5, <3>1, <3>4
  <2>6. CASE n = k /\ ~IsRelayCommand(q)
    <3>1. executed'[k] = executed[k]
      BY <2>1, <2>6 DEF Act
    <3>2. \A p \in Pin : pins'[k][p].state = pins[k][p].state
      BY <1>0, <2>1, <2>6 DEF Act, Switched, IsRelayCommand
    <3>3. \A r \in executed[k] : r.pay \in Pin
      BY <2>1
    <3> QED
      BY <2>1, <2>2, <2>6, <3>1, <3>2, <3>3 DEF PinsFollow, Follow, LastOf
  <2> QED
    BY <2>4, <2>5, <2>6
<1>2. ASSUME NEW k \in Device, Restart(k), NEW n \in Device
      PROVE  /\ \A q \in executed'[n] : IsRelayCommand(q) /\ q.id <= last'[n]
             /\ Follow(pins'[n], executed'[n])
  <2>1. /\ executed' = [executed EXCEPT ![k] = {}] /\ last' = last
        /\ pins' = [pins EXCEPT ![k] = FreshPins]
    BY <1>2 DEF Restart
  <2> QED
    BY <1>0, <2>1 DEF PinsFollow, Follow
<1>3. CASE UNCHANGED <<executed, pins, last>>
  BY <1>3 DEF PinsFollow
<1> QED
  BY <1>1, <1>2, <1>3 DEF PinsFollow, RelayNext, Gateway, NodeLoop, Respond, nodeVars,
     relayVars

\* What a node remembers changes only when it restarts or executes a frame,
\* which is no earlier than the questions it answered.
LEMMA MemoryStep ==
  ASSUME FlowInv, OneRequestPerId, SetsPins, PinsFollow, [RelayNext]_relayVars,
         NEW n \in Device, NEW m,
         Truthful(executed[n], m), m # NoMsg => m.re \in Nat /\ m.re <= last[n]
  PROVE  Truthful(executed'[n], m)
<1>0. /\ executed[n] \in SUBSET Frame /\ last[n] \in Nat
      /\ executed'[n] \in SUBSET Frame
  BY TypeStep DEF FlowInv, NodeTypeOK
<1>1. ASSUME NEW k \in Device, Handle(k)
      PROVE  \/ executed'[n] = executed[n]
             \/ \E q \in Frame : last[n] <= q.id /\ executed'[n] = executed[n] \cup {q}
  <2>1. PICK q \in Frame : Act(k, q) /\ last[k] <= q.id
    BY <1>1, HandledStep
  <2> QED
    BY <2>1 DEF Act, FlowInv, NodeTypeOK
<1>2. ASSUME NEW k \in Device, Restart(k)
      PROVE  executed'[n] \in {{}, executed[n]}
  BY <1>2 DEF Restart, FlowInv, NodeTypeOK
<1>3. \/ executed'[n] = executed[n]
      \/ executed'[n] = {}
      \/ \E q \in Frame : last[n] <= q.id /\ executed'[n] = executed[n] \cup {q}
  BY <1>1, <1>2 DEF RelayNext, Gateway, NodeLoop, Respond, nodeVars, relayVars
<1>4. CASE executed'[n] = executed[n] \/ executed'[n] = {}
  BY <1>0, <1>4, TruthStays
<1>5. ASSUME NEW q \in Frame, last[n] <= q.id, executed'[n] = executed[n] \cup {q}
      PROVE  Truthful(executed'[n], m)
  <2>1. q.id \in Nat
    BY DEF Frame
  <2>2. m # NoMsg => q.id >= m.re
    BY <1>0, <1>5, <2>1
  <2>3. /\ executed[n] \subseteq executed'[n]
        /\ m # NoMsg => \A r \in executed'[n] \ executed[n] : r.id >= m.re
    BY <1>5, <2>2
  <2> QED
    BY <1>0, <2>3, TruthStays
<1> QED
  BY <1>3, <1>4, <1>5

\* Every answer there is, whether it was under way or is given now, is
\* truthful.
LEMMA AnswersTrue ==
  ASSUME ReadInv, [RelayNext]_relayVars
  PROVE  AllTruthful'
<1> USE DEF ReadInv
<1>0. /\ NodeTypeOK /\ NodeTypeOK'
      /\ queue \in Seq(Reply) /\ air \in Seq(Reply)
      /\ sent \in [Device -> Reply \cup {NoMsg}]
  BY TypeStep DEF FlowInv, NodeTypeOK, RadioTypeOK, GatewayTypeOK
<1>1. \A n \in Device : /\ Truthful(executed'[n], out[n])
                        /\ Truthful(executed'[n], sent[n])
  <2>1. ASSUME NEW n \in Device
        PROVE  /\ Truthful(executed[n], out[n]) /\ Truthful(executed[n], sent[n])
               /\ out[n] # NoMsg => out[n].re \in Nat /\ out[n].re <= last[n]
               /\ sent[n] # NoMsg => sent[n].re \in Nat /\ sent[n].re <= last[n]
    BY <1>0, AnswersTyped DEF AllTruthful, FlowInv, AnswersFlow
  <2> QED
    BY <2>1, MemoryStep
<1>2. /\ \A i \in DOMAIN queue : /\ queue[i].node \in Device
                                 /\ Truthful(executed'[queue[i].node], queue[i])
      /\ \A i \in DOMAIN air : /\ air[i].node \in Device
                               /\ Truthful(executed'[air[i].node], air[i])
  <2>1. ASSUME NEW i \in DOMAIN queue
        PROVE  /\ Truthful(executed[queue[i].node], queue[i])
               /\ queue[i].node \in Device
               /\ queue[i].re \in Nat /\ queue[i].re <= last[queue[i].node]
    BY <1>0, AnswersTyped DEF AllTruthful, FlowInv, AnswersFlow, Ordered
  <2>2. ASSUME NEW i \in DOMAIN air
        PROVE  /\ Truthful(executed[air[i].node], air[i])
               /\ air[i].node \in Device
               /\ air[i].re \in Nat /\ air[i].re <= last[air[i].node]
    BY <1>0, AnswersTyped DEF AllTruthful, FlowInv, AnswersFlow, Ordered
  <2> QED
    BY <2>1, <2>2, MemoryStep
<1>3. \A n \in Device : Truthful(executed'[n], NoMsg)
  BY DEF Truthful
<1>4. ASSUME UNCHANGED <<sent, queue, air>>,
             \A n \in Device : out'[n] \in {out[n], NoMsg}
      PROVE  AllTruthful'
  BY <1>1, <1>2, <1>3, <1>4 DEF AllTruthful
<1>5. ASSUME NEW k \in Device, Handle(k)
      PROVE  AllTruthful'
  <2>1. UNCHANGED <<sent, queue, air>>
    BY <1>5 DEF Handle, gatewayVars
  <2>2. PICK q \in Frame :
          /\ Act(k, q)
          /\ last[k] <= q.id
          /\ \A r \in executed[k] :
               /\ IsRelayCommand(r) /\ r.pay \in Pin /\ r.id <= q.id
               /\ r.id = q.id => r = q
    BY <1>5, HandledStep
  <2>3. PICK v \in IF q.type = "GET_RQ" THEN Gotten(k, q.reg) ELSE {q.pay} :
          out' = [out EXCEPT ![k] = Answer(q, v)]
    BY <2>2 DEF Act
  <2>4. Truthful(executed[k], Answer(q, v))
    BY <1>0, <2>2, <2>3, GottenTruthful DEF PinsFollow
  <2>5. Truthful(executed'[k], Answer(q, v))
    <3>1. CASE executed'[k] = executed[k]
      BY <2>4, <3>1
    <3>2. CASE executed'[k] # executed[k]
      <4>1. IsRelayCommand(q)
        BY <2>2, <3>2 DEF Act, NodeTypeOK, FlowInv
      <4>2. Answer(q, v).type = "SET_RP"
        BY <4>1 DEF IsRelayCommand, Answer, AnswerType
      <4> QED
        BY <4>2 DEF Truthful
    <3> QED
      BY <3>1, <3>2
  <2>6. \A n \in Device : out'[n] = IF n = k THEN Answer(q, v) ELSE out[n]
    BY <1>0, <2>3 DEF NodeTypeOK
  <2>7. \A n \in Device : Truthful(executed'[n], out'[n])
    BY <1>1, <2>5, <2>6
  <2> QED
    BY <1>1, <1>2, <2>1, <2>7 DEF AllTruthful
<1>6. ASSUME Update, UNCHANGED nodeVars
      PROVE  AllTruthful'
  <2>1. queue' = queue \o air /\ air' = <<>> /\ UNCHANGED <<sent, out>>
    BY <1>6 DEF Update, nodeVars
  <2>2. \A i \in DOMAIN queue' :
          \/ i \in DOMAIN queue /\ queue'[i] = queue[i]
          \/ i - Len(queue) \in DOMAIN air /\ queue'[i] = air[i - Len(queue)]
    BY <1>0, <2>1, ConcatAt
  <2> QED
    BY <1>1, <1>2, <2>1, <2>2 DEF AllTruthful
<1>7. ASSUME Forward, UNCHANGED nodeVars
      PROVE  AllTruthful'
  <2>1. queue # <<>> /\ queue' = Tail(queue) /\ UNCHANGED <<air, out>>
    BY <1>7 DEF Forward, nodeVars, radioVars
  <2>2. \A i \in DOMAIN queue' : i + 1 \in DOMAIN queue /\ queue'[i] = queue[i + 1]
    BY <1>0, <2>1, TailAt
  <2>3. \A n \in Device :
          sent'[n] = sent[n] \/ (n = queue[1].node /\ sent'[n] = queue[1])
    BY <1>0, <1>7, SentStep DEF FlowInv, AnswersFlow
  <2>4. 1 \in DOMAIN queue
    BY <1>0, <2>1, TailAt
  <2>5. \A n \in Device : Truthful(executed'[n], sent'[n])
    BY <1>1, <1>2, <2>3, <2>4
  <2> QED
    BY <1>1, <1>2, <2>1, <2>2, <2>5 DEF AllTruthful
<1>8. ASSUME NEW n \in Device, Respond(n)
      PROVE  AllTruthful'
  <2>1. /\ out[n] \in Reply /\ air' \in {air, Append(air, out[n])}
        /\ \A k \in Device : out'[k] \in {out[k], NoMsg}
        /\ UNCHANGED <<queue, sent>>
    BY <1>0, <1>8, RespondStep DEF Respond, gatewayVars
  <2>2. out[n].node = n
    BY <2>1, RadioAssumption DEF FlowInv, AnswersFlow
  <2>3. CASE air' = air
    BY <1>4, <2>1, <2>3
  <2>4. CASE air' = Append(air, out[n])
    <3>1. \A i \in DOMAIN air' :
            (i \in DOMAIN air /\ air'[i] = air[i]) \/ air'[i] = out[n]
      BY <1>0, <2>1, <2>4, AppendAt
    <3> QED
      BY <1>1, <1>2, <1>3, <2>1, <2>2, <3>1 DEF AllTruthful
  <2> QED
    BY <2>1, <2>3, <2>4
<1>9. ASSUME Write, UNCHANGED nodeVars
      PROVE  AllTruthful'
  <2>1. UNCHANGED <<sent, queue, air, out>>
    BY <1>0, <1>9, WriteStep DEF Write, nodeVars
  <2> QED
    BY <1>4, <2>1
<1>10. ASSUME NEW q \in Question, Arrive(q), UNCHANGED nodeVars
       PROVE  AllTruthful'
  BY <1>4, <1>10 DEF Arrive, nodeVars, radioVars
<1>11. ASSUME Drained \/ Recv \/ RecvNothing, UNCHANGED nodeVars
       PROVE  AllTruthful'
  BY <1>4, <1>11 DEF Drained, Recv, RecvNothing, nodeVars, radioVars
<1>12. ASSUME NEW n \in Device, Restart(n)
       PROVE  AllTruthful'
  BY <1>0, <1>4, <1>12 DEF Restart, gatewayVars, NodeTypeOK
<1>13. ASSUME UNCHANGED relayVars
       PROVE  AllTruthful'
  BY <1>4, <1>13 DEF relayVars, radioVars, gatewayVars, nodeVars
<1> QED
  BY <1>5, <1>6, <1>7, <1>8, <1>9, <1>10, <1>11, <1>12, <1>13
     DEF RelayNext, Gateway, Loop, NodeLoop

-----------------------------------------------------------------------------
(* The theorem *)

LEMMA ReadInit == NodeInit => ReadInv
<1> SUFFICES ASSUME NodeInit PROVE ReadInv
  OBVIOUS
<1> USE DEF NodeInit, RadioInit, GatewayInit
<1>1. FlowInv
  BY FlowInit
<1>2. InPlay = {} /\ udp = <<>>
  BY DEF InPlay, Writing, Unread
<1>3. OneRequestPerId /\ SetsPins
  BY <1>2 DEF OneRequestPerId, SetsPins
<1>4. PinsFollow
  BY DEF PinsFollow, Follow
<1>5. AllTruthful
  BY DEF AllTruthful, Truthful
<1> QED
  BY <1>1, <1>3, <1>4, <1>5 DEF ReadInv

LEMMA ReadStep == ReadInv /\ [RelayNext]_relayVars => ReadInv'
BY FlowStep, IdsStay, PinsStay, AnswersTrue DEF ReadInv

\* The answer about a relay that reaches the server reports the latest command
\* before its question, whatever was repeated, lost or restarted.
THEOREM ReadsSeeWrites == RelaySpec => []GetsLatest
<1>1. ReadInv => GetsLatest
  BY DEF ReadInv, AllTruthful, GetsLatest
<1> QED
  BY <1>1, ReadInit, ReadStep, PTL DEF RelaySpec
=============================================================================
