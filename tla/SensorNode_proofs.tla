--------------------------- MODULE SensorNode_proofs ---------------------------
(***************************************************************************)
(* The alarm sensor beside the other nodes, for any number of nodes,       *)
(* attempts, requests and restarts: one rise raises at most one alarm, and *)
(* everything is of its type.  raised <= risen is not inductive: an alarm  *)
(* that is about to be raised must have a rise of its own, and so must one *)
(* that may yet be, while the sensor is up and triggered is not set.       *)
(***************************************************************************)
EXTENDS SensorNode, RelayNode_proofs

\* Of one reader: its place in the loop, the sensor, triggered, and how many
\* rises and alarms there were.
Accounted(pc, up, trig, rises, alarms) ==
  /\ up \in {0, 1} /\ trig \in BOOLEAN
  /\ rises \in Nat /\ alarms \in Nat /\ alarms <= rises
  /\ pc = "sample" => alarms < rises
  /\ pc # "raise" /\ ~trig /\ up = 1 => alarms < rises

AccountInv ==
  /\ rpc \in [Reader -> {"sense", "sample", "raise", "read", "answer"}]
  /\ sensor \in [Reader -> {0, 1}] /\ triggered \in [Reader -> BOOLEAN]
  /\ risen \in [Reader -> Nat] /\ raised \in [Reader -> Nat]
  /\ \A n \in Reader : Accounted(rpc[n], sensor[n], triggered[n], risen[n], raised[n])

LEMMA InitAccount == SensorInit => AccountInv
<1> SUFFICES ASSUME SensorInit PROVE AccountInv
  OBVIOUS
<1>1. risen \in [Reader -> Nat]
  BY DEF SensorInit
<1> QED
  BY <1>1 DEF SensorInit, AccountInv, Accounted

\* The sensor rises or falls.
LEMMA ChangeAccounts ==
  ASSUME AccountInv, NEW n \in Reader, Change(n)
  PROVE  AccountInv'
<1>1. sensor' \in [Reader -> {0, 1}] /\ sensor'[n] = 1 - sensor[n]
  BY DEF AccountInv, Change
<1>2. risen' \in [Reader -> Nat] /\ risen'[n] = risen[n] + sensor'[n]
  BY <1>1 DEF AccountInv, Change
<1>3. \A m \in Reader \ {n} : sensor'[m] = sensor[m] /\ risen'[m] = risen[m]
  BY DEF AccountInv, Change
<1> QED
  BY <1>1, <1>2, <1>3 DEF AccountInv, Accounted, Change

LEMMA SenseAccounts ==
  ASSUME AccountInv, NEW n \in Reader, Sense(n)
  PROVE  AccountInv'
<1>1. /\ rpc' \in [Reader -> {"sense", "sample", "raise", "read", "answer"}]
      /\ rpc'[n] = IF sensor[n] = 1 /\ ~triggered[n] THEN "sample" ELSE "read"
      /\ \A m \in Reader \ {n} : rpc'[m] = rpc[m]
  BY DEF AccountInv, Sense
<1>2. /\ triggered' \in [Reader -> BOOLEAN]
      /\ triggered'[n] = (triggered[n] /\ sensor[n] = 1)
      /\ \A m \in Reader \ {n} : triggered'[m] = triggered[m]
  BY Zenon DEF AccountInv, Sense
<1>3. rpc[n] = "sense"
  BY DEF Sense
<1> QED
  BY <1>1, <1>2, <1>3 DEF AccountInv, Accounted, Sense

LEMMA SampleAccounts ==
  ASSUME AccountInv, NEW n \in Reader, Sample(n)
  PROVE  AccountInv'
<1>1. /\ raised' \in [Reader -> Nat] /\ raised'[n] = raised[n] + 1
      /\ \A m \in Reader \ {n} : raised'[m] = raised[m]
  BY DEF AccountInv, Sample
<1>2. /\ rpc' \in [Reader -> {"sense", "sample", "raise", "read", "answer"}]
      /\ rpc'[n] = "raise"
      /\ \A m \in Reader \ {n} : rpc'[m] = rpc[m]
  BY DEF AccountInv, Sample
<1> QED
  BY <1>1, <1>2 DEF AccountInv, Accounted, Sample

\* The alarm is written; when that ends triggered is set.
LEMMA RaiseAccounts ==
  ASSUME AccountInv, NEW n \in Reader, Raise(n)
  PROVE  AccountInv'
<1>1. PICK end \in BOOLEAN :
        /\ rpc' = IF end THEN [rpc EXCEPT ![n] = "read"] ELSE rpc
        /\ triggered' = [triggered EXCEPT ![n] = @ \/ end]
        /\ UNCHANGED <<sensor, risen, raised>>
  BY Zenon DEF Raise, sendMsg
<1>2. /\ triggered' \in [Reader -> BOOLEAN] /\ triggered'[n] = (triggered[n] \/ end)
      /\ \A m \in Reader \ {n} : triggered'[m] = triggered[m]
  BY <1>1, Zenon DEF AccountInv
<1>3. /\ rpc' \in [Reader -> {"sense", "sample", "raise", "read", "answer"}]
      /\ rpc'[n] = IF end THEN "read" ELSE rpc[n]
      /\ \A m \in Reader \ {n} : rpc'[m] = rpc[m]
  BY <1>1 DEF AccountInv
<1>4. rpc[n] = "raise"
  BY DEF Raise
<1> QED
  BY <1>1, <1>2, <1>3, <1>4 DEF AccountInv, Accounted

\* A frame is read or its answer written, or there is none.
LEMMA AnswerAccounts ==
  ASSUME AccountInv, NEW n \in Reader, ReadNothing(n) \/ Read(n) \/ AnswerOnce(n)
  PROVE  AccountInv'
<1>1. /\ UNCHANGED <<sensor, triggered, risen, raised>>
      /\ rpc[n] \in {"read", "answer"}
      /\ rpc' = rpc \/ \E pc \in {"sense", "answer"} : rpc' = [rpc EXCEPT ![n] = pc]
  BY Zenon DEF ReadNothing, Read, AnswerOnce, sendMsg
<1>2. /\ rpc' \in [Reader -> {"sense", "sample", "raise", "read", "answer"}]
      /\ rpc'[n] \in {"sense", "read", "answer"}
      /\ \A m \in Reader \ {n} : rpc'[m] = rpc[m]
  BY <1>1 DEF AccountInv
<1> QED
  BY <1>1, <1>2 DEF AccountInv, Accounted

LEMMA RestartAccounts ==
  ASSUME AccountInv, NEW n \in Reader, RestartReader(n)
  PROVE  AccountInv'
<1>1. /\ rpc' \in [Reader -> {"sense", "sample", "raise", "read", "answer"}]
      /\ rpc'[n] = "sense" /\ \A m \in Reader \ {n} : rpc'[m] = rpc[m]
  BY DEF AccountInv, RestartReader
<1>2. /\ triggered' \in [Reader -> BOOLEAN]
      /\ triggered'[n] = FALSE /\ \A m \in Reader \ {n} : triggered'[m] = triggered[m]
  BY DEF AccountInv, RestartReader
<1>3. /\ risen' \in [Reader -> Nat]
      /\ risen'[n] = sensor[n] /\ \A m \in Reader \ {n} : risen'[m] = risen[m]
  <2>1. sensor[n] \in Nat
    BY DEF AccountInv
  <2> QED
    BY <2>1 DEF AccountInv, RestartReader
<1>4. /\ raised' \in [Reader -> Nat]
      /\ raised'[n] = 0 /\ \A m \in Reader \ {n} : raised'[m] = raised[m]
  BY DEF AccountInv, RestartReader
<1>5. sensor' = sensor
  BY DEF RestartReader
<1> QED
  BY <1>1, <1>2, <1>3, <1>4, <1>5 DEF AccountInv, Accounted

LEMMA OthersAccount ==
  ASSUME AccountInv, UNCHANGED readerVars
  PROVE  AccountInv'
  BY DEF AccountInv, Accounted, readerVars

LEMMA NextAccounts ==
  ASSUME AccountInv, [SensorNext]_sensorVars
  PROVE  AccountInv'
<1>1. CASE \E q \in Question : Arrive(q) /\ UNCHANGED <<nodeVars, readerVars>>
  BY <1>1, OthersAccount
<1>2. CASE Gateway /\ UNCHANGED readerVars
  BY <1>2, OthersAccount
<1>3. CASE \E n \in Device \ Reader : (NodeLoop(n) \/ Restart(n)) /\ UNCHANGED readerVars
  BY <1>3, OthersAccount
<1>4. ASSUME NEW n \in Reader, ReaderLoop(n)
      PROVE  AccountInv'
  BY <1>4, SenseAccounts, SampleAccounts, RaiseAccounts, AnswerAccounts DEF ReaderLoop
<1>5. ASSUME NEW n \in Reader, RestartReader(n) \/ Change(n)
      PROVE  AccountInv'
  BY <1>5, RestartAccounts, ChangeAccounts
<1>6. CASE UNCHANGED sensorVars
  BY <1>6, OthersAccount DEF sensorVars
<1> QED
  BY <1>1, <1>2, <1>3, <1>4, <1>5, <1>6 DEF SensorNext

\* One rise raises at most one alarm.
THEOREM OneAlarmAlways == SensorSpec => []OneAlarmPerRise
<1>1. AccountInv => OneAlarmPerRise
  BY DEF AccountInv, Accounted, OneAlarmPerRise
<1>2. AccountInv /\ [SensorNext]_sensorVars => AccountInv'
  BY NextAccounts
<1> QED
  BY <1>1, <1>2, InitAccount, PTL DEF SensorSpec
-----------------------------------------------------------------------------
(* The type invariant *)

\* A reader runs a sketch of its own: the loop of the other sketches rests.
Resting == \A n \in Reader : npc[n] = "loop"

\* A reader that writes has something to write and an attempt left.
Carrying ==
  \A n \in Reader :
    rpc[n] \in {"raise", "answer"} => out[n] # NoMsg /\ tries[n] <= NODE_ATTEMPTS

\* SensorTypeOK is not inductive: that npc of a reader stays where it is keeps
\* the conjunct of NodeTypeOK about a node that writes.
SensorInv ==
  NodeTypeOK /\ AccountInv /\ changes \in 0 .. MaxChanges /\ Resting /\ Carrying

LEMMA SensorInitTyped == SensorInit => SensorInv
<1> SUFFICES ASSUME SensorInit PROVE SensorInv
  OBVIOUS
<1>1. NodeTypeOK /\ AccountInv
  BY TypeInit, InitAccount DEF SensorInit
<1> QED
  BY <1>1, ReaderAssumption DEF SensorInit, SensorInv, NodeInit, Resting, Carrying

\* The gateway and the other nodes leave a reader's own state alone.
LEMMA OthersTyped ==
  ASSUME NodeTypeOK,
         \/ \E q \in Question : Arrive(q) /\ UNCHANGED nodeVars
         \/ Gateway
         \/ \E n \in Device \ Reader : NodeLoop(n) \/ Restart(n)
  PROVE  /\ NodeTypeOK'
         /\ \A n \in Reader : out'[n] = out[n] /\ tries'[n] = tries[n] /\ npc'[n] = npc[n]
<1>1. [RelayNext]_relayVars
  BY DEF RelayNext
<1>2. NodeTypeOK'
  BY <1>1, TypeStep
<1>3. CASE UNCHANGED nodeVars
  BY <1>2, <1>3 DEF nodeVars
<1>4. ASSUME NEW n \in Device \ Reader, NodeLoop(n) \/ Restart(n)
      PROVE  \A r \in Reader : out'[r] = out[r] /\ tries'[r] = tries[r] /\ npc'[r] = npc[r]
  <2> USE ReaderAssumption DEF NodeTypeOK
  <2>1. CASE Handle(n)
    <3>1. \E m : out' = [out EXCEPT ![n] = m]
      BY <2>1 DEF Handle, Act
    <3> QED
      BY <2>1, <3>1 DEF Handle
  <2>2. CASE Respond(n)
    <3>1. \E end \in BOOLEAN :
            /\ npc' = IF end THEN [npc EXCEPT ![n] = "loop"] ELSE npc
            /\ out' = IF end THEN [out EXCEPT ![n] = NoMsg] ELSE out
      BY <2>2, Zenon DEF Respond, WriteAnswer
    <3> QED
      BY <2>2, <3>1 DEF Respond
  <2>3. CASE Restart(n)
    <3>1. \E pc : npc' = [npc EXCEPT ![n] = pc]
      BY <2>3 DEF Restart
    <3> QED
      BY <2>3, <3>1 DEF Restart
  <2> QED
    BY <1>4, <2>1, <2>2, <2>3 DEF NodeLoop
<1> QED
  BY <1>2, <1>3, <1>4 DEF Gateway

\* What a reader may change without breaking the types of the relay system.
LEMMA ReaderTyped ==
  ASSUME NodeTypeOK, Resting, NEW n \in Reader,
         UNCHANGED <<gatewayVars, npc, pins, executed>>,
         inbox' \in [Device -> Seq(Frame)], air' \in Seq(Reply),
         out' \in [Device -> Reply \cup {NoMsg}],
         tries' \in [Device -> 0 .. NODE_ATTEMPTS + 1],
         \A k \in Device \ {n} : out'[k] = out[k] /\ tries'[k] = tries[k],
         last' \in [Device -> Nat], restarts' \in 0 .. MaxRestarts
  PROVE  NodeTypeOK' /\ Resting'
<1>1. Resting'
  BY DEF Resting
<1>2. RadioTypeOK' /\ GatewayTypeOK'
  BY DEF NodeTypeOK, RadioTypeOK, GatewayTypeOK, gatewayVars
<1>3. \A k \in Device :
        npc'[k] = "write" => out'[k] # NoMsg /\ tries'[k] <= NODE_ATTEMPTS
  BY DEF NodeTypeOK, Resting
<1> QED
  BY <1>1, <1>2, <1>3 DEF NodeTypeOK

\* What a reader writes is a message.
LEMMA AlarmTyped ==
  ASSUME NEW n \in Reader, NEW v \in {0, 1}
  PROVE  Alarm(n, v) \in Reply
BY RadioAssumption, ReaderAssumption
   DEF Alarm, Reply, ReplyType, REG_SENSOR, Byte

LEMMA SampleTyped ==
  ASSUME SensorInv, NEW n \in Reader, Sample(n)
  PROVE  NodeTypeOK' /\ Resting' /\ Carrying'
<1> USE ReaderAssumption DEF SensorInv
<1>1. Alarm(n, sensor[n]) \in Reply
  BY AlarmTyped DEF AccountInv
<1>2. /\ out' \in [Device -> Reply \cup {NoMsg}] /\ out'[n] # NoMsg
      /\ \A k \in Device \ {n} : out'[k] = out[k]
  BY <1>1, RadioAssumption DEF Sample, NodeTypeOK
<1>3. /\ tries' \in [Device -> 0 .. NODE_ATTEMPTS + 1] /\ tries'[n] = 0
      /\ \A k \in Device \ {n} : tries'[k] = tries[k]
  BY NodeAssumption DEF Sample, NodeTypeOK
<1>4. Carrying'
  BY <1>2, <1>3, NodeAssumption DEF Sample, Carrying, AccountInv
<1>5. /\ UNCHANGED <<gatewayVars, npc, pins, executed>>
      /\ inbox' \in [Device -> Seq(Frame)] /\ air' \in Seq(Reply)
      /\ last' \in [Device -> Nat] /\ restarts' \in 0 .. MaxRestarts
  BY DEF Sample, NodeTypeOK, RadioTypeOK, radioVars
<1> QED
  BY <1>2, <1>3, <1>4, <1>5, ReaderTyped

\* One pass of the loop that writes an alarm or an answer.
LEMMA SendTyped ==
  ASSUME SensorInv, NEW n \in Reader, Raise(n) \/ AnswerOnce(n)
  PROVE  NodeTypeOK' /\ Resting' /\ Carrying'
<1> USE ReaderAssumption DEF SensorInv
<1>1. PICK ok \in BOOLEAN, pc \in {"read", "sense"} :
        sendMsg(n, ok, ok \/ tries'[n] > NODE_ATTEMPTS, pc)
  BY Zenon DEF Raise, AnswerOnce
<1>2. /\ out[n] \in Reply /\ tries[n] <= NODE_ATTEMPTS
      /\ tries' = [tries EXCEPT ![n] = @ + 1]
  BY DEF Raise, AnswerOnce, NodeTypeOK, Carrying
<1>3. air' \in Seq(Reply)
  <2>1. air' \in {air, Append(air, out[n])}
    BY <1>1 DEF sendMsg
  <2>2. air \in Seq(Reply) /\ Append(air, out[n]) \in Seq(Reply)
    BY <1>2 DEF NodeTypeOK, RadioTypeOK
  <2> QED
    BY <2>1, <2>2
<1>4. /\ tries' \in [Device -> 0 .. NODE_ATTEMPTS + 1]
      /\ tries'[n] = tries[n] + 1
      /\ \A k \in Device \ {n} : tries'[k] = tries[k]
  <2>1. tries[n] + 1 \in 0 .. NODE_ATTEMPTS + 1
    BY <1>2, NodeAssumption DEF NodeTypeOK
  <2> QED
    BY <1>2, <2>1 DEF NodeTypeOK
<1>5. /\ UNCHANGED <<inbox, gatewayVars, npc, pins, restarts, last, executed>>
      /\ \/ /\ rpc' = [rpc EXCEPT ![n] = pc] /\ out' = [out EXCEPT ![n] = NoMsg]
         \/ /\ tries'[n] <= NODE_ATTEMPTS /\ rpc' = rpc /\ out' = out
  <2>1. \/ tries'[n] <= NODE_ATTEMPTS
        \/ tries'[n] > NODE_ATTEMPTS
    BY <1>4, NodeAssumption
  <2>2. CASE ok \/ tries'[n] > NODE_ATTEMPTS
    BY <1>1, <2>2 DEF sendMsg
  <2>3. CASE ~ok /\ ~(tries'[n] > NODE_ATTEMPTS)
    BY <1>1, <2>1, <2>3 DEF sendMsg
  <2> QED
    BY <2>2, <2>3
<1>6. /\ out' \in [Device -> Reply \cup {NoMsg}]
      /\ \A k \in Device \ {n} : out'[k] = out[k]
  BY <1>5 DEF NodeTypeOK
<1>7. Carrying'
  BY <1>2, <1>4, <1>5, <1>6, RadioAssumption DEF Carrying, AccountInv, NodeTypeOK
<1> QED
  BY <1>3, <1>4, <1>5, <1>6, <1>7, ReaderTyped DEF NodeTypeOK, RadioTypeOK

\* A frame is read and answered.
LEMMA ReadTyped ==
  ASSUME SensorInv, NEW n \in Reader, Read(n)
  PROVE  NodeTypeOK' /\ Resting' /\ Carrying'
<1> USE ReaderAssumption DEF SensorInv
<1> DEFINE q == Head(inbox[n])
           v == IF q.type # "GET_RQ" THEN q.pay
                ELSE IF q.reg = REG_SENSOR THEN sensor[n] ELSE 0
<1>1. q \in Frame /\ Tail(inbox[n]) \in Seq(Frame)
  BY TailAt DEF Read, NodeTypeOK, RadioTypeOK
<1>2. v \in Byte
  BY <1>1 DEF Frame, Byte, AccountInv
<1> DEFINE a == Answer(q, v)
<1>3. a \in Reply /\ q.id \in Nat
  BY <1>1, <1>2, AnswerTyped DEF Frame
<1>4. /\ out' = [out EXCEPT ![n] = a]
      /\ last' = [last EXCEPT ![n] = q.id]
  BY Zenon DEF Read
<1>5. /\ out' \in [Device -> Reply \cup {NoMsg}] /\ out'[n] # NoMsg
      /\ \A k \in Device \ {n} : out'[k] = out[k]
  <2> HIDE DEF a
  <2> QED
    BY <1>3, <1>4, RadioAssumption DEF NodeTypeOK
<1>6. /\ tries' \in [Device -> 0 .. NODE_ATTEMPTS + 1] /\ tries'[n] = 0
      /\ \A k \in Device \ {n} : tries'[k] = tries[k]
  BY NodeAssumption DEF Read, NodeTypeOK
<1>7. Carrying'
  BY <1>5, <1>6, NodeAssumption DEF Read, Carrying, AccountInv
<1>8. inbox' \in [Device -> Seq(Frame)] /\ last' \in [Device -> Nat]
  BY <1>1, <1>3, <1>4 DEF Read, NodeTypeOK, RadioTypeOK
<1>9. /\ UNCHANGED <<gatewayVars, npc, pins, executed>>
      /\ air' \in Seq(Reply) /\ restarts' \in 0 .. MaxRestarts
  BY DEF Read, NodeTypeOK, RadioTypeOK
<1> QED
  BY <1>5, <1>6, <1>7, <1>8, <1>9, ReaderTyped

LEMMA RestartTyped ==
  ASSUME SensorInv, NEW n \in Reader, RestartReader(n)
  PROVE  NodeTypeOK' /\ Resting' /\ Carrying'
<1> USE ReaderAssumption DEF SensorInv
<1>1. /\ out' \in [Device -> Reply \cup {NoMsg}]
      /\ tries' \in [Device -> 0 .. NODE_ATTEMPTS + 1]
      /\ \A k \in Device \ {n} : out'[k] = out[k] /\ tries'[k] = tries[k]
  BY NodeAssumption DEF RestartReader, NodeTypeOK
<1>2. Carrying'
  BY <1>1 DEF RestartReader, Carrying, AccountInv
<1>3. inbox' \in [Device -> Seq(Frame)] /\ air' \in Seq(Reply)
  BY DEF RestartReader, NodeTypeOK, RadioTypeOK
<1>4. /\ restarts' \in 0 .. MaxRestarts /\ last' \in [Device -> Nat]
      /\ UNCHANGED <<gatewayVars, npc, pins, executed>>
  BY NodeAssumption DEF RestartReader, NodeTypeOK
<1> QED
  BY <1>1, <1>2, <1>3, <1>4, ReaderTyped

LEMMA SensorStepTyped == SensorInv /\ [SensorNext]_sensorVars => SensorInv'
<1> SUFFICES ASSUME SensorInv, [SensorNext]_sensorVars
             PROVE  SensorInv'
  OBVIOUS
<1> USE DEF SensorInv
<1>0. AccountInv'
  BY NextAccounts
<1>1. ASSUME \/ \E q \in Question : Arrive(q) /\ UNCHANGED nodeVars
             \/ Gateway
             \/ \E n \in Device \ Reader : NodeLoop(n) \/ Restart(n),
             UNCHANGED readerVars
      PROVE  SensorInv'
  BY <1>0, <1>1, OthersTyped DEF readerVars, Resting, Carrying
<1>2. ASSUME NEW n \in Reader, Change(n)
      PROVE  SensorInv'
  <2>1. changes' \in 0 .. MaxChanges
    BY <1>2, ReaderAssumption DEF Change
  <2> QED
    BY <1>0, <1>2, <2>1
       DEF Change, relayVars, radioVars, gatewayVars, nodeVars, NodeTypeOK,
           RadioTypeOK, GatewayTypeOK, Resting, Carrying
<1>3. ASSUME NEW n \in Reader, Sense(n) \/ ReadNothing(n)
      PROVE  SensorInv'
  <2>1. /\ UNCHANGED <<relayVars, changes>>
        /\ \E pc \in {"sample", "read", "sense"} : rpc' = [rpc EXCEPT ![n] = pc]
    BY <1>3, Zenon DEF Sense, ReadNothing
  <2>2. NodeTypeOK' /\ Resting'
    BY <2>1 DEF relayVars, radioVars, gatewayVars, nodeVars, NodeTypeOK,
                RadioTypeOK, GatewayTypeOK, Resting
  <2>3. Carrying'
    BY <2>1 DEF relayVars, nodeVars, Carrying, AccountInv
  <2> QED
    BY <1>0, <2>1, <2>2, <2>3
<1>4. ASSUME NEW n \in Reader,
             Sample(n) \/ Raise(n) \/ Read(n) \/ AnswerOnce(n) \/ RestartReader(n)
      PROVE  SensorInv'
  <2>1. changes' = changes
    BY <1>4, Zenon DEF Sample, Raise, Read, AnswerOnce, RestartReader, sendMsg
  <2> QED
    BY <1>0, <1>4, <2>1, SampleTyped, SendTyped, ReadTyped, RestartTyped
<1>5. CASE UNCHANGED sensorVars
  BY <1>0, <1>5
     DEF sensorVars, readerVars, relayVars, radioVars, gatewayVars, nodeVars,
         NodeTypeOK, RadioTypeOK, GatewayTypeOK, Resting, Carrying
<1> QED
  BY <1>1, <1>2, <1>3, <1>4, <1>5 DEF SensorNext, ReaderLoop

\* Everything a system with readers can reach is of its type, and a reader that
\* writes has a message and an attempt left (the loops of
\* DigitalInputReader.ino).
THEOREM SensorTypeCorrect == SensorSpec => []SensorTypeOK
<1>1. SensorInv => SensorTypeOK
  BY DEF SensorInv, AccountInv, Carrying, SensorTypeOK
<1> QED
  BY <1>1, SensorInitTyped, SensorStepTyped, PTL DEF SensorSpec
=============================================================================
