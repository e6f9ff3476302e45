------------------------------ MODULE SensorNode ------------------------------
(***************************************************************************)
(* DigitalInputReader beside the nodes that switch pins: the sketch of the *)
(* alarm sensor.  Each pass of its loop looks at the sensor, writes an     *)
(* alarm if it has risen, and then answers at most one frame.  The alarm   *)
(* is raised once for a rise, whether or not a write of it is              *)
(* acknowledged, and carries a sample of its own, taken after the test.    *)
(***************************************************************************)
EXTENDS RelayNode

CONSTANTS
  Reader,       \* the devices running DigitalInputReader
  MaxChanges    \* bound: changes of the sensors

REG_SENSOR == 1

ASSUME ReaderAssumption ==
  /\ Reader \subseteq Device \ Lamp
  /\ MaxChanges \in Nat

VARIABLES
  rpc,         \* where in its loop each reader is
  sensor,      \* what SENSOR_PIN reads
  triggered,
  changes,     \* changes of the sensors so far
  risen,       \* history: rises of the sensor since the reader's start
  raised       \* history: alarms begun since the reader's start

readerVars == <<rpc, sensor, triggered, changes, risen, raised>>
sensorVars == <<relayVars, readerVars>>

SensorTypeOK ==
  /\ NodeTypeOK
  /\ rpc \in [Reader -> {"sense", "sample", "raise", "read", "answer"}]
  /\ sensor \in [Reader -> {0, 1}]
  /\ triggered \in [Reader -> BOOLEAN]
  /\ changes \in 0 .. MaxChanges
  /\ risen \in [Reader -> Nat] /\ raised \in [Reader -> Nat]
  /\ \A n \in Reader :
       rpc[n] \in {"raise", "answer"} => out[n] # NoMsg /\ tries[n] <= NODE_ATTEMPTS

SensorInit ==
  /\ NodeInit
  /\ rpc = [n \in Reader |-> "sense"]
  /\ sensor \in [Reader -> {0, 1}]
  /\ triggered = [n \in Reader |-> FALSE]
  /\ changes = 0
  /\ risen = sensor
  /\ raised = [n \in Reader |-> 0]

-----------------------------------------------------------------------------
(* The loop *)

\* The sensor is somebody else's: it changes at any time.
Change(n) ==
  /\ changes < MaxChanges
  /\ changes' = changes + 1
  /\ sensor' = [sensor EXCEPT ![n] = 1 - @]
  /\ risen' = [risen EXCEPT ![n] = @ + sensor'[n]]
  /\ UNCHANGED <<relayVars, rpc, triggered, raised>>

Sense(n) ==
  /\ rpc[n] = "sense"
  /\ rpc' = [rpc EXCEPT ![n] =
              IF sensor[n] = 1 /\ ~triggered[n] THEN "sample" ELSE "read"]
  /\ triggered' = [triggered EXCEPT ![n] = @ /\ sensor[n] = 1]
  /\ UNCHANGED <<relayVars, sensor, changes, risen, raised>>

Alarm(n, v) == [node |-> n, type |-> "ALARM", reg |-> REG_SENSOR, pay |-> v, re |-> 0]

\* The sensor is read again for the payload.
Sample(n) ==
  /\ rpc[n] = "sample"
  /\ out' = [out EXCEPT ![n] = Alarm(n, sensor[n])]
  /\ tries' = [tries EXCEPT ![n] = 0]
  /\ raised' = [raised EXCEPT ![n] = @ + 1]
  /\ rpc' = [rpc EXCEPT ![n] = "raise"]
  /\ UNCHANGED <<radioVars, gatewayVars, npc, pins, restarts, last, executed,
                 sensor, triggered, changes, risen>>

\* One pass of sendMsg's loop; when it ends the reader goes on at pc.
sendMsg(n, ok, end, pc) ==
  /\ \E next \in {air, Append(air, out[n])} :
       Written(out[n], air, next, ok) /\ air' = next
  /\ rpc' = IF end THEN [rpc EXCEPT ![n] = pc] ELSE rpc
  /\ out' = IF end THEN [out EXCEPT ![n] = NoMsg] ELSE out
  /\ UNCHANGED <<inbox, gatewayVars, npc, pins, restarts, last, executed,
                 sensor, changes, risen, raised>>

\* Mutant: an alarm that was not acknowledged is raised again.
RaiseAgain(n) ==
  /\ rpc[n] = "raise"
  /\ tries' = [tries EXCEPT ![n] = @ + 1]
  /\ \E ok \in BOOLEAN :
       LET end == ok \/ tries'[n] > NODE_ATTEMPTS IN
         sendMsg(n, ok, end, "read") /\ triggered' = [triggered EXCEPT ![n] = @ \/ ok]

\* Mutant: no limit to the attempts.
RaiseForever(n) ==
  /\ rpc[n] = "raise"
  /\ \E ok \in BOOLEAN :
       sendMsg(n, ok, ok, "read") /\ triggered' = [triggered EXCEPT ![n] = @ \/ ok]
  /\ UNCHANGED tries

\* The alarm is written; then triggered is set, delivered or not.
Raise(n) ==
  /\ rpc[n] = "raise"
  /\ tries' = [tries EXCEPT ![n] = @ + 1]
  /\ \E ok \in BOOLEAN :
       LET end == ok \/ tries'[n] > NODE_ATTEMPTS IN
         sendMsg(n, ok, end, "read") /\ triggered' = [triggered EXCEPT ![n] = @ \/ end]

\* update and available.
ReadNothing(n) ==
  /\ rpc[n] = "read" /\ inbox[n] = <<>>
  /\ rpc' = [rpc EXCEPT ![n] = "sense"]
  /\ UNCHANGED <<relayVars, sensor, triggered, changes, risen, raised>>

\* A register that is not the sensor's reads 0; a SET changes nothing.
Read(n) ==
  /\ rpc[n] = "read" /\ inbox[n] # <<>>
  /\ LET q == Head(inbox[n])
         v == IF q.type # "GET_RQ" THEN q.pay
              ELSE IF q.reg = REG_SENSOR THEN sensor[n] ELSE 0
     IN  /\ out' = [out EXCEPT ![n] = Answer(q, v)]
         /\ last' = [last EXCEPT ![n] = q.id]
  /\ inbox' = [inbox EXCEPT ![n] = Tail(@)]
  /\ tries' = [tries EXCEPT ![n] = 0]
  /\ rpc' = [rpc EXCEPT ![n] = "answer"]
  /\ UNCHANGED <<air, gatewayVars, npc, pins, restarts, executed, sensor,
                 triggered, changes, risen, raised>>

\* Mutant: one attempt too many.
AnswerOnceMore(n) ==
  /\ rpc[n] = "answer"
  /\ tries' = [tries EXCEPT ![n] = @ + 1]
  /\ \E ok \in BOOLEAN :
       sendMsg(n, ok, ok \/ tries'[n] > NODE_ATTEMPTS + 1, "sense")
  /\ UNCHANGED triggered

AnswerOnce(n) ==
  /\ rpc[n] = "answer"
  /\ tries' = [tries EXCEPT ![n] = @ + 1]
  /\ \E ok \in BOOLEAN : sendMsg(n, ok, ok \/ tries'[n] > NODE_ATTEMPTS, "sense")
  /\ UNCHANGED triggered

ReaderLoop(n) ==
  Sense(n) \/ Sample(n) \/ Raise(n) \/ ReadNothing(n) \/ Read(n) \/ AnswerOnce(n)

\* Power fails and comes back; the sensor is as it is.
RestartReader(n) ==
  /\ restarts < MaxRestarts
  /\ restarts' = restarts + 1
  /\ rpc' = [rpc EXCEPT ![n] = "sense"]
  /\ triggered' = [triggered EXCEPT ![n] = FALSE]
  /\ risen' = [risen EXCEPT ![n] = sensor[n]]
  /\ raised' = [raised EXCEPT ![n] = 0]
  /\ inbox' = [inbox EXCEPT ![n] = <<>>]
  /\ out' = [out EXCEPT ![n] = NoMsg]
  /\ tries' = [tries EXCEPT ![n] = 0]
  /\ UNCHANGED <<air, gatewayVars, npc, pins, last, executed, sensor, changes>>

SensorNext ==
  \/ \E q \in Question : Arrive(q) /\ UNCHANGED <<nodeVars, readerVars>>
  \/ Gateway /\ UNCHANGED readerVars
  \/ \E n \in Device \ Reader : (NodeLoop(n) \/ Restart(n)) /\ UNCHANGED readerVars
  \/ \E n \in Reader : ReaderLoop(n) \/ RestartReader(n) \/ Change(n)

SensorSpec == SensorInit /\ [][SensorNext]_sensorVars

\* Every processor runs on; nothing is assumed of the radio, the sensors and
\* the power.
SensorFairSpec ==
  /\ SensorSpec
  /\ WF_sensorVars(Gateway /\ UNCHANGED readerVars)
  /\ \A n \in Device \ Reader : WF_sensorVars(NodeLoop(n) /\ UNCHANGED readerVars)
  /\ \A n \in Reader : WF_sensorVars(ReaderLoop(n))

-----------------------------------------------------------------------------
(* Properties *)

\* However long the sensor stays up, however often it is asked for meanwhile,
\* and whatever becomes of the alarm, one rise raises at most one (triggered,
\* DigitalInputReader.ino:78-91).
OneAlarmPerRise == \A n \in Reader : raised[n] <= risen[n]

\* A sensor that stays up is noticed, though writes fail and requests keep the
\* loop busy (DigitalInputReader.ino:73-137).
RiseNoticed ==
  \A n \in Reader : sensor[n] = 1 ~> sensor[n] = 0 \/ triggered[n]
=============================================================================
