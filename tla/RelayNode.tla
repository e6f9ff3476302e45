------------------------------- MODULE RelayNode -------------------------------
(***************************************************************************)
(* RelayStation and GeneralLamp, the two sketches that switch pins, behind *)
(* the NRF gateway.  A node reads one frame per pass of its loop, acts on  *)
(* it, and writes the answer until a write is acknowledged or more than    *)
(* MAX_REWRITE_ATTEMPTS were made.  A restart forgets everything; the pins *)
(* become inputs and the relays fall back.                                 *)
(***************************************************************************)
EXTENDS NRFGateway

CONSTANTS
  Lamp,            \* the devices running GeneralLamp; others: RelayStation
  Pin,             \* the pins in use
  Measured,        \* values a sensor register of a RelayStation may give
  NODE_ATTEMPTS,   \* MAX_REWRITE_ATTEMPTS of the sketches
  MaxRestarts      \* bound: restarts of devices

DIGITAL_WRITE == 0
ANALOG_WRITE  == 2
RELAY_ON      == 4
RELAY_OFF     == 5
SensorReg     == {31, 32, 33}   \* REG_TEMP, REG_PRESSURE, REG_LIGHT

ASSUME NodeAssumption ==
  /\ Lamp \subseteq Device
  /\ Pin \subseteq 0 .. 15
  /\ Measured \subseteq Byte /\ Measured # {}
  /\ NODE_ATTEMPTS \in Nat
  /\ MaxRestarts \in Nat
  /\ \A q \in Question :
       /\ q.type = "GET_RQ" => \/ q.reg \in Pin
                               \/ q.reg \in SensorReg /\ q.node \notin Lamp
       /\ q.type = "SET_RQ" => q.pay \in Pin

VARIABLES
  npc,        \* where in its loop each node is
  pins,       \* mode and output of each pin, and its entry in pin_states
  out,        \* out_msg, the answer being written
  tries,      \* attempts, of each node
  restarts,   \* restarts so far
  last,       \* history: id of the last frame a node acted on
  executed    \* history: the relay commands a node executed since its start

nodeVars == <<npc, pins, out, tries, restarts, last, executed>>
relayVars == <<radioVars, gatewayVars, nodeVars>>

PinRecord == [mode: {"INPUT", "OUTPUT"}, port: {"LOW", "HIGH", "PWM"},
              state: {0, 1, 128}]

NodeTypeOK ==
  /\ RadioTypeOK
  /\ GatewayTypeOK
  /\ npc \in [Device -> {"loop", "write", "halted"}]
  /\ pins \in [Device -> [Pin -> PinRecord]]
  /\ out \in [Device -> Reply \cup {NoMsg}]
  /\ tries \in [Device -> 0 .. NODE_ATTEMPTS + 1]
  /\ \A n \in Device :
       npc[n] = "write" => out[n] # NoMsg /\ tries[n] <= NODE_ATTEMPTS
  /\ restarts \in 0 .. MaxRestarts
  /\ last \in [Device -> Nat]
  /\ executed \in [Device -> SUBSET Frame]

\* The pins at power-on, and pin_states after setup().
FreshPins == [p \in Pin |-> [mode |-> "INPUT", port |-> "LOW", state |-> 128]]

NodeInit ==
  /\ RadioInit
  /\ GatewayInit
  /\ npc = [n \in Device |-> "loop"]
  /\ pins = [n \in Device |-> FreshPins]
  /\ out = [n \in Device |-> NoMsg]
  /\ tries = [n \in Device |-> 0]
  /\ restarts = 0
  /\ last = [n \in Device |-> 0]
  /\ executed = [n \in Device |-> {}]

-----------------------------------------------------------------------------
(* What a frame does *)

IsRelayCommand(q) == q.type = "SET_RQ" /\ q.reg \in {RELAY_ON, RELAY_OFF}

\* RelayStation calls pinMode before it switches a relay; GeneralLamp does
\* not, but analogWrite of the Arduino core does.
MakesOutput(n, q) ==
  IF n \in Lamp THEN q.reg = ANALOG_WRITE ELSE q.reg \in {RELAY_ON, RELAY_OFF}

\* What is written to the pin: the extremes of analogWrite are plain levels.
\* Only GeneralLamp writes anything but relay commands.
Level(n, q, pin) ==
  IF q.reg = RELAY_ON THEN "LOW"
  ELSE IF q.reg = RELAY_OFF THEN "HIGH"
  ELSE IF n \notin Lamp \/ q.reg \notin {DIGITAL_WRITE, ANALOG_WRITE} THEN pin.port
  ELSE IF q.val = 0 THEN "LOW"
  ELSE IF q.reg = DIGITAL_WRITE \/ q.val = 255 THEN "HIGH"
  ELSE "PWM"

\* The pin that SET_RQ q names, after q.
Switched(n, q, pin) ==
  [mode  |-> IF MakesOutput(n, q) THEN "OUTPUT" ELSE pin.mode,
   port  |-> Level(n, q, pin),
   state |-> IF q.reg = RELAY_ON THEN 1
             ELSE IF q.reg = RELAY_OFF THEN 0 ELSE pin.state]

\* The values payload[0] of the answer to GET_RQ may take.
Gotten(n, reg) ==
  IF reg \in SensorReg THEN Measured
  ELSE IF reg \in Pin /\ pins[n][reg].state # 128 THEN {pins[n][reg].state}
  ELSE {(reg * 2) % 256}

\* The switch statement: what becomes of pins, and the answer.
Act(n, q) ==
  /\ \E v \in IF q.type = "GET_RQ" THEN Gotten(n, q.reg) ELSE {q.pay} :
       out' = [out EXCEPT ![n] = Answer(q, v)]
  /\ pins' = IF q.type = "SET_RQ"
             THEN [pins EXCEPT ![n][q.pay] = Switched(n, q, @)]
             ELSE pins
  /\ executed' = IF IsRelayCommand(q)
                 THEN [executed EXCEPT ![n] = @ \cup {q}] ELSE executed
  /\ last' = [last EXCEPT ![n] = q.id]

-----------------------------------------------------------------------------
(* The loop *)

\* Mutant: the newest frame is handled first.
HandleNewest(n) ==
  /\ npc[n] = "loop"
  /\ inbox[n] # <<>>
  /\ Act(n, inbox[n][Len(inbox[n])])
  /\ inbox' = [inbox EXCEPT ![n] = SubSeq(@, 1, Len(@) - 1)]
  /\ npc' = [npc EXCEPT ![n] = "write"]
  /\ tries' = [tries EXCEPT ![n] = 0]
  /\ UNCHANGED <<air, gatewayVars, restarts>>

\* update, available, read, and the switch.
Handle(n) ==
  /\ npc[n] = "loop"
  /\ inbox[n] # <<>>
  /\ Act(n, Head(inbox[n]))
  /\ inbox' = [inbox EXCEPT ![n] = Tail(@)]
  /\ npc' = [npc EXCEPT ![n] = "write"]
  /\ tries' = [tries EXCEPT ![n] = 0]
  /\ UNCHANGED <<air, gatewayVars, restarts>>

\* The answer is written once; the loop ends or goes on.  out_msg is local to
\* it.
WriteAnswer(n, ok, end) ==
  /\ \E next \in {air, Append(air, out[n])} :
       Written(out[n], air, next, ok) /\ air' = next
  /\ npc' = IF end THEN [npc EXCEPT ![n] = "loop"] ELSE npc
  /\ out' = IF end THEN [out EXCEPT ![n] = NoMsg] ELSE out

\* Mutant: no limit to the attempts.
RespondForever(n) ==
  /\ npc[n] = "write"
  /\ \E ok \in BOOLEAN : WriteAnswer(n, ok, ok)
  /\ UNCHANGED <<inbox, gatewayVars, pins, tries, restarts, last, executed>>

\* One pass of the rewrite loop.
Respond(n) ==
  /\ npc[n] = "write"
  /\ tries' = [tries EXCEPT ![n] = @ + 1]
  /\ \E ok \in BOOLEAN : WriteAnswer(n, ok, ok \/ tries'[n] > NODE_ATTEMPTS)
  /\ UNCHANGED <<inbox, gatewayVars, pins, restarts, last, executed>>

\* Power fails and comes back: setup() runs.  A RelayStation whose sensor is
\* not found stops there, after the radio was started.
Restart(n) ==
  /\ restarts < MaxRestarts
  /\ restarts' = restarts + 1
  /\ \E pc \in IF n \in Lamp THEN {"loop"} ELSE {"loop", "halted"} :
       npc' = [npc EXCEPT ![n] = pc]
  /\ pins' = [pins EXCEPT ![n] = FreshPins]
  /\ inbox' = [inbox EXCEPT ![n] = <<>>]
  /\ out' = [out EXCEPT ![n] = NoMsg]
  /\ tries' = [tries EXCEPT ![n] = 0]
  /\ executed' = [executed EXCEPT ![n] = {}]
  /\ UNCHANGED <<air, gatewayVars, last>>

Gateway == Loop /\ UNCHANGED nodeVars
NodeLoop(n) == Handle(n) \/ Respond(n)

RelayNext ==
  \/ \E q \in Question : Arrive(q) /\ UNCHANGED nodeVars
  \/ Gateway
  \/ \E n \in Device : NodeLoop(n) \/ Restart(n)

RelaySpec == NodeInit /\ [][RelayNext]_relayVars

-----------------------------------------------------------------------------
(* Properties *)

\* A node never acts on an older request after a newer one, although requests
\* are written to it again and again: a relay is not switched back by the
\* echo of an earlier command (rewrite loop, main.cpp; loop of the sketches).
NoStaleCommand == [][\A n \in Device : last'[n] >= last[n]]_relayVars

\* The answers of a node reach the server in the order of its requests, so
\* that the last one the server keeps of a node is the latest (the drain loop
\* of main.cpp and the order of the sketches' loops).
AnswersInOrder ==
  [][\A n \in Device :
       sent[n] # NoMsg => sent'[n] # NoMsg /\ sent'[n].re >= sent[n].re]_relayVars

\* Request k is no later than any that may still reach a node.
NotLater(k) ==
  /\ k <= received
  /\ \A i \in DOMAIN udp : k <= udp[i].id
  /\ gpc = "write" => k <= frame.id

Sorted(frames) ==
  \A i, j \in DOMAIN frames : i < j => frames[i].id <= frames[j].id

\* Requests are in order in the socket, and no frame overtakes another.
RequestsInOrder ==
  /\ Sorted(udp)
  /\ \A i \in DOMAIN udp : udp[i].id <= received
  /\ gpc = "write" => NotLater(frame.id)

\* So are the frames of a node, all of them for it and no earlier than what it
\* did last.
FramesOf(n) ==
  /\ Sorted(inbox[n])
  /\ NotLater(last[n])
  /\ \A i \in DOMAIN inbox[n] :
       /\ inbox[n][i].node = n
       /\ last[n] <= inbox[n][i].id
       /\ NotLater(inbox[n][i].id)

FramesInOrder == \A n \in Device : FramesOf(n)

\* The answers of a node on their way, in order and none later than what the
\* node did last.
Ordered(answers) ==
  /\ \A i, j \in DOMAIN answers :
       i < j /\ answers[i].node = answers[j].node
         => answers[i].re <= answers[j].re
  /\ \A i \in DOMAIN answers :
       /\ answers[i].node \in Device
       /\ answers[i].re <= last[answers[i].node]
       /\ sent[answers[i].node] # NoMsg
            => sent[answers[i].node].re <= answers[i].re

AnswersFlow ==
  /\ \A n \in Device :
       /\ out[n] # NoMsg => out[n].node = n /\ out[n].re = last[n]
       /\ sent[n] # NoMsg => sent[n].re <= last[n]
  /\ Ordered(queue)
  /\ Ordered(air)
  /\ \A i \in DOMAIN queue, j \in DOMAIN air :
       queue[i].node = air[j].node => queue[i].re <= air[j].re

\* The inductive invariant: from the socket to the nodes and back, everything
\* is in the order of the requests (the loops of main.cpp and the sketches).
FlowInv == NodeTypeOK /\ RequestsInOrder /\ FramesInOrder /\ AnswersFlow

\* The last of some commands.
LastOf(q, commands) == q \in commands /\ \A r \in commands : r.id <= q.id

Position(q) == IF q.reg = RELAY_ON THEN 1 ELSE 0

\* Answer m of a node that executed commands tells what the latest of them
\* before the question did to the pin.
Truthful(commands, m) ==
  m # NoMsg /\ m.type = "GET_RP" =>
    \A q \in commands :
      LastOf(q, {r \in commands : r.pay = m.reg /\ r.id < m.re})
        => m.pay = Position(q)

\* The answer about a relay that reaches the server is truthful, duplicates
\* and restarts notwithstanding (the GET_RQ and SET_RQ cases of the sketches):
\* who switches a relay and then asks sees his own command.
GetsLatest == \A n \in Device : Truthful(executed[n], sent[n])

\* The requests that have left the socket: the one being written, those a node
\* has not read, and the commands it remembers.
Writing == IF gpc = "write" THEN {frame} ELSE {}
Unread(n) == {inbox[n][i] : i \in DOMAIN inbox[n]}
InPlay == Writing \cup UNION {Unread(n) \cup executed[n] : n \in Device}

\* An id names one request, and the socket holds none that is in play.
OneRequestPerId ==
  /\ \A i, j \in DOMAIN udp : i < j => udp[i].id < udp[j].id
  /\ \A f, g \in InPlay : f.id = g.id => f = g
  /\ \A f \in InPlay : f.id <= received /\ \A i \in DOMAIN udp : f.id < udp[i].id

\* A request to set something names a pin.
SetsPins ==
  /\ \A f \in InPlay : f.type = "SET_RQ" => f.pay \in Pin
  /\ \A i \in DOMAIN udp : udp[i].type = "SET_RQ" => udp[i].pay \in Pin

\* The entries in pin_states are where the last of the commands left them.
Follow(entries, commands) ==
  \A q \in commands :
    LastOf(q, {r \in commands : r.pay = q.pay})
      => entries[q.pay].state = Position(q)

PinsFollow ==
  \A n \in Device :
    /\ \A q \in executed[n] : IsRelayCommand(q) /\ q.id <= last[n]
    /\ Follow(pins[n], executed[n])

AllTruthful ==
  /\ \A n \in Device :
       Truthful(executed[n], out[n]) /\ Truthful(executed[n], sent[n])
  /\ \A i \in DOMAIN queue : Truthful(executed[queue[i].node], queue[i])
  /\ \A i \in DOMAIN air : Truthful(executed[air[i].node], air[i])

\* The inductive invariant of GetsLatest, on top of FlowInv.
ReadInv ==
  FlowInv /\ OneRequestPerId /\ SetsPins /\ PinsFollow /\ AllTruthful

\* Request k is neither waiting nor being written any more.
Settled(k) ==
  /\ received >= k
  /\ \A i \in DOMAIN udp : udp[i].id # k
  /\ gpc = "write" => frame.id # k

\* The gateway is done with every request some time, though no node may ever
\* acknowledge it (main.cpp's loop).
EveryRequestSettled ==
  \A k \in 1 .. MaxRequests : received >= k ~> Settled(k)

\* A frame a node has received is read, unless the node is down (the loops of
\* the sketches).
EveryFrameHandled ==
  \A n \in Device :
    inbox[n] # <<>> ~> inbox[n] = <<>> \/ npc[n] = "halted"

\* A relay pulls when its pin is driven low.
Energised(n, p) ==
  pins[n][p].mode = "OUTPUT" /\ pins[n][p].port = "LOW"

\* The page shows a relay as "On" unless payload[0] is 0 (app.js:146-152);
\* what a node answers is 0 exactly if the relay is off.
ShownIsTrue ==
  [][\A n \in Device :
       /\ out'[n] # out[n] /\ out'[n] # NoMsg
       /\ out'[n].type = "GET_RP" /\ out'[n].reg \in Pin
       => (out'[n].pay # 0 <=> Energised(n, out'[n].reg))]_relayVars
=============================================================================
