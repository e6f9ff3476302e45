----------------------------- MODULE UDPGateway -----------------------------
(***************************************************************************)
(* The server's UDPGateway: a UDP socket, the map from node id to the last *)
(* message received from that node, and the listener thread that fills it. *)
(*                                                                         *)
(* The methods are synchronized on the gateway object (udpMonitor); the    *)
(* listener is not, it puts into a ConcurrentHashMap whenever a datagram   *)
(* arrives.  The methods are broken into the steps another thread can      *)
(* interleave with and appear as actions of the modules that call them;    *)
(* here are the listener and the field, that is whatever lies behind the   *)
(* socket: NRF gateway, radio and devices.  The field may lose a request,  *)
(* answer it late, or answer it twice (a radio frame whose ack was lost is *)
(* written again), and a sensor node may raise an alarm on its own.        *)
(***************************************************************************)
EXTENDS Messages

CONSTANTS
  Thread,      \* request threads of the web server
  NoThread,    \* owner of a free monitor
  Node,        \* node ids the API is called with
  AlarmNode,   \* the node that raises alarms; AlarmWatcher's nodeID
  AlarmReg,    \* the register of its sensor
  Tick,        \* milliseconds that may pass between two receipts
  MaxDups,     \* bound: requests answered once more than asked
  MaxAlarms    \* bound: alarms raised

\* The keys of responseMap: ids as callers give them and as bytes carry them.
Slot == Node \cup {ByteOf(n) : n \in Node}

ASSUME UDPAssumption ==
  /\ NoThread \notin Thread
  /\ Node \subseteq Int
  /\ AlarmNode \in Node
  /\ AlarmReg \in Int
  /\ Payload \subseteq Int
  /\ 0 \in Payload
  /\ NoMsg \notin Message
  /\ Tick \subseteq Nat /\ Tick # {}
  /\ MaxDups \in Nat
  /\ MaxAlarms \in Nat

VARIABLES
  responseMap,  \* last message of each node, or NoMsg
  udpMonitor,   \* the thread inside a synchronized method, or NoThread
  outbound,     \* requests sent and not yet answered or lost
  inbound,      \* replies on their way to the listener
  clock,        \* time of the last receipt, later than 0 as the time of day is
  dups,         \* answers given twice so far
  alarms,       \* alarms raised so far
  heard         \* history: messages put for a node since it was last asked

udpVars == <<responseMap, udpMonitor, outbound, inbound, clock, dups, alarms,
             heard>>

\* The field and the listener share nothing else with the server.
fieldVars == <<outbound, inbound, clock, dups, alarms>>

UDPTypeOK ==
  /\ responseMap \in [Slot -> Message \cup {NoMsg}]
  /\ udpMonitor \in Thread \cup {NoThread}
  /\ outbound \subseteq Request
  /\ inbound \subseteq Reply
  /\ clock \in Nat
  /\ dups \in Nat
  /\ alarms \in Nat
  /\ heard \in [Slot -> SUBSET Message]

UDPInit ==
  /\ responseMap = [n \in Slot |-> NoMsg]
  /\ udpMonitor = NoThread
  /\ outbound = {}
  /\ inbound = {}
  /\ clock = 1
  /\ dups = 0
  /\ alarms = 0
  /\ heard = [n \in Slot |-> {}]

-----------------------------------------------------------------------------
(* The listener thread *)

\* The new Message is stamped with the clock, which has moved by some tick
\* since the last receipt: by none at all if both fall into one millisecond.
ListenerReceive(m) ==
  /\ m \in inbound
  /\ inbound' = inbound \ {m}
  /\ \E d \in Tick :
       LET msg == fromBytes(m, clock + d) IN
       /\ clock' = clock + d
       /\ responseMap' = [responseMap EXCEPT ![m.node] = msg]
       /\ heard' = [heard EXCEPT ![m.node] = @ \cup {msg}]
  /\ UNCHANGED <<udpMonitor, outbound, dups, alarms>>

-----------------------------------------------------------------------------
(* Bodies of the synchronized methods, used as parts of actions *)

\* clearMessage
clearMessage(n) == responseMap' = [responseMap EXCEPT ![n] = NoMsg]

\* The socket.send at the end of sendMessage.
socketSend(q) == outbound' = outbound \cup {q}

-----------------------------------------------------------------------------
(* The field: NRF gateway, radio and devices, as the server sees them *)

FieldAnswers(q) ==
  /\ q \in outbound
  /\ outbound' = outbound \ {q}
  /\ \E v \in AnswerPayload(q) : inbound' = inbound \cup {Answer(q, v)}
  /\ UNCHANGED <<responseMap, udpMonitor, clock, dups, alarms, heard>>

FieldAnswersAgain(q) ==
  /\ q \in outbound
  /\ dups < MaxDups
  /\ dups' = dups + 1
  /\ \E v \in AnswerPayload(q) : inbound' = inbound \cup {Answer(q, v)}
  /\ UNCHANGED <<responseMap, udpMonitor, outbound, clock, alarms, heard>>

FieldLoses(q) ==
  /\ q \in outbound
  /\ outbound' = outbound \ {q}
  /\ UNCHANGED <<responseMap, udpMonitor, inbound, clock, dups, alarms, heard>>

\* The sensor is sampled once more for the payload and may have fallen back.
FieldAlarm ==
  /\ alarms < MaxAlarms
  /\ alarms' = alarms + 1
  /\ \E v \in Payload :
       inbound' = inbound \cup
         {[node |-> ByteOf(AlarmNode), type |-> "ALARM", reg |-> AlarmReg,
           pay |-> v, re |-> alarms + 1]}
  /\ UNCHANGED <<responseMap, udpMonitor, outbound, clock, dups, heard>>

Field ==
  \/ \E q \in outbound :
       FieldAnswers(q) \/ FieldAnswersAgain(q) \/ FieldLoses(q)
  \/ FieldAlarm

Listener == \E m \in inbound : ListenerReceive(m)
=============================================================================
