------------------------------ MODULE SmartHome ------------------------------
(***************************************************************************)
(* The whole house: the server with its alarm bookkeeping, the NRF gateway *)
(* and the nodes, each as its own module says, joined where the programs   *)
(* are: by the datagrams between UDPGateway and the gateway's two sockets. *)
(* Where UDPGateway.tla has an abstract field, here are the real ones: a   *)
(* request arrives, or never does; what the gateway sends reaches the      *)
(* listener, or does not.                                                  *)
(*                                                                         *)
(* Frames carry no number.  The numbers the two sides give to requests,    *)
(* history on both, are matched by posed: the frame with id k was made of  *)
(* the datagram posed[k].                                                  *)
(***************************************************************************)
EXTENDS SensorNode

CONSTANTS
  Thread, NoThread, Watcher,
  Known,                      \* node ids the API is called with: Node
  AlarmNode, AlarmReg,
  Ops, Reg, ScanUpTo, Tick,
  MaxCalls,
  MaxAnswers,                 \* bound: answers that reach the server
  MaxAlarms                   \* bound: alarms that reach the server

\* AlarmWatcher and AlarmController know the reader's id and register.
ASSUME HomeAssumption == Reader = {AlarmNode} /\ AlarmReg = REG_SENSOR

\* The rest is what the server's modules assume.
ASSUME ServerAssumption ==
  /\ NoThread \notin Thread /\ Watcher \notin Thread
  /\ Known \subseteq Int /\ AlarmNode \in Known
  /\ NoMsg \notin Message
  /\ Ops \subseteq {"get", "set", "ping", "alive", "current"}
  /\ Reg \subseteq Int
  /\ ScanUpTo \in Nat /\ ScanUpTo > 1 /\ 1 .. (ScanUpTo - 1) \subseteq Known
  /\ Tick \subseteq Nat /\ Tick # {}
  /\ MaxCalls \in Nat /\ MaxAnswers \in Nat /\ MaxAlarms \in Nat

VARIABLES
  responseMap, udpMonitor, outbound, inbound, clock, alarms, heard,
  pc, msgMonitor, call, id, scan, answer, alive, outcome, calls,
  lastAlarmTimestamp, totalAlarms, stage, seen, read, counted,
  answers,   \* answers that have reached the server
  posed      \* history: requests that have reached the gateway, in order

callerVars == <<pc, msgMonitor, call, id, scan, answer, alive, outcome, calls>>
watchVars  == <<lastAlarmTimestamp, totalAlarms, stage, seen, read, counted>>
serverVars ==
  <<responseMap, udpMonitor, outbound, inbound, clock, answers, alarms, heard,
    callerVars, watchVars>>
homeVars   == <<sensorVars, serverVars, posed>>

Server == INSTANCE AlarmService WITH
            Node <- Known, MaxDups <- MaxAnswers, dups <- answers

HomeInit ==
  /\ SensorInit
  /\ Server!AlarmInit
  /\ posed = <<>>

-----------------------------------------------------------------------------
(* The datagrams between them *)

\* The gateway makes the frame f of the datagram q.  Whether the signed byte of
\* an id is read as such or not depends on the gateway's compiler.
Carries(f, q) ==
  /\ ByteOf(f.node) = q.node /\ ByteOf(f.reg) = q.reg
  /\ f.type = q.type /\ f.pay = q.pay

\* A request reaches the gateway's socket: at any time, if at all, and in any
\* order, but only once.
Reach ==
  \E q \in outbound, f \in Question :
    /\ \A k \in DOMAIN posed : posed[k] # q
    /\ Carries(f, q)
    /\ Arrive(f)
    /\ posed' = Append(posed, q)
    /\ UNCHANGED <<nodeVars, readerVars, serverVars>>

\* Mutant: the datagram names another register.
DatagramShifted(m) ==
  [node |-> ByteOf(m.node), type |-> m.type, reg |-> ByteOf(m.reg + 1),
   pay |-> m.pay,
   re |-> IF m.type = "ALARM" THEN alarms + 1 ELSE posed[m.re].id]

\* What the gateway makes of the frame m.  Alarms are numbered as they come.
Datagram(m) ==
  [node |-> ByteOf(m.node), type |-> m.type, reg |-> ByteOf(m.reg),
   pay |-> m.pay,
   re |-> IF m.type = "ALARM" THEN alarms + 1 ELSE posed[m.re].id]

\* cli.send gets a frame through to the server ...
Deliver ==
  /\ Forward
  /\ LET m == Head(queue) IN
       /\ sent' = [sent EXCEPT ![m.node] = m]
       /\ inbound' = inbound \cup {Datagram(m)}
       /\ IF m.type = "ALARM"
          THEN alarms < MaxAlarms /\ alarms' = alarms + 1 /\ UNCHANGED answers
          ELSE answers < MaxAnswers /\ answers' = answers + 1 /\ UNCHANGED alarms
  /\ UNCHANGED <<nodeVars, readerVars, posed, responseMap, udpMonitor, outbound,
                 clock, heard, callerVars, watchVars>>

\* ... or does not.
Miss ==
  /\ sent' = sent
  /\ Forward
  /\ UNCHANGED <<nodeVars, readerVars, posed, serverVars>>

-----------------------------------------------------------------------------

\* Gateway and nodes, as long as nothing goes to the server.
FieldStep ==
  /\ \/ /\ Update \/ Drained \/ Recv \/ RecvNothing \/ Write
        /\ UNCHANGED <<nodeVars, readerVars>>
     \/ \E n \in Device \ Reader : (NodeLoop(n) \/ Restart(n)) /\ UNCHANGED readerVars
     \/ \E n \in Reader : ReaderLoop(n) \/ RestartReader(n) \/ Change(n)
  /\ UNCHANGED <<serverVars, posed>>

ServerStep ==
  /\ \/ /\ \/ \E t \in Thread :
                \/ \E c \in Server!Offered : Server!Handle(t, c)
                \/ Server!Exchange(t) \/ Server!ScanStep(t)
           \/ Server!Listener /\ UNCHANGED callerVars
        /\ UNCHANGED watchVars
     \/ Server!WatcherStep
     \/ \E t \in Thread : Server!Count(t) \/ Server!Finish(t)
  /\ UNCHANGED <<sensorVars, posed>>

HomeNext == Reach \/ Deliver \/ Miss \/ FieldStep \/ ServerStep

HomeSpec == HomeInit /\ [][HomeNext]_homeVars

-----------------------------------------------------------------------------
(* Properties *)

\* To the server, gateway, radio and nodes are no worse than the field its
\* module assumes: every datagram is an answer to a request that was sent, of
\* the right type and about its register, or an alarm of the sensor, whatever
\* is repeated, lost, restarted or late (main.cpp's loop, DigitalInputReader's).
FieldAsAssumed == Server!AlarmSpec

\* The time the page shows as the last alarm is one that is in the total, with
\* alarms as the sensor raises them and its answers racing with them
\* (AlarmWatcher.kt:22-26, AlarmController.kt:39-46).
LastIsCounted == Server!LastWasCounted
=============================================================================
