--------------------------- MODULE MessagesGateway --------------------------
(***************************************************************************)
(* The server's request path.  Request threads run the handlers of         *)
(* RootController and AlarmController; each calls one method of            *)
(* MessagesGateway (get, set, ping, availableNodesList), which is          *)
(* synchronized on the MessagesGateway object (msgMonitor) and uses the    *)
(* synchronized methods of UDPGateway (udpMonitor) inside.                 *)
(*                                                                         *)
(* An exchange is: clear the node's slot and send (sendMessage), then poll *)
(* the slot until a message is there or five seconds have passed           *)
(* (retrieveMessageBlocking, which keeps udpMonitor while it polls).  A    *)
(* scan pings the nodes 1 .. ScanUpTo-1 and then reads and clears their    *)
(* slots, pass after pass, until its two seconds are over.                 *)
(***************************************************************************)
EXTENDS UDPGateway

CONSTANTS
  Ops,        \* the operations called: a subset of Op
  Reg,        \* registers asked for
  ScanUpTo,   \* scanUpTo: the first node id a scan leaves out
  MaxCalls    \* bound: calls made

Op == {"get", "set", "ping", "alive", "current"}

ScanNode == 1 .. (ScanUpTo - 1)

\* Handlers that end in one exchange with one node; "current" is
\* AlarmController.currentStatus, a get of the sensor register.
CallsOf(op) ==
  CASE op = "get"     -> [op: {op}, node: Node, reg: Reg, pay: {0}]
    [] op = "set"     -> [op: {op}, node: Node, reg: Reg, pay: Payload]
    [] op = "ping"    -> [op: {op}, node: Node, reg: {0}, pay: Payload]
    [] op = "alive"   -> [op: {op}, node: {1}, reg: {0}, pay: Payload]
    [] op = "current" -> [op: {op}, node: {AlarmNode}, reg: {AlarmReg}, pay: {0}]

Calls == UNION {CallsOf(op) : op \in Op}

\* Those an instance makes.
Offered == UNION {CallsOf(op) : op \in Ops}

ASSUME MessagesAssumption ==
  /\ Ops \subseteq Op
  /\ Reg \subseteq Int
  /\ ScanUpTo \in Nat /\ ScanUpTo > 1
  /\ ScanNode \subseteq Node
  /\ MaxCalls \in Nat

RequestOf(op) ==
  CASE op \in {"get", "current"} -> "GET_RQ"
    [] op = "set"                -> "SET_RQ"
    [] op \in {"ping", "alive"}  -> "PING"

VARIABLES
  pc,          \* what each request thread does next
  msgMonitor,  \* the thread inside a MessagesGateway method, or NoThread
  call,        \* parameters of the thread's call
  id,          \* history: number of the thread's call
  scan,        \* loop variable i of availableNodesList
  answer,      \* the Message the call returned
  alive,       \* availableNodes, the set the scan fills
  outcome,     \* "ok", or the message of the exception thrown
  calls        \* calls made so far

vars == <<udpVars, pc, msgMonitor, call, id, scan, answer, alive, outcome,
          calls>>

callVars == <<call, id, calls>>
resultVars == <<answer, alive, outcome>>

PC == {"idle", "enter", "send", "clear", "transmit", "await", "poll", "scan",
       "scanclear", "returned"}

Outcome == {"none", "ok", "Timeout", "IOException"}

TypeOK ==
  /\ UDPTypeOK
  /\ pc \in [Thread -> PC]
  /\ msgMonitor \in Thread \cup {NoThread}
  /\ call \in [Thread -> Calls]
  /\ id \in [Thread -> Nat]
  /\ scan \in [Thread -> ScanNode]
  /\ answer \in [Thread -> Message \cup {NoMsg}]
  /\ alive \in [Thread -> SUBSET ScanNode]
  /\ outcome \in [Thread -> Outcome]
  /\ calls \in Nat

Scanning(t) == call[t].op = "alive"

\* The node the thread is sending to or reading from.
Target(t) == IF Scanning(t) THEN scan[t] ELSE call[t].node

FirstCall == [op |-> "alive", node |-> 1, reg |-> 0, pay |-> 0]

Init ==
  /\ UDPInit
  /\ pc = [t \in Thread |-> "idle"]
  /\ msgMonitor = NoThread
  /\ call = [t \in Thread |-> FirstCall]
  /\ id = [t \in Thread |-> 0]
  /\ scan = [t \in Thread |-> 1]
  /\ answer = [t \in Thread |-> NoMsg]
  /\ alive = [t \in Thread |-> {}]
  /\ outcome = [t \in Thread |-> "none"]
  /\ calls = 0

Goto(t, from, to) ==
  /\ pc[t] = from
  /\ pc' = [pc EXCEPT ![t] = to]

-----------------------------------------------------------------------------
(* A controller method is entered and left *)

\* An HTTP request reaches a handler, which calls MessagesGateway.
Handle(t, c) ==
  /\ Goto(t, "idle", "enter")
  /\ calls < MaxCalls
  /\ calls' = calls + 1
  /\ call' = [call EXCEPT ![t] = c]
  /\ id' = [id EXCEPT ![t] = calls + 1]
  /\ answer' = [answer EXCEPT ![t] = NoMsg]
  /\ alive' = [alive EXCEPT ![t] = {}]
  /\ outcome' = [outcome EXCEPT ![t] = "none"]
  /\ UNCHANGED <<udpVars, msgMonitor, scan>>

\* The handler turns the message, or the exception, into its reply.
Respond(t) ==
  /\ Goto(t, "returned", "idle")
  /\ UNCHANGED <<udpVars, msgMonitor, callVars, scan, resultVars>>

\* Mutant: the methods are not synchronized.
EnterGatewayUnsynchronized(t) ==
  /\ Goto(t, "enter", "send")
  /\ msgMonitor' = t
  /\ scan' = [scan EXCEPT ![t] = 1]
  /\ UNCHANGED <<udpVars, callVars, resultVars>>

\* The synchronized method is entered.
EnterGateway(t) ==
  /\ Goto(t, "enter", "send")
  /\ msgMonitor = NoThread
  /\ msgMonitor' = t
  /\ scan' = [scan EXCEPT ![t] = 1]
  /\ UNCHANGED <<udpVars, callVars, resultVars>>

\* Mutant: a lock that is not given up when an exception is thrown.
LeaveLocked(t, result) ==
  /\ pc' = [pc EXCEPT ![t] = "returned"]
  /\ msgMonitor' = NoThread
  /\ udpMonitor' = IF result = "ok" THEN NoThread ELSE udpMonitor
  /\ outcome' = [outcome EXCEPT ![t] = result]
  /\ UNCHANGED <<callVars, scan, alive>>

\* The method returns or throws: both monitors are released on the way out.
Leave(t, result) ==
  /\ pc' = [pc EXCEPT ![t] = "returned"]
  /\ msgMonitor' = NoThread
  /\ udpMonitor' = NoThread
  /\ outcome' = [outcome EXCEPT ![t] = result]
  /\ UNCHANGED <<callVars, scan, alive>>

-----------------------------------------------------------------------------
(* sendMessage *)

EnterSend(t) ==
  /\ Goto(t, "send", "clear")
  /\ udpMonitor = NoThread
  /\ udpMonitor' = t
  /\ UNCHANGED <<responseMap, heard, fieldVars, msgMonitor, callVars, scan,
                 resultVars>>

\* Mutant: sendMessage does not clear the slot.
ClearNothing(t) ==
  /\ Goto(t, "clear", "transmit")
  /\ heard' = [heard EXCEPT ![Target(t)] = {}]
  /\ UNCHANGED <<responseMap, udpMonitor, fieldVars, msgMonitor, callVars,
                 scan, resultVars>>

\* Messages of the node received from here on are fresh.
Clear(t) ==
  /\ Goto(t, "clear", "transmit")
  /\ clearMessage(Target(t))
  /\ heard' = [heard EXCEPT ![Target(t)] = {}]
  /\ UNCHANGED <<udpMonitor, fieldVars, msgMonitor, callVars, scan,
                 resultVars>>

RequestDatagram(t) ==
  toBytes(Target(t), RequestOf(call[t].op), call[t].reg, call[t].pay, id[t])

Transmitted(t) ==
  /\ pc[t] = "transmit"
  /\ socketSend(RequestDatagram(t))
  /\ udpMonitor' = NoThread
  /\ UNCHANGED <<responseMap, heard, inbound, clock, dups, alarms, msgMonitor,
                 callVars, resultVars>>

TransmitRequest(t) ==
  /\ ~Scanning(t)
  /\ Transmitted(t)
  /\ pc' = [pc EXCEPT ![t] = "await"]
  /\ UNCHANGED scan

\* Mutant: the ping loop includes scanUpTo.
TransmitPingTooFar(t) ==
  /\ Scanning(t)
  /\ Transmitted(t)
  /\ IF scan[t] < ScanUpTo
     THEN /\ pc' = [pc EXCEPT ![t] = "send"]
          /\ scan' = [scan EXCEPT ![t] = @ + 1]
     ELSE /\ pc' = [pc EXCEPT ![t] = "scan"]
          /\ scan' = [scan EXCEPT ![t] = 1]

\* The ping loop of a scan: the next node, or on to the reading loop.
TransmitPing(t) ==
  /\ Scanning(t)
  /\ Transmitted(t)
  /\ IF scan[t] + 1 < ScanUpTo
     THEN /\ pc' = [pc EXCEPT ![t] = "send"]
          /\ scan' = [scan EXCEPT ![t] = @ + 1]
     ELSE /\ pc' = [pc EXCEPT ![t] = "scan"]
          /\ scan' = [scan EXCEPT ![t] = 1]

\* socket.send throws: the slot stays cleared, the method is left.
TransmitFails(t) ==
  /\ pc[t] = "transmit"
  /\ Leave(t, "IOException")
  /\ UNCHANGED <<responseMap, heard, fieldVars, answer>>

-----------------------------------------------------------------------------
(* retrieveMessageBlocking *)

EnterRetrieve(t) ==
  /\ Goto(t, "await", "poll")
  /\ udpMonitor = NoThread
  /\ udpMonitor' = t
  /\ UNCHANGED <<responseMap, heard, fieldVars, msgMonitor, callVars, scan,
                 resultVars>>

\* A poll that finds a message; the message stays in the map.
PollHit(t) ==
  /\ pc[t] = "poll"
  /\ responseMap[Target(t)] # NoMsg
  /\ answer' = [answer EXCEPT ![t] = responseMap[Target(t)]]
  /\ Leave(t, "ok")
  /\ UNCHANGED <<responseMap, heard, fieldVars>>

\* The deadline passes after a poll that found nothing.  A message may have
\* arrived since that poll: the loop does not look again.
PollTimeout(t) ==
  /\ pc[t] = "poll"
  /\ Leave(t, "Timeout")
  /\ UNCHANGED <<responseMap, heard, fieldVars, answer>>

-----------------------------------------------------------------------------
(* The reading loop of availableNodesList *)

ScanNext(t) ==
  scan' = [scan EXCEPT ![t] = IF @ + 1 < ScanUpTo THEN @ + 1 ELSE 1]

\* Mutant: the scan does not test for null.
ScanReadUnchecked(t) ==
  /\ Goto(t, "scan", "scanclear")
  /\ udpMonitor = NoThread
  /\ UNCHANGED <<udpVars, msgMonitor, callVars, scan, resultVars>>

\* retrieveMessage(i): its monitor is held for this one read only.
ScanRead(t) ==
  /\ pc[t] = "scan"
  /\ udpMonitor = NoThread
  /\ IF responseMap[scan[t]] # NoMsg
     THEN /\ pc' = [pc EXCEPT ![t] = "scanclear"]
          /\ UNCHANGED scan
     ELSE /\ ScanNext(t)
          /\ UNCHANGED pc
  /\ UNCHANGED <<udpVars, msgMonitor, callVars, resultVars>>

\* clearMessage(i): drops whatever is in the slot by now.
ScanClear(t) ==
  /\ Goto(t, "scanclear", "scan")
  /\ udpMonitor = NoThread
  /\ clearMessage(scan[t])
  /\ alive' = [alive EXCEPT ![t] = @ \cup {scan[t]}]
  /\ ScanNext(t)
  /\ UNCHANGED <<udpMonitor, heard, fieldVars, msgMonitor, callVars, answer,
                 outcome>>

\* Mutant: the scan waits until every node has been seen.
ScanEndComplete(t) ==
  /\ alive[t] = ScanNode
  /\ Goto(t, "scan", "returned")
  /\ msgMonitor' = NoThread
  /\ outcome' = [outcome EXCEPT ![t] = "ok"]
  /\ UNCHANGED <<udpVars, callVars, scan, answer, alive>>

\* The deadline is tested at the head of a pass only.
ScanEnd(t) ==
  /\ pc[t] = "scan"
  /\ scan[t] = 1
  /\ Goto(t, "scan", "returned")
  /\ msgMonitor' = NoThread
  /\ outcome' = [outcome EXCEPT ![t] = "ok"]
  /\ UNCHANGED <<udpVars, callVars, scan, answer, alive>>

-----------------------------------------------------------------------------

Exchange(t) ==
  \/ EnterGateway(t) \/ EnterSend(t) \/ Clear(t)
  \/ TransmitRequest(t) \/ TransmitFails(t)
  \/ EnterRetrieve(t) \/ PollHit(t) \/ PollTimeout(t)

ScanStep(t) ==
  TransmitPing(t) \/ ScanRead(t) \/ ScanClear(t) \/ ScanEnd(t)

Background ==
  /\ Field \/ Listener
  /\ UNCHANGED <<pc, msgMonitor, callVars, scan, resultVars>>

\* No request is being handled: the server waits for the next one.
Idle ==
  /\ \A t \in Thread : pc[t] = "idle"
  /\ UNCHANGED vars

Next ==
  \/ \E t \in Thread :
       \/ \E c \in Offered : Handle(t, c)
       \/ Exchange(t) \/ ScanStep(t) \/ Respond(t)
  \/ Background
  \/ Idle

Spec == Init /\ [][Next]_vars

-----------------------------------------------------------------------------
(* Fairness *)

\* A thread inside a method keeps running; the deadline of a scan passes in
\* the end, although it is only seen at the head of a pass.  Nothing is assumed
\* of the field, nor of the order in which a monitor admits threads.
Fairness ==
  \A t \in Thread :
    /\ WF_vars(Exchange(t) \/ TransmitPing(t) \/ ScanRead(t) \/ ScanClear(t))
    /\ WF_vars(Respond(t))
    /\ SF_vars(ScanEnd(t))

FairSpec == Spec /\ Fairness

-----------------------------------------------------------------------------
(* Safety *)

InGateway(t) == pc[t] \notin {"idle", "enter", "returned"}
InUDP(t) == pc[t] \in {"clear", "transmit", "poll"}

\* A thread is inside a method exactly when it owns the monitor; UDPGateway's
\* is owned only inside MessagesGateway's, and scanning code serves scans only.
MonitorsHeld ==
  \A t \in Thread :
    /\ InGateway(t) <=> msgMonitor = t
    /\ InUDP(t) <=> udpMonitor = t
    /\ pc[t] \in {"scan", "scanclear"} => Scanning(t)
    /\ pc[t] \in {"await", "poll"} => ~Scanning(t)

\* Every datagram, in flight or received, carries the id of a node the server
\* knows, cut to a byte: the listener never files a message under a foreign key.
KnownNodes ==
  /\ \A q \in outbound : q.node \in Slot
  /\ \A m \in inbound : m.node \in Slot

\* A slot holds only what was received for its node since the node was last
\* asked.
FreshSlots ==
  \A n \in Slot :
    responseMap[n] # NoMsg =>
      responseMap[n] \in heard[n] /\ responseMap[n].node = n

\* The message a scan has just read is still there when the scan comes to
\* clear it, although retrieveMessage and clearMessage are two steps.
ScanKeeps ==
  \A t \in Thread : pc[t] = "scanclear" => responseMap[scan[t]] # NoMsg

\* What the synchronized methods rest on, and the proofs with them.
IInv == MonitorsHeld /\ KnownNodes /\ FreshSlots /\ ScanKeeps

\* Once the answer a thread waits for has reached the server, no other call
\* takes it away: sendMessage and the scan clear slots, but not while an
\* exchange with the node is under way (both methods of MessagesGateway are
\* synchronized; UDPGateway's monitor alone is free between send and retrieve).
AnswerKept ==
  [][\A t \in Thread :
       /\ pc[t] \in {"await", "poll"} /\ pc'[t] \in {"await", "poll"}
       /\ responseMap[Target(t)] # NoMsg
       => responseMap'[Target(t)] # NoMsg]_vars

\* The answer to a read of a register is an answer about that register: the
\* comments of app.js beside the api/get URLs.  Nothing in the program
\* compares type or register, and the run that checks this finds it violated.
GetAnswersAskedRegister ==
  \A t \in Thread :
    /\ pc[t] = "returned" /\ outcome[t] = "ok" /\ call[t].op = "get"
    => answer[t].type = "GET_RP" /\ answer[t].reg = ByteOf(call[t].reg)

-----------------------------------------------------------------------------
(* The gateway keeps the promise of RequestService *)

Phase(t) ==
  IF pc[t] = "idle" THEN "idle"
  ELSE IF pc[t] = "enter" THEN "waiting"
  ELSE IF pc[t] = "returned" THEN "returned"
  ELSE "asking"

\* The nodes whose slots were cleared on behalf of the thread's call.
AskedBy(t) ==
  IF Scanning(t)
  THEN {n \in ScanNode :
          \/ pc[t] \in {"send", "clear"} /\ n < scan[t]
          \/ pc[t] = "transmit" /\ n <= scan[t]
          \/ pc[t] \in {"scan", "scanclear"}}
  ELSE {n \in {call[t].node} : pc[t] \in {"transmit", "await", "poll"}}

RS == INSTANCE RequestService WITH
        phase <- [t \in Thread |-> Phase(t)],
        asked <- [t \in Thread |-> AskedBy(t)]

\* Calls are served one at a time, and what a call returns or reports was
\* received after the call had asked that very node.
ServesRequests == RS!Spec

-----------------------------------------------------------------------------
(* Correlation, where the field is prompt *)

InFlight == outbound \cup inbound

\* The assumption under which five seconds are enough: when a call ends, by
\* an answer or by its deadline, nothing it caused is still on its way.
\* Alarms come when they come.
PromptNext ==
  /\ Next
  /\ (msgMonitor # NoThread /\ msgMonitor' = NoThread) =>
       \A m \in InFlight : m.node = ByteOf(AlarmNode)

PromptSpec == Init /\ [][PromptNext]_vars

\* With a prompt field, a call to a node that raises no alarms returns the
\* answer to its own request or none: clearing the slot before sending is all
\* the correlation there is, and it is enough then.
OwnAnswer ==
  \A t \in Thread :
    /\ pc[t] = "returned" /\ outcome[t] = "ok" /\ ~Scanning(t)
    /\ call[t].node # ByteOf(AlarmNode)
    => answer[t].re = id[t]

-----------------------------------------------------------------------------
(* Liveness *)

\* Every call is answered to its caller in the end, with a message or an
\* error, whatever the field does: no call keeps a monitor, and none of the
\* waits on the two monitors is circular.
EveryCallReturns ==
  \A t \in Thread : pc[t] = "enter" ~> pc[t] = "returned"
=============================================================================
