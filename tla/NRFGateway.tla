------------------------------ MODULE NRFGateway ------------------------------
(***************************************************************************)
(* NRFtoUDPGateway: the single-threaded loop of main.cpp.  Each pass takes *)
(* in what the radio has received, sends all of it to the server, and then *)
(* takes at most one request from its UDP socket and writes it to the air  *)
(* until a write is acknowledged or MAX_REWRITE_ATTEMPTS were made.        *)
(***************************************************************************)
EXTENDS Radio

CONSTANTS
  Question,             \* what the server may ask: requests without an id
  MAX_REWRITE_ATTEMPTS,
  MaxRequests           \* bound: requests that reach the socket

ASSUME GatewayAssumption ==
  /\ Question \subseteq Frame
  /\ MAX_REWRITE_ATTEMPTS \in Nat \ {0}
  /\ MaxRequests \in Nat
  /\ NoMsg \notin Frame

VARIABLES
  udp,        \* datagrams in the socket's buffer
  gpc,        \* where in its loop the gateway is
  queue,      \* frames taken in by network.update and not yet read
  frame,      \* out_msg, the request being written
  attempts,
  received,   \* requests that have reached the socket
  sent        \* history: the last datagram sent to the server of each node

gatewayVars == <<udp, gpc, queue, frame, attempts, received, sent>>

GatewayTypeOK ==
  /\ udp \in Seq(Frame)
  /\ gpc \in {"update", "drain", "recv", "write"}
  /\ queue \in Seq(Reply)
  /\ frame \in Frame \cup {NoMsg}
  /\ attempts \in 0 .. MAX_REWRITE_ATTEMPTS
  /\ gpc = "write" => frame \in Frame /\ attempts < MAX_REWRITE_ATTEMPTS
  /\ received \in Nat
  /\ sent \in [Device -> Reply \cup {NoMsg}]

GatewayInit ==
  /\ udp = <<>>
  /\ gpc = "update"
  /\ queue = <<>>
  /\ frame = NoMsg
  /\ attempts = 0
  /\ received = 0
  /\ sent = [n \in Device |-> NoMsg]

\* A request of the server arrives.  Ids number the requests as they arrive.
Arrive(q) ==
  /\ received < MaxRequests
  /\ received' = received + 1
  /\ udp' = Append(udp, [q EXCEPT !.id = received + 1])
  /\ UNCHANGED <<radioVars, gpc, queue, frame, attempts, sent>>

-----------------------------------------------------------------------------
(* The loop *)

\* network.update() reads the radio empty.
Update ==
  /\ gpc = "update"
  /\ gpc' = "drain"
  /\ queue' = queue \o air
  /\ air' = <<>>
  /\ UNCHANGED <<inbox, udp, frame, attempts, received, sent>>

\* Mutant: the frames are read last come, first served.
ForwardLast ==
  /\ gpc = "drain"
  /\ queue # <<>>
  /\ queue' = SubSeq(queue, 1, Len(queue) - 1)
  /\ LET m == queue[Len(queue)] IN
     sent' \in {sent, [sent EXCEPT ![m.node] = m]}
  /\ UNCHANGED <<radioVars, udp, gpc, frame, attempts, received>>

\* A frame is read and sent on; when the send fails it is only logged.
Forward ==
  /\ gpc = "drain"
  /\ queue # <<>>
  /\ queue' = Tail(queue)
  /\ LET m == Head(queue) IN sent' \in {sent, [sent EXCEPT ![m.node] = m]}
  /\ UNCHANGED <<radioVars, udp, gpc, frame, attempts, received>>

Drained ==
  /\ gpc = "drain"
  /\ queue = <<>>
  /\ gpc' = "recv"
  /\ UNCHANGED <<radioVars, udp, queue, frame, attempts, received, sent>>

Recv ==
  /\ gpc = "recv"
  /\ udp # <<>>
  /\ frame' = Head(udp)
  /\ udp' = Tail(udp)
  /\ attempts' = 0
  /\ gpc' = "write"
  /\ UNCHANGED <<radioVars, queue, received, sent>>

\* The socket does not block: recv returns -1 at once.
RecvNothing ==
  /\ gpc = "recv"
  /\ udp = <<>>
  /\ gpc' = "update"
  /\ UNCHANGED <<radioVars, udp, queue, frame, attempts, received, sent>>

\* One network.write to the node of the frame, which may not be on the air.
WriteTo(ok) ==
  /\ UNCHANGED air
  /\ \/ /\ frame.node \in Device
        /\ \E next \in {inbox[frame.node], Append(inbox[frame.node], frame)} :
             /\ Written(frame, inbox[frame.node], next, ok)
             /\ inbox' = [inbox EXCEPT ![frame.node] = next]
     \/ frame.node \notin Device /\ ~ok /\ UNCHANGED inbox

\* The rewrite loop goes on after a write that returned ok, or ends; out_msg
\* is local to it.
NextWrite(ok, end) ==
  /\ WriteTo(ok)
  /\ IF end THEN gpc' = "update" /\ frame' = NoMsg ELSE UNCHANGED <<gpc, frame>>

\* Mutant: no limit to the attempts.
WriteForever ==
  /\ gpc = "write"
  /\ \E ok \in BOOLEAN : NextWrite(ok, ok)
  /\ UNCHANGED <<udp, queue, attempts, received, sent>>

\* Mutant: one attempt too many.
WriteOnceMore ==
  /\ gpc = "write"
  /\ attempts' = attempts + 1
  /\ \E ok \in BOOLEAN : NextWrite(ok, ok \/ attempts' > MAX_REWRITE_ATTEMPTS)
  /\ UNCHANGED <<udp, queue, received, sent>>

\* Mutant: instead of being written again at once, a frame goes to the back
\* of the queue.
WriteLater ==
  /\ gpc = "write"
  /\ \E ok \in BOOLEAN :
       /\ NextWrite(ok, TRUE)
       /\ udp' = IF ok THEN udp ELSE Append(udp, frame)
  /\ UNCHANGED <<attempts, queue, received, sent>>

\* One pass of the rewrite loop.  The last attempt ends it and is reported as
\* a failure, whatever the write returned.
Write ==
  /\ gpc = "write"
  /\ attempts' = attempts + 1
  /\ \E ok \in BOOLEAN :
       NextWrite(ok, ok \/ attempts' >= MAX_REWRITE_ATTEMPTS)
  /\ UNCHANGED <<udp, queue, received, sent>>

Loop == Update \/ Forward \/ Drained \/ Recv \/ RecvNothing \/ Write
=============================================================================
