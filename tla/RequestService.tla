--------------------------- MODULE RequestService ---------------------------
(***************************************************************************)
(* What MessagesGateway promises to the controllers, without sockets, maps *)
(* and monitors.  Calls are served one at a time.  Serving a call starts   *)
(* by asking a node; from then on every message heard from that node may   *)
(* be returned, and no message heard before may.  A scan asks several      *)
(* nodes and reports only nodes heard after they were asked.  A call may   *)
(* fail, but it returns an answer or an error, never both.                 *)
(*                                                                         *)
(* Nothing here says that the answer belongs to the question: the program  *)
(* promises freshness, not correlation.                                    *)
(***************************************************************************)
EXTENDS Messages

CONSTANTS
  Thread,   \* callers
  Slot,     \* node ids
  Calls     \* calls that can be made, records with fields op and node

VARIABLES
  phase,    \* where the call of each thread stands
  call,     \* the call of each thread, being served or served last
  asked,    \* nodes asked on behalf of the call each thread is being served
  heard,    \* messages heard from each node since it was last asked
  answer,   \* the message returned to each thread
  alive,    \* the nodes reported to each thread
  outcome   \* "ok", or why the call failed

vars == <<phase, call, asked, heard, answer, alive, outcome>>

Init ==
  /\ phase = [t \in Thread |-> "idle"]
  /\ call \in [Thread -> Calls]
  /\ asked = [t \in Thread |-> {}]
  /\ heard = [n \in Slot |-> {}]
  /\ answer = [t \in Thread |-> NoMsg]
  /\ alive = [t \in Thread |-> {}]
  /\ outcome = [t \in Thread |-> "none"]

Arrive(t, c) ==
  /\ phase[t] = "idle"
  /\ phase' = [phase EXCEPT ![t] = "waiting"]
  /\ call' = [call EXCEPT ![t] = c]
  /\ answer' = [answer EXCEPT ![t] = NoMsg]
  /\ alive' = [alive EXCEPT ![t] = {}]
  /\ outcome' = [outcome EXCEPT ![t] = "none"]
  /\ UNCHANGED <<asked, heard>>

Start(t) ==
  /\ phase[t] = "waiting"
  /\ \A u \in Thread : phase[u] # "asking"
  /\ phase' = [phase EXCEPT ![t] = "asking"]
  /\ UNCHANGED <<call, asked, heard, answer, alive, outcome>>

Ask(t, n) ==
  /\ phase[t] = "asking"
  /\ asked' = [asked EXCEPT ![t] = @ \cup {n}]
  /\ heard' = [heard EXCEPT ![n] = {}]
  /\ UNCHANGED <<phase, call, answer, alive, outcome>>

\* Messages arrive whether anybody waits for them or not.
Hear(n) ==
  /\ heard[n] \subseteq heard'[n]
  /\ heard'[n] \subseteq Message
  /\ heard' = [heard EXCEPT ![n] = heard'[n]]
  /\ UNCHANGED <<phase, call, asked, answer, alive, outcome>>

Found(t, n) ==
  /\ phase[t] = "asking"
  /\ call[t].op = "alive"
  /\ n \in asked[t]
  /\ heard[n] # {}
  /\ alive' = [alive EXCEPT ![t] = @ \cup {n}]
  /\ UNCHANGED <<phase, call, asked, heard, answer, outcome>>

\* The end of a call, however it ends.
Return(t, result) ==
  /\ phase[t] = "asking"
  /\ phase' = [phase EXCEPT ![t] = "returned"]
  /\ asked' = [asked EXCEPT ![t] = {}]
  /\ outcome' = [outcome EXCEPT ![t] = result]

Succeed(t) ==
  /\ Return(t, "ok")
  /\ \/ /\ call[t].op = "alive"
        /\ UNCHANGED answer
     \/ /\ call[t].op # "alive"
        /\ call[t].node \in asked[t]
        /\ \E m \in heard[call[t].node] : answer' = [answer EXCEPT ![t] = m]
  /\ UNCHANGED <<call, heard, alive>>

Fail(t) ==
  /\ \E why \in {"Timeout", "IOException"} : Return(t, why)
  /\ UNCHANGED <<call, heard, answer, alive>>

Respond(t) ==
  /\ phase[t] = "returned"
  /\ phase' = [phase EXCEPT ![t] = "idle"]
  /\ UNCHANGED <<call, asked, heard, answer, alive, outcome>>

Next ==
  \/ \E t \in Thread :
       \/ \E c \in Calls : Arrive(t, c)
       \/ Start(t) \/ Succeed(t) \/ Fail(t) \/ Respond(t)
       \/ \E n \in Slot : Ask(t, n) \/ Found(t, n)
  \/ \E n \in Slot : Hear(n)

Spec == Init /\ [][Next]_vars
=============================================================================
