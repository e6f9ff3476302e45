------------------------------ MODULE Messages ------------------------------
(***************************************************************************)
(* The messages of CWSmartHome and what a byte of the wire does to a       *)
(* number.  A message is a frame of eleven bytes: node, type, register and *)
(* eight payload bytes, of which only payload[0] is told apart here.       *)
(*                                                                         *)
(* Field "id" of a request and field "re" of a reply are history: the      *)
(* program sends neither, and that is why an answer can be taken for the   *)
(* answer to another request.  They only let properties say whose answer   *)
(* a message is.                                                           *)
(***************************************************************************)
EXTENDS Integers

CONSTANTS
  Payload,   \* the values payload[0] takes
  NoMsg      \* no message: a null reference of the Java code

RequestType == {"GET_RQ", "SET_RQ", "PING"}
ReplyType   == {"GET_RP", "SET_RP", "PONG", "ALARM"}

\* The type a device answers each request type with.
AnswerType(type) ==
  CASE type = "GET_RQ" -> "GET_RP"
    [] type = "SET_RQ" -> "SET_RP"
    [] type = "PING"   -> "PONG"

\* The Java cast (byte) i, read back as an int: the low eight bits, signed.
ByteOf(i) == ((i + 128) % 256) - 128

\* A datagram for the NRF gateway.
Request == [node: Int, type: RequestType, reg: Int, pay: Payload, id: Nat]

\* A datagram from the NRF gateway, and the Message object made from it,
\* which is stamped with the time of its creation.
Reply   == [node: Int, type: ReplyType, reg: Int, pay: Payload, re: Nat]
Message == [node: Int, type: ReplyType, reg: Int, pay: Payload, re: Nat,
            timestamp: Nat]

\* Message.toBytes for a request: node and register become signed bytes.
toBytes(node, type, reg, pay, id) ==
  [node |-> ByteOf(node), type |-> type, reg |-> ByteOf(reg), pay |-> pay,
   id |-> id]

\* Message.fromBytes: the constructor reads the clock.
fromBytes(m, now) ==
  [node |-> m.node, type |-> m.type, reg |-> m.reg, pay |-> m.pay,
   re |-> m.re, timestamp |-> now]

\* What a device puts into the answer to q: the sampled value for a GET, the
\* first payload byte of the request for a SET and a PING.
AnswerPayload(q) == IF q.type = "GET_RQ" THEN Payload ELSE {q.pay}

Answer(q, v) ==
  [node |-> q.node, type |-> AnswerType(q.type), reg |-> q.reg, pay |-> v,
   re |-> q.id]
=============================================================================
