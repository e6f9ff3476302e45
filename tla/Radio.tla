-------------------------------- MODULE Radio --------------------------------
(***************************************************************************)
(* The nRF24 radio network between the NRF gateway and the devices, as the *)
(* programs at both ends use it: network.update, available, read and write *)
(* of RF24Network, which is a library outside this repository.             *)
(*                                                                         *)
(* A write returns whether the frame was acknowledged.  A frame may be     *)
(* lost; it may arrive while its acknowledgement is lost; and the receiver *)
(* may acknowledge a frame it has no room for.  The radio keeps the order  *)
(* of the frames that do arrive.                                           *)
(***************************************************************************)
EXTENDS Messages, Sequences

CONSTANTS
  Device,     \* the nodes that are on the air
  QueueMax    \* frames a receiver holds until its program reads them

\* What the firmware calls a byte: uint8_t, unlike Java's signed one.
Byte == 0 .. 255

ASSUME RadioAssumption ==
  /\ Device \subseteq Int
  /\ QueueMax \in Nat \ {0}
  /\ Payload = Byte
  /\ NoMsg \notin Reply

\* A request on the air.  The bytes of a payload that a device looks at are
\* payload[0] (pay) and payload[1] (val).
Frame == [node: Int, type: RequestType, reg: Byte, pay: Byte, val: Byte,
          id: Nat]

VARIABLES
  inbox,   \* frames each device has received and not read
  air      \* frames the gateway has received and not taken in by update

radioVars == <<inbox, air>>

RadioTypeOK ==
  /\ inbox \in [Device -> Seq(Frame)]
  /\ air \in Seq(Reply)

RadioInit ==
  /\ inbox = [n \in Device |-> <<>>]
  /\ air = <<>>

\* network.write of frame f to a receiver holding the frames of box, which
\* becomes next; ok is what the call returns.
Written(f, box, next, ok) ==
  \/ Len(box) < QueueMax /\ next = Append(box, f)
  \/ next = box /\ (ok => Len(box) >= QueueMax)
=============================================================================
