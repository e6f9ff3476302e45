----------------------------- MODULE MCSensorNode -----------------------------
EXTENDS SensorNode

Bytes == 0 .. 255

Ask(n, type, reg, pay, val) ==
  [node |-> n, type |-> type, reg |-> reg, pay |-> pay, val |-> val, id |-> 0]

\* The sensor of node 2, a pin of the lamp, and 9, which does not exist.
Asked == {Ask(2, "GET_RQ", REG_SENSOR, 0, 0), Ask(1, "SET_RQ", ANALOG_WRITE, 1, 255),
          Ask(9, "PING", 0, 7, 0)}

LampAndReader == {1, 2}
Lamps   == {1}
Readers == {2}
Pins    == {1}
Sample1 == {0}
=============================================================================
