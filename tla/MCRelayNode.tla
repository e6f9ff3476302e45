----------------------------- MODULE MCRelayNode -----------------------------
EXTENDS RelayNode

Bytes == 0 .. 255

Ask(type, reg, pay, val) ==
  [node |-> 3, type |-> type, reg |-> reg, pay |-> pay, val |-> val, id |-> 0]

\* Node 3: relay 2 on, off and read, as the page's buttons do.
Relay == {Ask("SET_RQ", RELAY_ON, 2, 1), Ask("SET_RQ", RELAY_OFF, 2, 0),
          Ask("GET_RQ", 2, 0, 0)}

Station == {3}
NoLamp  == {}
Pins    == {2}
Sample  == {0, 23}
=============================================================================
