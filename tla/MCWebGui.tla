------------------------------ MODULE MCWebGui ------------------------------
EXTENDS WebGui

One       == {1}
Zero      == {0}
Relays    == {2}
Red       == <<15, 15, 0, 0, 0, 0>>
Teal      == <<0, 0, 8, 0, 12, 3>>
Colours   == {Red, Teal}
Drags     == {200}
Half      == {50}
Third     == {3}
Visits    == {{"nodes", "esp"}, {"lamp"}, {"alarms"}, {"relays"}, {"weather"}}
Inputs    == [p \in Panel |-> IF p = "alarms" THEN 2 ELSE 3]
=============================================================================
