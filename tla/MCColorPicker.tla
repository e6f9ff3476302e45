---------------------------- MODULE MCColorPicker ----------------------------
EXTENDS ColorPicker, TLC

H(a, b, c, d, e, f) == <<"hex", <<a, b, c, d, e, f>>>>

\* The page's picker, at the lower edge of the window, and one with most options
\* the other way round, at the left edge.
PageSizes ==
  [width |-> 3, height |-> 3, sliderSize |-> 16, padding |-> 12, insetWidth |-> 1,
   borderWidth |-> 1, buttonHeight |-> 18, pointerBorderWidth |-> 1,
   pointerThickness |-> 2, closable |-> FALSE, slider |-> TRUE]
StrictSizes ==
  [PageSizes EXCEPT !.padding = 1, !.pointerThickness = 3,
                    !.pointerBorderWidth = 3, !.closable = TRUE]

PageWhere ==
  [position |-> "bottom", smartPosition |-> TRUE, fixed |-> FALSE,
   rel |-> <<20, 260>>, ts |-> <<100, 40>>, vs |-> <<400, 400>>,
   ps |-> getPickerOuterDims(PageSizes), scroll |-> <<0, 80>>]
StrictWhere ==
  [PageWhere EXCEPT !.position = "left", !.fixed = TRUE, !.rel = <<8, 240>>,
                    !.ps = getPickerOuterDims(StrictSizes)]

Page   == [mode |-> "HSV", required |-> TRUE, refine |-> TRUE, showOnClick |-> TRUE,
           limits |-> NoLimits, value |-> Unheard, sizes |-> PageSizes,
           where |-> PageWhere]
Strict == [mode |-> "HVS", required |-> FALSE, refine |-> FALSE, showOnClick |-> TRUE,
           limits |-> [NoLimits EXCEPT !.maxV = Number(60)],
           value |-> H(4, 0, 0, 0, 4, 0), sizes |-> StrictSizes,
           where |-> StrictWhere]

CONSTANTS A, B
MCPicker    == {A, B}
MCOption    == (A :> Page @@ B :> Strict)
MCInitially == (A :> H(0, 0, 0, 0, 0, 0) @@ B :> Blank)
MCParent    == (A :> {"tab", "page"} @@ B :> {"form", "page"})
MCTyped     == {<<"other", <<>>>>, <<"hex", <<15, 8, 0>>>>}
MCPointerX  == {3}
MCPointerY  == {0, 5}

MCOpened  == <<400, 400>>
MCResized == {<<400, 300>>}

\* Colours with levels at the ends of the scale and around its middle.
ASSUME RoundTrips ==
  \A c \in [1 .. 3 -> {0, 1, 127, 128, 254, 255}] : RoundTrip(c)
=============================================================================
