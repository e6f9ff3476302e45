----------------------------- MODULE PickerLayout -----------------------------
(***************************************************************************)
(* How large jscolor.js makes the panel of a picker and where it puts it.  *)
(* Options are in pixels.  All other lengths are in quarters of a pixel,   *)
(* for the space between palette and slider may be one and a half times    *)
(* the width of a pointer.  Axis 1 is x and axis 2 is y.                   *)
(***************************************************************************)
EXTENDS Integers

\* The options that say how large a picker is.
Sizes ==
  [width : Nat, height : Nat, sliderSize : Nat, padding : Nat, insetWidth : Nat,
   borderWidth : Nat, buttonHeight : Nat, pointerBorderWidth : Nat,
   pointerThickness : Nat, closable : BOOLEAN, slider : BOOLEAN]

Larger(m, n) == IF m <= n THEN n ELSE m

getPadToSliderPadding(o) ==
  Larger(4 * o.padding, 6 * (2 * o.pointerBorderWidth + o.pointerThickness))

getPickerDims(o) ==
  <<4 * (2 * o.insetWidth + 2 * o.padding + o.width)
      + (IF o.slider
         THEN 4 * (2 * o.insetWidth + o.sliderSize) + getPadToSliderPadding(o)
         ELSE 0),
    4 * (2 * o.insetWidth + 2 * o.padding + o.height)
      + (IF o.closable THEN 4 * (2 * o.insetWidth + o.padding + o.buttonHeight)
         ELSE 0)>>

getPickerOuterDims(o) ==
  [i \in {1, 2} |-> getPickerDims(o)[i] + 8 * o.borderWidth]

-----------------------------------------------------------------------------
(* Position *)

\* A situation: how the picker is to be placed, and for each axis where the
\* target is in the viewport and how large target, viewport and panel are, and
\* how far the page is scrolled.
Length == [{1, 2} -> Nat]
Situation ==
  [position : {"left", "right", "top", "bottom"}, smartPosition : BOOLEAN,
   fixed : BOOLEAN, rel : [{1, 2} -> Int], ts : Length, vs : Length, ps : Length,
   scroll : Length]

vp(g, i) == IF g.fixed THEN 0 ELSE g.scroll[i]    \* getViewPos
tp(g, i) == g.rel[i] + vp(g, i)                   \* getElementPos

\* The panel is put beside the target on axis Beside, before or after it.
Beside(g) == IF g.position \in {"left", "right"} THEN 1 ELSE 2
Wanted(g) == IF g.position \in {"left", "top"} THEN "before" ELSE "after"
Other(side) == IF side = "before" THEN "after" ELSE "before"

At(g, i, side) ==
  IF side = "after" THEN tp(g, i) + g.ts[i] ELSE tp(g, i) - g.ps[i]

\* In the further half of the viewport.
Further(g, i) == 2 * (tp(g, i) - vp(g, i)) + g.ts[i] > g.vs[i]

\* Along the other axis the panel starts, or else ends, with the target.
Aligned(g, i) ==
  IF /\ g.smartPosition
     /\ tp(g, i) - vp(g, i) + g.ps[i] > g.vs[i]
     /\ Further(g, i)
     /\ tp(g, i) + g.ts[i] - g.ps[i] >= 0
  THEN tp(g, i) + g.ts[i] - g.ps[i] ELSE tp(g, i)

\* The wanted side reaches out of the viewport; for a panel before the target
\* the code looks where the panel ends.
Overflows(g, i) ==
  At(g, i, Wanted(g)) + g.ps[i] - vp(g, i) > g.vs[i]

\* Mutant: the half of the viewport the target is in is left out of account.
FlippedAnyway(g, i) ==
  LET flip == /\ g.smartPosition
              /\ ~Overflows(g, i) /\ At(g, i, Wanted(g)) < 0
  IN  At(g, i, IF flip THEN Other(Wanted(g)) ELSE Wanted(g))

\* The side is changed if the wanted one overflows and the other looks better,
\* or if the panel would start before the page does.
Flipped(g, i) ==
  LET flip == /\ g.smartPosition
              /\ IF Overflows(g, i)
                 THEN Further(g, i) /\ At(g, i, Other(Wanted(g))) >= 0
                 ELSE At(g, i, Wanted(g)) < 0
  IN  At(g, i, IF flip THEN Other(Wanted(g)) ELSE Wanted(g))

redrawPosition(g) ==
  [i \in {1, 2} |-> IF i = Beside(g) THEN Flipped(g, i) ELSE Aligned(g, i)]

\* A panel at place p is in the viewport, on axis i.
InView(g, p, i) == p >= vp(g, i) /\ p + g.ps[i] <= vp(g, i) + g.vs[i]

\* Room for a panel before or after the target, or aligned with either end.
RoomBeside(g, i) == g.ps[i] <= g.rel[i] \/ g.rel[i] + g.ts[i] + g.ps[i] <= g.vs[i]
RoomAlong(g, i)  == g.ps[i] <= g.rel[i] + g.ts[i] \/ g.rel[i] + g.ps[i] <= g.vs[i]

\* Place p is in the viewport on every axis on which the target is and where
\* there is room.  Below and to the right smartPosition sees to that; above and to
\* the left it looks whether the panel would leave the page, not the viewport
\* (jscolor.js:452), and sees to it on a page that is not scrolled.
StaysInView(g, p) ==
  LET Visible(i) == g.rel[i] >= 0 /\ g.rel[i] + g.ts[i] <= g.vs[i]
  IN  g.smartPosition =>
        /\ \A i \in {1, 2} \ {Beside(g)} :
             Visible(i) /\ RoomAlong(g, i) => InView(g, p[i], i)
        /\ \A i \in {Beside(g)} :
             Visible(i) /\ RoomBeside(g, i) /\ (Wanted(g) = "after" \/ vp(g, i) = 0)
               => InView(g, p[i], i)
=============================================================================
