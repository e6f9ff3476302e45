-------------------------- MODULE ColorPicker_proofs --------------------------
(***************************************************************************)
(* The shared panel is always its owner's: the marked field, the picker    *)
(* that palette and slider steer, and the colour that is drawn are those   *)
(* of one picker.  What is drawn is the point: a drag redraws only what it *)
(* moves, so the proof shows that the rest of the colour stays as it was.  *)
(* Wherever the target is and whatever the sizes are, the panel is put     *)
(* into the viewport.                                                      *)
(* What the field shows and what the page hears follows from one fact      *)
(* about the arithmetic of colours, ReadsBack, and from nothing less; for  *)
(* pickers without limits, as the page has them, that is a theorem of      *)
(* arithmetic.  No colour ever leaves its range.                           *)
(***************************************************************************)
EXTENDS ColorPicker, Colour_proofs, TLAPS

Triple(hsv) == hsv = [i \in 1 .. 3 |-> hsv[i]]

PickersOK(pk) ==
  /\ pk = [p \in Picker |-> pk[p]]
  /\ \A p \in Picker :
       /\ pk[p] = [hsv |-> pk[p].hsv, rgb |-> pk[p].rgb, field |-> pk[p].field,
                   style |-> pk[p].style]
       /\ Triple(pk[p].hsv)

OwnersOK ==
  /\ installed \subseteq Picker
  /\ owner \in installed \cup {NoPicker}
  /\ inst \in installed \cup {NoPicker}

\* Inductive.
PanelInv == PickersOK(pick) /\ OwnersOK /\ OwnerInControl /\ PanelShows

-----------------------------------------------------------------------------
(* Colours *)

LEMMA Components ==
  ASSUME NEW p \in Picker
  PROVE  /\ getPadYComponent(p) \in {2, 3}
         /\ getSliderComponent(p) \in {0, 2, 3} \ {getPadYComponent(p)}
  BY PickerAssumption DEF getPadYComponent, getSliderComponent, Mode

\* fromHSV gives a colour, and keeps what it is told to keep.
LEMMA FromHSV ==
  ASSUME NEW lim, NEW hsv, NEW h, NEW s, NEW v
  PROVE  LET new == fromHSV(lim, hsv, h, s, v) IN
           /\ Triple(new)
           /\ h = Keep => new[1] = hsv[1]
           /\ s = Keep => new[2] = hsv[2]
           /\ v = Keep => new[3] = hsv[3]
  BY DEF fromHSV, Triple

\* A drag on the palette does not move the slider's component.
LEMMA PadKeeps ==
  ASSUME NEW p \in Picker, NEW hsv, NEW x, NEW y
  PROVE  LET new == Steered(p, hsv, {"pad"}, x, y)
             i   == getSliderComponent(p)
         IN  Triple(new) /\ (i # 0 => new[i] = hsv[i])
  BY Components, FromHSV DEF Steered

\* A drag on the slider moves nothing else.
LEMMA SldKeeps ==
  ASSUME NEW p \in Picker, NEW hsv, NEW x, NEW y
  PROVE  LET new == Steered(p, hsv, {"sld"}, x, y)
             i   == getSliderComponent(p)
         IN  Triple(new) /\ \A j \in {1, 2, 3} \ {i} : new[j] = hsv[j]
  BY Components, FromHSV DEF Steered

LEMMA SteeredTriple ==
  ASSUME NEW p, NEW hsv, NEW held, NEW x, NEW y
  PROVE  Triple(Steered(p, hsv, held, x, y))
  BY FromHSV DEF Steered

\* What is typed, or read back from the field, leaves a picker in good order.
GoodPick(k) ==
  /\ k = [hsv |-> k.hsv, rgb |-> k.rgb, field |-> k.field, style |-> k.style]
  /\ Triple(k.hsv)

\* One part of a picker is replaced.
LEMMA Replaced ==
  ASSUME NEW k, GoodPick(k), NEW v
  PROVE  /\ [k EXCEPT !.hsv = v]
              = [hsv |-> v, rgb |-> k.rgb, field |-> k.field, style |-> k.style]
         /\ [k EXCEPT !.rgb = v]
              = [hsv |-> k.hsv, rgb |-> v, field |-> k.field, style |-> k.style]
         /\ [k EXCEPT !.field = v]
              = [hsv |-> k.hsv, rgb |-> k.rgb, field |-> v, style |-> k.style]
         /\ [k EXCEPT !.style = v]
              = [hsv |-> k.hsv, rgb |-> k.rgb, field |-> k.field, style |-> v]
<1>1. k \in [hsv : {k.hsv}, rgb : {k.rgb}, field : {k.field}, style : {k.style}]
  BY DEF GoodPick
<1>2. PICK R, S, T, U : k \in [hsv : R, rgb : S, field : T, style : U]
  BY <1>1
<1> QED
  BY <1>2

LEMMA Restyled ==
  ASSUME NEW k, GoodPick(k), NEW s
  PROVE  GoodPick([k EXCEPT !.style = s]) /\ [k EXCEPT !.style = s].hsv = k.hsv
<1> DEFINE new == [k EXCEPT !.style = s]
<1>1. new = [hsv |-> k.hsv, rgb |-> k.rgb, field |-> k.field, style |-> s]
  BY Replaced, Zenon
<1> HIDE DEF new
<1>2. GoodPick(new) /\ new.hsv = k.hsv
  BY <1>1 DEF GoodPick
<1> QED
  BY <1>2 DEF new

\* Another text in the field.
LEMMA Refielded ==
  ASSUME NEW k, GoodPick(k), NEW t
  PROVE  GoodPick([k EXCEPT !.field = t]) /\ [k EXCEPT !.field = t].hsv = k.hsv
<1> DEFINE new == [k EXCEPT !.field = t]
<1>1. new = [hsv |-> k.hsv, rgb |-> k.rgb, field |-> t, style |-> k.style]
  BY Replaced, Zenon
<1> HIDE DEF new
<1>2. GoodPick(new) /\ new.hsv = k.hsv
  BY <1>1 DEF GoodPick
<1> QED
  BY <1>2 DEF new

LEMMA Exported ==
  ASSUME NEW k, GoodPick(k), NEW leave
  PROVE  GoodPick(exportColor(k, leave)) /\ exportColor(k, leave).hsv = k.hsv
<1> DEFINE f == IF "value" \in leave THEN k.field ELSE toString(k.rgb)
           s == IF "style" \in leave THEN k.style ELSE Painted(k)
           new == [k EXCEPT !.field = f]
<1>1. GoodPick(new) /\ new.hsv = k.hsv
  BY Refielded
<1>2. new = [hsv |-> k.hsv, rgb |-> k.rgb, field |-> f, style |-> k.style]
  BY Replaced, Zenon
<1>3. exportColor(k, leave) = [new EXCEPT !.style = s]
  BY Zenon DEF exportColor
<1> HIDE DEF new
<1>4. GoodPick([new EXCEPT !.style = s]) /\ [new EXCEPT !.style = s].hsv = k.hsv
  BY <1>1, Restyled
<1> QED
  BY <1>3, <1>4, Zenon

LEMMA ColouredGood ==
  ASSUME NEW k, GoodPick(k), NEW hsv, Triple(hsv)
  PROVE  GoodPick(Coloured(k, hsv)) /\ Coloured(k, hsv).hsv = hsv
<1> DEFINE new == [k EXCEPT !.hsv = hsv]
<1>1. new = [hsv |-> hsv, rgb |-> k.rgb, field |-> k.field, style |-> k.style]
  BY Replaced, Zenon
<1>2. Coloured(k, hsv) = [new EXCEPT !.rgb = HSV_RGB(hsv)]
  BY Zenon DEF Coloured
<1> HIDE DEF new
<1>3. GoodPick(new) /\ new.hsv = hsv
  BY <1>1 DEF GoodPick
<1>4. [new EXCEPT !.rgb = HSV_RGB(hsv)]
        = [hsv |-> new.hsv, rgb |-> HSV_RGB(hsv), field |-> new.field,
           style |-> new.style]
  BY <1>3, Replaced, Zenon
<1>5. Coloured(k, hsv) = [hsv |-> hsv, rgb |-> HSV_RGB(hsv), field |-> new.field,
                          style |-> new.style]
  BY <1>2, <1>3, <1>4, Zenon
<1> QED
  BY <1>5 DEF GoodPick

LEMMA FromRGBTriple ==
  ASSUME NEW lim, NEW hsv, NEW c
  PROVE  Triple(fromRGB(lim, hsv, c))
  BY DEF fromRGB, Triple

LEMMA FromStringGood ==
  ASSUME NEW p, NEW k, GoodPick(k), NEW t, NEW leave
  PROVE  GoodPick(fromString(p, k, t, leave))
  BY FromRGBTriple, ColouredGood, Exported DEF fromString

LEMMA ImportGood ==
  ASSUME NEW p, NEW k, GoodPick(k)
  PROVE  GoodPick(importColor(p, k))
<1>1. GoodPick([k EXCEPT !.style = Original])
  BY Restyled
<1>2. GoodPick(fromString(p, k, k.field, IF Option[p].refine THEN {} ELSE {"value"}))
  BY FromStringGood
<1>3. GoodPick(exportColor(k, {}))
  BY Exported
<1> QED
  BY <1>1, <1>2, <1>3, Zenon DEF importColor

-----------------------------------------------------------------------------
(* Drawing *)

Shows(pn, p, hsv) == pn = Drawn(pn, p, hsv, {})

LEMMA DrawnWhole ==
  ASSUME NEW pn, NEW p, NEW hsv
  PROVE  Shows(Drawn(pn, p, hsv, {}), p, hsv)
  BY DEF Shows, Drawn

\* The slider's pointer may be left alone if its component did not change.
LEMMA DrawnPad ==
  ASSUME NEW pn, NEW p \in Picker, NEW old, NEW new, Shows(pn, p, old),
         getSliderComponent(p) # 0
           => new[getSliderComponent(p)] = old[getSliderComponent(p)]
  PROVE  Shows(Drawn(pn, p, new, {"sld"}), p, new)
<1>1. pn.pointer = IF getSliderComponent(p) = 0 THEN pn.pointer
                   ELSE Down(new[getSliderComponent(p)])
  BY DEF Shows, Drawn
<1> QED
  BY <1>1 DEF Shows, Drawn

\* Cross and gradient may be left alone if only the slider's component changed.
LEMMA DrawnSld ==
  ASSUME NEW pn, NEW p \in Picker, NEW old, NEW new, Shows(pn, p, old),
         Triple(old), Triple(new),
         \A j \in {1, 2, 3} \ {getSliderComponent(p)} : new[j] = old[j]
  PROVE  Shows(Drawn(pn, p, new, {"pad"}), p, new)
<1>1. Cross(p, new) = Cross(p, old)
  BY Components DEF Cross
<1>2. ASSUME NEW part, getSliderComponent(p) # 0
      PROVE  [new EXCEPT ![getSliderComponent(p)] = part]
               = [old EXCEPT ![getSliderComponent(p)] = part]
  <2> DEFINE i == getSliderComponent(p)
  <2>1. [new EXCEPT ![i] = part] = [j \in 1 .. 3 |-> IF j = i THEN part ELSE new[j]]
    BY DEF Triple
  <2>2. [old EXCEPT ![i] = part] = [j \in 1 .. 3 |-> IF j = i THEN part ELSE old[j]]
    BY DEF Triple
  <2>3. \A j \in 1 .. 3 : j # i => new[j] = old[j]
    OBVIOUS
  <2> QED
    BY <2>1, <2>2, <2>3
<1>3. Gradient(p, new) = Gradient(p, old)
  BY <1>2 DEF Gradient
<1>4. pn.cross = Cross(p, new) /\ pn.gradient = Gradient(p, new)
  BY <1>1, <1>3 DEF Shows, Drawn
<1> QED
  BY <1>4 DEF Shows, Drawn

-----------------------------------------------------------------------------
(* Steps *)

\* A picker that is given good values stays good, and the others do.
LEMMA PickOne ==
  ASSUME PickersOK(pick), NEW p \in Picker, NEW k, GoodPick(k),
         pick' = [pick EXCEPT ![p] = k]
  PROVE  PickersOK(pick') /\ pick'[p] = k /\ \A q \in Picker \ {p} : pick'[q] = pick[q]
  BY DEF PickersOK, GoodPick

\* p's colour changes and its panel, if it is open, is redrawn to show it.
LEMMA RedrawKeeps ==
  ASSUME PanelInv, NEW p \in Picker, NEW leave, PickersOK(pick'),
         installed' = installed, Redraw(p, leave),
         \A q \in Picker \ {p} : pick'[q] = pick[q],
         owner = p => Shows(Drawn(pane, p, pick'[p].hsv, leave), p, pick'[p].hsv)
  PROVE  PanelInv'
<1>1. OwnersOK' /\ OwnerInControl'
  BY DEF PanelInv, OwnersOK, OwnerInControl, Redraw
<1>2. PanelShows'
  <2>1. CASE owner = p
    BY <2>1 DEF Redraw, PanelShows, Shows
  <2>2. CASE owner # p
    BY <2>2 DEF Redraw, PanelShows, PanelInv, OwnersOK
  <2> QED
    BY <2>1, <2>2
<1> QED
  BY <1>1, <1>2 DEF PanelInv

\* The whole panel is redrawn.
LEMMA RedrawWhole ==
  ASSUME PanelInv, NEW p \in Picker, NEW k, GoodPick(k),
         pick' = [pick EXCEPT ![p] = k], installed' = installed, Redraw(p, {})
  PROVE  PanelInv'
<1>1. PickersOK(pick') /\ \A q \in Picker \ {p} : pick'[q] = pick[q]
  BY PickOne DEF PanelInv
<1> QED
  BY <1>1, DrawnWhole, RedrawKeeps

\* A pointer gives the picker that is steered another colour.
LEMMA Recoloured ==
  ASSUME PanelInv, NEW hsv, Triple(hsv), inst \in Picker, NEW leave,
         Recolour(inst, hsv, leave),
         owner = inst => Shows(Drawn(pane, inst, hsv, leave), inst, hsv)
  PROVE  PanelInv'
<1> DEFINE k == exportColor(Coloured(pick[inst], hsv), {})
<1>1. GoodPick(pick[inst])
  BY DEF PanelInv, PickersOK, GoodPick
<1>2. GoodPick(k) /\ k.hsv = hsv
  BY <1>1, ColouredGood, Exported
<1>3. pick' = [pick EXCEPT ![inst] = k]
  BY DEF Recolour
<1> HIDE DEF k
<1>4. PickersOK(pick') /\ pick'[inst] = k /\ \A q \in Picker \ {inst} : pick'[q] = pick[q]
  BY <1>2, <1>3, PickOne DEF PanelInv
<1>5. installed' = installed /\ Redraw(inst, leave)
  BY DEF Recolour
<1> QED
  BY <1>2, <1>4, <1>5, RedrawKeeps

\* While the panel shows it, a drag on some controls leaves the picker shown.
LEMMA DragShows ==
  ASSUME PanelInv, owner = inst, inst \in Picker, NEW held \in SUBSET Control,
         NEW x, NEW y, held # {}
  PROVE  LET hsv == Steered(inst, pick[inst].hsv, held, x, y)
         IN  Shows(Drawn(pane, inst, hsv, {c \in Control : c \notin held}), inst, hsv)
<1> DEFINE old == pick[inst].hsv
<1>1. Shows(pane, inst, old) /\ Triple(old)
  BY PickerAssumption DEF PanelInv, PanelShows, Shows, PickersOK
<1>2. CASE held = {"pad"}
  <2>1. {c \in Control : c \notin held} = {"sld"}
    BY <1>2 DEF Control
  <2> QED
    BY <1>1, <1>2, <2>1, PadKeeps, DrawnPad
<1>3. CASE held = {"sld"}
  <2>1. {c \in Control : c \notin held} = {"pad"}
    BY <1>3 DEF Control
  <2>2. LET new == Steered(inst, old, {"sld"}, x, y)
        IN  /\ Triple(new)
            /\ \A j \in {1, 2, 3} \ {getSliderComponent(inst)} : new[j] = old[j]
    BY SldKeeps
  <2> QED
    BY <1>1, <1>3, <2>1, <2>2, DrawnSld
<1>4. CASE held = {"pad", "sld"}
  <2>1. {c \in Control : c \notin held} = {}
    BY <1>4 DEF Control
  <2> QED
    BY <2>1, DrawnWhole
<1> QED
  BY <1>2, <1>3, <1>4 DEF Control

LEMMA StartKeeps ==
  ASSUME PanelInv, NEW control \in Control, NEW kind, PointerStart(control, kind)
  PROVE  PanelInv'
<1> DEFINE hsv == pick[inst].hsv
<1>1. owner = inst /\ inst \in Picker
  BY DEF PointerStart, PanelInv, OwnerInControl, OwnersOK
<1>2. PICK x \in PointerX, y \in PointerY :
        IF control = "pad"
        THEN Recolour(inst, Steered(inst, Lifted(inst, hsv), {"pad"}, x, y),
                      IF Lifted(inst, hsv) = hsv THEN {"sld"} ELSE {})
        ELSE Recolour(inst, Steered(inst, hsv, {"sld"}, x, y), {"pad"})
  BY DEF PointerStart
<1>3. CASE control = "pad" /\ Lifted(inst, hsv) = hsv
  <2>1. {c \in Control : c \notin {"pad"}} = {"sld"} /\ {"pad"} \in SUBSET Control
    BY DEF Control
  <2>2. Shows(Drawn(pane, inst, Steered(inst, hsv, {"pad"}, x, y), {"sld"}), inst,
              Steered(inst, hsv, {"pad"}, x, y))
    BY <1>1, <2>1, DragShows
  <2> QED
    BY <1>1, <1>2, <1>3, <2>2, SteeredTriple, Recoloured
<1>4. CASE control = "pad" /\ Lifted(inst, hsv) # hsv
  BY <1>1, <1>2, <1>4, SteeredTriple, DrawnWhole, Recoloured
<1>5. CASE control = "sld"
  <2>1. {c \in Control : c \notin {"sld"}} = {"pad"} /\ {"sld"} \in SUBSET Control
    BY DEF Control
  <2>2. Shows(Drawn(pane, inst, Steered(inst, hsv, {"sld"}, x, y), {"pad"}), inst,
              Steered(inst, hsv, {"sld"}, x, y))
    BY <1>1, <2>1, DragShows
  <2> QED
    BY <1>1, <1>2, <1>5, <2>2, SteeredTriple, Recoloured
<1> QED
  BY <1>3, <1>4, <1>5 DEF Control

LEMMA MoveKeeps ==
  ASSUME PanelInv, NEW kind, PointerMove(kind), inst \in Picker
  PROVE  PanelInv'
<1> DEFINE held == Held(kind)
<1>1. PICK x \in PointerX, y \in PointerY :
        Recolour(inst, Steered(inst, pick[inst].hsv, held, x, y),
                 {c \in Control : c \notin held})
  BY DEF PointerMove
<1>2. held \in SUBSET Control /\ held # {}
  BY DEF PointerMove, Held
<1> HIDE DEF held
<1>3. owner = inst =>
        Shows(Drawn(pane, inst, Steered(inst, pick[inst].hsv, held, x, y),
                    {c \in Control : c \notin held}),
              inst, Steered(inst, pick[inst].hsv, held, x, y))
  BY <1>2, DragShows
<1> QED
  BY <1>1, <1>3, SteeredTriple, Recoloured

LEMMA InstallKeeps ==
  ASSUME PanelInv, install
  PROVE  PanelInv'
<1>1. ASSUME NEW p \in Picker
      PROVE  GoodPick(pick[p]) /\ GoodPick(Construct(p))
  <2>1. GoodPick(pick[p])
    BY DEF PanelInv, PickersOK, GoodPick
  <2> QED
    BY <2>1, ImportGood, FromStringGood, Exported, Zenon DEF Construct
<1>2. \A p \in Picker : GoodPick(pick'[p]) /\ (p \in installed => pick'[p] = pick[p])
  BY <1>1 DEF install
<1>3. PickersOK(pick')
  BY <1>2 DEF install, PickersOK, GoodPick
<1>4. OwnersOK' /\ OwnerInControl'
  BY DEF install, panelVars, PanelInv, OwnersOK, OwnerInControl
<1>5. PanelShows'
  BY <1>2 DEF install, panelVars, PanelInv, OwnersOK, PanelShows
<1> QED
  BY <1>3, <1>4, <1>5 DEF PanelInv

LEMMA ShowKeeps ==
  ASSUME PanelInv, NEW p \in installed, show(p)
  PROVE  PanelInv'
<1>1. p \in Picker /\ NoPicker \notin Picker
  BY PickerAssumption DEF PanelInv, OwnersOK
<1>2. OwnersOK'
  BY <1>1 DEF show, PanelInv, OwnersOK
<1>3. OwnerInControl'
  BY <1>1 DEF show, PanelInv, OwnerInControl
<1>4. PanelShows'
  BY DrawnWhole DEF show, PanelShows, Shows
<1>5. PickersOK(pick')
  BY DEF show, PanelInv
<1> QED
  BY <1>2, <1>3, <1>4, <1>5 DEF PanelInv

LEMMA HideKeeps ==
  ASSUME PanelInv, hide
  PROVE  PanelInv'
<1>1. OwnersOK' /\ OwnerInControl' /\ PanelShows' /\ PickersOK(pick')
  BY DEF hide, PanelInv, OwnersOK, OwnerInControl, PanelShows
<1> QED
  BY <1>1 DEF PanelInv

LEMMA TypeKeeps ==
  ASSUME PanelInv, NEW p \in Picker, Type(p)
  PROVE  PanelInv'
<1>1. PICK t : pick' = [pick EXCEPT ![p] = Entered(p, t)]
  BY DEF Type
<1>2. GoodPick(pick[p])
  BY DEF PanelInv, PickersOK, GoodPick
<1>3. GoodPick([pick[p] EXCEPT !.field = t])
  BY <1>2, Refielded
<1>4. GoodPick(fromString(p, [pick[p] EXCEPT !.field = t], t, {"value"}))
  BY <1>3, FromStringGood
<1>5. GoodPick(Entered(p, t))
  BY <1>3, <1>4, Zenon DEF Entered
<1>6. installed' = installed /\ Redraw(p, {})
  BY DEF Type
<1> QED
  BY <1>1, <1>5, <1>6, RedrawWhole

LEMMA BlurKeeps ==
  ASSUME PanelInv, NEW p \in Picker, Blur(p)
  PROVE  PanelInv'
<1>1. GoodPick(importColor(p, pick[p]))
  BY ImportGood DEF PanelInv, PickersOK, GoodPick
<1>2. pick' = [pick EXCEPT ![p] = importColor(p, pick[p])]
  BY DEF Blur
<1>3. installed' = installed /\ Redraw(p, {})
  BY DEF Blur
<1> QED
  BY <1>1, <1>2, <1>3, RedrawWhole

\* The rest leaves pickers and panel alone.
LEMMA OthersKeep ==
  ASSUME PanelInv,
         UNCHANGED <<installed, pick, owner, inst, active, pane, watched>>
  PROVE  PanelInv'
<1>1. OwnersOK' /\ OwnerInControl' /\ PanelShows' /\ PickersOK(pick')
  BY DEF PanelInv, OwnersOK, OwnerInControl, PanelShows
<1> QED
  BY <1>1 DEF PanelInv

-----------------------------------------------------------------------------
(* Theorems *)

LEMMA InitPanel == PickerInit => PanelInv
<1> SUFFICES ASSUME PickerInit PROVE PanelInv
  OBVIOUS
<1>1. PickersOK(pick)
  <2> DEFINE hsv == <<Number(0), Number(0), Number(100)>>
  <2>1. \A p \in Picker : pick[p] = [hsv |-> hsv, rgb |-> White,
                                    field |-> Initially[p], style |-> Original]
    BY DEF PickerInit
  <2>2. pick = [p \in Picker |-> pick[p]]
    BY DEF PickerInit
  <2>3. Triple(hsv)
    BY DEF Triple
  <2> HIDE DEF hsv
  <2>4. ASSUME NEW p \in Picker
        PROVE  /\ pick[p] = [hsv |-> pick[p].hsv, rgb |-> pick[p].rgb,
                             field |-> pick[p].field, style |-> pick[p].style]
               /\ Triple(pick[p].hsv)
    <3>1. ASSUME NEW k, NEW a, NEW b, NEW c, NEW d,
                 k = [hsv |-> a, rgb |-> b, field |-> c, style |-> d]
          PROVE  /\ k = [hsv |-> k.hsv, rgb |-> k.rgb, field |-> k.field,
                         style |-> k.style]
                 /\ k.hsv = a
      BY <3>1
    <3>2. pick[p] = [hsv |-> hsv, rgb |-> White, field |-> Initially[p],
                     style |-> Original]
      BY <2>1, Zenon
    <3>3. /\ pick[p] = [hsv |-> pick[p].hsv, rgb |-> pick[p].rgb,
                        field |-> pick[p].field, style |-> pick[p].style]
          /\ pick[p].hsv = hsv
      BY <3>1, <3>2, ZenonT(60)
    <3> QED
      BY <2>3, <3>3, Zenon
  <2> QED
    BY <2>2, <2>4 DEF PickersOK
<1>2. OwnersOK /\ OwnerInControl /\ PanelShows
  BY DEF PickerInit, OwnersOK, OwnerInControl, PanelShows
<1> QED
  BY <1>1, <1>2 DEF PanelInv

\* inst is set as soon as something is dragged.
DragOwned == drag # {} => inst # NoPicker

LEMMA NextPanel ==
  ASSUME PanelInv, DragOwned, [PickerNext]_pickerVars
  PROVE  PanelInv' /\ DragOwned'
<1>1. CASE install
  <2>1. DragOwned'
    BY <1>1 DEF install, panelVars, DragOwned
  <2> QED
    BY <1>1, <2>1, InstallKeeps
<1>2. CASE PressElsewhere \/ ParentScroll
  <2>1. hide
    BY <1>2 DEF PressElsewhere, ParentScroll
  <2> QED
    BY <2>1, HideKeeps DEF hide, DragOwned
<1>3. ASSUME NEW p \in Picker, PressField(p)
      PROVE  PanelInv' /\ DragOwned'
  <2>1. p \in installed /\ show(p)
    BY <1>3 DEF PressField
  <2>2. DragOwned'
    BY <2>1, PickerAssumption DEF show, DragOwned
  <2> QED
    BY <2>1, <2>2, ShowKeeps
<1>4. ASSUME NEW p \in Picker, Type(p)
      PROVE  PanelInv' /\ DragOwned'
  <2>1. DragOwned'
    BY <1>4 DEF Type, Redraw, DragOwned
  <2> QED
    BY <1>4, <2>1, TypeKeeps
<1>5. ASSUME NEW p \in Picker, Enter(p)
      PROVE  PanelInv' /\ DragOwned'
  <2>1. UNCHANGED <<installed, pick, panelVars>> /\ UNCHANGED drag
    BY <1>5 DEF Enter
  <2> QED
    BY <2>1, OthersKeep DEF panelVars, DragOwned
<1>6. ASSUME NEW p \in Picker, Blur(p)
      PROVE  PanelInv' /\ DragOwned'
  <2>1. DragOwned'
    BY <1>6 DEF Blur, Redraw, DragOwned
  <2> QED
    BY <1>6, <2>1, BlurKeeps
<1>7. ASSUME NEW kind \in Pointer, NEW control \in Control, PointerStart(control, kind)
      PROVE  PanelInv' /\ DragOwned'
  <2>1. inst' = inst /\ owner # NoPicker
    BY <1>7 DEF PointerStart, Recolour, Redraw
  <2>2. DragOwned'
    BY <2>1 DEF DragOwned, PanelInv, OwnerInControl
  <2> QED
    BY <1>7, <2>2, StartKeeps
<1>8. ASSUME NEW kind \in Pointer, PointerMove(kind)
      PROVE  PanelInv' /\ DragOwned'
  <2>1. inst' = inst /\ drag' = drag /\ drag # {}
    BY <1>8 DEF PointerMove, Held, Recolour, Redraw
  <2>2. inst \in Picker /\ DragOwned'
    BY <2>1 DEF DragOwned, PanelInv, OwnersOK
  <2> QED
    BY <1>8, <2>2, MoveKeeps
<1>9. ASSUME NEW kind \in Pointer, PointerEnd(kind)
      PROVE  PanelInv' /\ DragOwned'
  <2>1. UNCHANGED <<installed, pick, panelVars>> /\ drag' = {}
    BY <1>9 DEF PointerEnd
  <2> QED
    BY <2>1, OthersKeep DEF panelVars, DragOwned
<1>10. CASE UNCHANGED pickerVars
  <2>1. UNCHANGED <<installed, pick, panelVars>> /\ UNCHANGED drag
    BY <1>10 DEF pickerVars
  <2> QED
    BY <2>1, OthersKeep DEF panelVars, DragOwned
<1>11. CASE Resize
  <2>1. /\ UNCHANGED <<installed, pick, owner, inst, active, pane, watched>>
        /\ UNCHANGED drag
    BY <1>11 DEF Resize
  <2> QED
    BY <2>1, OthersKeep DEF DragOwned
<1> QED
  BY <1>1, <1>2, <1>3, <1>4, <1>5, <1>6, <1>7, <1>8, <1>9, <1>10, <1>11
  DEF PickerNext

LEMMA PanelInvariant == PickerSpec => [](PanelInv /\ DragOwned)
<1>1. PickerInit => PanelInv /\ DragOwned
  BY InitPanel DEF PickerInit, DragOwned
<1>2. PanelInv /\ DragOwned /\ [PickerNext]_pickerVars => (PanelInv /\ DragOwned)'
  BY NextPanel
<1> QED
  BY <1>1, <1>2, PTL DEF PickerSpec

\* Marked field, steered picker and watched elements are always the owner's.
THEOREM OwnerAlwaysInControl == PickerSpec => []OwnerInControl
<1>1. PanelInv /\ DragOwned => OwnerInControl
  BY DEF PanelInv
<1> QED
  BY <1>1, PanelInvariant, PTL

\* The open panel always shows its owner's colour.
THEOREM PanelAlwaysShows == PickerSpec => []PanelShows
<1>1. PanelInv /\ DragOwned => PanelShows
  BY DEF PanelInv
<1> QED
  BY <1>1, PanelInvariant, PTL

-----------------------------------------------------------------------------
(* The position of the panel, for targets everywhere *)

\* The lengths of a situation are numbers.
LEMMA Lengths ==
  ASSUME NEW g \in Situation, NEW i \in {1, 2}
  PROVE  /\ g.rel[i] \in Int /\ g.ts[i] \in Nat /\ g.vs[i] \in Nat
         /\ g.ps[i] \in Nat /\ vp(g, i) \in Nat
  BY DEF Situation, Length, vp

\* Along the target.
LEMMA AlongInView ==
  ASSUME NEW g \in Situation, NEW i \in {1, 2}, g.smartPosition,
         g.rel[i] >= 0, g.rel[i] + g.ts[i] <= g.vs[i], RoomAlong(g, i)
  PROVE  InView(g, Aligned(g, i), i)
  BY Lengths DEF Aligned, Further, InView, RoomAlong, tp

\* Beside the target, wanted after it.
LEMMA AfterInView ==
  ASSUME NEW g \in Situation, NEW i \in {1, 2}, g.smartPosition,
         g.rel[i] >= 0, g.rel[i] + g.ts[i] <= g.vs[i], RoomBeside(g, i),
         Wanted(g) = "after"
  PROVE  InView(g, Flipped(g, i), i)
  BY Lengths DEF Flipped, Overflows, At, Further, InView, RoomBeside, tp, Other

\* Beside the target, wanted before it, on a page that is not scrolled.
LEMMA BeforeInView ==
  ASSUME NEW g \in Situation, NEW i \in {1, 2}, g.smartPosition,
         g.rel[i] >= 0, g.rel[i] + g.ts[i] <= g.vs[i], RoomBeside(g, i),
         Wanted(g) = "before", vp(g, i) = 0
  PROVE  InView(g, Flipped(g, i), i)
  BY Lengths DEF Flipped, Overflows, At, Further, InView, RoomBeside, tp, Other

\* In every situation a panel is put into the viewport if there is room.
LEMMA Placed ==
  ASSUME NEW g \in Situation
  PROVE  StaysInView(g, redrawPosition(g))
<1>1. Beside(g) \in {1, 2} /\ Wanted(g) \in {"before", "after"}
  BY DEF Beside, Wanted
<1>2. ASSUME NEW i \in {1, 2} \ {Beside(g)}
      PROVE  redrawPosition(g)[i] = Aligned(g, i)
  BY <1>2 DEF redrawPosition
<1>3. ASSUME NEW i \in {Beside(g)}
      PROVE  i \in {1, 2} /\ redrawPosition(g)[i] = Flipped(g, i)
  BY <1>1, <1>3 DEF redrawPosition
<1> QED
  BY <1>1, <1>2, <1>3, AlongInView, AfterInView, BeforeInView DEF StaysInView

-----------------------------------------------------------------------------
(* The open panel *)

\* The place that was computed last is the one for the owner and the window.
PlaceInv ==
  /\ window \in Length
  /\ owner # NoPicker => place = redrawPosition(Now(owner, window))

LEMMA InitPlace == PickerInit => PlaceInv
  BY PanelAssumption DEF PickerInit, PlaceInv

LEMMA NextPlace ==
  ASSUME PlaceInv, [PickerNext]_pickerVars
  PROVE  PlaceInv'
<1>1. ASSUME UNCHANGED <<window, place>>, owner' \in {owner, NoPicker}
      PROVE  PlaceInv'
  BY <1>1 DEF PlaceInv
<1>2. CASE install
  BY <1>1, <1>2 DEF install, panelVars
<1>3. CASE PressElsewhere \/ ParentScroll
  BY <1>1, <1>3 DEF PressElsewhere, ParentScroll, hide
<1>4. ASSUME NEW p \in Picker, PressField(p)
      PROVE  PlaceInv'
  BY <1>4 DEF PressField, show, PlaceInv
<1>5. CASE Resize
  BY <1>5, PanelAssumption DEF Resize, PlaceInv
<1>6. ASSUME NEW p \in Picker, Type(p) \/ Blur(p)
      PROVE  PlaceInv'
  BY <1>1, <1>6 DEF Type, Blur, Redraw
<1>7. ASSUME NEW p \in Picker, Enter(p)
      PROVE  PlaceInv'
  BY <1>1, <1>7 DEF Enter, panelVars
<1>8. ASSUME NEW p, NEW hsv, NEW leave, Recolour(p, hsv, leave)
      PROVE  PlaceInv'
  BY <1>1, <1>8 DEF Recolour, Redraw
<1>9. ASSUME NEW kind, NEW control, PointerStart(control, kind)
      PROVE  PlaceInv'
  BY <1>8, <1>9 DEF PointerStart
<1>10. ASSUME NEW kind, PointerMove(kind)
       PROVE  PlaceInv'
  BY <1>8, <1>10 DEF PointerMove
<1>11. ASSUME NEW kind, PointerEnd(kind)
       PROVE  PlaceInv'
  BY <1>1, <1>11 DEF PointerEnd, panelVars
<1>12. CASE UNCHANGED pickerVars
  BY <1>1, <1>12 DEF pickerVars, panelVars
<1> QED
  BY <1>2, <1>3, <1>4, <1>5, <1>6, <1>7, <1>9, <1>10, <1>11, <1>12
  DEF PickerNext

LEMMA PlaceInvariant == PickerSpec => []PlaceInv
  BY InitPlace, NextPlace, PTL DEF PickerSpec

\* The options of the owner are those of a picker.
LEMMA OwnerOptions ==
  ASSUME PanelInv, owner # NoPicker
  PROVE  \A vs \in Length : Now(owner, vs) \in Situation
<1>1. owner \in Picker
  BY DEF PanelInv, OwnersOK
<1>2. Option[owner].where \in Situation
  BY <1>1, PanelAssumption
<1>3. ASSUME NEW g \in Situation, NEW vs \in Length
      PROVE  [g EXCEPT !.vs = vs] \in Situation
  BY DEF Situation
<1> QED
  BY <1>2, <1>3 DEF Now

\* An open panel is in the viewport if its target is and there is room.
THEOREM PlacedAlways == PickerSpec => []PlacedInView
<1>1. PanelInv /\ DragOwned /\ PlaceInv => PlacedInView
  BY OwnerOptions, Placed DEF PlaceInv, PlacedInView
<1> QED
  BY <1>1, PanelInvariant, PlaceInvariant, PTL

-----------------------------------------------------------------------------
(* The field *)

\* The colour that fromString makes of the text t, for a picker that had hsv.
Reading(p, hsv, t) == fromRGB(Option[p].limits, hsv, Parsed(t))

\* The colour of k is what its field says.
ReadFrom(p, k) == k.hsv = Reading(p, k.hsv, k.field) /\ k.rgb = HSV_RGB(k.hsv)

\* The arithmetic behind BlurIsIdle, and all of it: a colour that was written is
\* read back, within the limits of the options, as one that is written the same.
ReadsBack ==
  \A p \in installed \ typing :
    LET k == pick[p] IN
      k.field = toString(k.rgb)
        => toString(HSV_RGB(Reading(p, k.hsv, k.field))) = k.field

\* FieldShows, of one picker.
ShownBy(p, k) ==
  \/ k.field = toString(k.rgb) /\ k.style = Painted(k)
  \/ /\ ~Option[p].refine
     /\ k.style = IF Parsed(k.field) = NoColour THEN Original ELSE Painted(k)
  \/ ~Option[p].required /\ k.field = Blank /\ k.style = Original

\* The field of p, if p is k and the fields in ty are being typed in.
TextOK(p, k, ty) ==
  /\ \/ Parsed(k.field) = NoColour
     \/ ReadFrom(p, k)
     \/ p \notin ty /\ k.field = toString(k.rgb)
  /\ p \notin ty => ShownBy(p, k)

\* Inductive, as long as colours are read back as they were written.
TextInv ==
  /\ PickersOK(pick)
  /\ installed \subseteq Picker /\ typing \subseteq installed
  /\ \A p \in installed : TextOK(p, pick[p], typing)

LEMMA TextShows == TextInv => FieldShows
  BY DEF TextInv, TextOK, ShownBy, FieldShows

\* A colour that is written is no other text.
LEMMA Written ==
  ASSUME NEW c
  PROVE  Parsed(toString(c)) # NoColour
<1> DEFINE digits == [i \in 1 .. 6 |-> LET n == Round(c[(i + 1) \div 2])
                                        IN  IF i % 2 = 1 THEN n \div 16 ELSE n % 16]
           t == toString(c)
<1>1. t = <<"hex", digits>>
  BY Zenon DEF toString, Hex
<1> HIDE DEF digits
<1>2. DOMAIN digits = 1 .. 6 /\ digits = [i \in 1 .. 6 |-> digits[i]]
  BY DEF digits
<1> HIDE DEF t
<1>3. t[1] = "hex" /\ t[2] = digits /\ Len(digits) = 6
  BY <1>1, <1>2
<1>4. Parsed(t) = [i \in 1 .. 3 |-> Number(16 * t[2][2 * i - 1] + t[2][2 * i])]
  BY <1>3 DEF Parsed
<1>5. 1 \in DOMAIN Parsed(t)
  BY <1>4
<1>6. 1 \notin DOMAIN NoColour
  BY DEF NoColour
<1> QED
  BY <1>5, <1>6 DEF t

\* Reading a text again changes nothing.
LEMMA ReadAgain ==
  ASSUME NEW p, NEW hsv, NEW t
  PROVE  Reading(p, Reading(p, hsv, t), t) = Reading(p, hsv, t)
BY DEF Reading, fromRGB

LEMMA Parts ==
  ASSUME NEW k, NEW a, NEW b, NEW c, NEW d,
         k = [hsv |-> a, rgb |-> b, field |-> c, style |-> d]
  PROVE  k.hsv = a /\ k.rgb = b /\ k.field = c /\ k.style = d
OBVIOUS

LEMMA ExportedParts ==
  ASSUME NEW k, GoodPick(k), NEW leave
  PROVE  LET new == exportColor(k, leave) IN
           /\ new.hsv = k.hsv /\ new.rgb = k.rgb
           /\ new.field = IF "value" \in leave THEN k.field ELSE toString(k.rgb)
           /\ new.style = IF "style" \in leave THEN k.style ELSE Painted(k)
<1> DEFINE f == IF "value" \in leave THEN k.field ELSE toString(k.rgb)
           s == IF "style" \in leave THEN k.style ELSE Painted(k)
           mid == [k EXCEPT !.field = f]
           new == exportColor(k, leave)
<1>1. GoodPick(mid)
  BY Refielded
<1>2. mid = [hsv |-> k.hsv, rgb |-> k.rgb, field |-> f, style |-> k.style]
  BY Replaced, Zenon
<1>3. new = [mid EXCEPT !.style = s]
  BY Zenon DEF exportColor
<1> HIDE DEF mid, new
<1>4. new = [hsv |-> mid.hsv, rgb |-> mid.rgb, field |-> mid.field, style |-> s]
  BY <1>1, <1>3, Replaced, Zenon
<1> HIDE DEF f, s
<1>5. mid.hsv = k.hsv /\ mid.rgb = k.rgb /\ mid.field = f
  BY <1>2, Parts, Zenon
<1>6. new.hsv = k.hsv /\ new.rgb = k.rgb /\ new.field = f /\ new.style = s
  BY <1>4, <1>5, Parts, Zenon
<1> QED
  BY <1>6, Zenon DEF new, f, s

LEMMA ColouredParts ==
  ASSUME NEW k, GoodPick(k), NEW hsv, Triple(hsv)
  PROVE  LET new == Coloured(k, hsv) IN
           /\ GoodPick(new)
           /\ new.hsv = hsv /\ new.rgb = HSV_RGB(hsv)
           /\ new.field = k.field /\ new.style = k.style
<1> DEFINE mid == [k EXCEPT !.hsv = hsv]
           new == Coloured(k, hsv)
<1>1. mid = [hsv |-> hsv, rgb |-> k.rgb, field |-> k.field, style |-> k.style]
  BY Replaced, Zenon
<1>2. new = [mid EXCEPT !.rgb = HSV_RGB(hsv)]
  BY Zenon DEF Coloured
<1>3. GoodPick(new)
  BY ColouredGood
<1> HIDE DEF mid, new
<1>4. GoodPick(mid)
  BY <1>1 DEF GoodPick
<1>5. new = [hsv |-> mid.hsv, rgb |-> HSV_RGB(hsv), field |-> mid.field,
             style |-> mid.style]
  BY <1>2, <1>4, Replaced, Zenon
<1>6. mid.hsv = hsv /\ mid.field = k.field /\ mid.style = k.style
  BY <1>1, Parts, Zenon
<1>7. /\ new.hsv = hsv /\ new.rgb = HSV_RGB(hsv)
      /\ new.field = k.field /\ new.style = k.style
  BY <1>5, <1>6, Parts, Zenon
<1> QED
  BY <1>3, <1>7, Zenon DEF new

\* The picker new is k with the colour hsv; the field is painted with it, and
\* written unless leave says otherwise.
Recolored(k, hsv, leave, new) ==
  /\ GoodPick(new)
  /\ new.hsv = hsv /\ new.rgb = HSV_RGB(hsv)
  /\ leave = {} => new.field = toString(new.rgb)
  /\ leave # {} => new.field = k.field
  /\ new.style = Painted(new)

LEMMA Recoloring ==
  ASSUME NEW k, GoodPick(k), NEW hsv, Triple(hsv), NEW leave \in {{}, {"value"}}
  PROVE  Recolored(k, hsv, leave, exportColor(Coloured(k, hsv), leave))
<1> DEFINE mid == Coloured(k, hsv)
           new == exportColor(mid, leave)
<1>1. /\ GoodPick(mid) /\ mid.hsv = hsv /\ mid.rgb = HSV_RGB(hsv)
      /\ mid.field = k.field
  BY ColouredParts, Zenon
<1> HIDE DEF mid
<1>2. /\ GoodPick(new)
      /\ new.hsv = mid.hsv /\ new.rgb = mid.rgb
      /\ new.field = IF "value" \in leave THEN mid.field ELSE toString(mid.rgb)
      /\ new.style = IF "style" \in leave THEN mid.style ELSE Painted(mid)
  BY <1>1, Exported, ExportedParts, Zenon
<1> HIDE DEF new
<1>3. "style" \notin leave /\ ("value" \in leave <=> leave # {})
  OBVIOUS
<1>4. Painted(mid) = Painted(new)
  BY <1>2, Zenon DEF Painted
<1>5. Recolored(k, hsv, leave, new)
  BY <1>1, <1>2, <1>3, <1>4 DEF Recolored
<1> QED
  BY <1>5, Zenon DEF new, mid

LEMMA FromStringParts ==
  ASSUME NEW p, NEW k, GoodPick(k), NEW t, NEW leave \in {{}, {"value"}}
  PROVE  Recolored(k, Reading(p, k.hsv, t), leave, fromString(p, k, t, leave))
<1> DEFINE hsv == Reading(p, k.hsv, t)
<1>1. Triple(hsv)
  BY FromRGBTriple DEF Reading
<1>2. fromString(p, k, t, leave) = exportColor(Coloured(k, hsv), leave)
  BY Zenon DEF fromString, Reading
<1> HIDE DEF hsv
<1>3. Recolored(k, hsv, leave, exportColor(Coloured(k, hsv), leave))
  BY <1>1, Recoloring
<1> QED
  BY <1>2, <1>3, Zenon DEF hsv

\* A field may keep a text that is no colour.
AsIs(p, k) == ~Option[p].refine \/ (~Option[p].required /\ k.field = Blank)

\* The picker new is what importColor makes of k.
Imported(p, k, new) ==
  /\ GoodPick(new)
  /\ \/ /\ Parsed(k.field) # NoColour
        /\ new.hsv = Reading(p, k.hsv, k.field)
        /\ new.rgb = HSV_RGB(new.hsv) /\ new.style = Painted(new)
        /\ new.field = IF Option[p].refine THEN toString(new.rgb) ELSE k.field
     \/ /\ Parsed(k.field) = NoColour /\ AsIs(p, k)
        /\ new.hsv = k.hsv /\ new.rgb = k.rgb
        /\ new.field = k.field /\ new.style = Original
     \/ /\ Parsed(k.field) = NoColour /\ ~AsIs(p, k)
        /\ new.hsv = k.hsv /\ new.rgb = k.rgb
        /\ new.field = toString(new.rgb) /\ new.style = Painted(new)

LEMMA Importing ==
  ASSUME NEW p \in Picker, NEW k, GoodPick(k)
  PROVE  Imported(p, k, importColor(p, k))
<1> DEFINE new == importColor(p, k)
<1>1. CASE Parsed(k.field) # NoColour
  <2> DEFINE leave == IF Option[p].refine THEN {} ELSE {"value"}
  <2>1. new = fromString(p, k, k.field, leave)
    BY <1>1, Zenon DEF importColor
  <2>2. leave \in {{}, {"value"}}
    BY PickerAssumption
  <2>3. leave = {} <=> Option[p].refine
    BY PickerAssumption
  <2> HIDE DEF leave, new
  <2>4. Recolored(k, Reading(p, k.hsv, k.field), leave, fromString(p, k, k.field, leave))
    BY <2>2, FromStringParts
  <2>5. Recolored(k, Reading(p, k.hsv, k.field), leave, new)
    BY <2>1, <2>4, Zenon
  <2>6. Imported(p, k, new)
    BY <1>1, <2>3, <2>5, Zenon DEF Recolored, Imported
  <2> QED
    BY <2>6, Zenon DEF new
<1>2. CASE Parsed(k.field) = NoColour /\ AsIs(p, k)
  <2>1. new = [k EXCEPT !.style = Original]
    BY <1>2, Zenon DEF importColor, AsIs
  <2>2. new = [hsv |-> k.hsv, rgb |-> k.rgb, field |-> k.field, style |-> Original]
    BY <2>1, Replaced, Zenon
  <2>3. GoodPick(new)
    BY ImportGood
  <2> HIDE DEF new
  <2>4. /\ new.hsv = k.hsv /\ new.rgb = k.rgb
        /\ new.field = k.field /\ new.style = Original
    BY <2>2
  <2>5. Imported(p, k, new)
    BY <1>2, <2>3, <2>4, Zenon DEF Imported
  <2> QED
    BY <2>5, Zenon DEF new
<1>3. CASE Parsed(k.field) = NoColour /\ ~AsIs(p, k)
  <2>1. new = exportColor(k, {})
    BY <1>3, Zenon DEF importColor, AsIs
  <2> DEFINE e == exportColor(k, {})
  <2>2. /\ e.hsv = k.hsv /\ e.rgb = k.rgb
        /\ e.field = toString(k.rgb) /\ e.style = Painted(k)
    BY ExportedParts
  <2>3. GoodPick(e)
    BY Exported
  <2> HIDE DEF e
  <2>4. Painted(e) = Painted(k)
    BY <2>2, Zenon DEF Painted
  <2>5. Imported(p, k, e)
    BY <1>3, <2>2, <2>3, <2>4 DEF Imported
  <2> QED
    BY <2>1, <2>5, Zenon DEF e
<1> QED
  BY <1>1, <1>2, <1>3, Zenon

\* After importColor, a field that is not typed in is in order.
LEMMA ImportText ==
  ASSUME NEW p \in Picker, NEW k, GoodPick(k), NEW new, Imported(p, k, new),
         NEW ty, p \notin ty
  PROVE  TextOK(p, new, ty)
<1>1. new.hsv = Reading(p, k.hsv, k.field) /\ new.field = k.field
        => new.hsv = Reading(p, new.hsv, new.field)
  BY ReadAgain, Zenon
<1> QED
  BY <1>1 DEF Imported, AsIs, TextOK, ShownBy, ReadFrom

\* So is one that was written.
LEMMA WrittenText ==
  ASSUME NEW p, NEW k, NEW ty, p \notin ty,
         k.field = toString(k.rgb), k.style = Painted(k)
  PROVE  TextOK(p, k, ty)
BY DEF TextOK, ShownBy

\* The picker new is what updateField makes of k and the text t.
Typing(p, k, t, new) ==
  /\ GoodPick(new) /\ new.field = t
  /\ \/ /\ Parsed(t) = NoColour
        /\ new.hsv = k.hsv /\ new.rgb = k.rgb /\ new.style = k.style
     \/ /\ Parsed(t) # NoColour
        /\ new.hsv = Reading(p, k.hsv, t)
        /\ new.rgb = HSV_RGB(new.hsv) /\ new.style = Painted(new)

LEMMA Entering ==
  ASSUME NEW p \in Picker, GoodPick(pick[p]), NEW t
  PROVE  Typing(p, pick[p], t, Entered(p, t))
<1> DEFINE k == pick[p]
           mid == [k EXCEPT !.field = t]
           new == Entered(p, t)
<1>1. GoodPick(mid)
  BY Refielded
<1>2. mid = [hsv |-> k.hsv, rgb |-> k.rgb, field |-> t, style |-> k.style]
  BY Replaced, Zenon
<1>3. new = IF Parsed(t) = NoColour THEN mid ELSE fromString(p, mid, t, {"value"})
  BY Zenon DEF Entered
<1> HIDE DEF mid, new
<1>4. mid.hsv = k.hsv /\ mid.rgb = k.rgb /\ mid.field = t /\ mid.style = k.style
  BY <1>2, Parts, Zenon
<1>5. CASE Parsed(t) = NoColour
  <2>1. Typing(p, k, t, mid)
    BY <1>1, <1>4, <1>5, Zenon DEF Typing
  <2> QED
    BY <1>3, <1>5, <2>1, Zenon DEF new
<1>6. CASE Parsed(t) # NoColour
  <2> DEFINE leave == {"value"}
             got == fromString(p, mid, t, leave)
  <2>1. leave \in {{}, {"value"}} /\ leave # {}
    OBVIOUS
  <2>2. Recolored(mid, Reading(p, mid.hsv, t), leave, got)
    BY <1>1, <2>1, FromStringParts
  <2>3. new = got
    BY <1>3, <1>6, Zenon
  <2> HIDE DEF leave, got
  <2>4. Typing(p, k, t, got)
    BY <1>4, <1>6, <2>1, <2>2, Zenon DEF Recolored, Typing
  <2> QED
    BY <2>3, <2>4, Zenon DEF new
<1> QED
  BY <1>5, <1>6, Zenon

\* Reading the field once more gives the same text.
LEMMA SameText ==
  ASSUME TextInv, ReadsBack, NEW p \in installed, NEW k, k = pick[p],
         Parsed(k.field) # NoColour
  PROVE  toString(HSV_RGB(Reading(p, k.hsv, k.field))) = toString(k.rgb)
<1>1. CASE ReadFrom(p, k)
  BY <1>1, Zenon DEF ReadFrom
<1>2. CASE p \notin typing /\ k.field = toString(k.rgb)
  BY <1>2 DEF ReadsBack
<1>3. TextOK(p, k, typing)
  BY DEF TextInv
<1> QED
  BY <1>1, <1>2, <1>3, Zenon DEF TextOK

LEMMA ImportIdle ==
  ASSUME TextInv, ReadsBack, NEW p \in installed, NEW k, k = pick[p],
         NEW new, Imported(p, k, new)
  PROVE  /\ toString(new.rgb) = toString(k.rgb)
         /\ p \notin typing => new.field = k.field
<1>0. p \in Picker /\ TextOK(p, k, typing)
  BY DEF TextInv
<1>1. CASE Parsed(k.field) # NoColour
  <2>1. toString(new.rgb) = toString(k.rgb)
    BY <1>1, SameText, Zenon DEF Imported
  <2>2. new.field = IF Option[p].refine THEN toString(new.rgb) ELSE k.field
    BY <1>1, Zenon DEF Imported
  <2>3. k.field # Blank
    BY <1>1 DEF Parsed, Blank
  <2>4. p \notin typing /\ Option[p].refine => k.field = toString(k.rgb)
    BY <1>0, <2>3, Zenon DEF TextOK, ShownBy
  <2> QED
    BY <2>1, <2>2, <2>4
<1>2. CASE Parsed(k.field) = NoColour
  <2>1. k.field # toString(k.rgb)
    BY <1>2, Written, Zenon
  <2>2. p \notin typing => AsIs(p, k)
    BY <1>0, <2>1, Zenon DEF TextOK, ShownBy, AsIs
  <2> QED
    BY <1>2, <2>2, Zenon DEF Imported
<1> QED
  BY <1>1, <1>2

\* A step that gives p another value and types in its field, or no longer.
LEMMA TextOne ==
  ASSUME TextInv, NEW p \in installed, NEW k, GoodPick(k),
         pick' = [pick EXCEPT ![p] = k], installed' = installed,
         typing' \subseteq installed,
         \A q \in Picker \ {p} : q \in typing' <=> q \in typing,
         TextOK(p, k, typing')
  PROVE  TextInv' /\ \A q \in Picker \ {p} : pick'[q] = pick[q]
<1>1. p \in Picker
  BY DEF TextInv
<1>2. PickersOK(pick') /\ pick'[p] = k /\ \A q \in Picker \ {p} : pick'[q] = pick[q]
  BY <1>1, PickOne DEF TextInv
<1>3. ASSUME NEW q \in installed \ {p}
      PROVE  TextOK(q, pick'[q], typing')
  BY <1>2, <1>3 DEF TextInv, TextOK
<1> QED
  BY <1>2, <1>3 DEF TextInv

\* The fields stay in order under every step.
LEMMA InstallTexts ==
  ASSUME TextInv, install
  PROVE  TextInv'
<1>1. ASSUME NEW p \in Picker
      PROVE  GoodPick(pick[p]) /\ GoodPick(Construct(p))
  <2>1. GoodPick(pick[p])
    BY DEF TextInv, PickersOK, GoodPick
  <2> QED
    BY <2>1, ImportGood, FromStringGood, Exported, Zenon DEF Construct
<1>2. /\ pick' = [p \in Picker |-> IF p \in installed THEN pick[p] ELSE Construct(p)]
      /\ installed' = Picker /\ typing' = typing
  BY DEF install, fieldVars
<1>3. \A p \in Picker :
        /\ pick'[p] = IF p \in installed THEN pick[p] ELSE Construct(p)
        /\ GoodPick(pick'[p])
  BY <1>1, <1>2
<1>4. PickersOK(pick')
  BY <1>2, <1>3 DEF PickersOK, GoodPick
<1>5. ASSUME NEW p \in Picker \ installed
      PROVE  TextOK(p, Construct(p), typing)
  <2>1. p \in Picker /\ p \notin typing
    BY <1>5 DEF TextInv
  <2> DEFINE k == pick[p]
  <2>2. GoodPick(k)
    BY <1>1, <2>1
  <2>3. CASE Option[p].value = Unheard
    BY <2>1, <2>2, <2>3, Importing, ImportText DEF Construct
  <2>4. CASE Option[p].value # Unheard /\ Parsed(Option[p].value) # NoColour
    <3> DEFINE t == Option[p].value
               new == fromString(p, k, t, {})
    <3>1. Recolored(k, Reading(p, k.hsv, t), {}, new)
      BY <2>2, FromStringParts
    <3> HIDE DEF new
    <3>2. new.field = toString(new.rgb) /\ new.style = Painted(new)
      BY <3>1, Zenon DEF Recolored
    <3>3. TextOK(p, new, typing)
      BY <2>1, <3>2, WrittenText
    <3> QED
      BY <2>4, <3>3, Zenon DEF Construct, new
  <2>5. CASE Option[p].value # Unheard /\ Parsed(Option[p].value) = NoColour
    <3> DEFINE new == exportColor(k, {})
    <3>1. new.rgb = k.rgb /\ new.field = toString(k.rgb) /\ new.style = Painted(k)
      BY <2>2, ExportedParts
    <3> HIDE DEF new
    <3>2. new.field = toString(new.rgb) /\ new.style = Painted(new)
      BY <3>1, Zenon DEF Painted
    <3>3. TextOK(p, new, typing)
      BY <2>1, <3>2, WrittenText
    <3> QED
      BY <2>5, <3>3, Zenon DEF Construct, new
  <2> QED
    BY <2>3, <2>4, <2>5, Zenon
<1>6. \A p \in Picker : TextOK(p, pick'[p], typing)
  BY <1>3, <1>5 DEF TextInv
<1> QED
  BY <1>2, <1>4, <1>6 DEF TextInv

LEMMA BlurTexts ==
  ASSUME TextInv, NEW p \in Picker, Blur(p)
  PROVE  /\ TextInv'
         /\ Imported(p, pick[p], pick'[p])
         /\ \A q \in Picker \ {p} : pick'[q] = pick[q]
<1> DEFINE new == importColor(p, pick[p])
<1>1. p \in installed /\ GoodPick(pick[p])
  BY DEF Blur, TextInv, PickersOK, GoodPick
<1>2. Imported(p, pick[p], new)
  BY <1>1, Importing
<1>3. pick' = [pick EXCEPT ![p] = new] /\ typing' = typing \ {p} /\ installed' = installed
  BY DEF Blur
<1> HIDE DEF new
<1>4. GoodPick(new)
  BY <1>2 DEF Imported
<1>5. TextOK(p, new, typing')
  BY <1>1, <1>2, <1>3, ImportText
<1>6. typing' \subseteq installed
  BY <1>3 DEF TextInv
<1>7. TextInv' /\ \A q \in Picker \ {p} : pick'[q] = pick[q]
  BY <1>1, <1>3, <1>4, <1>5, <1>6, TextOne
<1>8. pick'[p] = new
  BY <1>3 DEF TextInv, PickersOK
<1> QED
  BY <1>2, <1>7, <1>8

LEMMA TypeTexts ==
  ASSUME TextInv, ReadsBack, NEW p \in Picker, Type(p)
  PROVE  /\ TextInv' /\ p \in installed
         /\ \/ edited' = {p}
            \/ edited' = edited /\ toString(pick'[p].rgb) = toString(pick[p].rgb)
         /\ \A q \in Picker \ {p} : pick'[q] = pick[q]
<1>1. PICK t \in Typed \cup {pick[p].field} :
        /\ pick' = [pick EXCEPT ![p] = Entered(p, t)]
        /\ edited' = IF t = pick[p].field THEN edited ELSE {p}
        /\ typing' = IF t = pick[p].field THEN typing ELSE {p}
  BY DEF Type
<1>2. p \in installed /\ GoodPick(pick[p]) /\ edited \cup typing \subseteq {p}
      /\ installed' = installed
  BY DEF Type, TextInv, PickersOK, GoodPick
<1> DEFINE k == pick[p]
           new == Entered(p, t)
<1>3. Typing(p, k, t, new)
  BY <1>2, Entering
<1>4. pick' = [pick EXCEPT ![p] = new]
  BY <1>1
<1> HIDE DEF new
<1>5. GoodPick(new)
  BY <1>3 DEF Typing
<1>6. typing' \subseteq installed /\ \A q \in Picker \ {p} : q \in typing' <=> q \in typing
  BY <1>1, <1>2
<1>7. t = k.field => toString(new.rgb) = toString(k.rgb)
  <2>1. CASE t = k.field /\ Parsed(t) # NoColour
    <3>1. toString(HSV_RGB(Reading(p, k.hsv, k.field))) = toString(k.rgb)
      BY <1>2, <2>1, SameText
    <3> QED
      BY <1>3, <2>1, <3>1, Zenon DEF Typing
  <2>2. CASE Parsed(t) = NoColour
    BY <1>3, <2>2, Zenon DEF Typing
  <2> QED
    BY <2>1, <2>2
<1>8. TextOK(p, new, typing')
  <2>1. Parsed(new.field) = NoColour \/ ReadFrom(p, new)
    BY <1>3, ReadAgain, Zenon DEF Typing, ReadFrom
  <2>2. ASSUME p \notin typing'
        PROVE  ShownBy(p, new)
    <3>1. t = k.field /\ p \notin typing
      BY <1>1, <2>2
    <3>2. ShownBy(p, k)
      BY <1>2, <3>1 DEF TextInv, TextOK
    <3>3. toString(new.rgb) = toString(k.rgb) /\ new.field = k.field
      BY <1>3, <1>7, <3>1, Zenon DEF Typing
    <3>4. CASE Parsed(t) = NoColour
      <4>1. new.style = k.style /\ Painted(new) = Painted(k)
        BY <1>3, <3>4, Zenon DEF Typing, Painted
      <4> QED
        BY <3>2, <3>3, <4>1, Zenon DEF ShownBy
    <3>5. CASE Parsed(t) # NoColour
      <4>1. new.style = Painted(new)
        BY <1>3, <3>5, Zenon DEF Typing
      <4>2. k.field # Blank
        BY <3>1, <3>5 DEF Parsed, Blank
      <4>3. Parsed(new.field) # NoColour
        BY <3>1, <3>3, <3>5, Zenon
      <4> QED
        BY <3>2, <3>3, <4>1, <4>2, <4>3, Zenon DEF ShownBy
    <3> QED
      BY <3>4, <3>5
  <2> QED
    BY <2>1, <2>2 DEF TextOK
<1>9. TextInv' /\ \A q \in Picker \ {p} : pick'[q] = pick[q]
  BY <1>2, <1>4, <1>5, <1>6, <1>8, TextOne
<1>10. pick'[p] = new
  BY <1>4 DEF TextInv, PickersOK
<1> QED
  BY <1>1, <1>2, <1>7, <1>9, <1>10

LEMMA RecolourTexts ==
  ASSUME TextInv, NEW p \in installed, NEW hsv, Triple(hsv), NEW leave,
         Recolour(p, hsv, leave)
  PROVE  TextInv' /\ \A q \in Picker \ {p} : pick'[q] = pick[q]
<1> DEFINE new == exportColor(Coloured(pick[p], hsv), {})
<1>1. p \in Picker /\ GoodPick(pick[p])
  BY DEF TextInv, PickersOK, GoodPick
<1>2. Recolored(pick[p], hsv, {}, new)
  BY <1>1, Recoloring
<1>3. pick' = [pick EXCEPT ![p] = new] /\ typing' = typing \ {p} /\ installed' = installed
  BY DEF Recolour
<1> HIDE DEF new
<1>4. GoodPick(new) /\ new.field = toString(new.rgb) /\ new.style = Painted(new)
  BY <1>2, Zenon DEF Recolored
<1>5. TextOK(p, new, typing')
  BY <1>3, <1>4, WrittenText
<1>6. typing' \subseteq installed
  BY <1>3 DEF TextInv
<1> QED
  BY <1>3, <1>4, <1>5, <1>6, TextOne

-----------------------------------------------------------------------------
(* What the page hears *)

\* What the page heard of p.  A change event may be due for its field, for the
\* drag that steers it, or never, if the drag was taken from it.
HeardOf(p) ==
  /\ told[p] \in {Unheard, toString(pick[p].rgb)}
  /\ p \notin edited \cup taken /\ (drag = {} \/ p # inst)
       => reported[p] = toString(pick[p].rgb)

\* PageHears says nothing of a picker while another one is dragged; HeardOf does,
\* for the end of that drag reports to the page what it steered last and no other.
HearInv ==
  /\ told = [p \in Picker |-> told[p]] /\ reported = [p \in Picker |-> reported[p]]
  /\ edited \subseteq installed
  /\ \A p \in Picker \ installed : told[p] = Unheard
  /\ \A p \in installed : HeardOf(p)

LEMMA HearsPage == HearInv => PageHears
  BY DEF HearInv, HeardOf, PageHears

LEMMA InstallHeard ==
  ASSUME TextInv, HearInv, install
  PROVE  HearInv'
<1>1. \A p \in installed : pick'[p] = pick[p] /\ reported'[p] = reported[p]
  BY DEF install, TextInv
<1>2. \A p \in Picker \ installed : reported'[p] = toString(pick'[p].rgb)
  BY DEF install
<1>3. UNCHANGED <<told, edited, taken, drag, inst>> /\ installed' = Picker
  BY DEF install, panelVars, fieldVars
<1>4. reported' = [p \in Picker |-> reported'[p]]
  BY DEF install
<1> QED
  BY <1>1, <1>2, <1>3, <1>4 DEF HearInv, HeardOf, TextInv

\* p is seen by the page as the step leaves it, and others are not touched.
LEMMA HeardOne ==
  ASSUME HearInv, installed \subseteq Picker, NEW p \in installed,
         UNCHANGED <<installed, inst>>, drag' = drag \/ drag' # {},
         \A q \in Picker \ {p} : pick'[q] = pick[q],
         edited' \subseteq edited \cup {p},
         \A q \in edited \cup taken : q \in edited' \cup taken' \/ q = p,
         drag' # {} \/ drag = {} \/ inst = p,
         told' = told \/ \E c : told' = [told EXCEPT ![p] = c],
         reported' = reported \/ \E c : reported' = [reported EXCEPT ![p] = c],
         HeardOf(p)'
  PROVE  HearInv'
<1>1. /\ told' = [q \in Picker |-> told'[q]]
      /\ reported' = [q \in Picker |-> reported'[q]]
      /\ \A q \in Picker \ {p} : told'[q] = told[q] /\ reported'[q] = reported[q]
  BY DEF HearInv
<1>2. ASSUME NEW q \in installed \ {p}
      PROVE  HeardOf(q)'
  BY <1>1, <1>2 DEF HearInv, HeardOf
<1> QED
  BY <1>1, <1>2 DEF HearInv

LEMMA TypeHeard ==
  ASSUME TextInv, ReadsBack, HearInv, NEW p \in Picker, Type(p)
  PROVE  HearInv'
<1>1. /\ p \in installed /\ \A q \in Picker \ {p} : pick'[q] = pick[q]
      /\ \/ edited' = {p}
         \/ edited' = edited /\ toString(pick'[p].rgb) = toString(pick[p].rgb)
  BY TypeTexts
<1>2. /\ edited \subseteq {p}
      /\ UNCHANGED <<installed, inst, drag, reported, taken>>
      /\ told' = [told EXCEPT ![p] = toString(pick'[p].rgb)]
  BY DEF Type, Redraw, Hears
<1>3. told'[p] = toString(pick'[p].rgb)
  BY <1>1, <1>2 DEF HearInv, TextInv
<1>4. HeardOf(p)'
  BY <1>1, <1>2, <1>3 DEF HearInv, HeardOf
<1> QED
  BY <1>1, <1>2, <1>4, HeardOne DEF TextInv

\* The browser's change event, of a field that keeps its colour's text.
LEMMA ChangeHeard ==
  ASSUME TextInv, HearInv, NEW p \in installed, Change(p),
         UNCHANGED <<installed, inst, drag>>, edited' = edited \ {p},
         toString(pick'[p].rgb) = toString(pick[p].rgb),
         \A q \in Picker \ {p} : pick'[q] = pick[q]
  PROVE  HearInv'
<1>0. p \in Picker
  BY DEF TextInv
<1>1. CASE p \in edited
  <2>1. /\ reported' = [reported EXCEPT ![p] = toString(pick[p].rgb)]
        /\ told' = [told EXCEPT ![p] = toString(pick[p].rgb)]
        /\ taken' = taken \ {p}
    BY <1>1 DEF Change, Reports
  <2>2. told'[p] = toString(pick'[p].rgb) /\ reported'[p] = toString(pick'[p].rgb)
    BY <1>0, <2>1 DEF HearInv
  <2>3. HeardOf(p)'
    BY <2>2 DEF HeardOf
  <2> QED
    BY <2>1, <2>3, HeardOne DEF TextInv
<1>2. CASE p \notin edited
  <2>1. UNCHANGED <<told, reported, taken>> /\ edited' = edited
    BY <1>2 DEF Change, heardVars
  <2>2. HeardOf(p)'
    BY <2>1 DEF HearInv, HeardOf
  <2> QED
    BY <2>1, <2>2, HeardOne DEF TextInv
<1> QED
  BY <1>1, <1>2

LEMMA RecolourHeard ==
  ASSUME TextInv, HearInv, inst \in installed, NEW hsv, Triple(hsv), NEW leave,
         Recolour(inst, hsv, leave), drag' # {}, UNCHANGED taken
  PROVE  HearInv'
<1>1. \A q \in Picker \ {inst} : pick'[q] = pick[q]
  BY RecolourTexts
<1>2. /\ UNCHANGED <<installed, inst, reported, taken>>
      /\ told' = [told EXCEPT ![inst] = toString(pick'[inst].rgb)]
      /\ \A q \in Picker \ {inst} : q \in edited' <=> q \in edited
  BY DEF Recolour, Redraw, Hears
<1>3. told'[inst] = toString(pick'[inst].rgb)
  BY <1>2 DEF HearInv, TextInv
<1>4. HeardOf(inst)'
  BY <1>2, <1>3 DEF HeardOf
<1>5. /\ edited' \subseteq edited \cup {inst}
      /\ \A q \in edited \cup taken : q \in edited' \cup taken' \/ q = inst
  BY <1>2 DEF Recolour
<1>6. installed \subseteq Picker
  BY DEF TextInv
<1> QED
  BY <1>1, <1>2, <1>4, <1>5, <1>6, HeardOne

\* Another picker is shown: a drag that goes on is taken from the first one.
LEMMA ShowHeard ==
  ASSUME TextInv, HearInv, NEW p \in installed, show(p)
  PROVE  HearInv'
<1>1. /\ UNCHANGED <<installed, pick, drag, edited, told, reported>> /\ inst' = p
      /\ taken' = IF drag # {} /\ inst # p THEN taken \cup {inst} ELSE taken
  BY DEF show, fieldVars, heardVars
<1>2. ASSUME NEW q \in installed
      PROVE  HeardOf(q)'
  <2>1. HeardOf(q)
    BY DEF HearInv
  <2> QED
    BY <1>1, <2>1 DEF HeardOf
<1> QED
  BY <1>1, <1>2 DEF HearInv

LEMMA EndHeard ==
  ASSUME TextInv, HearInv, inst \in installed, NEW kind, PointerEnd(kind)
  PROVE  HearInv'
<1>1. /\ UNCHANGED <<installed, pick, inst, edited>> /\ drag' = {}
      /\ reported' = [reported EXCEPT ![inst] = toString(pick[inst].rgb)]
      /\ told' = [told EXCEPT ![inst] = toString(pick[inst].rgb)]
      /\ taken' = taken \ {inst}
  BY DEF PointerEnd, Reports, panelVars, fieldVars
<1>2. /\ told' = [q \in Picker |-> told'[q]]
      /\ reported' = [q \in Picker |-> reported'[q]]
      /\ told'[inst] = toString(pick[inst].rgb)
      /\ reported'[inst] = toString(pick[inst].rgb)
      /\ \A q \in Picker \ {inst} : told'[q] = told[q] /\ reported'[q] = reported[q]
  BY <1>1 DEF HearInv, TextInv
<1>3. ASSUME NEW q \in installed
      PROVE  HeardOf(q)'
  BY <1>1, <1>2 DEF HearInv, HeardOf, TextInv
<1> QED
  BY <1>1, <1>2, <1>3 DEF HearInv

\* The rest says nothing to the page.
LEMMA OthersHeard ==
  ASSUME TextInv, HearInv,
         UNCHANGED <<installed, pick, inst, drag, edited, typing, told, reported, taken>>
  PROVE  TextInv' /\ HearInv'
<1>1. TextInv'
  BY DEF TextInv
<1>2. \A q \in installed : HeardOf(q) => HeardOf(q)'
  BY DEF HeardOf
<1> QED
  BY <1>1, <1>2 DEF HearInv

LEMMA NextHears ==
  ASSUME PanelInv, DragOwned, TextInv, HearInv, ReadsBack, [PickerNext]_pickerVars
  PROVE  TextInv' /\ HearInv'
<1>1. CASE install
  BY <1>1, InstallTexts, InstallHeard
<1>2. CASE PressElsewhere \/ ParentScroll
  <2>1. hide
    BY <1>2 DEF PressElsewhere, ParentScroll
  <2> QED
    BY <2>1, OthersHeard DEF hide, fieldVars, heardVars
<1>3. ASSUME NEW p \in Picker, PressField(p)
      PROVE  TextInv' /\ HearInv'
  <2>1. p \in installed /\ show(p)
    BY <1>3 DEF PressField
  <2>2. TextInv'
    BY <2>1 DEF show, fieldVars, TextInv
  <2> QED
    BY <2>1, <2>2, ShowHeard
<1>4. ASSUME NEW p \in Picker, Type(p)
      PROVE  TextInv' /\ HearInv'
  BY <1>4, TypeTexts, TypeHeard
<1>5. ASSUME NEW p \in Picker, Enter(p)
      PROVE  TextInv' /\ HearInv'
  <2>1. /\ UNCHANGED <<installed, pick, inst, drag, typing>>
        /\ edited' = edited \ {p} /\ Change(p)
    BY <1>5 DEF Enter, panelVars
  <2>2. TextInv'
    BY <2>1 DEF TextInv
  <2>3. p \in installed
    BY <1>5 DEF Enter, HearInv
  <2> QED
    BY <2>1, <2>2, <2>3, ChangeHeard
<1>6. ASSUME NEW p \in Picker, Blur(p)
      PROVE  TextInv' /\ HearInv'
  <2>1. /\ TextInv' /\ Imported(p, pick[p], pick'[p])
        /\ \A q \in Picker \ {p} : pick'[q] = pick[q]
    BY <1>6, BlurTexts
  <2>2. /\ p \in installed /\ Change(p) /\ edited' = edited \ {p}
        /\ UNCHANGED <<installed, inst, drag>>
    BY <1>6 DEF Blur, Redraw
  <2>3. toString(pick'[p].rgb) = toString(pick[p].rgb)
    BY <2>1, <2>2, ImportIdle
  <2> QED
    BY <2>1, <2>2, <2>3, ChangeHeard
<1>7. ASSUME NEW kind \in Pointer, NEW control \in Control, PointerStart(control, kind)
      PROVE  TextInv' /\ HearInv'
  <2>1. /\ inst \in installed /\ drag' # {} /\ taken' = taken
        /\ \E hsv, leave : Triple(hsv) /\ Recolour(inst, hsv, leave)
    BY <1>7, SteeredTriple DEF PointerStart, PanelInv, OwnersOK, OwnerInControl
  <2> QED
    BY <2>1, RecolourTexts, RecolourHeard
<1>8. ASSUME NEW kind \in Pointer, PointerMove(kind)
      PROVE  TextInv' /\ HearInv'
  <2>1. /\ inst \in installed /\ drag' # {} /\ taken' = taken
        /\ \E hsv, leave : Triple(hsv) /\ Recolour(inst, hsv, leave)
    BY <1>8, SteeredTriple DEF PointerMove, Held, PanelInv, OwnersOK, DragOwned
  <2> QED
    BY <2>1, RecolourTexts, RecolourHeard
<1>9. ASSUME NEW kind \in Pointer, PointerEnd(kind)
      PROVE  TextInv' /\ HearInv'
  <2>1. inst \in installed
    BY <1>9 DEF PointerEnd, PanelInv, OwnersOK, DragOwned
  <2>2. TextInv'
    BY <1>9 DEF PointerEnd, fieldVars, TextInv
  <2> QED
    BY <1>9, <2>1, <2>2, EndHeard
<1>10. CASE UNCHANGED pickerVars
  BY <1>10, OthersHeard DEF pickerVars, panelVars, fieldVars, heardVars
<1>11. CASE Resize
  BY <1>11, OthersHeard DEF Resize, fieldVars, heardVars
<1> QED
  BY <1>1, <1>2, <1>3, <1>4, <1>5, <1>6, <1>7, <1>8, <1>9, <1>10, <1>11
  DEF PickerNext

LEMMA InitHears == PickerInit => TextInv /\ HearInv
<1> SUFFICES ASSUME PickerInit PROVE TextInv /\ HearInv
  OBVIOUS
<1>1. PickersOK(pick)
  BY InitPanel DEF PanelInv
<1> QED
  BY <1>1 DEF PickerInit, TextInv, HearInv

\* That colours are read back as they were written is a matter of arithmetic.
\* All the rest of these properties is not: they hold of any pickers, options and
\* inputs for which the arithmetic does.
LEMMA TextInvariant == PickerSpec /\ []ReadsBack => [](TextInv /\ HearInv)
<1>1. PanelInv /\ DragOwned /\ TextInv /\ HearInv /\ ReadsBack
        /\ [PickerNext]_pickerVars => (TextInv /\ HearInv)'
  BY NextHears
<1> QED
  BY <1>1, InitHears, PanelInvariant, PTL DEF PickerSpec

\* Outside of typing a field names its picker's colour and is painted with it, or
\* was left as the options allow (importColor).
THEOREM FieldAlwaysShows == PickerSpec /\ []ReadsBack => []FieldShows
  BY TextInvariant, TextShows, PTL

\* The page hears of every colour at once, and of the final one by a change event
\* (dispatchFineChange, dispatchChange).
THEOREM PageAlwaysHears == PickerSpec /\ []ReadsBack => []PageHears
  BY TextInvariant, HearsPage, PTL

\* That leaving a field changes nothing says no more and no less than that the
\* arithmetic reads back what it wrote.
THEOREM BlurIsArithmetic == PickerSpec => ([]BlurIsIdle <=> []ReadsBack)
<1>1. TextInv /\ ReadsBack => BlurIsIdle
  <2> SUFFICES ASSUME TextInv, ReadsBack, NEW p \in installed \ typing
               PROVE  LET k == importColor(p, pick[p])
                      IN  /\ k.field = pick[p].field
                          /\ toString(k.rgb) = toString(pick[p].rgb)
    BY DEF BlurIsIdle
  <2> DEFINE new == importColor(p, pick[p])
  <2>1. p \in Picker /\ GoodPick(pick[p])
    BY DEF TextInv, PickersOK, GoodPick
  <2>2. Imported(p, pick[p], new)
    BY <2>1, Importing
  <2> HIDE DEF new
  <2>3. new.field = pick[p].field /\ toString(new.rgb) = toString(pick[p].rgb)
    BY <2>2, ImportIdle
  <2> QED
    BY <2>3, Zenon DEF new
<1>2. PanelInv /\ BlurIsIdle => ReadsBack
  <2> SUFFICES ASSUME PanelInv, BlurIsIdle, NEW p \in installed \ typing,
                      pick[p].field = toString(pick[p].rgb)
               PROVE  toString(HSV_RGB(Reading(p, pick[p].hsv, pick[p].field)))
                        = pick[p].field
    BY DEF ReadsBack
  <2> DEFINE new == importColor(p, pick[p])
  <2>1. p \in Picker /\ GoodPick(pick[p])
    BY DEF PanelInv, OwnersOK, PickersOK, GoodPick
  <2>2. Imported(p, pick[p], new)
    BY <2>1, Importing
  <2>3. toString(new.rgb) = toString(pick[p].rgb)
    BY DEF BlurIsIdle
  <2> HIDE DEF new
  <2>4. Parsed(pick[p].field) # NoColour
    BY Written, Zenon
  <2>5. new.rgb = HSV_RGB(Reading(p, pick[p].hsv, pick[p].field))
    BY <2>2, <2>4, Zenon DEF Imported
  <2> QED
    BY <2>3, <2>5, Zenon
<1> QED
  BY <1>1, <1>2, TextInvariant, PanelInvariant, PTL

-----------------------------------------------------------------------------
(* Ranges *)

\* A picker whose colour is in range and whose field says something.
InOrder(k) == InHSV(k.hsv) /\ InRGB(k.rgb) /\ k.field \in Text

PaneOK(pn) ==
  /\ pn.cross[1] \in 0 .. Width - 1 /\ pn.cross[2] \in 0 .. Height - 1
  /\ pn.pointer \in 0 .. Height - 1

LEMMA InOrderRange ==
  ASSUME NEW k, InOrder(k)
  PROVE  InRange(k)
<1>1. ASSUME NEW p, NEW m \in Nat, Within(p, m)
      PROVE  Leq(Number(0), p) /\ Leq(p, Number(m))
  BY <1>1, WithinLeq DEF Within, NotLess
<1> QED
  BY <1>1 DEF InOrder, InHSV, InRGB, InRange

LEMMA RecoloredInOrder ==
  ASSUME NEW k, k.field \in Text, NEW hsv, InHSV(hsv),
         NEW leave \in {{}, {"value"}}, NEW new, Recolored(k, hsv, leave, new)
  PROVE  InOrder(new)
<1>1. new.hsv = hsv /\ new.rgb = HSV_RGB(hsv) /\ new.field \in {k.field, toString(new.rgb)}
  BY Zenon DEF Recolored
<1>2. InRGB(new.rgb)
  BY <1>1, RGBReaches
<1> QED
  BY <1>1, <1>2, WrittenIsText DEF InOrder

LEMMA ReadingInRange ==
  ASSUME NEW p \in Picker, NEW hsv, InHSV(hsv), NEW t \in Text, Parsed(t) # NoColour
  PROVE  InHSV(Reading(p, hsv, t))
<1>1. LimitsOK(Option[p].limits)
  BY ColourAssumption
<1>2. \A i \in 1 .. 3 : Parsed(t)[i] \in Fraction
  BY ParsedFractions
<1> QED
  BY <1>1, <1>2, FromRGBReaches DEF Reading

LEMMA ImportedInOrder ==
  ASSUME NEW p \in Picker, NEW k, InOrder(k), NEW new, Imported(p, k, new)
  PROVE  InOrder(new)
<1>1. CASE Parsed(k.field) # NoColour
  <2>1. /\ new.hsv = Reading(p, k.hsv, k.field) /\ new.rgb = HSV_RGB(new.hsv)
        /\ new.field \in {k.field, toString(new.rgb)}
    BY <1>1 DEF Imported
  <2>2. InHSV(new.hsv)
    BY <1>1, <2>1, ReadingInRange DEF InOrder
  <2>3. InRGB(new.rgb)
    BY <2>1, <2>2, RGBReaches
  <2> QED
    BY <2>1, <2>2, <2>3, WrittenIsText DEF InOrder
<1>2. CASE Parsed(k.field) = NoColour
  <2>1. /\ new.hsv = k.hsv /\ new.rgb = k.rgb
        /\ new.field \in {k.field, toString(new.rgb)}
    BY <1>2 DEF Imported
  <2> QED
    BY <2>1, WrittenIsText DEF InOrder
<1> QED
  BY <1>1, <1>2

LEMMA TypedInOrder ==
  ASSUME NEW p \in Picker, NEW k, InOrder(k), NEW t \in Text, NEW new,
         Typing(p, k, t, new)
  PROVE  InOrder(new)
<1>1. CASE Parsed(t) # NoColour
  <2>1. /\ new.hsv = Reading(p, k.hsv, t) /\ new.rgb = HSV_RGB(new.hsv)
        /\ new.field = t
    BY <1>1 DEF Typing
  <2>2. InHSV(new.hsv)
    BY <1>1, <2>1, ReadingInRange DEF InOrder
  <2>3. InRGB(new.rgb)
    BY <2>1, <2>2, RGBReaches
  <2> QED
    BY <2>1, <2>2, <2>3 DEF InOrder
<1>2. CASE Parsed(t) = NoColour
  <2>1. new.hsv = k.hsv /\ new.rgb = k.rgb /\ new.field = t
    BY <1>2 DEF Typing
  <2> QED
    BY <2>1 DEF InOrder
<1> QED
  BY <1>1, <1>2

LEMMA ConstructInOrder ==
  ASSUME NEW p \in Picker, GoodPick(pick[p]), InOrder(pick[p])
  PROVE  InOrder(Construct(p))
<1> DEFINE k == pick[p]
           t == Option[p].value
<1>1. CASE t = Unheard
  <2> DEFINE new == importColor(p, k)
  <2>1. Imported(p, k, new)
    BY Importing
  <2>2. Construct(p) = new
    BY <1>1, Zenon DEF Construct
  <2> HIDE DEF new
  <2> QED
    BY <2>1, <2>2, ImportedInOrder
<1>2. CASE t # Unheard /\ Parsed(t) # NoColour
  <2> DEFINE leave == {}
             new == fromString(p, k, t, leave)
  <2>1. leave \in {{}, {"value"}}
    OBVIOUS
  <2>2. Recolored(k, Reading(p, k.hsv, t), leave, new)
    BY <2>1, FromStringParts
  <2>3. Construct(p) = new
    BY <1>2, Zenon DEF Construct
  <2>4. InHSV(Reading(p, k.hsv, t))
    BY <1>2, ColourAssumption, ReadingInRange DEF InOrder
  <2> HIDE DEF new, leave
  <2> QED
    BY <2>1, <2>2, <2>3, <2>4, RecoloredInOrder DEF InOrder
<1>3. CASE t # Unheard /\ Parsed(t) = NoColour
  <2> DEFINE new == exportColor(k, {})
  <2>1. new.hsv = k.hsv /\ new.rgb = k.rgb /\ new.field = toString(k.rgb)
    BY ExportedParts
  <2>2. Construct(p) = new
    BY <1>3, Zenon DEF Construct
  <2> HIDE DEF new
  <2> QED
    BY <2>1, <2>2, WrittenIsText DEF InOrder
<1> QED
  BY <1>1, <1>2, <1>3

\* A drag asks for a hue, a saturation or a value, each of them a number.
LEMMA SteeredInRange ==
  ASSUME NEW p \in Picker, NEW hsv, InHSV(hsv), NEW held, NEW x \in Int, NEW y \in Int
  PROVE  InHSV(Steered(p, hsv, held, x, y)) /\ InHSV(Lifted(p, hsv))
<1>0. LimitsOK(Option[p].limits)
  BY ColourAssumption
<1> DEFINE yVal == Minus(Number(100), Q(100 * y, Height - 1))
           xVal == Q(360 * x, Width - 1)
<1>1. Width - 1 \in Positive /\ Height - 1 \in Positive
  BY PickerAssumption DEF Positive
<1>2. xVal \in Fraction
  BY <1>1, Reduced DEF Worth
<1>3. Number(100) \in Fraction
  BY NumberReach
<1>4. yVal \in Fraction
  <2>1. Q(100 * y, Height - 1) \in Fraction
    BY <1>1, Reduced DEF Worth
  <2> QED
    BY <1>3, <2>1, Fractions
<1> HIDE DEF xVal, yVal
<1>5. InHSV(Steered(p, hsv, held, x, y))
  <2> DEFINE Moves(i) == \/ "pad" \in held /\ getPadYComponent(p) = i
                         \/ "sld" \in held /\ getSliderComponent(p) = i
             a == IF "pad" \in held THEN xVal ELSE Keep
             b == IF Moves(2) THEN yVal ELSE Keep
             c == IF Moves(3) THEN yVal ELSE Keep
  <2>1. /\ a \in Fraction \cup {Keep} /\ b \in Fraction \cup {Keep}
        /\ c \in Fraction \cup {Keep}
    BY <1>2, <1>4
  <2>2. Steered(p, hsv, held, x, y) = fromHSV(Option[p].limits, hsv, a, b, c)
    BY DEF Steered, xVal, yVal
  <2> HIDE DEF a, b, c
  <2> QED
    BY <1>0, <2>1, <2>2, FromHSVReaches
<1>6. InHSV(Lifted(p, hsv))
  <2> DEFINE i == getSliderComponent(p)
             b == IF i = 2 THEN Number(100) ELSE Keep
             c == IF i = 3 THEN Number(100) ELSE Keep
  <2>1. Keep \in Fraction \cup {Keep} /\ b \in Fraction \cup {Keep}
        /\ c \in Fraction \cup {Keep}
    BY <1>3
  <2>2. Lifted(p, hsv) \in {hsv, fromHSV(Option[p].limits, hsv, Keep, b, c)}
    BY DEF Lifted
  <2> HIDE DEF b, c
  <2>3. InHSV(fromHSV(Option[p].limits, hsv, Keep, b, c))
    BY <1>0, <2>1, FromHSVReaches
  <2> QED
    BY <2>2, <2>3
<1> QED
  BY <1>5, <1>6

\* Points are drawn on the palette and on the slider.
LEMMA PointReaches ==
  ASSUME NEW q, Within(q, 1), NEW n \in Nat
  PROVE  Round(Times(q, Number(n))) \in 0 .. n
<1>1. Number(n) \in Fraction /\ Within(Number(n), n) /\ q \in Fraction
  BY NumberReach DEF Within, NotLess
<1>2. Times(q, Number(n)) = Times(Number(n), q)
  <2>1. /\ q[1] \in Int /\ q[2] \in Int /\ Number(n)[1] \in Int /\ Number(n)[2] \in Int
    BY <1>1, ItsWorth DEF Positive
  <2>2. q[1] * Number(n)[1] = Number(n)[1] * q[1] /\ q[2] * Number(n)[2] = Number(n)[2] * q[2]
    BY <2>1
  <2> QED
    BY <2>2 DEF Times
<1>3. Within(Times(Number(n), q), n)
  BY <1>1, Shrunk
<1> QED
  BY <1>2, <1>3, RoundReaches

LEMMA DrawnInRange ==
  ASSUME NEW pn, PaneOK(pn), NEW p \in Picker, NEW hsv, InHSV(hsv), NEW leave
  PROVE  PaneOK(Drawn(pn, p, hsv, leave))
<1>1. Width - 1 \in Nat /\ Height - 1 \in Nat
  BY PickerAssumption
<1>2. ASSUME NEW i \in {2, 3}
      PROVE  Down(hsv[i]) \in 0 .. Height - 1
  <2>1. Within(hsv[i], 100)
    BY DEF InHSV
  <2>2. Within(Times(hsv[i], <<1, 100>>), 1)
    BY <2>1, Scaled DEF Positive
  <2>3. Within(Minus(Number(1), Times(hsv[i], <<1, 100>>)), 1)
    BY <2>2, Rest
  <2> QED
    BY <1>1, <2>3, PointReaches DEF Down
<1>3. Cross(p, hsv)[1] \in 0 .. Width - 1 /\ Cross(p, hsv)[2] \in 0 .. Height - 1
  <2>1. Within(hsv[1], 360)
    BY DEF InHSV
  <2>2. Within(Times(hsv[1], <<1, 360>>), 1)
    BY <2>1, Scaled DEF Positive
  <2>3. Round(Times(Times(hsv[1], <<1, 360>>), Number(Width - 1))) \in 0 .. Width - 1
    BY <1>1, <2>2, PointReaches
  <2>4. Down(hsv[getPadYComponent(p)]) \in 0 .. Height - 1
    BY <1>2, Components
  <2> QED
    BY <2>3, <2>4 DEF Cross
<1>4. getSliderComponent(p) # 0 => Down(hsv[getSliderComponent(p)]) \in 0 .. Height - 1
  BY <1>2, Components
<1> QED
  BY <1>3, <1>4 DEF Drawn, PaneOK

\* The panel is put at a place.
LEMMA PlaceIs ==
  ASSUME NEW g \in Situation, NEW i \in {1, 2}
  PROVE  redrawPosition(g)[i] \in Int
<1>1. ASSUME NEW side PROVE At(g, i, side) \in Int
  BY Lengths DEF At, tp
<1>2. Flipped(g, i) \in Int
  BY <1>1 DEF Flipped
<1>3. Aligned(g, i) \in Int
  BY Lengths DEF Aligned, tp
<1> QED
  BY <1>2, <1>3 DEF redrawPosition

ColoursOK == (\A p \in Picker : InOrder(pick[p])) /\ PaneOK(pane)

LEMMA InitColours == PickerInit => ColoursOK
<1> SUFFICES ASSUME PickerInit PROVE ColoursOK
  OBVIOUS
<1>1. ASSUME NEW p \in Picker PROVE InOrder(pick[p])
  <2> DEFINE hsv == <<Number(0), Number(0), Number(100)>>
             k == [hsv |-> hsv, rgb |-> White, field |-> Initially[p], style |-> Original]
  <2>1. pick[p] = k
    BY DEF PickerInit
  <2>2. InHSV(hsv)
    BY NumberReach DEF InHSV
  <2>3. InRGB(White)
    BY NumberReach DEF InRGB, White
  <2>4. Initially[p] \in Text
    BY ColourAssumption
  <2> HIDE DEF hsv
  <2>5. k.hsv = hsv /\ k.rgb = White /\ k.field = Initially[p]
    OBVIOUS
  <2> HIDE DEF k
  <2> QED
    BY <2>1, <2>2, <2>3, <2>4, <2>5 DEF InOrder
<1>2. PaneOK(pane)
  BY PickerAssumption DEF PickerInit, PaneOK
<1> QED
  BY <1>1, <1>2 DEF ColoursOK

\* One picker gets another value, and the panel follows.
LEMMA OneInOrder ==
  ASSUME PickersOK(pick), ColoursOK, NEW p \in Picker, NEW k, GoodPick(k), InOrder(k),
         pick' = [pick EXCEPT ![p] = k], NEW leave, Redraw(p, leave)
  PROVE  ColoursOK'
<1>1. pick'[p] = k /\ \A q \in Picker \ {p} : pick'[q] = pick[q]
  BY PickOne
<1>2. PaneOK(pane')
  <2>1. InHSV(k.hsv) /\ PaneOK(pane)
    BY DEF InOrder, ColoursOK
  <2>2. PaneOK(Drawn(pane, p, k.hsv, leave))
    BY <2>1, DrawnInRange
  <2> QED
    BY <1>1, <2>1, <2>2 DEF Redraw
<1> QED
  BY <1>1, <1>2 DEF ColoursOK

LEMMA RecolourInOrder ==
  ASSUME PickersOK(pick), ColoursOK, NEW p \in Picker, NEW hsv, Triple(hsv), InHSV(hsv),
         NEW leave, Recolour(p, hsv, leave)
  PROVE  ColoursOK'
<1> DEFINE none == {}
           new == exportColor(Coloured(pick[p], hsv), none)
<1>1. GoodPick(pick[p]) /\ pick[p].field \in Text /\ none \in {{}, {"value"}}
  BY DEF PickersOK, GoodPick, ColoursOK, InOrder
<1>2. Recolored(pick[p], hsv, none, new)
  BY <1>1, Recoloring
<1>3. pick' = [pick EXCEPT ![p] = new] /\ Redraw(p, leave)
  BY DEF Recolour
<1> HIDE DEF new, none
<1>4. GoodPick(new) /\ InOrder(new)
  BY <1>1, <1>2, RecoloredInOrder DEF Recolored
<1> QED
  BY <1>3, <1>4, OneInOrder

LEMMA NextColours ==
  ASSUME PanelInv, DragOwned, ColoursOK, [PickerNext]_pickerVars
  PROVE  ColoursOK'
<1>0. /\ PickersOK(pick)
      /\ \A p \in Picker : GoodPick(pick[p]) /\ InOrder(pick[p]) /\ InHSV(pick[p].hsv)
  BY DEF PanelInv, PickersOK, GoodPick, ColoursOK, InOrder
<1>1. CASE install
  <2>1. pick' = [p \in Picker |-> IF p \in installed THEN pick[p] ELSE Construct(p)]
        /\ pane' = pane
    BY <1>1 DEF install, panelVars
  <2>2. \A p \in Picker : InOrder(Construct(p))
    BY <1>0, ConstructInOrder
  <2>3. \A p \in Picker : InOrder(pick'[p])
    BY <1>0, <2>1, <2>2
  <2> QED
    BY <2>1, <2>3 DEF ColoursOK
<1>2. ASSUME UNCHANGED <<pick, pane>> PROVE ColoursOK'
  BY <1>2 DEF ColoursOK
<1>3. CASE PressElsewhere \/ ParentScroll \/ Resize
  BY <1>2, <1>3 DEF PressElsewhere, ParentScroll, hide, Resize
<1>4. ASSUME NEW p \in Picker, PressField(p)
      PROVE  ColoursOK'
  <2>1. pick' = pick /\ pane' = Drawn(pane, p, pick[p].hsv, {})
    BY <1>4 DEF PressField, show
  <2>2. PaneOK(pane')
    BY <1>0, <2>1, DrawnInRange DEF ColoursOK
  <2> QED
    BY <2>1, <2>2 DEF ColoursOK
<1>5. ASSUME NEW p \in Picker, Type(p)
      PROVE  ColoursOK'
  <2>1. PICK t \in Typed \cup {pick[p].field} : pick' = [pick EXCEPT ![p] = Entered(p, t)]
    BY <1>5 DEF Type
  <2>2. t \in Text /\ Redraw(p, {})
    BY <1>0, <1>5, ColourAssumption DEF InOrder, Type
  <2> DEFINE new == Entered(p, t)
  <2>3. Typing(p, pick[p], t, new)
    BY <1>0, Entering
  <2> HIDE DEF new
  <2>4. GoodPick(new) /\ InOrder(new)
    BY <1>0, <2>2, <2>3, TypedInOrder DEF Typing
  <2> QED
    BY <1>0, <2>1, <2>2, <2>4, OneInOrder DEF new
<1>6. ASSUME NEW p \in Picker, Blur(p)
      PROVE  ColoursOK'
  <2> DEFINE new == importColor(p, pick[p])
  <2>1. pick' = [pick EXCEPT ![p] = new] /\ Redraw(p, {})
    BY <1>6 DEF Blur
  <2>2. Imported(p, pick[p], new)
    BY <1>0, Importing
  <2> HIDE DEF new
  <2>3. GoodPick(new) /\ InOrder(new)
    BY <1>0, <2>2, ImportedInOrder DEF Imported
  <2> QED
    BY <1>0, <2>1, <2>3, OneInOrder
<1>7. ASSUME NEW p \in Picker, Enter(p)
      PROVE  ColoursOK'
  BY <1>2, <1>7 DEF Enter, panelVars
<1>8. ASSUME NEW kind \in Pointer, NEW control \in Control, PointerStart(control, kind)
      PROVE  ColoursOK'
  <2> DEFINE hsv == pick[inst].hsv
  <2>1. inst \in Picker
    BY <1>8 DEF PointerStart, PanelInv, OwnerInControl, OwnersOK
  <2>2. PICK x \in PointerX, y \in PointerY :
          IF control = "pad"
          THEN Recolour(inst, Steered(inst, Lifted(inst, hsv), {"pad"}, x, y),
                        IF Lifted(inst, hsv) = hsv THEN {"sld"} ELSE {})
          ELSE Recolour(inst, Steered(inst, hsv, {"sld"}, x, y), {"pad"})
    BY <1>8 DEF PointerStart
  <2>3. x \in Int /\ y \in Int /\ InHSV(hsv)
    BY <1>0, <2>1, PickerAssumption
  <2>4. InHSV(Lifted(inst, hsv))
    BY <2>1, <2>3, SteeredInRange
  <2>5. /\ InHSV(Steered(inst, Lifted(inst, hsv), {"pad"}, x, y))
        /\ InHSV(Steered(inst, hsv, {"sld"}, x, y))
    BY <2>1, <2>3, <2>4, SteeredInRange
  <2> QED
    BY <1>0, <2>1, <2>2, <2>5, SteeredTriple, RecolourInOrder
<1>9. ASSUME NEW kind \in Pointer, PointerMove(kind)
      PROVE  ColoursOK'
  <2>1. inst \in Picker
    BY <1>9 DEF PointerMove, Held, DragOwned, PanelInv, OwnersOK
  <2>2. PICK x \in PointerX, y \in PointerY :
          Recolour(inst, Steered(inst, pick[inst].hsv, Held(kind), x, y),
                   {c \in Control : c \notin Held(kind)})
    BY <1>9 DEF PointerMove
  <2>3. InHSV(Steered(inst, pick[inst].hsv, Held(kind), x, y))
    BY <1>0, <2>1, PickerAssumption, SteeredInRange
  <2> QED
    BY <1>0, <2>1, <2>2, <2>3, SteeredTriple, RecolourInOrder
<1>10. ASSUME NEW kind \in Pointer, PointerEnd(kind)
       PROVE  ColoursOK'
  BY <1>2, <1>10 DEF PointerEnd, panelVars
<1>11. CASE UNCHANGED pickerVars
  BY <1>2, <1>11 DEF pickerVars, panelVars
<1> QED
  BY <1>1, <1>3, <1>4, <1>5, <1>6, <1>7, <1>8, <1>9, <1>10, <1>11 DEF PickerNext

LEMMA ColoursInvariant == PickerSpec => []ColoursOK
<1>1. PanelInv /\ DragOwned /\ ColoursOK /\ [PickerNext]_pickerVars => ColoursOK'
  BY NextColours
<1> QED
  BY <1>1, InitColours, PanelInvariant, PTL DEF PickerSpec

\* The rest of PickerTypeOK that is inductive.
SetsOK ==
  /\ inputs \in 0 .. MaxInputs
  /\ installed \in {{}, Picker}
  /\ watched \subseteq UNION {Parent[p] : p \in Picker}
  /\ window \in {Opened} \cup Resized /\ \A i \in {1, 2} : place[i] \in Int
  /\ drag \subseteq Control \X Pointer
  /\ edited \subseteq installed /\ typing \subseteq installed /\ taken \subseteq installed

LEMMA InputCounted ==
  ASSUME inputs \in 0 .. MaxInputs, Input
  PROVE  inputs' \in 0 .. MaxInputs
BY PickerAssumption DEF Input

\* The panel is put where the target of p is.
LEMMA PlaceInRange ==
  ASSUME NEW p \in Picker, NEW vs \in {Opened} \cup Resized, NEW i \in {1, 2}
  PROVE  redrawPosition(Now(p, vs))[i] \in Int
<1>1. Option[p].where \in Situation /\ vs \in Length
  BY PanelAssumption
<1>2. Now(p, vs) \in Situation
  BY <1>1 DEF Now, Situation
<1> QED
  BY <1>2, PlaceIs

LEMMA InitSets == PickerInit => SetsOK
  BY PickerAssumption DEF PickerInit, SetsOK

LEMMA NextSets ==
  ASSUME PanelInv, DragOwned, SetsOK, [PickerNext]_pickerVars
  PROVE  SetsOK'
<1>0. /\ owner # NoPicker => owner \in installed /\ owner \in Picker
      /\ inst # NoPicker => inst \in installed /\ inst \in Picker
      /\ drag # {} => inst # NoPicker
  BY DEF PanelInv, OwnersOK, DragOwned
<1>1. CASE install
  BY <1>1 DEF install, panelVars, fieldVars, SetsOK
<1>2. CASE PressElsewhere \/ ParentScroll
  BY <1>2 DEF PressElsewhere, ParentScroll, hide, fieldVars, SetsOK
<1>3. CASE Resize
  <2>1. /\ UNCHANGED <<installed, watched, drag, edited, typing, taken>>
        /\ window' \in Resized
        /\ place' = IF owner = NoPicker THEN place ELSE redrawPosition(Now(owner, window'))
    BY <1>3 DEF Resize, fieldVars
  <2>2. \A i \in {1, 2} : place'[i] \in Int
    BY <1>0, <2>1, PlaceInRange DEF SetsOK
  <2>3. inputs' \in 0 .. MaxInputs
    BY <1>3, InputCounted DEF Resize, SetsOK
  <2> QED
    BY <2>1, <2>2, <2>3 DEF SetsOK
<1>4. ASSUME NEW p \in Picker, PressField(p)
      PROVE  SetsOK'
  <2>1. /\ UNCHANGED <<installed, window, drag, edited, typing, inputs>>
        /\ watched' = watched \cup Parent[p]
        /\ place' = redrawPosition(Now(p, window))
        /\ taken' = IF drag # {} /\ inst # p THEN taken \cup {inst} ELSE taken
    BY <1>4 DEF PressField, show, fieldVars
  <2>2. \A i \in {1, 2} : place'[i] \in Int
    BY <2>1, PlaceInRange DEF SetsOK
  <2>3. taken' \subseteq installed
    BY <1>0, <2>1 DEF SetsOK
  <2>4. watched' \subseteq UNION {Parent[q] : q \in Picker}
    BY <2>1 DEF SetsOK
  <2> QED
    BY <2>1, <2>2, <2>3, <2>4 DEF SetsOK
<1>5. ASSUME NEW p \in Picker, Type(p)
      PROVE  SetsOK'
  <2>1. /\ UNCHANGED <<installed, watched, window, place, drag, taken>>
        /\ p \in installed /\ edited' \in {edited, {p}} /\ typing' \in {typing, {p}}
    BY <1>5 DEF Type, Redraw
  <2>2. inputs' \in 0 .. MaxInputs
    BY <1>5, InputCounted DEF Type, SetsOK
  <2> QED
    BY <2>1, <2>2 DEF SetsOK
<1>6. ASSUME NEW p \in Picker, Blur(p) \/ Enter(p)
      PROVE  SetsOK'
  <2>1. /\ UNCHANGED <<installed, watched, window, place, drag, inputs>>
        /\ edited' \subseteq edited /\ typing' \subseteq typing /\ taken' \subseteq taken
    BY <1>6 DEF Blur, Enter, Change, Redraw, panelVars
  <2> QED
    BY <2>1 DEF SetsOK
<1>7. ASSUME NEW p, NEW hsv, NEW leave, Recolour(p, hsv, leave), UNCHANGED taken,
             drag' \subseteq Control \X Pointer, inputs' \in 0 .. MaxInputs
      PROVE  SetsOK'
  <2>1. /\ UNCHANGED <<installed, watched, window, place>>
        /\ edited' \subseteq edited /\ typing' \subseteq typing
    BY <1>7 DEF Recolour, Redraw
  <2> QED
    BY <1>7, <2>1 DEF SetsOK
<1>8. ASSUME NEW kind \in Pointer, NEW control \in Control, PointerStart(control, kind)
      PROVE  SetsOK'
  <2>1. /\ drag' = drag \cup {<<control, kind>>} /\ UNCHANGED taken
        /\ \E hsv, leave : Recolour(inst, hsv, leave)
    BY <1>8 DEF PointerStart
  <2>2. drag' \subseteq Control \X Pointer
    BY <2>1 DEF SetsOK
  <2>3. inputs' \in 0 .. MaxInputs
    BY <1>8, InputCounted DEF PointerStart, SetsOK
  <2> QED
    BY <1>7, <2>1, <2>2, <2>3
<1>9. ASSUME NEW kind \in Pointer, PointerMove(kind)
      PROVE  SetsOK'
  <2>1. UNCHANGED <<drag, taken>> /\ \E hsv, leave : Recolour(inst, hsv, leave)
    BY <1>9 DEF PointerMove
  <2>2. inputs' \in 0 .. MaxInputs
    BY <1>9, InputCounted DEF PointerMove, SetsOK
  <2> QED
    BY <1>7, <2>1, <2>2 DEF SetsOK
<1>10. ASSUME NEW kind \in Pointer, PointerEnd(kind)
       PROVE  SetsOK'
  <2>1. /\ UNCHANGED <<installed, watched, window, place, edited, typing, inputs>>
        /\ drag' = {} /\ taken' \subseteq taken
    BY <1>10 DEF PointerEnd, panelVars, fieldVars
  <2> QED
    BY <2>1 DEF SetsOK
<1>11. CASE UNCHANGED pickerVars
  BY <1>11 DEF pickerVars, panelVars, fieldVars, SetsOK
<1> QED
  BY <1>1, <1>2, <1>3, <1>4, <1>5, <1>6, <1>8, <1>9, <1>10, <1>11 DEF PickerNext

\* Whatever is typed, dragged, resized or pressed, colours stay within 0 to 360, 0
\* to 100 and 0 to 255, and both pointers are drawn on the palette and the slider.
THEOREM PickerTypeCorrect == PickerSpec => []PickerTypeOK
<1>1. PanelInv /\ DragOwned /\ SetsOK /\ [PickerNext]_pickerVars => SetsOK'
  BY NextSets
<1>2. PickerSpec => []SetsOK
  BY <1>1, InitSets, PanelInvariant, PTL DEF PickerSpec
<1>3. PanelInv /\ DragOwned /\ SetsOK /\ ColoursOK => PickerTypeOK
  <2> SUFFICES ASSUME PanelInv, SetsOK, ColoursOK
               PROVE  PickerTypeOK
    OBVIOUS
  <2>1. active \subseteq installed
    BY DEF PanelInv, OwnersOK, OwnerInControl
  <2>2. \A p \in Picker : InRange(pick[p])
    BY InOrderRange DEF ColoursOK
  <2> QED
    BY <2>1, <2>2 DEF PanelInv, OwnersOK, SetsOK, ColoursOK, PaneOK, PickerTypeOK
<1> QED
  BY <1>2, <1>3, PanelInvariant, ColoursInvariant, PTL

-----------------------------------------------------------------------------
(* Pickers without limits, as the page has them *)

Unlimited == \A p \in Picker : Option[p].limits = NoLimits

LEMMA UnlimitedReadsBack ==
  ASSUME Unlimited, PanelInv, ColoursOK
  PROVE  ReadsBack
<1> SUFFICES ASSUME NEW p \in installed \ typing, pick[p].field = toString(pick[p].rgb)
             PROVE  toString(HSV_RGB(Reading(p, pick[p].hsv, pick[p].field)))
                      = pick[p].field
  BY DEF ReadsBack
<1>1. p \in Picker /\ InHSV(pick[p].hsv) /\ InRGB(pick[p].rgb)
  BY DEF PanelInv, OwnersOK, ColoursOK, InOrder
<1>2. Reading(p, pick[p].hsv, pick[p].field)
        = fromRGB(NoLimits, pick[p].hsv, Parsed(toString(pick[p].rgb)))
  BY <1>1 DEF Reading, Unlimited
<1> QED
  BY <1>1, <1>2, ReadBack

\* Leaving the field of a picker without limits changes nothing that was imported
\* or exported before (importColor).
THEOREM BlurAlwaysIdle ==
  ASSUME Unlimited
  PROVE  PickerSpec => []BlurIsIdle
<1>1. PanelInv /\ DragOwned /\ ColoursOK => ReadsBack
  BY UnlimitedReadsBack
<1> QED
  BY <1>1, PanelInvariant, ColoursInvariant, BlurIsArithmetic, PTL

\* And so its field always shows the colour, and the page always hears of it.
THEOREM UnlimitedShownAndHeard ==
  ASSUME Unlimited
  PROVE  PickerSpec => [](FieldShows /\ PageHears)
<1>1. PanelInv /\ DragOwned /\ ColoursOK => ReadsBack
  BY UnlimitedReadsBack
<1> QED
  BY <1>1, PanelInvariant, ColoursInvariant, FieldAlwaysShows, PageAlwaysHears, PTL
=============================================================================
