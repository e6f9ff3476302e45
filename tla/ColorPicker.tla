----------------------------- MODULE ColorPicker ------------------------------
(***************************************************************************)
(* The colour pickers of jscolor.js.  Each is linked to a text field; one  *)
(* panel with a palette and perhaps a slider is shared by all of them and  *)
(* is drawn for its owner.  The colour is changed by typing and by         *)
(* dragging, with a mouse or several fingers.  A drag's listeners hang on  *)
(* the document until any pointer of their kind is released; whom they     *)
(* steer is looked up at every move.  The page hears of every change       *)
(* (onFineChange) and of its end (onchange).                               *)
(***************************************************************************)
EXTENDS Colour, PickerLayout, FiniteSets

CONSTANTS
  Picker, NoPicker,
  Width, Height,   \* of the palette
  Option,          \* the options of each picker
  Initially,       \* what each field says at first
  Parent,          \* the elements each field is in, below the body
  Typed,           \* texts the user may type
  PointerX,        \* where pointers may be, relative to the palette
  PointerY,
  Opened, Resized, \* sizes of the window, at first and later
  MaxInputs        \* bound: texts, presses on the panel, moves, new sizes

Mode == {"HSV", "HVS", "HS", "HV"}

ASSUME PickerAssumption ==
  /\ NoPicker \notin Picker
  /\ Width \in Nat \ {0, 1} /\ Height \in Nat \ {0, 1}
  /\ \A p \in Picker :
       /\ Option[p].mode \in Mode
       /\ {Option[p].required, Option[p].refine, Option[p].showOnClick} \subseteq BOOLEAN
  /\ PointerX \subseteq Int /\ PointerY \subseteq Int
  /\ MaxInputs \in Nat

\* Each picker has options for the size of its panel, and a target somewhere.
ASSUME PanelAssumption ==
  /\ Opened \in Length /\ Resized \subseteq Length
  /\ \A p \in Picker :
       LET o == Option[p].sizes
           g == Option[p].where
       IN  /\ o \in Sizes /\ o.width = Width /\ o.height = Height
           /\ o.slider <=> Option[p].mode \in {"HSV", "HVS"}
           /\ g \in Situation /\ g.ps = getPickerOuterDims(o)

Blank   == <<"blank", <<>>>>
Unheard == <<"none", <<>>>>     \* no colour: no option, or nothing heard yet

\* Limits are percentages, and what is in a field or an option is a text.
ASSUME ColourAssumption ==
  /\ \A p \in Picker :
       /\ LimitsOK(Option[p].limits)
       /\ Initially[p] \in Text /\ Option[p].value \in Text \cup {Unheard}
  /\ Typed \subseteq Text

VARIABLES
  installed,  \* pickers that were constructed
  pick,       \* hsv and rgb of each, its field's value and the field's style
  owner,      \* jsc.picker.owner
  inst,       \* _jscInstance of palette and slider
  active,     \* pickers whose field has the class activeClass
  pane,       \* cross, gradient and slider pointer as they were drawn
  watched,    \* elements whose scrolling is listened to
  window,     \* size of the window
  place,      \* where the panel was put
  drag,       \* group "drag": controls and kinds of pointer
  edited,     \* fields a change event is due for when they lose the focus
  typing,     \* history: fields typed in since they were last written
  told,       \* history: colour the page heard of last
  reported,   \* history: colour of the last change event
  taken,      \* history: pickers whose drag went on with another one
  inputs      \* bound: inputs so far

panelVars == <<owner, inst, active, pane, watched, window, place>>
fieldVars == <<edited, typing>>
heardVars == <<told, reported>>
pickerVars ==
  <<installed, pick, panelVars, drag, fieldVars, heardVars, taken, inputs>>

Original == [background |-> Blank, light |-> FALSE]
White    == [i \in 1 .. 3 |-> Number(255)]
Control  == {"pad", "sld"}
Pointer  == {"mouse", "touch"}

PickerInit ==
  /\ installed = {}
  /\ pick = [p \in Picker |->
              [hsv |-> <<Number(0), Number(0), Number(100)>>, rgb |-> White,
               field |-> Initially[p], style |-> Original]]
  /\ owner = NoPicker /\ inst = NoPicker /\ active = {}
  /\ pane = [cross |-> <<0, 0>>, gradient |-> <<>>, pointer |-> 0]
  /\ watched = {} /\ drag = {}
  /\ window = Opened /\ place = <<0, 0>>
  /\ edited = {} /\ typing = {} /\ taken = {} /\ inputs = 0
  /\ told = [p \in Picker |-> Unheard]
  /\ reported = [p \in Picker |-> Unheard]

-----------------------------------------------------------------------------
(* One picker *)

Input == inputs < MaxInputs /\ inputs' = inputs + 1

\* The component of hsv on the palette's y axis, and that of the slider: 2 is
\* the saturation, 3 the value, 0 says there is no slider.
getPadYComponent(p)   == IF Option[p].mode \in {"HVS", "HV"} THEN 3 ELSE 2
getSliderComponent(p) ==
  IF Option[p].mode = "HSV" THEN 3 ELSE IF Option[p].mode = "HVS" THEN 2 ELSE 0

Coloured(k, hsv) == [k EXCEPT !.hsv = hsv, !.rgb = HSV_RGB(hsv)]
Painted(k) == [background |-> toString(k.rgb), light |-> isLight(k.rgb)]

\* exportColor, apart from the panel; leave names what is left alone.
exportColor(k, leave) ==
  [k EXCEPT !.field = IF "value" \in leave THEN @ ELSE toString(k.rgb),
            !.style = IF "style" \in leave THEN @ ELSE Painted(k)]

\* fromString, for a text that is a colour.
fromString(p, k, t, leave) ==
  exportColor(Coloured(k, fromRGB(Option[p].limits, k.hsv, Parsed(t))), leave)

\* Mutant: a text that is no colour stays in the field.
importColorLeaving(p, k) ==
  IF Parsed(k.field) # NoColour
  THEN fromString(p, k, k.field, IF Option[p].refine THEN {} ELSE {"value"})
  ELSE [k EXCEPT !.style = Original]

importColor(p, k) ==
  IF Parsed(k.field) # NoColour
  THEN fromString(p, k, k.field, IF Option[p].refine THEN {} ELSE {"value"})
  ELSE IF ~Option[p].refine \/ (~Option[p].required /\ k.field = Blank)
  THEN [k EXCEPT !.style = Original]
  ELSE exportColor(k, {})

\* jscolor and installByClassName: every field of the class that is not linked
\* yet gets a picker, which takes its colour from the option or the field.
Construct(p) ==
  IF Option[p].value = Unheard THEN importColor(p, pick[p])
  ELSE IF Parsed(Option[p].value) # NoColour
  THEN fromString(p, pick[p], Option[p].value, {})
  ELSE exportColor(pick[p], {})

install ==
  /\ pick' = [p \in Picker |-> IF p \in installed THEN pick[p] ELSE Construct(p)]
  /\ installed' = Picker
  /\ reported' = [p \in Picker |-> IF p \in installed THEN reported[p]
                                   ELSE toString(pick'[p].rgb)]
  /\ UNCHANGED <<panelVars, drag, fieldVars, told, taken, inputs>>

\* dispatchChange and dispatchFineChange, as the page hears them.
Hears(p)   == told' = [told EXCEPT ![p] = toString(pick'[p].rgb)]
Reports(p) == reported' = [reported EXCEPT ![p] = toString(pick[p].rgb)]

-----------------------------------------------------------------------------
(* The panel *)

\* The share y of the palette's or slider's height, counted from the top.
Down(part) ==
  Round(Times(Minus(Number(1), Times(part, <<1, 100>>)), Number(Height - 1)))

Cross(p, hsv) ==
  <<Round(Times(Times(hsv[1], <<1, 360>>), Number(Width - 1))),
    Down(hsv[getPadYComponent(p)])>>

\* The slider's colours at its top and its bottom.
Gradient(p, hsv) ==
  LET With(part) == toString(HSV_RGB([hsv EXCEPT ![getSliderComponent(p)] = Number(part)]))
  IN  IF getSliderComponent(p) = 0 THEN <<>> ELSE <<With(100), With(0)>>

\* redrawPad and redrawSld on the panel pn; leave names what is left alone.
Drawn(pn, p, hsv, leave) ==
  [cross    |-> IF "pad" \in leave THEN pn.cross ELSE Cross(p, hsv),
   gradient |-> IF "pad" \in leave THEN pn.gradient ELSE Gradient(p, hsv),
   pointer  |-> IF "sld" \in leave \/ getSliderComponent(p) = 0 THEN pn.pointer
                ELSE Down(hsv[getSliderComponent(p)])]

\* p has a new colour: the panel follows if it is drawn for p.
Redraw(p, leave) ==
  /\ pane' = IF owner = p THEN Drawn(pane, p, pick'[p].hsv, leave) ELSE pane
  /\ UNCHANGED <<owner, inst, active, watched, window, place>>

\* Where p's target is while the window has size vs.
Now(p, vs) == [Option[p].where EXCEPT !.vs = vs]

\* Mutant: the palette and the slider go on steering the first owner.
showFirst(p) ==
  /\ pane' = Drawn(pane, p, pick[p].hsv, {})
  /\ active' = (active \ {owner}) \cup {p}
  /\ owner' = p
  /\ inst' = IF inst = NoPicker THEN p ELSE inst
  /\ watched' = watched \cup Parent[p]
  /\ place' = redrawPosition(Now(p, window)) /\ UNCHANGED window
  /\ taken' = IF drag # {} /\ inst # p THEN taken \cup {inst} ELSE taken
  /\ UNCHANGED <<installed, pick, drag, fieldVars, heardVars, inputs>>

\* drawPicker.
show(p) ==
  /\ pane' = Drawn(pane, p, pick[p].hsv, {})
  /\ active' = (active \ {owner}) \cup {p}
  /\ owner' = p /\ inst' = p
  /\ watched' = watched \cup Parent[p]
  /\ place' = redrawPosition(Now(p, window)) /\ UNCHANGED window
  /\ taken' = IF drag # {} /\ inst # p THEN taken \cup {inst} ELSE taken
  /\ UNCHANGED <<installed, pick, drag, fieldVars, heardVars, inputs>>

\* detachPicker.
hide ==
  /\ owner # NoPicker
  /\ active' = active \ {owner}
  /\ owner' = NoPicker
  /\ UNCHANGED <<installed, pick, inst, pane, watched, window, place, drag,
                 fieldVars, heardVars, taken, inputs>>

\* onWindowResize.
Resize ==
  /\ Input
  /\ window' \in Resized \ {window}
  /\ place' = IF owner = NoPicker THEN place ELSE redrawPosition(Now(owner, window'))
  /\ UNCHANGED <<installed, pick, owner, inst, active, pane, watched, drag,
                 fieldVars, heardVars, taken>>

\* onDocumentMouseDown and onDocumentTouchStart, by what is pressed: a field,
\* or something else on the page or the Close button.
PressField(p) == p \in installed /\ Option[p].showOnClick /\ show(p)
PressElsewhere == hide
ParentScroll   == watched # {} /\ hide

-----------------------------------------------------------------------------
(* Dragging *)

\* setPad and setSld: what pointers at x, y that hold some controls of p make of
\* hsv.  Palette and slider move different components.
Steered(p, hsv, held, x, y) ==
  LET yVal == Minus(Number(100), Q(100 * y, Height - 1))
      Moves(i) == \/ "pad" \in held /\ getPadYComponent(p) = i
                  \/ "sld" \in held /\ getSliderComponent(p) = i
  IN  fromHSV(Option[p].limits, hsv,
              IF "pad" \in held THEN Q(360 * x, Width - 1) ELSE Keep,
              IF Moves(2) THEN yVal ELSE Keep, IF Moves(3) THEN yVal ELSE Keep)

\* A press on the palette lifts a slider that is at the bottom.
Lifted(p, hsv) ==
  LET i == getSliderComponent(p) IN
    IF i = 0 \/ hsv[i] # Number(0) THEN hsv
    ELSE fromHSV(Option[p].limits, hsv, Keep,
                 IF i = 2 THEN Number(100) ELSE Keep,
                 IF i = 3 THEN Number(100) ELSE Keep)

\* p gets another colour under a pointer, and its field is written.  Browsers
\* differ in whether a change event for typed text is still due then.
Recolour(p, hsv, leave) ==
  /\ pick' = [pick EXCEPT ![p] = exportColor(Coloured(@, hsv), {})]
  /\ Redraw(p, leave)
  /\ Hears(p)
  /\ typing' = typing \ {p}
  /\ edited' \in {edited, edited \ {p}}
  /\ UNCHANGED <<installed, reported>>

\* Mutant: the slider's pointer is left alone when a press lifts it.
PointerStartLeaving(control, kind) ==
  LET hsv == pick[inst].hsv IN
    /\ Input
    /\ owner # NoPicker
    /\ control = "sld" => getSliderComponent(inst) # 0
    /\ drag' = drag \cup {<<control, kind>>}
    /\ \E x \in PointerX, y \in PointerY :
         IF control = "pad"
         THEN Recolour(inst, Steered(inst, Lifted(inst, hsv), {"pad"}, x, y), {"sld"})
         ELSE Recolour(inst, Steered(inst, hsv, {"sld"}, x, y), {"pad"})
    /\ UNCHANGED taken

\* onControlPointerStart: the panel is there, and the press is on it.
PointerStart(control, kind) ==
  LET hsv == pick[inst].hsv IN
    /\ Input
    /\ owner # NoPicker
    /\ control = "sld" => getSliderComponent(inst) # 0
    /\ drag' = drag \cup {<<control, kind>>}
    /\ \E x \in PointerX, y \in PointerY :
         IF control = "pad"
         THEN Recolour(inst, Steered(inst, Lifted(inst, hsv), {"pad"}, x, y),
                       IF Lifted(inst, hsv) = hsv THEN {"sld"} ELSE {})
         ELSE Recolour(inst, Steered(inst, hsv, {"sld"}, x, y), {"pad"})
    /\ UNCHANGED taken

\* The controls whose listeners act on a pointer: a picker without a slider has
\* nothing for the slider's listener to move.
Held(kind) ==
  {c \in Control : <<c, kind>> \in drag /\ (c = "sld" => getSliderComponent(inst) # 0)}

\* onDocumentPointerMove, every listener for this kind of pointer.
PointerMove(kind) ==
  LET held == Held(kind) IN
    /\ Input
    /\ held # {}
    /\ \E x \in PointerX, y \in PointerY :
         Recolour(inst, Steered(inst, pick[inst].hsv, held, x, y),
                  {c \in Control : c \notin held})
    /\ UNCHANGED <<drag, taken>>

\* Mutant: only the control that was released lets go.
PointerEndOne(kind) ==
  /\ \E c \in Control : <<c, kind>> \in drag /\ drag' = drag \ {<<c, kind>>}
  /\ UNCHANGED <<installed, pick, panelVars, fieldVars, heardVars, taken, inputs>>

\* onDocumentPointerEnd: the first listener removes the whole group and
\* dispatches the change.
PointerEnd(kind) ==
  /\ \E c \in Control : <<c, kind>> \in drag
  /\ drag' = {}
  /\ Reports(inst)
  /\ told' = [told EXCEPT ![inst] = toString(pick[inst].rgb)]
  /\ taken' = taken \ {inst}
  /\ UNCHANGED <<installed, pick, panelVars, fieldVars, inputs>>

-----------------------------------------------------------------------------
(* Typing *)

\* What the text t in its field makes of p.
Entered(p, t) ==
  LET k == [pick[p] EXCEPT !.field = t]
  IN  IF Parsed(t) = NoColour THEN k ELSE fromString(p, k, t, {"value"})

\* updateField, at every input and every key released: only the field with the
\* focus gets them, and one that was typed in before has been left (Blur).
Type(p) ==
  /\ Input
  /\ p \in installed /\ edited \cup typing \subseteq {p}
  /\ \E t \in Typed \cup {pick[p].field} :
       /\ pick' = [pick EXCEPT ![p] = Entered(p, t)]
       /\ edited' = IF t = pick[p].field THEN edited ELSE {p}
       /\ typing' = IF t = pick[p].field THEN typing ELSE {p}
  /\ Redraw(p, {})
  /\ Hears(p)
  /\ UNCHANGED <<installed, drag, reported, taken>>

\* The browser's own change event, if one is due.
Change(p) ==
  IF p \in edited
  THEN /\ Reports(p)
       /\ told' = [told EXCEPT ![p] = toString(pick[p].rgb)]
       /\ taken' = taken \ {p}
  ELSE UNCHANGED <<heardVars, taken>>

\* The Enter key.
Enter(p) ==
  /\ p \in edited
  /\ Change(p)
  /\ edited' = edited \ {p}
  /\ UNCHANGED <<installed, pick, panelVars, drag, typing, inputs>>

\* The field loses the focus: the change event comes before blurValue.
Blur(p) ==
  /\ p \in installed
  /\ Change(p)
  /\ pick' = [pick EXCEPT ![p] = importColor(p, @)]
  /\ Redraw(p, {})
  /\ edited' = edited \ {p} /\ typing' = typing \ {p}
  /\ UNCHANGED <<installed, drag, inputs>>

PickerNext ==
  \/ install \/ PressElsewhere \/ ParentScroll \/ Resize
  \/ \E p \in Picker : PressField(p) \/ Type(p) \/ Enter(p) \/ Blur(p)
  \/ \E kind \in Pointer :
       \/ \E control \in Control : PointerStart(control, kind)
       \/ PointerMove(kind) \/ PointerEnd(kind)

PickerSpec == PickerInit /\ [][PickerNext]_pickerVars

-----------------------------------------------------------------------------
(* Properties *)

InRange(k) ==
  /\ Leq(Number(0), k.hsv[1]) /\ Leq(k.hsv[1], Number(360))
  /\ \A i \in {2, 3} : Leq(Number(0), k.hsv[i]) /\ Leq(k.hsv[i], Number(100))
  /\ \A i \in 1 .. 3 : Leq(Number(0), k.rgb[i]) /\ Leq(k.rgb[i], Number(255))

PickerTypeOK ==
  /\ inputs \in 0 .. MaxInputs
  /\ installed \in {{}, Picker}
  /\ owner \in installed \cup {NoPicker} /\ inst \in installed \cup {NoPicker}
  /\ active \subseteq installed
  /\ watched \subseteq UNION {Parent[p] : p \in Picker}
  /\ window \in {Opened} \cup Resized /\ \A i \in {1, 2} : place[i] \in Int
  /\ drag \subseteq Control \X Pointer
  /\ edited \subseteq installed /\ typing \subseteq installed
  /\ taken \subseteq installed
  /\ \A p \in Picker : InRange(pick[p])
  /\ pane.cross[1] \in 0 .. Width - 1 /\ pane.cross[2] \in 0 .. Height - 1
  /\ pane.pointer \in 0 .. Height - 1

\* The field of the picker whose panel is open, and no other, is marked; palette
\* and slider steer that picker; and scrolling anything it is in closes it,
\* whichever fields were pressed before and however the panel was closed
\* (drawPicker and detachPicker, jscolor.js:1356-1642).
OwnerInControl ==
  /\ active = {owner} \ {NoPicker}
  /\ owner # NoPicker => inst = owner /\ Parent[owner] \subseteq watched

\* The open panel shows its picker's colour, although exportColor is told to
\* leave the cross or the pointer alone during a drag (jscolor.js:938-941,
\* 1094-1119).
PanelShows ==
  owner # NoPicker => pane = Drawn(pane, owner, pick[owner].hsv, {})

\* Outside of typing, the field names the colour and is painted with it; or it
\* was left as the options allow (importColor, jscolor.js:1058-1091).
FieldShows ==
  \A p \in installed \ typing :
    LET k == pick[p] IN
      \/ k.field = toString(k.rgb) /\ k.style = Painted(k)
      \/ /\ ~Option[p].refine
         /\ k.style = IF Parsed(k.field) = NoColour THEN Original ELSE Painted(k)
      \/ ~Option[p].required /\ k.field = Blank /\ k.style = Original

\* The page hears of every colour at once (dispatchFineChange), and when nothing
\* is dragged and no change event due, a change event has told it the final
\* one, unless the drag went on with another picker (jscolor.js:639-691).
PageHears ==
  \A p \in installed :
    /\ told[p] \in {Unheard, toString(pick[p].rgb)}
    /\ drag = {} /\ p \notin edited \cup taken
         => reported[p] = toString(pick[p].rgb)

\* Leaving the field changes nothing that was imported or exported before:
\* reading back what was written, within the limits of the options, gives the
\* same colour (importColor, jscolor.js:1058-1091).
BlurIsIdle ==
  \A p \in installed \ typing :
    LET k == importColor(p, pick[p])
    IN  k.field = pick[p].field /\ toString(k.rgb) = toString(pick[p].rgb)

\* The open panel is in the viewport if its target is and there is room beside
\* it, also after the window got another size (smartPosition, jscolor.js:1007,
\* and onWindowResize, jscolor.js:565).
PlacedInView == owner # NoPicker => StaysInView(Now(owner, window), place)
=============================================================================
