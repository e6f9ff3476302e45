-------------------------------- MODULE WebGui --------------------------------
(***************************************************************************)
(* The page (app.js, index.html) in front of the server.  A click, a timer *)
(* or the colour picker issues requests; the browser keeps any number of   *)
(* them waiting, and neither it nor the server orders them.  The server    *)
(* carries a request out some time, or fails it before or after that; a    *)
(* command whose request failed may still be carried out late.  Answers    *)
(* belong to their requests (OwnAnswer of MessagesGateway).                *)
(***************************************************************************)
EXTENDS Integers, Sequences, FiniteSets

CONSTANTS
  Pin,          \* pins of node 3 that are shown as relays
  Sensor,       \* the buttons that read a value of node 3 or 4
  Esp,          \* relays of the third-party lamp
  Picked,       \* colours the picker reports: six hexadecimal digits
  Dragged,      \* positions a slider is dragged to
  Percent,      \* buttons beside a slider
  Area,         \* nodes that have an area on the page
  Visit,        \* bound: the sets of panels used together
  MaxRequests,  \* bound: requests of a page
  MaxWaiting,   \* bound: requests waiting at a time
  MaxInputs,    \* bound: clicks and drags of the user, by panel
  MaxAlarms     \* bound: other figures about alarms than when the page is loaded

Panel == {"nodes", "esp", "lamp", "alarms", "relays", "weather"}

ASSUME PageAssumption ==
  /\ Visit \subseteq SUBSET Panel
  /\ Pin \subseteq 1 .. 15 /\ Sensor \subseteq Nat /\ Esp \subseteq Nat
  /\ Picked \subseteq [1 .. 6 -> 0 .. 15]
  /\ Dragged \subseteq 0 .. 255 /\ Percent \subseteq 0 .. 100
  /\ Area \subseteq 0 .. 9
  /\ MaxRequests \in Nat /\ MaxWaiting \in Nat /\ MaxAlarms \in Nat
  /\ MaxInputs \in [Panel -> Nat]

\* The elements of the page that show something; what commands are about.
Nodes       == <<"nodes", 0>>
AlarmState  == <<"alarm", 1>>
AlarmLast   == <<"alarm", 2>>
AlarmTotal  == <<"alarm", 3>>
Reading(k)  == <<"sensor", k>>
State(p)    == <<"state", p>>
Switch(p, v) == <<IF v = 0 THEN "off" ELSE "on", p>>
EspLamp(i)  == <<"esp", i>>
NoElement   == <<"none", 0>>

Element ==
  {Nodes, AlarmState, AlarmLast, AlarmTotal}
    \cup {Reading(k) : k \in Sensor} \cup {EspLamp(i) : i \in Esp}
    \cup UNION {{State(p), Switch(p, 0), Switch(p, 1)} : p \in Pin}

Relay(p)   == <<"relay", p>>
Channel(c) == <<"led", c>>
Strip      == <<"strip", 6>>
EspLed     == <<"strip", 0>>
Channels   == {3, 5, 6}

Target ==
  {Relay(p) : p \in Pin} \cup {Channel(c) : c \in Channels} \cup {Strip, EspLed}
    \cup {EspLamp(i) : i \in Esp}

UNSET == 128          \* pin_states of a relay nobody has switched

Initial  == <<"initial", 0>>
Loading  == <<"loading", 0>>
Label    == <<"label", 0>>
Error    == <<"error", 0>>
Value(v) == <<"value", v>>

\* What the page shows of AlarmWatcher's fields.  Their values are told apart
\* only: 0 is the one there is when the page is loaded, whatever it is.
Figure == {AlarmLast, AlarmTotal}

VARIABLES
  rq,         \* requests waiting, and commands that may come late
  asked,      \* requests issued so far
  inputs,     \* clicks and drags so far
  visit,      \* the panels this user uses; they share nothing they show
  text,       \* innerHTML of each element
  areas,      \* areas of nodes displayed
  folded,     \* areas whose functions are hidden
  rect,       \* colour of the rectangle behind the picker's field
  slider,     \* node4SliderValue, espSliderValue and where the knobs are
  alarmsAutoUpdate, timerId, intervals,
  level,      \* at the devices: pin_states, duties, relays
  alarms,     \* at the server: lastAlarmTimestamp and totalAlarms
  overlapped, \* history: elements and targets asked about while one waits
  failed,     \* history: those whose last finished request failed
  stuck,      \* history: elements whose handler threw
  applied,    \* history: what the page showed when it last sent a command
  held        \* history: the figures about alarms that the server has had while
              \* questions about them last waited

pageVars == <<text, areas, folded, rect, slider, alarmsAutoUpdate, timerId,
              intervals>>
worldVars == <<level, alarms>>
guiVars == <<rq, asked, inputs, visit, pageVars, worldVars, overlapped, failed, stuck,
             applied, held>>

\* A request: what it asks, for which element, about which target.  Its id
\* tells it from the others; got is what the server has answered.
Command == {"set", "write", "toggle"}
Op      == Command \cup {"nodes", "sensor", "get", "alarm"}

Request ==
  [op : Op, elem : Element \cup {NoElement}, on : Target \cup {NoElement},
   val : Nat, id : Nat, phase : {"sent", "done", "late"}, got : SUBSET Nat]

Ask(op, elem, on, val) ==
  [op |-> op, elem |-> elem, on |-> on, val |-> val,
   id |-> 0, phase |-> "sent", got |-> {}]

GuiTypeOK ==
  /\ rq \subseteq Request
  /\ asked \in 0 .. MaxRequests /\ inputs \in Nat /\ visit \in Visit
  /\ text \in [Element -> {"initial", "loading", "label", "error", "value"} \X Nat]
  /\ areas \subseteq Area /\ folded \subseteq Area
  /\ (rect = <<>> \/ rect \in Picked)
  /\ slider \in [{Strip, EspLed} -> [value : 0 .. 1023, knob : 0 .. 1023]]
  /\ alarmsAutoUpdate \in BOOLEAN /\ timerId \in Nat /\ intervals \subseteq Nat
  /\ level \in [Target -> Nat]
  /\ alarms \in [Figure -> 0 .. MaxAlarms]
  /\ overlapped \subseteq Element \cup Target
  /\ failed \subseteq Element \cup Target
  /\ stuck \subseteq Element
  /\ applied \in [Target -> Int]
  /\ held \in [Figure -> SUBSET (0 .. MaxAlarms)]

GuiInit ==
  /\ rq = {} /\ asked = 0 /\ inputs = 0 /\ visit \in Visit
  /\ text = [e \in Element |-> Initial]
  /\ areas = Area /\ folded = {}
  /\ rect = <<>>
  /\ slider = [s \in {Strip, EspLed} |-> [value |-> 0, knob |-> 0]]
  /\ alarmsAutoUpdate = FALSE /\ timerId = 0 /\ intervals = {}
  /\ level = [t \in Target |-> IF t[1] = "relay" THEN UNSET ELSE 0]
  /\ alarms = [e \in Figure |-> 0]
  /\ overlapped = {} /\ failed = {} /\ stuck = {}
  /\ applied = [t \in Target |-> -1]
  /\ held = [e \in Figure |-> {0}]

-----------------------------------------------------------------------------
(* Issuing requests *)

About(r) == {r.elem, r.on} \ {NoElement}
Quiet(x) == \A r \in rq : x \notin About(r)

\* Mutant: an element shows what it did until the answer comes.
IssueKeeping(asks, first, old, shown) ==
  LET about == UNION {About(asks[i]) : i \in DOMAIN asks}
      again == {x \in about : \E r \in old : x \in About(r)}
  IN
    /\ rq' = old \cup {[asks[i] EXCEPT !.id = first + i] : i \in DOMAIN asks}
    /\ text' = shown
    /\ stuck' = stuck \ about
    /\ overlapped' = (overlapped \ about) \cup again
    /\ held' = [e \in Figure |-> IF e \in about \ again THEN {alarms[e]} ELSE held[e]]

\* getRq of each of some requests, whose elements show "loading" from now on;
\* old is what waits apart from them.  The ids after first are theirs.
Issue(asks, first, old, shown) ==
  LET about == UNION {About(asks[i]) : i \in DOMAIN asks}
      again == {x \in about : \E r \in old : x \in About(r)}
  IN
    /\ rq' = old \cup {[asks[i] EXCEPT !.id = first + i] : i \in DOMAIN asks}
    /\ text' = [e \in Element |-> IF e \in about THEN Loading ELSE shown[e]]
    /\ stuck' = stuck \ about
    /\ overlapped' = (overlapped \ about) \cup again
    /\ held' = [e \in Figure |-> IF e \in about \ again THEN {alarms[e]} ELSE held[e]]

\* The same for something the user or a timer does.  The answer to setRelay
\* issues a request of its own, which is counted here.
Start(asks) ==
  LET more == IF \E i \in DOMAIN asks : asks[i].op = "set" THEN 1 ELSE 0 IN
    /\ Cardinality(rq) + Len(asks) <= MaxWaiting
    /\ asked' = asked + Len(asks) + more /\ asked' <= MaxRequests
    /\ Issue(asks, asked, rq, text)
    /\ UNCHANGED <<areas, folded, alarmsAutoUpdate, timerId, intervals,
                   worldVars, failed>>

\* The user does something in a panel.
Input(panel) ==
  /\ panel \in visit
  /\ inputs < MaxInputs[panel] /\ inputs' = inputs + 1
  /\ UNCHANGED visit

Click(panel, asks) ==
  Input(panel) /\ Start(asks) /\ UNCHANGED <<rect, slider, applied>>

getAliveNodes == Click("nodes", <<Ask("nodes", Nodes, NoElement, 0)>>)

\* getTempInside, getTempOutside, getTempBME, getPressure and getBrightness,
\* which differ in their texts only.
getSensor ==
  \E k \in Sensor : Click("weather", <<Ask("sensor", Reading(k), NoElement, k)>>)

setRelay ==
  \E p \in Pin, v \in {0, 1} :
    Click("relays", <<Ask("set", Switch(p, v), Relay(p), v)>>)

AskRelay(t) == Ask("get", State(t[2]), t, 0)

getRelay == \E p \in Pin : Click("relays", <<AskRelay(Relay(p))>>)

AskAlarm(e) == Ask("alarm", e, NoElement, 0)

\* getAlarmState, getAlarmLastTriggered, getAlarmCount.
getAlarm ==
  \E e \in {AlarmState, AlarmLast, AlarmTotal} : Click("alarms", <<AskAlarm(e)>>)

\* Mutant: the interval is never cleared.
AutoUpdateOnly ==
  /\ Input("alarms")
  /\ alarmsAutoUpdate' = ~alarmsAutoUpdate
  /\ IF alarmsAutoUpdate THEN UNCHANGED <<timerId, intervals>>
     ELSE /\ timerId' = timerId + 1
          /\ intervals' = intervals \cup {timerId'}
  /\ UNCHANGED <<rq, asked, text, areas, folded, rect, slider, worldVars,
                 overlapped, failed, stuck, applied, held>>

cmdAlarmsAutoUpdateClicked ==
  /\ Input("alarms")
  /\ alarmsAutoUpdate' = ~alarmsAutoUpdate
  /\ IF alarmsAutoUpdate
     THEN intervals' = intervals \ {timerId} /\ UNCHANGED timerId
     ELSE /\ timerId' = timerId + 1
          /\ intervals' = intervals \cup {timerId'}
  /\ UNCHANGED <<rq, asked, text, areas, folded, rect, slider, worldVars,
                 overlapped, failed, stuck, applied, held>>

\* An interval is over: it clicks the three buttons, whatever still waits.
AutoUpdate ==
  /\ intervals # {}
  /\ Start(<<AskAlarm(AlarmState), AskAlarm(AlarmLast), AskAlarm(AlarmTotal)>>)
  /\ UNCHANGED <<inputs, visit, rect, slider, applied>>

-----------------------------------------------------------------------------
(* Colours, sliders, areas *)

\* analogWrite is called with no element or with "cmdSliderApply", which the
\* page does not have: nothing shows how the request ends.
AskWrite(t, v) == Ask("write", NoElement, t, v)

hexToRgb(hex) ==
  [c \in Channels |-> LET i == CHOOSE i \in 1 .. 3 : <<3, 5, 6>>[i] = c
                      IN  16 * hex[2 * i - 1] + hex[2 * i]]

\* onFineChange of the picker.
updateRect ==
  /\ Input("lamp")
  /\ \E hex \in Picked : rect' = hex
  /\ UNCHANGED <<rq, asked, text, areas, folded, slider, alarmsAutoUpdate,
                 timerId, intervals, worldVars, overlapped, failed, stuck,
                 applied, held>>

\* Mutant: two channels are mixed up.
updateBGR ==
  \E hex \in Picked :
    /\ Input("lamp")
    /\ rect' = hex
    /\ Start(<<AskWrite(Channel(3), hexToRgb(hex)[6]),
               AskWrite(Channel(5), hexToRgb(hex)[5]),
               AskWrite(Channel(6), hexToRgb(hex)[3])>>)
    /\ applied' = [t \in Target |-> IF t[1] = "led" THEN hexToRgb(hex)[t[2]]
                                    ELSE applied[t]]
    /\ UNCHANGED slider

\* onchange of the picker's field.
updateRGB ==
  \E hex \in Picked :
    /\ Input("lamp")
    /\ rect' = hex
    /\ Start([i \in 1 .. 3 |-> LET c == <<3, 5, 6>>[i]
                               IN  AskWrite(Channel(c), hexToRgb(hex)[c])])
    /\ applied' = [t \in Target |-> IF t[1] = "led" THEN hexToRgb(hex)[t[2]]
                                    ELSE applied[t]]
    /\ UNCHANGED slider

PanelOf(s) == IF s = EspLed THEN "esp" ELSE "weather"

\* Mutant: brightness of the third-party lamp taken for a percentage.
SentPercent(s, value) == IF s = EspLed THEN 100 - value ELSE value

\* What Apply beside slider s sends: the third-party lamp counts downwards.
Sent(s, value) == IF s = EspLed THEN 1023 - value ELSE value

Apply(s, value) ==
  /\ Start(<<AskWrite(s, Sent(s, value))>>)
  /\ applied' = [applied EXCEPT ![s] = slider'[s].knob]
  /\ UNCHANGED rect

\* node4BrightnessSliderChanged and espSliderChanged: the user drags the knob.
SliderChanged ==
  \E s \in {Strip, EspLed}, v \in Dragged :
    /\ Input(PanelOf(s))
    /\ slider' = [slider EXCEPT ![s] = [value |-> v, knob |-> v]]
    /\ UNCHANGED <<rq, asked, text, areas, folded, rect, alarmsAutoUpdate,
                   timerId, intervals, worldVars, overlapped, failed, stuck,
                   applied, held>>

\* node4SliderApplyPressed, espSliderApplyPressed.
SliderApplyPressed ==
  \E s \in {Strip, EspLed} :
    Input(PanelOf(s)) /\ UNCHANGED slider /\ Apply(s, slider[s].value)

\* Mutant: the knob stays where it is.
SliderSetValue ==
  \E s \in {Strip, EspLed}, pct \in Percent :
    LET v == (pct * (IF s = EspLed THEN 1023 ELSE 255)) \div 100 IN
      /\ Input(PanelOf(s))
      /\ slider' = [slider EXCEPT ![s].value = v]
      /\ Apply(s, v)

\* node4SliderSet, espSliderSet.
SliderSet ==
  \E s \in {Strip, EspLed}, pct \in Percent :
    LET v == (pct * (IF s = EspLed THEN 1023 ELSE 255)) \div 100 IN
      /\ Input(PanelOf(s))
      /\ slider' = [slider EXCEPT ![s] = [value |-> v, knob |-> v]]
      /\ Apply(s, v)

espToggleRelay ==
  \E i \in Esp : Click("esp", <<Ask("toggle", EspLamp(i), EspLamp(i), 0)>>)

showOrHideElement ==
  /\ Input("nodes")
  /\ \E n \in Area : folded' = IF n \in folded THEN folded \ {n} ELSE folded \cup {n}
  /\ UNCHANGED <<rq, asked, text, areas, rect, slider, alarmsAutoUpdate, timerId,
                 intervals, worldVars, overlapped, failed, stuck, applied, held>>

-----------------------------------------------------------------------------
(* The server, the devices and the other lamp *)

\* What command r leaves of its target.
Carried(r) == IF r.op = "toggle" THEN 1 - level[r.on] ELSE r.val

\* What the server may answer to r, after the command r is.
Answers(r) ==
  IF r.op \in Command THEN {{Carried(r)}}
  ELSE IF r.op = "get"
  THEN {{IF level[r.on] = UNSET THEN 2 * r.on[2] ELSE level[r.on]}}
  ELSE IF r.op = "alarm"
  THEN IF r.elem = AlarmState THEN {{0}, {1}} ELSE {{alarms[r.elem]}}
  ELSE IF r.op = "nodes" THEN SUBSET Area
  ELSE {{r.val}}

\* A request is carried out; a late command for nobody.
Serve(r) ==
  /\ r.phase \in {"sent", "late"}
  /\ \E got \in Answers(r) :
       rq' = (rq \ {r}) \cup IF r.phase = "late" THEN {}
                             ELSE {[r EXCEPT !.phase = "done", !.got = got]}
  /\ level' = IF r.op \in Command THEN [level EXCEPT ![r.on] = Carried(r)]
              ELSE level
  /\ UNCHANGED <<asked, inputs, visit, pageVars, alarms, overlapped, failed, stuck,
                 applied, held>>

\* A late command is lost after all.
Lose(r) ==
  /\ r.phase = "late"
  /\ rq' = rq \ {r}
  /\ UNCHANGED <<asked, inputs, visit, pageVars, worldVars, overlapped, failed, stuck,
                 applied, held>>

\* AlarmWatcher or currentStatus writes the total or the time of the last alarm.
\* Neither takes turns with the other, so that either figure may go forward and
\* back to one it was before.
Sense ==
  /\ "alarms" \in visit
  /\ \E e \in Figure, n \in 0 .. MaxAlarms :
       /\ alarms' = [alarms EXCEPT ![e] = n]
       /\ held' = IF Quiet(e) THEN held ELSE [held EXCEPT ![e] = @ \cup {n}]
  /\ UNCHANGED <<rq, asked, inputs, visit, pageVars, level, overlapped, failed, stuck,
                 applied>>

-----------------------------------------------------------------------------
(* Answers *)

\* A request ends well, with status 200 and an error in its text, or with
\* another status.
Outcome == {"ok", "failed", "http"}

\* What is left waiting when r ends with outcome o: a command that failed
\* before it was carried out may still come through.
Left(r, o) ==
  {rq \ {r}} \cup IF o # "ok" /\ r.phase = "sent" /\ r.op \in Command
                  THEN {(rq \ {r}) \cup {[r EXCEPT !.phase = "late"]}} ELSE {}

Ends(r, o) ==
  /\ r.phase = "done" \/ (r.phase = "sent" /\ o # "ok")
  /\ failed' = IF o = "ok" THEN failed \ About(r) ELSE failed \cup About(r)
  /\ UNCHANGED <<asked, inputs, visit, folded, rect, slider, alarmsAutoUpdate, timerId,
                 intervals, worldVars, applied>>

Got(r) == CHOOSE v \in r.got : TRUE

\* r has ended, and its element shows something.
Show(r, o, shown) ==
  /\ Ends(r, o)
  /\ rq' \in Left(r, o)
  /\ text' = [e \in Element |-> IF e = r.elem THEN shown ELSE text[e]]
  /\ UNCHANGED <<stuck, overlapped, held>>

\* The error handlers of getAliveNodes and of the five readings name a variable
\* that does not exist: they throw, and the element goes on "loading".
Throw(r) ==
  /\ Ends(r, "http")
  /\ rq' = rq \ {r}
  /\ stuck' = stuck \cup {r.elem}
  /\ UNCHANGED <<text, areas, overlapped, held>>

onAliveNodes(r) ==
  /\ r.op = "nodes"
  /\ \/ Show(r, "ok", Value(Cardinality(r.got))) /\ areas' = Area \cap r.got
     \/ Show(r, "failed", Error) /\ UNCHANGED areas
     \/ Throw(r)

\* Mutant: a reading that failed is asked for again.
onSensorRetry(r) ==
  /\ r.op = "sensor"
  /\ \/ r.phase = "done" /\ Show(r, "ok", Value(Got(r))) /\ UNCHANGED areas
     \/ /\ Ends(r, "failed")
        /\ rq' = (rq \ {r}) \cup {[r EXCEPT !.phase = "sent", !.got = {}]}
        /\ UNCHANGED <<text, areas, stuck, overlapped, held>>
     \/ Throw(r)

onSensor(r) ==
  /\ r.op = "sensor"
  /\ \/ r.phase = "done" /\ Show(r, "ok", Value(Got(r))) /\ UNCHANGED areas
     \/ Show(r, "failed", Error) /\ UNCHANGED areas
     \/ Throw(r)

\* Mutant: the button is left as it is.
onSetRelaySilent(r) ==
  /\ r.op = "set"
  /\ \/ /\ Ends(r, "ok")
        /\ Issue(<<AskRelay(r.on)>>, r.id, rq \ {r}, text)
        /\ UNCHANGED areas
     \/ \E o \in Outcome \ {"ok"} : Show(r, o, Error) /\ UNCHANGED areas

\* Mutant: the state of the relay is not asked for.
onSetRelayOnly(r) ==
  /\ r.op = "set"
  /\ \E o \in Outcome :
       Show(r, o, IF o = "ok" THEN Label ELSE Error) /\ UNCHANGED areas

\* The answer to setRelay: the button gets its label back and the state of the
\* relay is asked for.
onSetRelay(r) ==
  /\ r.op = "set"
  /\ \/ /\ Ends(r, "ok")
        /\ Issue(<<AskRelay(r.on)>>, r.id, rq \ {r}, [text EXCEPT ![r.elem] = Label])
        /\ UNCHANGED areas
     \/ \E o \in Outcome \ {"ok"} : Show(r, o, Error) /\ UNCHANGED areas

\* "On" is a value that is not 0.
onGetRelay(r) ==
  /\ r.op = "get"
  /\ UNCHANGED areas
  /\ \/ r.phase = "done" /\ Show(r, "ok", Value(IF Got(r) = 0 THEN 0 ELSE 1))
     \/ \E o \in Outcome \ {"ok"} : Show(r, o, Error)


onGetAlarm(r) ==
  /\ r.op = "alarm"
  /\ UNCHANGED areas
  /\ \/ r.phase = "done" /\ Show(r, "ok", Value(Got(r)))
     \/ \E o \in Outcome \ {"ok"} : Show(r, o, Error)

onAnalogWrite(r) ==
  /\ r.op = "write"
  /\ UNCHANGED areas
  /\ \E o \in Outcome : Show(r, o, Label)

onToggleRelay(r) ==
  /\ r.op = "toggle"
  /\ UNCHANGED areas
  /\ \/ r.phase = "done" /\ Show(r, "ok", Value(Got(r)))
     \/ Show(r, "http", Error)

Answer ==
  \E r \in rq : \/ onAliveNodes(r) \/ onSensor(r) \/ onSetRelay(r)
                \/ onGetRelay(r) \/ onGetAlarm(r) \/ onAnalogWrite(r)
                \/ onToggleRelay(r)

User ==
  \/ getAliveNodes \/ getSensor \/ setRelay \/ getRelay \/ getAlarm
  \/ cmdAlarmsAutoUpdateClicked \/ updateRect \/ updateRGB \/ SliderChanged
  \/ SliderApplyPressed \/ SliderSet \/ espToggleRelay \/ showOrHideElement

GuiNext ==
  \/ User \/ AutoUpdate \/ Sense \/ Answer
  \/ \E r \in rq : Serve(r) \/ Lose(r)

GuiSpec == GuiInit /\ [][GuiNext]_guiVars

\* Every XMLHttpRequest ends some time, if only with status 0.
GuiFairSpec == GuiSpec /\ WF_guiVars(Answer)

-----------------------------------------------------------------------------
(* Properties *)

\* An element that shows "loading" waits for an answer, unless its handler
\* threw: no order of answers and no failure leaves a button behind
\* (the pairs of handlers, app.js:20-217).
LoadingMeansAsked ==
  \A e \in Element :
    text[e] = Loading => e \in stuck \/ \E r \in rq : r.elem = e /\ r.phase # "late"

\* Nothing waits about x, and its last request had it to itself.
Calm(x) == Quiet(x) /\ x \notin overlapped

\* Whoever uses the buttons of a relay one at a time sees the relay's state, or
\* an error at one of them (setRelay and getRelay, app.js:124-160).
RelayShown ==
  \A p \in Pin : Calm(Relay(p)) =>
    IF Relay(p) \in failed
    THEN \E e \in {State(p), Switch(p, 0), Switch(p, 1)} : text[e] = Error
    ELSE text[State(p)] = Initial
         \/ text[State(p)] = Value(IF level[Relay(p)] = 0 THEN 0 ELSE 1)

\* Once the three requests of a colour have gone through, in whatever order,
\* the lamp has the colour of the rectangle, unless that was moved on
\* (updateRGB, app.js:257-265).
LampShown ==
  (\A c \in Channels : Calm(Channel(c)) /\ Channel(c) \notin failed
                       /\ rect # <<>> /\ applied[Channel(c)] = hexToRgb(rect)[c])
    => \A c \in Channels : level[Channel(c)] = hexToRgb(rect)[c]

\* A slider whose knob is where it was when a value was last sent shows the
\* brightness, unless the request was lost (app.js:302-328).
SliderShown ==
  \A s \in {Strip, EspLed} :
    Calm(s) /\ s \notin failed /\ slider[s].knob = applied[s]
      => level[s] = Sent(s, slider[s].knob)

\* A total or last alarm on the page is one that the server has had since it was
\* asked about it: an answer that comes after that of a later interval shows what
\* was true while both waited, and nothing older (getAlarmLastTriggered and
\* getAlarmCount, app.js:182-217, and the interval, app.js:282-286).
AlarmsRecent ==
  \A e \in Figure : text[e][1] = "value" => text[e][2] \in held[e]

\* The page has one interval while auto-update is on and none while it is off
\* (cmdAlarmsAutoUpdateClicked, app.js:278-292).
OneInterval == intervals = IF alarmsAutoUpdate THEN {timerId} ELSE {}

\* When the user pauses, every element ends up showing something else than
\* "loading", unless its handler threw (getRq, app.js:4-18).
LoadingEnds ==
  []<>(\A e \in Element : text[e] = Loading => e \in stuck)
=============================================================================
