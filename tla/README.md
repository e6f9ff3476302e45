# CWSmartHome: specifications and proofs

CWSmartHome is a small home-automation system: a web page talks HTTP to a
Spring server; the server talks UDP to a gateway program on a Raspberry Pi;
the gateway talks over an nRF24 radio network to Arduino nodes that switch
relays, dim lamps, measure the weather and watch a door sensor. This directory
holds TLA+ models of it, TLC configurations that check them on small
instances, and TLAPS proofs for every value of the constants.

Run `tlc -config X.cfg M` and `tlapm M.tla` in this directory.

## 1. Inventory

Paths are relative to the repository; `server/` stands for
`SmartHomeServer/src/main/java/com/programmer74/smarthomeserver/`.

| Component | State | Operations | Hard behaviour |
|---|---|---|---|
| `server/messaging/Message.java`, `util/Utils.java` | one frame: node, type, register, 8 payload bytes, receipt time | `toBytes`, `fromBytes`, payload accessors | ids and registers cut to signed bytes; receive buffer one byte short |
| `server/communication/UDPGateway.java` | `responseMap`: last message of each node; its monitor; the socket | `sendMessage`, `clearMessage`, `retrieveMessage`, `retrieveMessageBlocking`, listener thread | the listener is not synchronized; a five-second wait inside the monitor |
| `server/messaging/MessagesGateway.kt` | its monitor | `get`, `set`, `ping`, `availableNodesList` | answers are not correlated with requests; a scan reads and clears in two steps |
| `server/controllers/RootController.kt` | none | one handler per URL | every handler may time out |
| `server/watchers/AlarmWatcher.kt`, `controllers/AlarmController.kt` | `lastAlarmTimestamp`, `totalAlarms` | the watcher's loop; `current`, `lastAlarm`, `totalAlarms` | two writers of both fields without a lock |
| `NRFtoUDPGateway` | one buffer, two sockets | radio to UDP, UDP to radio with up to five writes | drain loop, retry counter, duplicates when an acknowledgement is lost |
| `MockToUDPGateway` | none | answers for nodes 1 and 3 | none |
| `Devices/DigitalInputReader` (node 2) | `triggered` | raise an alarm on a rise of the sensor; answer | an undelivered alarm is never repeated |
| `Devices/GeneralLamp` (1), `RelayStation` (3) | `pin_states`, the pins | set, get, ping | sentinel 128, unchecked index, restart |
| `Devices/WeatherStation` (4) | two temperatures, phase of the scan | set, get, ping, temperature scan | millisecond counter, stale values |
| `static/app.js`, `index.html` | text of the elements, areas, sliders, the interval of auto-update | one request per click, drag or interval; a handler per answer | answers out of order, commands carried out after their request failed, handlers that throw |
| `static/jscolor.js` | colour, field and style of each picker; one shared panel; the drag's listeners; scroll listeners | install, show, hide, resize, press, move, release, type, Enter, leave the field | a drag that goes on with another picker; a panel redrawn in halves; order of change events; rounding |

Interaction: the page's requests run in parallel on the server's request
threads. Each calls one synchronized method of `MessagesGateway`, which calls
synchronized methods of `UDPGateway`. The listener thread fills `responseMap`
without a lock; the watcher thread reads it through `retrieveMessage` every
500 ms. Gateway and nodes run single-threaded loops.

What makes the parts correct:

* the server: calls are served one at a time; a call returns a message
  received after its own question, or an error; it always returns; an answer
  that has arrived is not cleared by another call; a scan reports only nodes
  that were heard after being pinged;
* the alarm bookkeeping: the last-alarm time is that of a counted alarm; each
  alarm is counted once and the last-alarm time never goes back, which the code
  keeps only while the watcher is alone (section 4);
* the gateway: a frame goes out at most five times, nothing overtakes anything,
  and every request is done with some time;
* the nodes: what a get reports is what the last set did, however often frames
  are repeated; a rise of the sensor raises one alarm;
* the page: a relay is shown as it is, figures about alarms are recent, no element is
  left "loading", and a slider or a colour shown is that of the device;
* the colour picker: panel, field and page agree on the colour of the picker
  whose panel is open, whoever owned it before; the panel is on the screen.

The hazards of the code, each at its line, are listed in `PROJECT.json`.

## 2. Modules

```
Messages --- UDPGateway --- MessagesGateway --- AlarmService
   \                          |  refines
   |`-- RequestService <------'
    `-- Radio --- NRFGateway --- RelayNode --- SensorNode --- SmartHome
                                                          (with AlarmService)

WebGui

Colour --- ColorPicker
PickerLayout
```

The upper part is the server with an abstract field of devices behind its
socket, then that field with an abstract server in front of it, and `SmartHome`,
which joins the two; below are the page with an abstract server behind it, and
the picker the page uses. `--` is EXTENDS; `SmartHome` has `AlarmService` as an
instance, `Server`. `MC...` modules hold the values of constants for TLC, `..._proofs` the
proofs.

### Messages.tla

The record sets of requests, replies and received messages, and the byte cast
`ByteOf`. Only `payload[0]` is told apart. `id` (of a request) and `re` (of a
reply) are history: the program sends neither. They let a property say whose
answer a message is.

### UDPGateway.tla

| TLA+ | code |
|---|---|
| `responseMap`, `ListenerReceive` | the map and the listener's `put`, `UDPGateway.java:48-63` |
| `udpMonitor` | the monitor of the `UDPGateway` object |
| `outbound`, `inbound` | datagrams on their way, sets because UDP orders nothing |
| `heard` | history: messages received for a node since it was last asked |
| `FieldAnswers`, `FieldAnswersAgain`, `FieldLoses`, `FieldAlarm` | everything behind the socket: gateway, radio, nodes |
| `clock`, `Tick` | `System.currentTimeMillis()`; `Tick` is the set of steps it may make between two receipts. `{0}` leaves time out, `{1}` makes all timestamps differ |

The field is as bad as the code lets it be: a request may be lost, answered as
late as one likes, in any order, and, when a radio acknowledgement is lost and
the gateway writes the frame again, more than once. That the real gateway and
nodes do nothing else is a theorem about `SmartHome`.

### MessagesGateway.tla

One `pc` per request thread. `Handle` is an HTTP handler being called,
`EnterGateway` the entry of the synchronized method, `EnterSend`, `Clear`,
`TransmitRequest`/`TransmitPing`/`TransmitFails` are `sendMessage`,
`EnterRetrieve`, `PollHit`, `PollTimeout` are `retrieveMessageBlocking`,
`ScanRead`, `ScanClear`, `ScanEnd` the loop of `availableNodesList`,
`Respond` the handler's return. Steps are as fine as the points at which the
listener, the watcher or another request can come in between: between clearing
and sending (the listener), between sending and waiting (the inner monitor is
free), between reading and clearing in a scan. Wall-clock time is abstracted:
the deadline of a wait may pass at any poll, including after a message arrived
that the loop will not look at any more; the deadline of a scan is seen at the
head of a pass. `Idle` says that the server may wait for requests for ever, so
TLC's deadlock check means that no thread gets stuck inside.

### RequestService.tla

The abstract specification: callers, the nodes asked on behalf of each, the
messages heard since. `Succeed` may return only a message heard from the node
after the node was asked. `MessagesGateway` implements it: `ServesRequests`.
It deliberately does not say that the answer belongs to the question. That
holds only if the field is prompt (`PromptSpec`: nothing is in flight when a
call ends); under that assumption `OwnAnswer` says it.

### AlarmService.tla

Extends the request path with the watcher thread and the handler of
`api/alarm/current`. Both do the same four steps on shared fields without a
lock: `Compare`, `ReadTotal`, `WriteTotal`, `Stamp`. `Seen` is what they compare:
the watcher the message it found in the slot, a handler its answer, if that
reports an alarm. `counted` is a history
set of the receipt times that were counted. Fields are read and written as if
memory were sequentially consistent; Java promises less, since neither is
volatile.

### Radio.tla (external)

RF24Network as both ends use it. `inbox` holds what a device has received and
not read, `air` the same for the gateway. `Written` is one `network.write`: the
frame arrives or not, the call returns true or false; true without arrival only
when the receiver is full (the chip acknowledges, the library drops). The radio
keeps the order of the frames that arrive.

### NRFGateway.tla

`main.cpp`, one action per point at which a datagram or a frame may come in:
`Update` (line 48), `Forward` and `Drained` (the drain loop, 49-73), `Recv` and
`RecvNothing` (75), `Write` (one pass of the rewrite loop, 101-116). `Arrive` is
a datagram of the server; ids number datagrams as they arrive. Datagrams to the
server may be lost (`Forward`); of those sent, `sent` remembers the last of each
node, which is what the server keeps.

### RelayNode.tla

`RelayStation.ino` and `GeneralLamp.ino` behind that gateway. `Handle` is a pass
of `loop()` up to the switch's end, with `Act` the switch; `Respond` is one pass
of the rewrite loop; `Restart` is power failing and `setup()` running again, after
which a RelayStation without its sensor is `halted`. `pins` holds, for each pin,
what `pinMode` and `digitalWrite`/`analogWrite` made of it and its entry in
`pin_states`. `last` and `executed` are history. `NodeAssumption` restricts the
requests to registers and pins that exist: `pin_states` is indexed unchecked.

### SensorNode.tla

`DigitalInputReader.ino` beside the nodes of `RelayNode`, behind the same
gateway. `rpc` is the place in `loop()`: `Sense` is the test of sensor and
`triggered`, `Sample` the second read of the pin for the payload, `Raise` a pass
of `sendMsg`'s loop for the alarm, `Read` and `AnswerOnce` the request part,
`RestartReader` a loss of power. `Change` is the sensor itself. `risen` and
`raised` are history and count from the node's start: a sensor that is up at
power-on counts as risen.

### SmartHome.tla

The whole house but for the page: the modules above, joined where the programs
are, by datagrams. Where `UDPGateway` has an abstract field, gateway, radio and
nodes run as `SensorNode` says (`FieldStep`); where `NRFGateway` has any server,
the server runs as `AlarmService` says (`ServerStep`). Three actions join them:

| TLA+ | code |
|---|---|
| `Reach` | a datagram of the server is received by the gateway's socket, `main.cpp:75` and `UDPGateway.java:98`; at most once, in any order, or never |
| `Deliver` | `cli.send` in the drain loop (`Forward`) puts a datagram on its way to the listener |
| `Miss` | the same, and the datagram is lost |

`Carries` and `Datagram` are the two conversions, ids and registers cut to a
byte. Frames carry no number: `posed` is history and says which datagram the
frame with a number was made of. `HomeAssumption` says that `AlarmWatcher` looks
at the node that is the reader, and at the register it raises alarms about; `ServerAssumption`
repeats what the server's modules assume, as an instance assumes nothing.

### WebGui.tla

The page with an abstract server. `rq` holds the requests of the browser; each
is served (`Serve`) and answered (`Answer`, one `on...` action per pair of
handlers) in any order, may end with an error text or another status than 200,
and a command whose request ended that way before it was carried out may still be
carried out (`phase` "late") or lost. The actions of `User` are the functions the
elements of `index.html` call. `level` is what the devices have. `alarms` has
two figures of the server, `totalAlarms` and `lastAlarmTimestamp`, as numbers
that tell their values apart (0 is the one there is when the page is loaded);
`Sense` sets either of them to any other one, for watcher and handlers write both
without a lock and set them back as well as forward (section 4).

That an answer belongs to its request is an assumption here; the server's side
of it is `OwnAnswer`, which needs a prompt field. `overlapped`, `failed`,
`stuck`, `applied` and `held` are history. `overlapped` names what was asked
about while an older request about it waited: of those the page promises
nothing about relays, sliders and the lamp, and without that exception TLC finds
`RelayShown`, `SliderShown` and `LampShown` violated. For the alarms there is no
such exception: `held` has what the server had of a figure since questions about
it wait without a pause, and `AlarmsRecent` says that nothing else is shown,
whichever answer comes last. `stuck` names elements whose error
handler threw: the handlers at `app.js:44`, `60`, `75`, `90`, `105` and `120`
use a name, `setTextTo`, that nothing defines, so an HTTP error leaves
"loading" there. Failures of `analogWrite` are invisible: it is called without an
element or with `"cmdSliderApply"`, which the page does not have.

### Colour.tla, PickerLayout.tla, ColorPicker.tla

`Colour` is jscolor's arithmetic with exact fractions in place of doubles: the two
conversions between hue, saturation, value and red, green, blue, the clipping of
`fromHSV` and `fromRGB`, parsing and formatting of the notations. `PickerLayout`
is the size of the panel and where it is put on the page.

`ColorPicker` has the state. `pick` is a picker's colour, its field's text and
style; `owner` is `jsc.picker.owner`; `inst` the `_jscInstance` of palette and
slider, which stays when the panel is closed; `drag` the listeners on the document
while a pointer is down; `watched` the elements with a scroll listener; `edited`
the fields the browser owes a change event; `place` where the panel was put in a
window of size `window`. `install`, `PressField`, `PressElsewhere`,
`ParentScroll`, `Resize` (`onWindowResize`), `PointerStart`, `PointerMove`, `PointerEnd`,
`Type`, `Enter` and `Blur` are the handlers with all they call: conversion, export
to field and style, redrawing, and the calls of the page (`told` for
`onFineChange`, `reported` for `onchange`). `taken` is history: pickers whose
drag went on with another one, which then never get their change event. Browsers
differ in whether a script that writes a field cancels the change event due for
typed text; both are allowed.

## 3. Runs

| Run | Instance | Shows |
|---|---|---|
| `gateway_exchange` | 2 threads, nodes 1, 2, 257, 2 calls, 1 duplicate, 1 alarm | `IInv`, `AnswerKept`, `ServesRequests` for get and ping |
| `gateway_scan` | 2 threads, nodes 1, 2, pings and scans, 2 calls, fair | `TypeOK`, `ServesRequests`, `EveryCallReturns` |
| `gateway_prompt` | 2 threads, 3 calls, 1 duplicate, prompt field | `OwnAnswer` |
| `gateway_register` | reads of registers 4 and 5 | violated: `GetAnswersAskedRegister` |
| `alarm_watcher` | watcher, one thread that pings or scans, 2 alarms, fair | `AlarmTypeOK`, `CountedOnce`, `LastAdvances`, `AlarmNoticed` |
| `alarm_recount` | watcher, one handler of `current`, 1 alarm | violated: `CountedOnce` |
| `relay_order` | node 3; switch on, off, read, 3 requests, 2 writes by the gateway, 2 by the node, 1 restart | `FlowInv`, `GetsLatest`, `NoStaleCommand`, `AnswersInOrder` |
| `relay_shown` | node 3, switch on, off, read | violated: `ShownIsTrue` |
| `sensor` | reader 2, lamp 1 and a missing node 9, 1 request, 2 changes of the sensor, 1 restart, fair | `SensorTypeOK`, `OneAlarmPerRise`, `RiseNoticed`, `EveryRequestSettled`, `EveryFrameHandled` |
| `house` | watcher, one handler of `current`, reader 2; 1 change of the sensor, 1 request, 1 write each by gateway and node, 2 answers and 1 alarm to the server | `LastIsCounted`, `FieldAsAssumed` |
| `page` | one panel at a time, 3 inputs (alarms: 2), 6 requests, 4 of them waiting, 2 values of each figure about alarms, fair | `GuiTypeOK`, `LoadingMeansAsked`, `RelayShown`, `LampShown`, `SliderShown`, `AlarmsRecent`, `OneInterval`, `LoadingEnds` |
| `picker` | two pickers with opposite options, a palette of 3 by 3, mouse and touch, two sizes of the window, 3 inputs | `PickerTypeOK`, `OwnerInControl`, `PanelShows`, `FieldShows`, `PageHears`, `BlurIsIdle`, `PlacedInView` |

Bounds. Two threads give every pair of calls; a third would only wait at the
same monitor. Two calls are the least in which an answer can be taken for
another's, three let a third call see the leftovers of both. Node 2 raises
alarms, node 1 does not; 257 is an id whose byte is another node's. The clock
starts at 1: the time of day is later than the 0 that stands for "never". `ScanUpTo`
is 3 instead of 5: a scan over two nodes has a first, a last and a next one.
One duplicate and one alarm are enough to fall into any gap between two steps;
two alarms let one be overwritten by the other, or counted after it. The proofs
remove these bounds.

For the relays: `QueueMax` 2 (the chip has 3) makes receivers overflow; two
writes of the gateway instead of five, and two of a node instead of six, give a
first, a repeated and a last one; three requests are a command, its opposite and
a question, in any order; one restart falls between any two steps. In `sensor` a
request for the reader, one for the lamp and one for nobody meet two changes of
the sensor: it rises and falls, or falls and rises, around any write, and one
restart falls in between.

For the house: one handler asks the reader while its sensor changes once, so that
alarm and answer are under way together and either comes first; one receiver slot
overflows at the second frame. The watcher, which polls between any two
steps, and the handler are the two writers of the alarm's bookkeeping. Repeated
writes and restarts are left to `sensor` here, and to the theorems, which have
them in any number.

For the page: panels share nothing they show, so the user is given one panel at a
time (`Visit`). Three inputs are two commands and one in between; six requests
are the three of a colour twice or the three of two intervals; four waiting let
one of the first three stay behind. The server's figures
change between any two steps; two values of each are enough to leave one and go
back to it. In the panel about alarms, whose interval goes on by itself, two
inputs start the interval and press a button while a round waits, or stop it;
and a second round starts while a request of the first still waits.

For the picker: two pickers are the least that can take the panel from each other;
the second has limits, no `refine`, no `required`, a colour as an option and
another order of components. Pointers are to the right of the palette, where the
hue is at its limit, level with its top or below it. Three inputs are a press on
the panel and two moves, presses, texts or a new size of the window; showing,
hiding, releasing and leaving are not counted. Text is a three-digit colour or
none. One picker is at the lower edge of the window and the other at the left
one, so that both panels are put on the other side of their fields than they
should; the theorems are about every size and every place. That a colour survives
being dissected and put together again (`RoundTrips`) TLC evaluates in `MCColorPicker` for 6 levels of each component,
with the ends, the neighbours of the middle and grey; it is proved for all 256.

Every property of a passing run has a mutant in `PROJECT.json`: a change of
one definition, as a bug could make it (the monitor dropped, the slot not
cleared, a loop one node too long), for which TLC finds the property violated.

Symmetry over threads is used in runs without temporal formulas beyond action
properties.

Fairness (`MessagesGateway!Fairness`, `AlarmFairSpec`). A thread inside a
method keeps running (weak fairness), for its loops end by the clock and not by
anybody's help. A scan ends (strong fairness of `ScanEnd`), because its deadline
passes and it is then seen at the head of the next pass. Nothing is assumed of
the field. Java's monitors are not fair: that a thread gets in while others
keep coming is not assumed, and the liveness properties are about the finite
bursts of calls that `MaxCalls` allows.

`SensorFairSpec`: gateway and nodes are processors whose loops wait for nobody, so
each keeps running (weak fairness). Nothing is assumed of the radio, the sensor
and the power: the radio may lose every frame and every acknowledgement.

`GuiFairSpec`: every XMLHttpRequest ends, if only with status 0 (weak fairness of
`Answer`). Nothing is assumed of the server, the user or the interval.

`AlarmNoticed` says which alarms are sure to be counted: one that stays in its
slot. One that is overwritten by the node's next message, or cleared by a request
to the node or by a scan, may go unseen.

## 4. Violations

The violating runs show where program and text disagree.

* `gateway_register`: an answer is the last message of the node, whatever its
  type and register. After a timeout, the late answer about register 4 is
  returned to a read of register 5 (`UDPGateway.java:73`).
* `alarm_recount`: an alarm that arrives while the handler of `api/alarm/current`
  waits is its answer, and stays in the slot for the watcher. Both compare it with
  `lastAlarmTimestamp` (`AlarmWatcher.kt:22`, `AlarmController.kt:40`) before
  either sets that, and both count it: one alarm, a total of 2.
* `relay_shown`: a pin nobody switched is answered with twice its number, which
  the page shows as "On" (`RelayStation.ino:118`, `app.js:147-152`).

Other facts met while modelling, which no text of the repository denies: two
increments of `totalAlarms` at once, by the watcher and a handler, count one, and
the total can go back (`AlarmController.kt:41`, `AlarmWatcher.kt:23`); a handler
that has compared its answer sets `lastAlarmTimestamp` to the older time after the
watcher has set it to that of a newer alarm, so the last alarm goes back
(`AlarmController.kt:44`; TLC shows it for the instance of `alarm_recount` with
`LastAdvances`, which therefore is checked and proved of the watcher alone);
GeneralLamp switches a relay without making its pin an output
(`GeneralLamp.ino:103`); a panel to be put above or left of its target is moved
if it would leave the page, not if it would leave the viewport
(`jscolor.js:452`), which `PlacedInView` leaves out; the limits of a picker are
not applied to its default colour (`jscolor.js:992`).

## 5. Proofs

TLAPS checks the following for any set of threads, nodes, registers and
payloads and any bounds, from the named assumptions on the constants
(`UDPAssumption`, `MessagesAssumption`, `AlarmAssumption`, `RadioAssumption`,
`GatewayAssumption`, `NodeAssumption`, `ReaderAssumption`, `PickerAssumption`,
`PanelAssumption`, `ColourAssumption`, `PageAssumption`, `HomeAssumption`,
`ServerAssumption`).

| Module | Theorem | Statement |
|---|---|---|
| `MessagesGateway_proofs` | `TypeCorrect` | `Spec => []TypeOK` |
| | `MonitorDiscipline` | `Spec => []IInv` |
| | `AnswersAreKept` | `Spec => AnswerKept` |
| | `PromptAnswersAreOwn` | `PromptSpec => []OwnAnswer` |
| | `GatewayServes` | `Spec => ServesRequests` |
| `AlarmService_proofs` | `AlarmTypeCorrect` | `AlarmSpec => []AlarmTypeOK` |
| | `LastAlarmWasCounted` | `AlarmSpec => []LastWasCounted` |
| | `WatcherCountsOnce` | `AlarmSpec => []CountedOnce`, if nobody asks `current` |
| | `WatcherLastAdvances` | `AlarmSpec => LastAdvances`, if nobody asks `current` |
| `RelayNode_proofs` | `RelayTypeCorrect` | `RelaySpec => []NodeTypeOK` |
| | `FlowInOrder` | `RelaySpec => []FlowInv` |
| | `NoCommandIsStale` | `RelaySpec => NoStaleCommand` |
| | `AnswersAreInOrder` | `RelaySpec => AnswersInOrder` |
| | `ReadsSeeWrites` | `RelaySpec => []GetsLatest` |
| `SensorNode_proofs` | `OneAlarmAlways` | `SensorSpec => []OneAlarmPerRise` |
| | `SensorTypeCorrect` | `SensorSpec => []SensorTypeOK` |
| `SmartHome_proofs` | `HouseRunsField` | `HomeSpec => SensorSpec` |
| | `CarriedIsAsked` | `HomeSpec => []HomeInv` |
| | `HouseIsField` | `HomeSpec => FieldAsAssumed` |
| | `HouseCountsLast` | `HomeSpec => []LastIsCounted` |
| `WebGui_proofs` | `GuiInvariant` | `GuiSpec => []GuiInv` |
| | `GuiTypeCorrect` | `GuiSpec => []GuiTypeOK` |
| | `LoadingIsAsked` | `GuiSpec => []LoadingMeansAsked` |
| | `RelaysAreShown` | `GuiSpec => []RelayShown` |
| | `LampIsShown` | `GuiSpec => []LampShown` |
| | `SlidersAreShown` | `GuiSpec => []SliderShown` |
| | `AlarmsAreRecent` | `GuiSpec => []AlarmsRecent` |
| | `IntervalIsOne` | `GuiSpec => []OneInterval` |
| `ColorPicker_proofs` | `OwnerAlwaysInControl` | `PickerSpec => []OwnerInControl` |
| | `PanelAlwaysShows` | `PickerSpec => []PanelShows` |
| | `PlacedAlways` | `PickerSpec => []PlacedInView` |
| | `FieldAlwaysShows` | `PickerSpec /\ []ReadsBack => []FieldShows` |
| | `PageAlwaysHears` | `PickerSpec /\ []ReadsBack => []PageHears` |
| | `BlurIsArithmetic` | `PickerSpec => ([]BlurIsIdle <=> []ReadsBack)` |
| | `PickerTypeCorrect` | `PickerSpec => []PickerTypeOK` |
| | `BlurAlwaysIdle` | `PickerSpec => []BlurIsIdle`, if no picker has limits |
| | `UnlimitedShownAndHeard` | `PickerSpec => [](FieldShows /\ PageHears)`, if no picker has limits |
| `Colour_proofs` | `RoundTrips` | `\A c \in [1 .. 3 -> 0 .. 255] : RoundTrip(c)` |

`IInv` is the inductive invariant under the proofs about the server. Its four parts are
there because the later proofs need them: `MonitorsHeld` (a thread is inside a
method exactly when it owns the monitor) makes any two threads inside
impossible, so nobody else clears the slot a thread waits on (`AnswerKept`) or
the slot a scan has just read (`ScanKeeps`); `KnownNodes` says that the
listener files messages under known keys only; `FreshSlots` ties a slot to the
history of its node, which is what the refinement needs to map a successful
poll to `Succeed`. The step lemmas `SlotStep` and `FlightStep` say once which
actions touch the slots and the datagrams.

The refinement proof goes action by action: `EnterGateway` is `Start`, `Clear`
is `Ask`, a receipt is `Hear`, `ScanClear` is `Found`, `PollHit` and `ScanEnd`
are `Succeed`, `PollTimeout` and `TransmitFails` are `Fail`; the rest stutters.

`OwnAnswer` is not inductive. `Own` adds that everything in flight belongs to
the call being served (`OwnFlight`), and so does the slot it looks at from
`clearMessage` on (`OwnSlot`).

`LastWasCounted` needs `AlarmInv`: a thread's bookkeeping is over before it
replies, so its message stays the same, and nobody stamps a time that has not
been counted. `ServerInv` is that with the types and `IInv`: the inductive
invariant of the whole server.

The two theorems about the watcher alone rest on `WatcherInv`. The times of the
alarm shown, of the one the watcher is busy with, of the one in the slot, and the
clock are in that order (`TimesOrdered`), because only the watcher stamps and the
clock does not go back. So an alarm that differs from the one shown is newer than
everything counted (`Counting`), and comparing for inequality is enough. A
handler that stamps an older report breaks that order (section 4).

`FlowInv` is inductive: requests are sorted in the socket, in the frame being
written and in the nodes' inboxes (`RequestsInOrder`, `FramesInOrder`), answers in
the nodes, on the air, in the gateway's queue and at the server (`AnswersFlow`).
A repeated frame has the id of the one before it, so the order is not strict.
`NoStaleCommand` and `AnswersInOrder` follow from it step by step.

`GetsLatest` needs more, `ReadInv`: an id stays with one request
(`OneRequestPerId`), so that a repeated command is the same command; `pin_states`
is what the last command left (`PinsFollow`); and every answer under way is
truthful (`AllTruthful`), which no later command changes because it has a later
id (`TruthStays`), and a restart does not either.

`OneAlarmPerRise` needs `AccountInv`: while the sensor is up and not yet
triggered, and no alarm of it is under way, there is a rise without its alarm
(`Accounted`). The types of the sensor node need `SensorInv`: the bound on the
changes of the sensor, that a reader never leaves `loop` but to write (`Resting`),
and that a reader which writes has a message and an attempt left (`Carrying`).

`OwnerInControl` and `PanelShows` need each other and two facts more: colours have
the components the panel is drawn from (`PickersOK`), and whoever owns the panel is
installed (`OwnersOK`); `PanelInv` is all four. `DragOwned` adds that a drag always
has a picker to steer. The steps are in
two groups: those that show or hide the panel, and those that recolour a picker
and redraw all of the panel or the half a drag did not move itself.

The theorem about the panel's place rests on a lemma about the operators of
`PickerLayout`, for every size of the panel, target and window (`Placed`).
`PlaceInv` says that the place is always the one computed for the owner and the
window there is: whatever opens the panel or changes the window computes it anew.

What a field shows and the page hears is `TextInv` and `HearInv`. A field is no
colour, or the picker's colour was read from it (`ReadFrom`), or it is what the
colour is written as; the page has been told every colour, and the final one by a
change event unless one is due. `PageHears` says nothing of a picker while another
is dragged; `HeardOf` does, of every picker that is not itself steered, and is
inductive. All of this rests on one fact that is arithmetic only, `ReadsBack`: a
colour that was written into a field is read from it, within the limits of the
options, as one that is written the same. It is a hypothesis and no
assumption on the constants, because for some limits of the saturation it is
false: rounding to bytes moves the saturation of a dark colour across its limit.
With a saturation of at most 50, hue 200, saturation 50 and value 1 are written as
010203 (red 1, green 2, blue 3), which is read, limited and written as 020203: leaving the
field then changes the colour, in the program as in the model.
`BlurIsArithmetic` shows that it is exactly `BlurIsIdle`, a property of the run
`picker`: TLC discharges the hypothesis for that instance, limits and all, and the
theorems say that nothing else in typing, dragging, options and events can go
wrong. Without limits, as the page has its picker (`index.html:68`), the
hypothesis is a theorem (`UnlimitedReadsBack`), so that `BlurAlwaysIdle` and
`UnlimitedShownAndHeard` need it no more.

For that the arithmetic itself is proved, in `Colour_proofs`. A fraction is
compared by its worth n / d, so that it need not be in lowest terms; what is
needed of the greatest common divisor is that it exists (`GcdDefined`: the
recursive definition has a solution, the greatest common divisor, which exists
because every set of naturals has a least element) and divides (`GcdDivides`).
From there sums, products, quotients and comparisons mean what they should
(`AddedWorth`, `TimesWorth`, `OverWorth`, `LeqWorth`). A colour of whole numbers is
taken apart by the greatest and the least of its levels, and the sextant of its hue
says which level is which; put together, each level is the one it was
(`Returns`), with greys and black as cases of their own, whose hue or
saturation is kept. The same operators map ranges into ranges (`FromHSVReaches`,
`FromRGBReaches`, `RGBReaches`), whatever the limits are as long as they are
percentages (`jscolor.js:990-993`, "0 - 100"), which is `ColourAssumption` together
with: a field or an option holds a text as `fromString` tells them apart.
`ColoursOK` carries these ranges through the steps, with the pointers on the
palette and the slider (`PaneOK`), and `SetsOK` the rest of `PickerTypeOK`.

The house needs no invariant of the server's to be the field the server assumes.
What it needs is where everything between the socket and the nodes comes from,
`HomeInv`: the types of the nodes, that only what the server sent is received
(`PosedInv`), and that every frame under way is one a received datagram was made
into (`Asking`) and every answer under way fits the datagram it goes back to, or
is an alarm of the reader (`Given`; both in `ChannelInv`). Then `Deliver` is
`FieldAnswersAgain` or `FieldAlarm` of the abstract field (`AnswerDelivered`,
`AlarmDelivered`), the server's steps are its own, and all other steps leave what
the server sees alone: `Reach` takes nothing away, for the server cannot tell
a datagram that has arrived from one still under way. So `FieldLoses` and
`FieldAnswers`, which take the request away, are never needed here: the
abstract field is at least as bad as the real one. Because the house is both `SensorSpec`
(`HouseRunsField`) and `AlarmSpec` (`HouseIsField`), what is proved of the parts
holds of the whole. `HouseCountsLast` spells that out: `Proved` is the module of
the server's proofs, with the constants of the house; that they meet the
assumptions there is `ServerConstants`, and the `Same...` lemmas say that
`Server` and `Proved` are instances of the same definitions.

`GuiInv` is the invariant of the page, for any set of areas that are used
together and any bounds. Its core is that what one knows of an
element is shared between the element and the requests about it:

- `RequestsOK` (in `CoreOK`) says which element, target and value go with each
  kind of request, so that no handler writes to an element of another kind;
- `Alone`: nothing is asked twice at a time, but for what is in `overlapped`;
- `RelaysOK`: a relay that nobody asks about is shown as it is or failed with an
  error to be seen; the answer to a state request under way is the level there is;
  a command that may come late has left an error;
- `DimmersOK`: a lamp or strip has the level last sent, or a request with that
  level is under way, or it is among the failed;
- `AlarmsOK`: while a question about a figure waits, the figure is in `held`, and so
  is every answer to one that is under way, and what is shown;
- `PageOK`: the counters, and that a timer that runs is the page's own (`Timed`).

`LoadingMeansAsked` is inductive together with `CoreOK`. The proof of each part
goes handler by handler, with lemmas (such as `DimmedRequest`, `AlarmRequest`) that
say which requests can be about what.

Only model-checked: the liveness properties (`LoadingEnds`, `AlarmNoticed`,
`EveryCallReturns` and the like), because liveness under fairness is out of the
prover's reach; and `BlurIsIdle` of pickers with limits, which holds for the
limits of the run `picker` and, as shown above, not for all.

## 6. Not modelled, and what could follow

* The page in front of the real server. Its abstract server answers in any order
  and may carry out late what failed, as the house does; but answers to the page
  belong to their requests, which the house promises only with a prompt field.
* `WeatherStation`'s temperature scan over a wrapping millisecond counter. Its
  requests are those of `RelayNode`; its measurements meet no other state.
* The wire format beyond the cast of ids (byte order of floats, the eleven-byte
  frame in a ten-byte buffer) and the decoding in `RootController`: properties
  would be about strings of bytes and floating-point numbers, out of TLC's reach.
* The mock gateway: it has no state and answers as the abstract field may.
* Of the picker: drawing of palette and slider by canvas or VML, styles, images,
  and the floating-point error of its conversions.
* Build files, style sheets, the wiring of Spring beans (its constants are
  CONSTANTS here), console output.
