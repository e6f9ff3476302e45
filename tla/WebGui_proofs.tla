----------------------------- MODULE WebGui_proofs -----------------------------
(***************************************************************************)
(* What the page shows, for any elements, requests, inputs and alarms, and *)
(* with all its panels in use at once.  The properties of the page speak   *)
(* of the time when nothing waits; the invariants below say what a request *)
(* that still waits must bring for them to hold then.                      *)
(***************************************************************************)
EXTENDS WebGui, FiniteSetTheorems, TLAPS

-----------------------------------------------------------------------------
(* The invariant *)

\* What is dimmed by a number; what shows something of a relay.
Dimmed == {Channel(c) : c \in Channels} \cup {Strip, EspLed}
Places(p) == {State(p), Switch(p, 0), Switch(p, 1)}

\* What an operation asks, for which element and about which target.
Shaped(r) ==
  /\ r.op \in {"set", "get"} =>
       \E p \in Pin :
         /\ r.on = Relay(p)
         /\ r.elem \in Places(p)
         /\ r.op = "get" => r.elem = State(p)
         /\ r.op = "set" => r.elem # State(p)
  /\ r.op = "toggle" => \E i \in Esp : r.elem = EspLamp(i) /\ r.on = EspLamp(i)
  /\ r.op = "write" => r.elem = NoElement /\ r.on \in Dimmed
  /\ r.op = "alarm" =>
       r.on = NoElement /\ r.elem \in {AlarmState, AlarmLast, AlarmTotal}
  /\ r.op = "nodes" => r.on = NoElement /\ r.elem = Nodes
  /\ r.op = "sensor" => r.on = NoElement /\ \E k \in Sensor : r.elem = Reading(k)

\* Only commands come late; an answer is one number, or the nodes alive.
Answered(r) ==
  /\ r.phase = "late" => r.op \in Command
  /\ r.phase = "done" =>
       IF r.op = "nodes" THEN r.got \subseteq Area ELSE \E v \in Nat : r.got = {v}

RequestsOK == \A r \in rq : Shaped(r) /\ Answered(r)

\* What the requests carry and where they leave their marks.
CoreOK ==
  /\ rq \subseteq Request /\ RequestsOK
  /\ text \in [Element -> {"initial", "loading", "label", "error", "value"} \X Nat]
  /\ level \in [Target -> Nat]
  /\ \A i \in Esp : level[EspLamp(i)] \in {0, 1}
  /\ alarms \in [Figure -> 0 .. MaxAlarms]
  /\ overlapped \subseteq Element \cup Target
  /\ failed \subseteq Element \cup Target
  /\ stuck \subseteq Element
  /\ held \in [Figure -> SUBSET (0 .. MaxAlarms)]

\* The counters and the areas.
Counted ==
  /\ asked \in 0 .. MaxRequests /\ inputs \in Nat /\ visit \in Visit
  /\ areas \subseteq Area /\ folded \subseteq Area

\* The timer.
Timed ==
  /\ alarmsAutoUpdate \in BOOLEAN /\ timerId \in Nat /\ intervals \subseteq Nat
  /\ OneInterval

\* A slider's knob is where its value says.
Slid ==
  /\ slider \in [{Strip, EspLed} -> [value : 0 .. 1023, knob : 0 .. 1023]]
  /\ \A s \in {Strip, EspLed} : slider[s].value = slider[s].knob

\* What the user entered.
Entered ==
  /\ rect = <<>> \/ rect \in Picked
  /\ Slid
  /\ applied \in [Target -> Int]

PageOK == Counted /\ Timed /\ Entered

\* Nothing is asked twice at a time, but for what is overlapped.
Alone ==
  \A x \in Element \cup Target : x \notin overlapped =>
    \A r1, r2 \in rq : x \in About(r1) /\ x \in About(r2) => r1 = r2

ErrorAt(p) == \E e \in Places(p) : text[e] = Error

\* What node 3 tells of a relay, and what the page shows of it.
Told(p) == IF level[Relay(p)] = UNSET THEN 2 * p ELSE level[Relay(p)]
Shows(p) ==
  IF Relay(p) \in failed THEN ErrorAt(p)
  ELSE \/ text[State(p)] = Initial
       \/ text[State(p)] = Value(IF level[Relay(p)] = 0 THEN 0 ELSE 1)

\* The state of a relay that is on its way is the present one, and a command
\* that may come late has left an error on the page.
RelayOK(p) ==
  Relay(p) \notin overlapped =>
    /\ (\A r \in rq : r.on # Relay(p)) => Shows(p)
    /\ \A r \in rq : r.on = Relay(p) =>
         /\ r.phase = "late" => Relay(p) \in failed /\ ErrorAt(p)
         /\ r.phase = "done" /\ r.op = "get" => r.got = {Told(p)}

\* What the page last asked of t.
Meant(t) == IF t[1] = "led" THEN applied[t] ELSE Sent(t, applied[t])

\* A write on its way carries that, unless t is overlapped.
DimmedOK(t) ==
  t \notin overlapped =>
    /\ (\A r \in rq : r.on # t) /\ t \notin failed /\ applied[t] # -1
         => level[t] = Meant(t)
    /\ \A r \in rq : r.on = t =>
         /\ r.val = Meant(t)
         /\ r.phase = "done" => level[t] = Meant(t)
         /\ r.phase = "late" => t \in failed

\* While a question about a figure waits, the figure is among those held meanwhile,
\* and so are the one on its way and the one shown.
AlarmOK(e) ==
  /\ ~Quiet(e) => alarms[e] \in held[e]
  /\ \A r \in rq : r.elem = e /\ r.phase = "done" => r.got \subseteq held[e]
  /\ text[e][1] = "value" => text[e][2] \in held[e]

RelaysOK == \A p \in Pin : RelayOK(p)
DimmersOK == \A t \in Dimmed : DimmedOK(t)
AlarmsOK == \A e \in Figure : AlarmOK(e)

GuiInv ==
  CoreOK /\ PageOK /\ Alone /\ LoadingMeansAsked /\ RelaysOK /\ DimmersOK /\ AlarmsOK

-----------------------------------------------------------------------------
(* Elements, targets and requests *)

\* An element is no target, and nothing is two of its kind.
LEMMA Kinds ==
  /\ \A e \in Element : e[1] \in {"nodes", "alarm", "sensor", "esp", "state", "off", "on"}
  /\ \A t \in Target : t[1] \in {"relay", "led", "strip", "esp"}
  /\ \A t \in Dimmed : t \in Target /\ t[1] \in {"led", "strip"}
  /\ NoElement \notin Element \cup Target
BY DEF Element, Target, Dimmed, Nodes, AlarmState, AlarmLast, AlarmTotal, Reading,
       State, Switch, EspLamp, NoElement, Relay, Channel, Strip, EspLed

LEMMA Members ==
  /\ \A p \in Pin : Places(p) \subseteq Element /\ Relay(p) \in Target
  /\ \A i \in Esp : EspLamp(i) \in Element /\ EspLamp(i) \in Target
  /\ \A k \in Sensor : Reading(k) \in Element
  /\ {Nodes, AlarmState, AlarmLast, AlarmTotal} \subseteq Element
  /\ \A c \in Channels : Channel(c) \in Dimmed
  /\ {Strip, EspLed} \subseteq Dimmed
BY DEF Element, Target, Dimmed, Places

\* Where the places of one relay belong to no other.
LEMMA PlacesApart ==
  ASSUME NEW p \in Pin, NEW q \in Pin, NEW e \in Places(p), e \in Places(q)
  PROVE  p = q
BY DEF Places, State, Switch

\* What a request is about.
LEMMA AboutIs ==
  ASSUME NEW r \in Request, Shaped(r)
  PROVE  /\ \A e \in Element : e \in About(r) <=> e = r.elem
         /\ \A t \in Target : t \in About(r) <=> t = r.on
         /\ About(r) \subseteq Element \cup Target
         /\ r.elem \in Element \cup {NoElement} /\ r.on \in Target \cup {NoElement}
<1>1. /\ r.elem \in Element \cup {NoElement} /\ r.on \in Target \cup {NoElement}
      /\ r.op \in Op
  BY DEF Request
<1>2. r.on \in Element => r.on = r.elem
  BY <1>1, Kinds DEF Shaped, Relay, Op, Command
<1>3. r.elem \in Target => r.on = r.elem
  BY <1>1, Kinds
     DEF Shaped, Places, State, Switch, Op, Command, AlarmState, AlarmLast, AlarmTotal,
         Nodes, Reading
<1> QED
  BY <1>1, <1>2, <1>3, Kinds DEF About

\* A request about a relay is at its places, and no other is.
LEMMA AtPlaces ==
  ASSUME NEW r \in Request, Shaped(r), NEW p \in Pin
  PROVE  /\ r.on = Relay(p) <=> r.elem \in Places(p)
         /\ r.on = Relay(p) => r.op \in {"set", "get"}
         /\ r.op = "get" /\ r.on = Relay(p) => r.elem = State(p)
<1>1. r.op \in Op
  BY DEF Request
<1>2. r.on = Relay(p) => r.op \in {"set", "get"}
  BY <1>1, Kinds DEF Shaped, Relay, Op, Command, NoElement, EspLamp
<1>3. r.elem \in Places(p) => r.op \in {"set", "get"}
  BY <1>1, Kinds DEF Shaped, Places, State, Switch, Op, Command, NoElement, EspLamp,
     AlarmState, AlarmLast, AlarmTotal, Nodes, Reading
<1>4. CASE r.op \in {"set", "get"}
  <2>1. PICK q \in Pin : r.on = Relay(q) /\ r.elem \in Places(q)
                         /\ (r.op = "get" => r.elem = State(q))
    BY <1>4 DEF Shaped
  <2>2. r.on = Relay(p) <=> p = q
    BY <2>1 DEF Relay
  <2> QED
    BY <1>4, <2>1, <2>2, PlacesApart
<1> QED
  BY <1>2, <1>3, <1>4

-----------------------------------------------------------------------------
(* Steps *)

\* Requests that are issued together are about different things.
Fresh(new) ==
  /\ new \subseteq Request
  /\ \A r \in new : Shaped(r) /\ r.phase = "sent"
  /\ \A r1, r2 \in new, x \in Element \cup Target :
       x \in About(r1) /\ x \in About(r2) => r1 = r2

Asking(new, x) == \E r \in new : x \in About(r)

\* Some commands among the requests have gone through, and new ones are issued
\* about the same targets.
Issued(new, gone) ==
  /\ Fresh(new)
  /\ gone \subseteq rq
  /\ \A g \in gone : g.op = "set" /\ Asking(new, g.on)
  /\ rq' = (rq \ gone) \cup new
  /\ text' = [e \in Element |-> IF Asking(new, e) THEN Loading
                                ELSE IF \E g \in gone : e = g.elem THEN Label
                                ELSE text[e]]
  /\ stuck' = {e \in stuck : ~Asking(new, e)}
  /\ overlapped' = {x \in overlapped : ~Asking(new, x)}
                     \cup {x \in Element \cup Target :
                             Asking(new, x) /\ Asking(rq \ gone, x)}
  /\ failed' = {x \in failed : ~Asking(gone, x)}
  /\ held' = [e \in Figure |-> IF Asking(new, e) /\ ~Asking(rq \ gone, e)
                              THEN {alarms[e]} ELSE held[e]]
  /\ UNCHANGED <<level, alarms>>

\* The writes among the new requests carry what they mean, and what a target
\* means changes with a write only.
Meaning(new) ==
  \A t \in Dimmed :
    /\ applied'[t] = applied[t] \/ \E r \in new : r.on = t
    /\ \A r \in new : r.on = t =>
         r.val = IF t[1] = "led" THEN applied'[t] ELSE Sent(t, applied'[t])

\* r has ended with outcome o; what its element shows tells of it.
Shown(r, o, shown) ==
  /\ r \in rq
  /\ Show(r, o, shown)
  /\ shown \in {Label, Error} \cup {Value(n) : n \in Nat}
  /\ o # "ok" => shown = Error \/ r.op = "write"
  /\ o = "ok" /\ r.op = "get" => shown = Value(IF Got(r) = 0 THEN 0 ELSE 1)
  /\ o = "ok" /\ r.op = "alarm" => shown = Value(Got(r))
  /\ r.op = "set" => o # "ok"

\* The page's own state: nothing is asked, answered or carried out.
Own == <<rq, text, level, overlapped, failed, stuck, applied>>

\* A numbered request is the request in all but its id.
LEMMA Numbered ==
  ASSUME NEW a \in Request, NEW k \in Nat
  PROVE  /\ [a EXCEPT !.id = k] \in Request
         /\ [a EXCEPT !.id = k].op = a.op /\ [a EXCEPT !.id = k].elem = a.elem
         /\ [a EXCEPT !.id = k].on = a.on /\ [a EXCEPT !.id = k].val = a.val
         /\ [a EXCEPT !.id = k].phase = a.phase
BY DEF Request

\* So is one that was carried out, but for its phase and its answer.
After(r, got) == [r EXCEPT !.phase = "done", !.got = got]

LEMMA ServedIs ==
  ASSUME NEW r \in Request, NEW got \in SUBSET Nat
  PROVE  /\ After(r, got) \in Request
         /\ After(r, got).op = r.op /\ After(r, got).elem = r.elem
         /\ After(r, got).on = r.on /\ After(r, got).val = r.val
         /\ After(r, got).phase = "done" /\ After(r, got).got = got
BY Zenon DEF Request, After

\* And one that may come late.
LEMMA LateIs ==
  ASSUME NEW r \in Request, NEW s, s = [r EXCEPT !.phase = "late"]
  PROVE  /\ s \in Request
         /\ s.op = r.op /\ s.elem = r.elem /\ s.on = r.on /\ s.val = r.val
         /\ s.phase = "late"
BY DEF Request

LEMMA AskIs ==
  ASSUME NEW op \in Op, NEW elem \in Element \cup {NoElement},
         NEW on \in Target \cup {NoElement}, NEW val \in Nat
  PROVE  /\ Ask(op, elem, on, val) \in Request
         /\ Ask(op, elem, on, val).op = op /\ Ask(op, elem, on, val).elem = elem
         /\ Ask(op, elem, on, val).on = on /\ Ask(op, elem, on, val).val = val
         /\ Ask(op, elem, on, val).phase = "sent"
BY DEF Ask, Request

\* A request with the same shape is about the same.
LEMMA SameShape ==
  ASSUME NEW r \in Request, NEW s \in Request, Shaped(r),
         s.op = r.op, s.elem = r.elem, s.on = r.on
  PROVE  Shaped(s) /\ About(s) = About(r)
BY DEF Shaped, About

-----------------------------------------------------------------------------
(* Issuing *)

\* What getRq may be called for at a time.
Askable(asks) ==
  /\ DOMAIN asks \subseteq Nat
  /\ \A i \in DOMAIN asks :
       asks[i] \in Request /\ Shaped(asks[i]) /\ asks[i].phase = "sent"
  /\ \A i, j \in DOMAIN asks, x \in Element \cup Target :
       x \in About(asks[i]) /\ x \in About(asks[j]) => i = j

New(asks, first) == {[asks[i] EXCEPT !.id = first + i] : i \in DOMAIN asks}

\* The new requests are the ones asked for, each of them once.
LEMMA NewIs ==
  ASSUME NEW asks, Askable(asks), NEW first \in Nat
  PROVE  /\ Fresh(New(asks, first))
         /\ \A i \in DOMAIN asks : \E r \in New(asks, first) :
              /\ r.op = asks[i].op /\ r.elem = asks[i].elem
              /\ r.on = asks[i].on /\ r.val = asks[i].val
         /\ \A r \in New(asks, first) : \E i \in DOMAIN asks :
              /\ r.op = asks[i].op /\ r.elem = asks[i].elem
              /\ r.on = asks[i].on /\ r.val = asks[i].val
         /\ \A x \in Element \cup Target :
              Asking(New(asks, first), x) <=> \E i \in DOMAIN asks : x \in About(asks[i])
<1> DEFINE N(i) == [asks[i] EXCEPT !.id = first + i]
<1>1. ASSUME NEW i \in DOMAIN asks
      PROVE  /\ N(i) \in Request
             /\ N(i).op = asks[i].op /\ N(i).elem = asks[i].elem
             /\ N(i).on = asks[i].on /\ N(i).val = asks[i].val
             /\ N(i).phase = "sent"
             /\ Shaped(N(i)) /\ About(N(i)) = About(asks[i])
  <2>1. asks[i] \in Request /\ Shaped(asks[i]) /\ asks[i].phase = "sent"
        /\ first + i \in Nat
    BY DEF Askable
  <2>2. /\ N(i) \in Request
        /\ N(i).op = asks[i].op /\ N(i).elem = asks[i].elem
        /\ N(i).on = asks[i].on /\ N(i).val = asks[i].val
        /\ N(i).phase = asks[i].phase
    BY <2>1, Numbered
  <2> HIDE DEF N
  <2> QED
    BY <2>1, <2>2, SameShape
<1>2. New(asks, first) = {N(i) : i \in DOMAIN asks}
  BY DEF New
<1> HIDE DEF N
<1>3. Fresh(New(asks, first))
  <2>1. ASSUME NEW i \in DOMAIN asks, NEW j \in DOMAIN asks,
               NEW x \in Element \cup Target, x \in About(N(i)), x \in About(N(j))
        PROVE  N(i) = N(j)
    BY <1>1, <2>1 DEF Askable
  <2> QED
    BY <1>1, <1>2, <2>1 DEF Fresh
<1> QED
  BY <1>1, <1>2, <1>3 DEF Asking

LEMMA IssueIs ==
  ASSUME CoreOK, NEW asks, Askable(asks), NEW first \in Nat, NEW gone \in SUBSET rq,
         \A g \in gone : g.op = "set" /\ \E i \in DOMAIN asks : g.on \in About(asks[i]),
         NEW shown,
         \A e \in Element : shown[e] = IF \E g \in gone : e = g.elem THEN Label ELSE text[e],
         Issue(asks, first, rq \ gone, shown),
         failed' = failed \ UNION {About(g) : g \in gone},
         UNCHANGED <<level, alarms>>
  PROVE  Issued(New(asks, first), gone)
<1> DEFINE about == UNION {About(asks[i]) : i \in DOMAIN asks}
           new == New(asks, first)
           again == {x \in about : \E r \in rq \ gone : x \in About(r)}
<1>1. \A x \in Element \cup Target : x \in about <=> Asking(new, x)
  BY NewIs
<1>2. /\ rq' = (rq \ gone) \cup new
      /\ text' = [e \in Element |-> IF e \in about THEN Loading ELSE shown[e]]
      /\ stuck' = stuck \ about
      /\ overlapped' = (overlapped \ about) \cup again
      /\ held' = [e \in Figure |-> IF e \in about \ again THEN {alarms[e]} ELSE held[e]]
  BY DEF Issue, New
<1>3. about \subseteq Element \cup Target
  BY AboutIs DEF Askable
<1>4. \A g \in gone : g.op = "set" /\ Asking(new, g.on)
  <2>1. ASSUME NEW g \in gone PROVE g.on \in Target
    BY AboutIs, Members DEF CoreOK, RequestsOK, Shaped
  <2> QED
    BY <1>1, <2>1
<1> HIDE DEF about
<1>5. text' = [e \in Element |-> IF Asking(new, e) THEN Loading
                                 ELSE IF \E g \in gone : e = g.elem THEN Label
                                 ELSE text[e]]
  BY <1>1, <1>2
<1>6. stuck' = {e \in stuck : ~Asking(new, e)}
  BY <1>1, <1>2 DEF CoreOK
<1>7. overlapped' = {x \in overlapped : ~Asking(new, x)}
                     \cup {x \in Element \cup Target :
                             Asking(new, x) /\ Asking(rq \ gone, x)}
  <2>1. \A x \in overlapped : x \in Element \cup Target
    BY DEF CoreOK
  <2>2. \A x : Asking(rq \ gone, x) <=> \E r \in rq \ gone : x \in About(r)
    BY DEF Asking
  <2> QED
    BY <1>1, <1>2, <1>3, <2>1, <2>2
<1>8. failed' = {x \in failed : ~Asking(gone, x)}
  BY DEF Asking
<1>9. held' = [e \in Figure |-> IF Asking(new, e) /\ ~Asking(rq \ gone, e)
                               THEN {alarms[e]} ELSE held[e]]
  <2>1. \A e \in Figure : e \in about \ again <=> Asking(new, e) /\ ~Asking(rq \ gone, e)
    BY <1>1, Members DEF Asking, Figure
  <2> QED
    BY <1>2, <2>1
<1> QED
  BY <1>2, <1>4, <1>5, <1>6, <1>7, <1>8, <1>9, NewIs DEF Issued

\* Something the user or a timer starts.
LEMMA StartIs ==
  ASSUME CoreOK, PageOK, NEW asks, Askable(asks), Start(asks)
  PROVE  Issued(New(asks, asked), {})
<1>1. Issue(asks, asked, rq \ {}, text) /\ UNCHANGED <<level, alarms>>
  BY DEF Start, worldVars
<1>2. failed' = failed \ UNION {About(g) : g \in {}}
  BY DEF Start
<1>3. asked \in Nat
  BY DEF PageOK, Counted
<1> QED
  BY <1>1, <1>2, <1>3, IssueIs

\* One request.
LEMMA OneAskable ==
  ASSUME NEW a \in Request, Shaped(a), a.phase = "sent"
  PROVE  Askable(<<a>>)
BY DEF Askable

\* Three.
LEMMA ThreeAskable ==
  ASSUME NEW a \in Request, NEW b \in Request, NEW c \in Request,
         \A r \in {a, b, c} : Shaped(r) /\ r.phase = "sent",
         \A x \in Element \cup Target :
           /\ ~(x \in About(a) /\ x \in About(b))
           /\ ~(x \in About(a) /\ x \in About(c))
           /\ ~(x \in About(b) /\ x \in About(c))
  PROVE  Askable(<<a, b, c>>)
<1> DEFINE asks == <<a, b, c>>
<1>1. DOMAIN asks = 1 .. 3 /\ asks[1] = a /\ asks[2] = b /\ asks[3] = c
  OBVIOUS
<1>2. \A i \in 1 .. 3 : i = 1 \/ i = 2 \/ i = 3
  OBVIOUS
<1> HIDE DEF asks
<1>3. \A i \in DOMAIN asks : asks[i] \in {a, b, c}
  BY <1>1, <1>2
<1> QED
  BY <1>1, <1>2, <1>3 DEF Askable, asks

\* Only writes are about what is dimmed.
LEMMA AtDimmed ==
  ASSUME NEW r \in Request, Shaped(r), r.on \in Dimmed
  PROVE  r.op = "write" /\ r.elem = NoElement
<1>1. r.op \in Op
  BY DEF Request
<1> QED
  BY <1>1, Kinds DEF Shaped, Op, Command, Relay, EspLamp, NoElement

\* The commands and questions of the buttons.
LEMMA AsksShaped ==
  /\ LET a == Ask("nodes", Nodes, NoElement, 0) IN a \in Request /\ Shaped(a)
  /\ \A k \in Sensor : LET a == Ask("sensor", Reading(k), NoElement, k) IN
       a \in Request /\ Shaped(a)
  /\ \A p \in Pin, v \in {0, 1} : LET a == Ask("set", Switch(p, v), Relay(p), v) IN
       a \in Request /\ Shaped(a)
  /\ \A p \in Pin :
       AskRelay(Relay(p)) \in Request /\ Shaped(AskRelay(Relay(p)))
  /\ \A e \in {AlarmState, AlarmLast, AlarmTotal} :
       AskAlarm(e) \in Request /\ Shaped(AskAlarm(e))
  /\ \A i \in Esp : LET a == Ask("toggle", EspLamp(i), EspLamp(i), 0) IN
       a \in Request /\ Shaped(a)
  /\ \A t \in Dimmed, v \in Nat : AskWrite(t, v) \in Request /\ Shaped(AskWrite(t, v))
<1> USE Members, Kinds
<1>1. LET a == Ask("nodes", Nodes, NoElement, 0) IN a \in Request /\ Shaped(a)
  BY DEF Ask, Request, Shaped, Op, Command
<1>2. ASSUME NEW k \in Sensor
      PROVE  LET a == Ask("sensor", Reading(k), NoElement, k) IN a \in Request /\ Shaped(a)
  <2>1. k \in Nat
    BY PageAssumption
  <2> QED
    BY <2>1 DEF Ask, Request, Shaped, Op, Command
<1>3. ASSUME NEW p \in Pin, NEW v \in {0, 1}
      PROVE  LET a == Ask("set", Switch(p, v), Relay(p), v) IN a \in Request /\ Shaped(a)
  <2>1. Switch(p, v) \in Places(p) /\ Switch(p, v) # State(p)
    BY DEF Switch, State, Places
  <2> QED
    BY <2>1 DEF Ask, Request, Shaped, Op, Command
<1>4. ASSUME NEW p \in Pin
      PROVE  AskRelay(Relay(p)) \in Request /\ Shaped(AskRelay(Relay(p)))
  <2>1. Relay(p)[2] = p /\ State(p) \in Places(p)
    BY DEF Relay, Places
  <2> QED
    BY <2>1 DEF AskRelay, Ask, Request, Shaped, Op, Command
<1>5. ASSUME NEW e \in {AlarmState, AlarmLast, AlarmTotal}
      PROVE  AskAlarm(e) \in Request /\ Shaped(AskAlarm(e))
  BY DEF AskAlarm, Ask, Request, Shaped, Op, Command
<1>6. ASSUME NEW i \in Esp
      PROVE  LET a == Ask("toggle", EspLamp(i), EspLamp(i), 0) IN a \in Request /\ Shaped(a)
  BY DEF Ask, Request, Shaped, Op, Command
<1>7. ASSUME NEW t \in Dimmed, NEW v \in Nat
      PROVE  AskWrite(t, v) \in Request /\ Shaped(AskWrite(t, v))
  BY DEF AskWrite, Ask, Request, Shaped, Op, Command
<1> QED
  BY <1>1, <1>2, <1>3, <1>4, <1>5, <1>6, <1>7

\* A button that writes nothing.
LEMMA ClickIssues ==
  ASSUME CoreOK, PageOK, NEW a \in Request, Shaped(a), a.phase = "sent", a.op # "write",
         NEW panel, Click(panel, <<a>>)
  PROVE  \E new : Issued(new, {}) /\ Meaning(new)
<1>1. Askable(<<a>>) /\ asked \in Nat
  BY OneAskable DEF PageOK, Counted
<1>2. Issued(New(<<a>>, asked), {})
  BY <1>1, StartIs DEF Click
<1>3. \A r \in New(<<a>>, asked) : r.op # "write"
  BY <1>1, NewIs
<1>4. Meaning(New(<<a>>, asked))
  BY <1>2, <1>3, AtDimmed DEF Click, Meaning, Issued, Fresh
<1> QED
  BY <1>2, <1>4

\* The three requests of an interval.
LEMMA UpdateIssues ==
  ASSUME CoreOK, PageOK, AutoUpdate
  PROVE  \E new : Issued(new, {}) /\ Meaning(new)
<1> DEFINE asks == <<AskAlarm(AlarmState), AskAlarm(AlarmLast), AskAlarm(AlarmTotal)>>
<1>1. ASSUME NEW e \in {AlarmState, AlarmLast, AlarmTotal}
      PROVE  /\ AskAlarm(e) \in Request /\ Shaped(AskAlarm(e))
             /\ AskAlarm(e).phase = "sent" /\ AskAlarm(e).op = "alarm"
             /\ About(AskAlarm(e)) = {e}
  BY AsksShaped, Kinds, Members DEF AskAlarm, Ask, About
<1>2. AlarmState # AlarmLast /\ AlarmState # AlarmTotal /\ AlarmLast # AlarmTotal
  BY DEF AlarmState, AlarmLast, AlarmTotal
<1>3. Askable(asks)
  BY <1>1, <1>2, ThreeAskable
<1>4. Start(asks) /\ asked \in Nat /\ applied' = applied
  BY DEF AutoUpdate, PageOK, Counted
<1>5. Issued(New(asks, asked), {})
  BY <1>3, <1>4, StartIs
<1>6. \A i \in DOMAIN asks : asks[i].op = "alarm"
  BY <1>1
<1> HIDE DEF asks
<1>7. \A r \in New(asks, asked) : r.op # "write"
  BY <1>3, <1>4, <1>6, NewIs
<1>8. Meaning(New(asks, asked))
  BY <1>4, <1>5, <1>7, AtDimmed DEF Meaning, Issued, Fresh
<1> QED
  BY <1>5, <1>8

\* Each channel has its two digits of a colour.
LEMMA ColourTyped ==
  ASSUME NEW hex \in Picked
  PROVE  hexToRgb(hex) \in [Channels -> Nat]
<1>1. ASSUME NEW c \in Channels
      PROVE  (LET i == CHOOSE i \in 1 .. 3 : <<3, 5, 6>>[i] = c
              IN  16 * hex[2 * i - 1] + hex[2 * i]) \in Nat
  <2> DEFINE j == CHOOSE i \in 1 .. 3 : <<3, 5, 6>>[i] = c
  <2>1. \E i \in 1 .. 3 : <<3, 5, 6>>[i] = c
    BY DEF Channels
  <2>2. j \in 1 .. 3
    BY <2>1
  <2> HIDE DEF j
  <2>3. 2 * j - 1 \in 1 .. 6 /\ 2 * j \in 1 .. 6
    BY <2>2
  <2>4. hex[2 * j - 1] \in Nat /\ hex[2 * j] \in Nat
    BY <2>3, PageAssumption
  <2>5. 16 * hex[2 * j - 1] + hex[2 * j] \in Nat
    BY <2>4
  <2> QED
    BY <2>5 DEF j
<1> QED
  BY <1>1 DEF hexToRgb

\* The three writes of a colour.
LEMMA ColourIssues ==
  ASSUME CoreOK, PageOK, updateRGB
  PROVE  \E new : Issued(new, {}) /\ Meaning(new)
<1> DEFINE C(i) == <<3, 5, 6>>[i]
<1>1. PICK hex \in Picked :
        /\ Start([i \in 1 .. 3 |-> AskWrite(Channel(C(i)), hexToRgb(hex)[C(i)])])
        /\ applied' = [t \in Target |-> IF t[1] = "led" THEN hexToRgb(hex)[t[2]]
                                        ELSE applied[t]]
  BY DEF updateRGB
<1> DEFINE asks == [i \in 1 .. 3 |-> AskWrite(Channel(C(i)), hexToRgb(hex)[C(i)])]
<1>2. \A i \in 1 .. 3 : C(i) \in Channels
  BY DEF Channels
<1>3. \A i, j \in 1 .. 3 : C(i) = C(j) => i = j
  OBVIOUS
<1>4. \A c \in Channels : \E i \in 1 .. 3 : C(i) = c
  BY DEF Channels
<1> HIDE DEF C
<1>5. ASSUME NEW i \in 1 .. 3
      PROVE  /\ asks[i] \in Request /\ Shaped(asks[i]) /\ asks[i].phase = "sent"
             /\ asks[i].on = Channel(C(i)) /\ asks[i].val = hexToRgb(hex)[C(i)]
             /\ About(asks[i]) \subseteq {Channel(C(i))}
  <2>1. Channel(C(i)) \in Dimmed /\ hexToRgb(hex)[C(i)] \in Nat
    BY <1>2, Members, ColourTyped
  <2> QED
    BY <2>1, AsksShaped DEF AskWrite, Ask, About
<1>6. DOMAIN asks = 1 .. 3
  OBVIOUS
<1> HIDE DEF asks
<1>7. Askable(asks)
  BY <1>3, <1>5, <1>6 DEF Askable, Channel
<1>8. asked \in Nat /\ Start(asks)
  BY <1>1 DEF PageOK, Counted, asks
<1>9. Issued(New(asks, asked), {})
  BY <1>7, <1>8, StartIs
<1>10. ASSUME NEW r \in New(asks, asked)
       PROVE  r.on \in Target /\ r.on[1] = "led" /\ r.val = applied'[r.on]
  <2>1. PICK i \in 1 .. 3 : r.on = Channel(C(i)) /\ r.val = hexToRgb(hex)[C(i)]
    <3>1. PICK i \in DOMAIN asks : r.on = asks[i].on /\ r.val = asks[i].val
      BY <1>7, <1>8, NewIs
    <3> QED
      BY <1>5, <1>6, <3>1
  <2>2. Channel(C(i)) \in Target /\ Channel(C(i))[1] = "led" /\ Channel(C(i))[2] = C(i)
    BY <1>2, Members, Kinds DEF Channel
  <2>3. applied'[Channel(C(i))] = hexToRgb(hex)[C(i)]
    BY <1>1, <2>2
  <2> QED
    BY <2>1, <2>2, <2>3
<1>11. ASSUME NEW t \in Dimmed, t[1] = "led"
       PROVE  \E r \in New(asks, asked) : r.on = t
  <2>1. PICK c \in Channels : t = Channel(c)
    BY <1>11 DEF Dimmed, Strip, EspLed
  <2>2. PICK i \in 1 .. 3 : C(i) = c
    BY <1>4
  <2>3. PICK r \in New(asks, asked) : r.on = asks[i].on
    BY <1>6, <1>7, <1>8, NewIs
  <2> QED
    BY <1>5, <2>1, <2>2, <2>3
<1>12. \A t \in Dimmed : t[1] # "led" => applied'[t] = applied[t]
  BY <1>1, Kinds
<1>13. Meaning(New(asks, asked))
  BY <1>10, <1>11, <1>12 DEF Meaning
<1> QED
  BY <1>9, <1>13

\* Apply beside a slider, whose knob is where its value says.
LEMMA ApplyIssues ==
  ASSUME CoreOK, PageOK, NEW s \in {Strip, EspLed}, NEW v \in 0 .. 1023,
         slider'[s].knob = v, Apply(s, v)
  PROVE  \E new : Issued(new, {}) /\ Meaning(new)
<1> DEFINE a == AskWrite(s, Sent(s, v))
<1>1. Sent(s, v) \in Nat /\ s \in Dimmed /\ s \in Target /\ s[1] # "led"
  BY Members, Kinds DEF Sent, Strip, EspLed
<1>2. a \in Request /\ Shaped(a) /\ a.phase = "sent"
  BY <1>1, AsksShaped DEF AskWrite, Ask
<1>3. a.on = s /\ a.val = Sent(s, v)
  BY DEF AskWrite, Ask
<1>4. Askable(<<a>>) /\ asked \in Nat /\ Start(<<a>>)
  BY <1>2, OneAskable DEF PageOK, Counted, Apply
<1>5. Issued(New(<<a>>, asked), {})
  BY <1>4, StartIs
<1>6. \A r \in New(<<a>>, asked) : r.on = s /\ r.val = Sent(s, v)
  BY <1>3, <1>4, NewIs
<1>7. \E r \in New(<<a>>, asked) : r.on = s
  <2>1. 1 \in DOMAIN <<a>> /\ <<a>>[1] = a
    OBVIOUS
  <2> QED
    BY <1>3, <1>4, <2>1, NewIs
<1>8. applied' = [applied EXCEPT ![s] = v]
  BY DEF Apply
<1>9. \A t \in Dimmed : t \in Target
  BY Kinds
<1> HIDE DEF a
<1>10. Meaning(New(<<a>>, asked))
  BY <1>1, <1>6, <1>7, <1>8, <1>9 DEF Meaning, PageOK, Entered
<1> QED
  BY <1>5, <1>10

LEMMA SliderIs ==
  ASSUME PageOK, NEW s \in {Strip, EspLed}
  PROVE  slider[s].value \in 0 .. 1023 /\ slider[s].knob = slider[s].value
<1>1. slider \in [{Strip, EspLed} -> [value : 0 .. 1023, knob : 0 .. 1023]]
  BY DEF PageOK, Entered, Slid
<1>2. slider[s] \in [value : 0 .. 1023, knob : 0 .. 1023]
  BY <1>1
<1>3. slider[s].value = slider[s].knob
  BY DEF PageOK, Entered, Slid
<1> QED
  BY <1>2, <1>3

LEMMA SliderIssues ==
  ASSUME CoreOK, PageOK, SliderApplyPressed \/ SliderSet
  PROVE  \E new : Issued(new, {}) /\ Meaning(new)
<1>1. ASSUME NEW s \in {Strip, EspLed}, UNCHANGED slider, Apply(s, slider[s].value)
      PROVE  \E new : Issued(new, {}) /\ Meaning(new)
  <2>1. slider[s].value \in 0 .. 1023 /\ slider'[s].knob = slider[s].value
    BY <1>1, SliderIs
  <2> QED
    BY <1>1, <2>1, ApplyIssues, ZenonT(60)
<1>2. ASSUME NEW s \in {Strip, EspLed}, NEW v \in 0 .. 1023,
             slider' = [slider EXCEPT ![s] = [value |-> v, knob |-> v]], Apply(s, v)
      PROVE  \E new : Issued(new, {}) /\ Meaning(new)
  <2>1. slider'[s].knob = v
    BY <1>2 DEF PageOK, Entered, Slid
  <2> QED
    BY <1>2, <2>1, ApplyIssues, ZenonT(60)
<1>3. CASE SliderApplyPressed
  BY <1>1, <1>3 DEF SliderApplyPressed
<1>4. CASE SliderSet
  <2>1. PICK s \in {Strip, EspLed}, pct \in Percent :
          LET v == (pct * (IF s = EspLed THEN 1023 ELSE 255)) \div 100
          IN  /\ Input(PanelOf(s))
              /\ slider' = [slider EXCEPT ![s] = [value |-> v, knob |-> v]]
              /\ Apply(s, v)
    BY <1>4, Zenon DEF SliderSet
  <2> DEFINE v == (pct * (IF s = EspLed THEN 1023 ELSE 255)) \div 100
  <2>2. v \in 0 .. 1023
    <3>1. pct \in 0 .. 100
      BY PageAssumption
    <3> QED
      BY <3>1
  <2>3. slider' = [slider EXCEPT ![s] = [value |-> v, knob |-> v]] /\ Apply(s, v)
    BY <2>1, Zenon
  <2> HIDE DEF v
  <2> QED
    BY <1>2, <2>2, <2>3, ZenonT(60)
<1> QED
  BY <1>3, <1>4

\* setRelay has gone through: the state is asked for.
LEMMA SetIssues ==
  ASSUME CoreOK, PageOK, NEW r \in rq, r.op = "set",
         Ends(r, "ok"),
         Issue(<<AskRelay(r.on)>>, r.id, rq \ {r}, [text EXCEPT ![r.elem] = Label])
  PROVE  \E new, gone : Issued(new, gone) /\ Meaning(new)
<1> DEFINE a == AskRelay(r.on)
<1>1. /\ r \in Request /\ Shaped(r) /\ r.id \in Nat
      /\ r.op = "set"
  BY DEF CoreOK, RequestsOK, Request
<1>2. PICK p \in Pin : r.on = Relay(p) /\ r.elem \in Places(p)
  BY <1>1 DEF Shaped
<1>3. a \in Request /\ Shaped(a) /\ a.phase = "sent" /\ a.op = "get" /\ a.on = r.on
  BY <1>2, AsksShaped DEF AskRelay, Ask
<1>4. r.on \in Target /\ r.on # NoElement
  BY <1>2, Members, Kinds
<1>5. r.on \in About(a)
  BY <1>3, <1>4, AboutIs
<1>6. 1 \in DOMAIN <<a>> /\ <<a>>[1] = a
  OBVIOUS
<1>7. Askable(<<a>>) /\ \A g \in {r} :
        g.op = "set" /\ \E i \in DOMAIN <<a>> : g.on \in About(<<a>>[i])
  BY <1>1, <1>3, <1>5, <1>6, OneAskable
<1>8. r.elem \in Element
  BY <1>2, Members
<1>9. \A e \in Element : [text EXCEPT ![r.elem] = Label][e]
        = IF \E g \in {r} : e = g.elem THEN Label ELSE text[e]
  BY <1>8 DEF CoreOK
<1>10. failed' = failed \ UNION {About(g) : g \in {r}} /\ UNCHANGED <<level, alarms>>
  BY DEF Ends, worldVars
<1> DEFINE shown == [text EXCEPT ![r.elem] = Label]
<1>11. {r} \in SUBSET rq
  OBVIOUS
<1> HIDE DEF a
<1>12. Issue(<<a>>, r.id, rq \ {r}, shown)
  BY DEF a
<1>13. \A e \in Element : shown[e] = IF \E g \in {r} : e = g.elem THEN Label ELSE text[e]
  BY <1>9
<1> HIDE DEF shown
<1> DEFINE asks == <<a>>
           first == r.id
           gone == {r}
<1>17. Askable(asks) /\ first \in Nat /\ gone \in SUBSET rq
  BY <1>1, <1>7, <1>11
<1>18. \A g \in gone : g.op = "set" /\ \E i \in DOMAIN asks : g.on \in About(asks[i])
  BY <1>7
<1>19. \A e \in Element : shown[e] = IF \E g \in gone : e = g.elem THEN Label ELSE text[e]
  BY <1>13
<1>20. Issue(asks, first, rq \ gone, shown)
  BY <1>12
<1>21. failed' = failed \ UNION {About(g) : g \in gone}
  BY <1>10
<1>22. UNCHANGED <<level, alarms>>
  BY <1>10
<1> HIDE DEF asks, first, gone
<1>23. Issued(New(asks, first), gone)
  BY <1>17, <1>18, <1>19, <1>20, <1>21, <1>22, IssueIs
<1>14. Issued(New(<<a>>, r.id), {r})
  BY <1>23 DEF asks, first, gone
<1>15. \A s \in New(<<a>>, r.id) : s.op = "get"
  BY <1>1, <1>3, <1>7, NewIs
<1>16. Meaning(New(<<a>>, r.id))
  BY <1>14, <1>15, AtDimmed DEF Meaning, Issued, Fresh, Ends
<1> QED
  BY <1>14, <1>16

-----------------------------------------------------------------------------
(* Answers *)

LEMMA GotIs ==
  ASSUME CoreOK, NEW r \in rq, r.phase = "done"
  PROVE  /\ r.op # "nodes" => Got(r) \in Nat /\ r.got = {Got(r)}
         /\ r.op = "nodes" => Cardinality(r.got) \in Nat
<1>1. IF r.op = "nodes" THEN r.got \subseteq Area ELSE \E v \in Nat : r.got = {v}
  BY DEF CoreOK, RequestsOK, Answered
<1>2. CASE r.op = "nodes"
  <2>1. IsFiniteSet(0 .. 9)
    BY 0 \in Int, 9 \in Int, FS_Interval, Zenon
  <2>2. r.got \subseteq 0 .. 9
    BY <1>1, <1>2, PageAssumption
  <2> QED
    BY <1>2, <2>1, <2>2, FS_Subset, FS_CardinalityType
<1>3. CASE r.op # "nodes"
  BY <1>1, <1>3 DEF Got
<1> QED
  BY <1>2, <1>3

\* A handler issues the next request, shows something, or throws.
Handles(r) ==
  \/ \E new, gone : Issued(new, gone) /\ Meaning(new)
  \/ \E o \in Outcome : \E shown : Shown(r, o, shown)
  \/ r.op \in {"nodes", "sensor"} /\ Throw(r)

\* What ends well has been carried out.
LEMMA WellDone ==
  ASSUME NEW r, Ends(r, "ok") PROVE r.phase = "done"
BY DEF Ends

LEMMA ShowIs ==
  ASSUME NEW r \in rq, NEW o \in Outcome, NEW shown, Show(r, o, shown),
         shown \in {Label, Error} \cup {Value(n) : n \in Nat},
         o # "ok" => shown = Error \/ r.op = "write",
         o = "ok" /\ r.op = "get" => shown = Value(IF Got(r) = 0 THEN 0 ELSE 1),
         o = "ok" /\ r.op = "alarm" => shown = Value(Got(r)),
         r.op = "set" => o # "ok"
  PROVE  Handles(r)
BY DEF Handles, Shown

LEMMA ErrorIs ==
  ASSUME NEW r \in rq, NEW o \in Outcome \ {"ok"}, Show(r, o, Error)
  PROVE  Handles(r)
BY ShowIs

LEMMA AliveHandles ==
  ASSUME CoreOK, NEW r \in rq, onAliveNodes(r) PROVE Handles(r)
<1>1. r.op = "nodes"
  BY DEF onAliveNodes
<1>2. CASE Show(r, "ok", Value(Cardinality(r.got)))
  <2>1. Cardinality(r.got) \in Nat
    BY <1>1, <1>2, GotIs, WellDone DEF Show
  <2>2. Value(Cardinality(r.got)) \in {Value(n) : n \in Nat}
    BY <2>1
  <2> QED
    BY <1>1, <1>2, <2>2, ShowIs DEF Outcome
<1>3. CASE Show(r, "failed", Error)
  BY <1>3, ErrorIs DEF Outcome
<1>4. CASE Throw(r)
  BY <1>1, <1>4 DEF Handles
<1> QED
  BY <1>2, <1>3, <1>4 DEF onAliveNodes

\* A number that has come is shown.
LEMMA NumberHandles ==
  ASSUME CoreOK, NEW r \in rq, r.op \in {"sensor", "alarm", "toggle"},
         r.phase = "done", Show(r, "ok", Value(Got(r)))
  PROVE  Handles(r)
<1>1. Value(Got(r)) \in {Value(n) : n \in Nat}
  BY GotIs
<1> QED
  BY <1>1, ShowIs DEF Outcome

LEMMA SensorHandles ==
  ASSUME CoreOK, NEW r \in rq, onSensor(r) PROVE Handles(r)
<1>1. r.op = "sensor"
  BY DEF onSensor
<1>2. CASE r.phase = "done" /\ Show(r, "ok", Value(Got(r)))
  BY <1>1, <1>2, NumberHandles
<1>3. CASE Show(r, "failed", Error)
  BY <1>3, ErrorIs DEF Outcome
<1>4. CASE Throw(r)
  BY <1>1, <1>4 DEF Handles
<1> QED
  BY <1>2, <1>3, <1>4 DEF onSensor

LEMMA SetHandles ==
  ASSUME CoreOK, PageOK, NEW r \in rq, onSetRelay(r) PROVE Handles(r)
<1>1. r.op = "set"
  BY DEF onSetRelay
<1>2. CASE /\ Ends(r, "ok")
           /\ Issue(<<AskRelay(r.on)>>, r.id, rq \ {r}, [text EXCEPT ![r.elem] = Label])
  BY <1>1, <1>2, SetIssues DEF Handles
<1>3. CASE \E o \in Outcome \ {"ok"} : Show(r, o, Error)
  BY <1>3, ErrorIs
<1> QED
  BY <1>2, <1>3 DEF onSetRelay

LEMMA GetHandles ==
  ASSUME CoreOK, NEW r \in rq, onGetRelay(r) PROVE Handles(r)
<1>1. r.op = "get"
  BY DEF onGetRelay
<1>2. CASE Show(r, "ok", Value(IF Got(r) = 0 THEN 0 ELSE 1))
  BY <1>1, <1>2, ShowIs DEF Outcome
<1>3. CASE \E o \in Outcome \ {"ok"} : Show(r, o, Error)
  BY <1>3, ErrorIs
<1> QED
  BY <1>2, <1>3 DEF onGetRelay

LEMMA OthersHandle ==
  ASSUME CoreOK, NEW r \in rq, onGetAlarm(r) \/ onAnalogWrite(r) \/ onToggleRelay(r)
  PROVE  Handles(r)
<1>1. CASE onGetAlarm(r)
  BY <1>1, NumberHandles, ErrorIs DEF onGetAlarm
<1>2. CASE onAnalogWrite(r)
  BY <1>2, ShowIs DEF onAnalogWrite
<1>3. CASE onToggleRelay(r)
  BY <1>3, NumberHandles, ErrorIs DEF onToggleRelay, Outcome
<1> QED
  BY <1>1, <1>2, <1>3

\* Whatever happens, something is issued, carried out, answered, or none of
\* these.
LEMMA StepIs ==
  ASSUME CoreOK, PageOK, [GuiNext]_guiVars
  PROVE  \/ \E new, gone : Issued(new, gone) /\ Meaning(new)
         \/ \E r \in rq : Serve(r) \/ Lose(r)
         \/ \E r \in rq, o \in Outcome : \E shown : Shown(r, o, shown)
         \/ \E r \in rq : r.op \in {"nodes", "sensor"} /\ Throw(r)
         \/ UNCHANGED Own /\ (Sense \/ UNCHANGED <<alarms, held>>)
<1> DEFINE Done == \E new, gone : Issued(new, gone) /\ Meaning(new)
           Rest == UNCHANGED Own /\ (Sense \/ UNCHANGED <<alarms, held>>)
<1>1. ASSUME NEW a \in Request, Shaped(a), a.phase = "sent", a.op # "write", NEW panel,
             Click(panel, <<a>>)
      PROVE  Done
  BY <1>1, ClickIssues
<1>2. CASE getAliveNodes
  BY <1>1, <1>2, AsksShaped DEF getAliveNodes, Ask
<1>3. CASE getSensor
  BY <1>1, <1>3, AsksShaped DEF getSensor, Ask
<1>4. CASE setRelay
  BY <1>1, <1>4, AsksShaped DEF setRelay, Ask
<1>5. CASE getRelay
  BY <1>1, <1>5, AsksShaped DEF getRelay, AskRelay, Ask
<1>6. CASE getAlarm
  BY <1>1, <1>6, AsksShaped DEF getAlarm, AskAlarm, Ask
<1>7. CASE espToggleRelay
  BY <1>1, <1>7, AsksShaped DEF espToggleRelay, Ask
<1>9. CASE cmdAlarmsAutoUpdateClicked \/ updateRect \/ SliderChanged \/ showOrHideElement
           \/ UNCHANGED guiVars
  BY <1>9 DEF cmdAlarmsAutoUpdateClicked, updateRect, SliderChanged,
     showOrHideElement, guiVars, worldVars, pageVars, Own
<1>10. CASE Sense
  BY <1>10 DEF Sense, pageVars, Own
<1>11. CASE updateRGB \/ SliderApplyPressed \/ SliderSet \/ AutoUpdate
  BY <1>11, ColourIssues, SliderIssues, UpdateIssues
<1>12. CASE Answer
  BY <1>12, AliveHandles, SensorHandles, SetHandles, GetHandles, OthersHandle
     DEF Answer, Handles
<1> QED
  BY <1>2, <1>3, <1>4, <1>5, <1>6, <1>7, <1>9, <1>10, <1>11, <1>12 DEF GuiNext, User

-----------------------------------------------------------------------------
(* The page's own state *)

\* Whatever is issued leaves the rest of the page alone.
LEMMA StartKeeps ==
  ASSUME PageOK, NEW asks, Len(asks) \in Nat, Start(asks)
  PROVE  /\ asked' \in 0 .. MaxRequests
         /\ UNCHANGED <<areas, folded, alarmsAutoUpdate, timerId, intervals>>
BY PageAssumption DEF Start, PageOK, Counted

\* A step that leaves some of it alone.
LEMMA TimedStays ==
  ASSUME Timed, UNCHANGED <<alarmsAutoUpdate, timerId, intervals>> PROVE Timed'
BY DEF Timed, OneInterval

LEMMA EnteredStays ==
  ASSUME Entered, UNCHANGED <<rect, slider, applied>> PROVE Entered'
BY DEF Entered, Slid

Visible == <<asked, inputs, visit, areas, folded, rect, slider, alarmsAutoUpdate,
             timerId, intervals, applied>>

LEMMA PageStays ==
  ASSUME PageOK, UNCHANGED Visible PROVE PageOK'
<1>1. Counted'
  BY DEF PageOK, Counted, Visible
<1> QED
  BY <1>1, TimedStays, EnteredStays DEF PageOK, Visible

LEMMA StartRests ==
  ASSUME PageOK, NEW asks, Len(asks) \in Nat, Start(asks),
         inputs' \in Nat, visit' = visit
  PROVE  Counted' /\ Timed'
<1>1. Timed'
  BY StartKeeps, TimedStays DEF PageOK
<1>2. Counted'
  BY StartKeeps DEF PageOK, Counted
<1> QED
  BY <1>1, <1>2

LEMMA InputRests ==
  ASSUME PageOK, NEW panel, Input(panel)
  PROVE  inputs' \in Nat /\ visit' = visit
BY PageAssumption DEF PageOK, Counted, Input

LEMMA ClickPage ==
  ASSUME PageOK, NEW panel, NEW a, Click(panel, <<a>>)
  PROVE  PageOK'
<1>1. Start(<<a>>) /\ Len(<<a>>) \in Nat /\ Input(panel)
  BY DEF Click
<1>2. Counted' /\ Timed'
  BY <1>1, StartRests, InputRests
<1>3. Entered'
  BY EnteredStays DEF Click, PageOK
<1> QED
  BY <1>2, <1>3 DEF PageOK

LEMMA ColourPage == PageOK /\ updateRGB => PageOK'
<1> SUFFICES ASSUME PageOK, updateRGB PROVE PageOK'
  OBVIOUS
<1>1. PICK hex \in Picked :
        /\ Input("lamp")
        /\ rect' = hex
        /\ Start([i \in 1 .. 3 |-> LET c == <<3, 5, 6>>[i]
                                   IN  AskWrite(Channel(c), hexToRgb(hex)[c])])
        /\ applied' = [t \in Target |-> IF t[1] = "led" THEN hexToRgb(hex)[t[2]]
                                        ELSE applied[t]]
        /\ UNCHANGED slider
  BY DEF updateRGB
<1> DEFINE asks == [i \in 1 .. 3 |-> LET c == <<3, 5, 6>>[i]
                                     IN  AskWrite(Channel(c), hexToRgb(hex)[c])]
<1>2. Len(asks) \in Nat
  OBVIOUS
<1>3. Start(asks)
  BY <1>1
<1> HIDE DEF asks
<1>4. Counted' /\ Timed'
  BY <1>1, <1>2, <1>3, StartRests, InputRests
<1>5. ASSUME NEW t \in Target, t[1] = "led"
      PROVE  hexToRgb(hex)[t[2]] \in Int
  <2>1. t[2] \in Channels
    BY <1>5 DEF Target, Relay, Channel, Strip, EspLed, EspLamp
  <2> QED
    BY <2>1, ColourTyped
<1>6. applied' \in [Target -> Int]
  BY <1>1, <1>5 DEF Entered, PageOK
<1>7. Entered'
  BY <1>1, <1>6, ZenonT(60) DEF Entered, Slid, PageOK
<1> QED
  BY <1>4, <1>7 DEF PageOK

\* The knob of slider s is where it was, or at v.
Moved(s, v) ==
  slider' = slider \/ slider' = [slider EXCEPT ![s] = [value |-> v, knob |-> v]]

LEMMA SliderPage ==
  ASSUME PageOK, NEW s \in {Strip, EspLed}, NEW v \in 0 .. 1023, Moved(s, v)
  PROVE  Slid'
<1>1. /\ slider \in [{Strip, EspLed} -> [value : 0 .. 1023, knob : 0 .. 1023]]
      /\ \A k \in {Strip, EspLed} : slider[k].value = slider[k].knob
  BY DEF PageOK, Entered, Slid
<1>2. CASE slider' = slider
  BY <1>1, <1>2 DEF Slid
<1> DEFINE at == [value |-> v, knob |-> v]
<1>3. at \in [value : 0 .. 1023, knob : 0 .. 1023] /\ at.value = at.knob
  OBVIOUS
<1>4. CASE slider' = [slider EXCEPT ![s] = at]
  <2> HIDE DEF at
  <2> QED
    BY <1>1, <1>3, <1>4 DEF Slid
<1> QED
  BY <1>2, <1>4 DEF Moved, Slid

LEMMA ApplyPage ==
  ASSUME PageOK, NEW s \in {Strip, EspLed}, NEW v \in 0 .. 1023, NEW w,
         NEW panel, Input(panel),
         Moved(s, v), Apply(s, w)
  PROVE  PageOK'
<1>1. Start(<<AskWrite(s, Sent(s, w))>>) /\ Len(<<AskWrite(s, Sent(s, w))>>) \in Nat
  BY DEF Apply
<1>2. Counted' /\ Timed'
  BY <1>1, StartRests, InputRests
<1>3. Slid'
  BY SliderPage
<1>4. slider'[s] \in [value : 0 .. 1023, knob : 0 .. 1023]
  BY <1>3 DEF Slid
<1>5. slider'[s].knob \in 0 .. 1023
  BY <1>4
<1>7. applied' \in [Target -> Int]
  <2> DEFINE k == slider'[s].knob
  <2>1. applied' = [applied EXCEPT ![s] = k]
    BY Zenon DEF Apply
  <2>2. k \in 0 .. 1023
    BY <1>5
  <2>3. applied \in [Target -> Int]
    BY DEF PageOK, Entered
  <2>4. s \in Target
    BY Members, Kinds
  <2> HIDE DEF k
  <2> QED
    BY <2>1, <2>2, <2>3, <2>4
<1>6. Entered'
  BY <1>3, <1>7 DEF Entered, Apply, PageOK
<1> QED
  BY <1>2, <1>6 DEF PageOK

LEMMA SlidersPage ==
  ASSUME PageOK, SliderChanged \/ SliderApplyPressed \/ SliderSet
  PROVE  PageOK'
<1>1. CASE SliderChanged
  <2>1. PICK s \in {Strip, EspLed}, v \in Dragged :
          /\ Input(PanelOf(s))
          /\ slider' = [slider EXCEPT ![s] = [value |-> v, knob |-> v]]
          /\ UNCHANGED <<asked, areas, folded, rect, alarmsAutoUpdate, timerId,
                         intervals, applied>>
    BY <1>1 DEF SliderChanged
  <2>2. v \in 0 .. 1023
    BY PageAssumption
  <2>5. Moved(s, v)
    BY <2>1 DEF Moved
  <2>6. Slid'
    BY <2>2, <2>5, SliderPage
  <2>3. Entered'
    BY <2>1, <2>6 DEF Entered, PageOK
  <2>4. Counted' /\ Timed'
    BY <2>1, InputRests, TimedStays DEF Counted, PageOK
  <2> QED
    BY <2>3, <2>4 DEF PageOK
<1>2. CASE SliderApplyPressed
  <2>1. PICK s \in {Strip, EspLed} :
          Input(PanelOf(s)) /\ UNCHANGED slider /\ Apply(s, slider[s].value)
    BY <1>2 DEF SliderApplyPressed
  <2> QED
    BY <2>1, ApplyPage DEF Moved
<1>3. CASE SliderSet
  <2>1. PICK s \in {Strip, EspLed}, pct \in Percent :
          LET v == (pct * (IF s = EspLed THEN 1023 ELSE 255)) \div 100
          IN  /\ Input(PanelOf(s))
              /\ slider' = [slider EXCEPT ![s] = [value |-> v, knob |-> v]]
              /\ Apply(s, v)
    BY <1>3, Zenon DEF SliderSet
  <2> DEFINE v == (pct * (IF s = EspLed THEN 1023 ELSE 255)) \div 100
  <2>2. v \in 0 .. 1023
    <3>1. pct \in 0 .. 100
      BY PageAssumption
    <3> QED
      BY <3>1
  <2>3. /\ Input(PanelOf(s))
        /\ slider' = [slider EXCEPT ![s] = [value |-> v, knob |-> v]]
        /\ Apply(s, v)
    BY <2>1, Zenon
  <2> HIDE DEF v
  <2>4. Moved(s, v)
    BY <2>3 DEF Moved
  <2> QED
    BY <2>2, <2>3, <2>4, ApplyPage
<1> QED
  BY <1>1, <1>2, <1>3

\* Auto-update is switched on or off.
LEMMA TogglePage == PageOK /\ cmdAlarmsAutoUpdateClicked => PageOK'
<1> SUFFICES ASSUME PageOK, cmdAlarmsAutoUpdateClicked PROVE PageOK'
  OBVIOUS
<1>1. Counted' /\ Entered'
  BY InputRests, EnteredStays DEF cmdAlarmsAutoUpdateClicked, PageOK, Counted
<1>2. alarmsAutoUpdate' = ~alarmsAutoUpdate
  BY DEF cmdAlarmsAutoUpdateClicked
<1>3. CASE alarmsAutoUpdate
  <2>1. intervals = {timerId}
    BY <1>3 DEF PageOK, Timed, OneInterval
  <2>2. intervals' = intervals \ {timerId} /\ timerId' = timerId
    BY <1>3 DEF cmdAlarmsAutoUpdateClicked
  <2>3. intervals' = {}
    BY <2>1, <2>2
  <2> QED
    BY <1>1, <1>2, <1>3, <2>2, <2>3, Zenon DEF PageOK, Timed, OneInterval
<1>4. CASE ~alarmsAutoUpdate
  <2>1. intervals = {}
    BY <1>4 DEF PageOK, Timed, OneInterval
  <2>2. intervals' = intervals \cup {timerId'} /\ timerId' = timerId + 1
    BY <1>4 DEF cmdAlarmsAutoUpdateClicked
  <2>3. timerId' \in Nat /\ intervals' = {timerId'}
    BY <2>1, <2>2 DEF PageOK, Timed
  <2> QED
    BY <1>1, <1>2, <1>4, <2>3, Zenon DEF PageOK, Timed, OneInterval
<1> QED
  BY <1>3, <1>4

\* An answer shows areas at most.
LEMMA EndPage ==
  ASSUME PageOK, NEW r, NEW o, Ends(r, o), areas' \subseteq Area
  PROVE  PageOK'
BY TimedStays, EnteredStays DEF PageOK, Counted, Ends

LEMMA AnswerPage ==
  ASSUME CoreOK, PageOK, Answer PROVE PageOK'
<1>1. PICK r \in rq : \/ onAliveNodes(r) \/ onSensor(r) \/ onSetRelay(r)
                      \/ onGetRelay(r) \/ onGetAlarm(r) \/ onAnalogWrite(r)
                      \/ onToggleRelay(r)
  BY DEF Answer
<1>2. \E o : Ends(r, o)
  BY <1>1 DEF onAliveNodes, onSensor, onSetRelay, onGetRelay, onGetAlarm,
     onAnalogWrite, onToggleRelay, Show, Throw
<1>3. areas' = areas \/ areas' = Area \cap r.got
  BY <1>1 DEF onAliveNodes, onSensor, onSetRelay, onGetRelay, onGetAlarm,
     onAnalogWrite, onToggleRelay, Throw
<1> QED
  BY <1>2, <1>3, EndPage DEF PageOK, Counted

\* The page's counters, slider and timer are what they should be after any
\* step.
LEMMA PageStep ==
  ASSUME CoreOK, PageOK, [GuiNext]_guiVars PROVE PageOK'
<1>1. CASE getAliveNodes \/ getSensor \/ setRelay \/ getRelay \/ getAlarm \/ espToggleRelay
  BY <1>1, ClickPage DEF getAliveNodes, getSensor, setRelay, getRelay, getAlarm,
     espToggleRelay
<1>2. CASE updateRect
  <2>1. Entered'
    BY <1>2 DEF updateRect, Entered, Slid, PageOK
  <2>2. Counted' /\ Timed'
    BY <1>2, InputRests, TimedStays DEF updateRect, Counted, PageOK
  <2> QED
    BY <2>1, <2>2 DEF PageOK
<1>3. CASE showOrHideElement
  <2>1. folded' \subseteq Area
    BY <1>3 DEF showOrHideElement, PageOK, Counted
  <2> QED
    BY <1>3, <2>1, InputRests, TimedStays, EnteredStays
       DEF showOrHideElement, PageOK, Counted
<1>4. CASE AutoUpdate
  <2> DEFINE asks == <<AskAlarm(AlarmState), AskAlarm(AlarmLast), AskAlarm(AlarmTotal)>>
  <2>3. Start(asks) /\ Len(asks) \in Nat
    BY <1>4 DEF AutoUpdate
  <2>4. inputs' \in Nat /\ visit' = visit
    BY <1>4 DEF AutoUpdate, PageOK, Counted
  <2> HIDE DEF asks
  <2>1. Counted' /\ Timed'
    BY <2>3, <2>4, StartRests
  <2>2. Entered'
    BY <1>4, EnteredStays DEF AutoUpdate, PageOK
  <2> QED
    BY <2>1, <2>2 DEF PageOK
<1>5. CASE Sense
  BY <1>5, PageStays DEF Sense, pageVars, Visible
<1>6. ASSUME NEW r \in rq, Serve(r) \/ Lose(r)
      PROVE  PageOK'
  BY <1>6, PageStays DEF Serve, Lose, pageVars, Visible
<1>7. CASE UNCHANGED guiVars
  BY <1>7, PageStays DEF guiVars, pageVars, Visible
<1> QED
  BY <1>1, <1>2, <1>3, <1>4, <1>5, <1>6, <1>7, ColourPage, SlidersPage, TogglePage,
     AnswerPage DEF GuiNext, User

-----------------------------------------------------------------------------
(* Requests and their marks *)

Texts == {"initial", "loading", "label", "error", "value"} \X Nat

LEMMA TextTyped ==
  /\ {Initial, Loading, Label, Error} \subseteq Texts
  /\ \A n \in Nat : Value(n) \in Texts
  /\ Loading \notin {Initial, Label, Error}
  /\ Error \notin {Initial, Label}
  /\ \A n : Value(n) \notin {Initial, Loading, Label, Error}
  /\ \A n, m : Value(n) = Value(m) => n = m
BY DEF Texts, Initial, Loading, Label, Error, Value

LEMMA CoreIssued ==
  ASSUME CoreOK, NEW new, NEW gone, Issued(new, gone) PROVE CoreOK'
<1>1. rq' \subseteq Request /\ RequestsOK'
  BY DEF CoreOK, RequestsOK, Answered, Issued, Fresh
<1>2. text' \in [Element -> Texts]
  BY TextTyped DEF CoreOK, Issued, Texts
<1>3. /\ overlapped' \subseteq Element \cup Target /\ failed' \subseteq Element \cup Target
      /\ stuck' \subseteq Element
  BY DEF CoreOK, Issued
<1> QED
  BY <1>1, <1>2, <1>3 DEF CoreOK, Issued, Texts

\* What a command leaves is a level.
LEMMA CarriedTyped ==
  ASSUME CoreOK, NEW r \in rq, r.op \in Command
  PROVE  /\ r \in Request /\ r.on \in Target /\ Carried(r) \in Nat
         /\ \A i \in Esp : r.on = EspLamp(i) => Carried(r) \in {0, 1}
<1>1. r \in Request /\ Shaped(r)
  BY DEF CoreOK, RequestsOK
<1>2. r.on \in Target
  BY <1>1, Members, Kinds DEF Shaped, Command
<1>3. CASE r.op = "toggle"
  <2>1. PICK i \in Esp : r.on = EspLamp(i)
    BY <1>1, <1>3 DEF Shaped
  <2>2. level[r.on] \in {0, 1}
    BY <2>1 DEF CoreOK
  <2>3. Carried(r) = 1 - level[r.on]
    BY <1>3 DEF Carried
  <2> QED
    BY <1>1, <1>2, <2>2, <2>3
<1>4. CASE r.op # "toggle"
  <2>1. Carried(r) = r.val /\ r.val \in Nat
    BY <1>1, <1>4 DEF Carried, Request
  <2>2. \A i \in Esp : r.on # EspLamp(i)
    BY <1>1, <1>4, Kinds DEF Shaped, Command, Relay, EspLamp
  <2> QED
    BY <1>1, <1>2, <2>1, <2>2
<1> QED
  BY <1>3, <1>4

\* A request that is carried out gets an answer of its kind.
LEMMA AnswersTyped ==
  ASSUME CoreOK, NEW r \in rq, NEW got \in Answers(r)
  PROVE  /\ got \subseteq Nat
         /\ IF r.op = "nodes" THEN got \subseteq Area ELSE \E v \in Nat : got = {v}
         /\ r.op = "alarm" /\ r.elem # AlarmState => got = {alarms[r.elem]}
         /\ \A p \in Pin : r.op = "get" /\ r.on = Relay(p) => got = {Told(p)}
<1>1. r \in Request /\ Shaped(r) /\ r.op \in Op /\ r.val \in Nat
  BY DEF CoreOK, RequestsOK, Request
<1>2. CASE r.op \in Command
  BY <1>2, CarriedTyped DEF Answers, Command
<1>3. CASE r.op = "get"
  <2>1. PICK p \in Pin : r.on = Relay(p)
    BY <1>1, <1>3 DEF Shaped
  <2>2. r.on[2] = p /\ Relay(p) \in Target
    BY <2>1, Members DEF Relay
  <2>3. Told(p) \in Nat
    BY <2>2, PageAssumption DEF CoreOK, Told
  <2>4. got = {Told(p)}
    BY <1>3, <2>1, <2>2 DEF Answers, Command, Told
  <2>5. \A q \in Pin : r.on = Relay(q) => q = p
    BY <2>1 DEF Relay
  <2> QED
    BY <1>3, <2>3, <2>4, <2>5
<1>4. CASE r.op = "alarm"
  <2>1. r.elem # AlarmState => r.elem \in Figure /\ alarms[r.elem] \in Nat
    BY <1>1, <1>4 DEF Shaped, Figure, CoreOK
  <2> QED
    BY <1>4, <2>1 DEF Answers, Command
<1>5. CASE r.op = "nodes"
  <2>1. Area \subseteq Nat
    BY PageAssumption
  <2>2. got \in SUBSET Area
    BY <1>5 DEF Answers, Command
  <2> QED
    BY <1>5, <2>1, <2>2
<1>6. CASE r.op = "sensor"
  BY <1>1, <1>6 DEF Answers, Command
<1> QED
  BY <1>1, <1>2, <1>3, <1>4, <1>5, <1>6 DEF Op

\* Carrying out r: nothing is left of a late command, and another request waits
\* on with its answer.
Served(r, s, got) ==
  /\ r \in rq /\ r.phase \in {"sent", "late"}
  /\ got \in Answers(r)
  /\ rq' = (rq \ {r}) \cup IF r.phase = "late" THEN {} ELSE {s}
  /\ s \in Request /\ Shaped(s) /\ About(s) = About(r)
  /\ s.op = r.op /\ s.elem = r.elem /\ s.on = r.on /\ s.val = r.val
  /\ s.phase = "done" /\ s.got = got
  /\ level' = IF r.op \in Command THEN [level EXCEPT ![r.on] = Carried(r)] ELSE level
  /\ UNCHANGED <<text, alarms, overlapped, failed, stuck, applied, held>>

LEMMA ServeIs ==
  ASSUME CoreOK, NEW r \in rq, Serve(r)
  PROVE  \E s, got : Served(r, s, got)
<1>1. PICK got \in Answers(r) :
        rq' = (rq \ {r}) \cup IF r.phase = "late" THEN {}
                              ELSE {After(r, got)}
  BY Zenon DEF Serve, After
<1>2. r \in Request /\ Shaped(r)
  BY DEF CoreOK, RequestsOK
<1>3. got \in SUBSET Nat
  BY AnswersTyped
<1> DEFINE s == After(r, got)
<1>4. /\ s \in Request
      /\ s.op = r.op /\ s.elem = r.elem /\ s.on = r.on /\ s.val = r.val
      /\ s.phase = "done" /\ s.got = got
  BY <1>2, <1>3, ServedIs
<1>5. rq' = (rq \ {r}) \cup IF r.phase = "late" THEN {} ELSE {s}
  BY <1>1
<1> HIDE DEF s
<1>6. Shaped(s) /\ About(s) = About(r)
  BY <1>2, <1>4, SameShape
<1>7. Served(r, s, got)
  BY <1>4, <1>5, <1>6 DEF Served, Serve, pageVars
<1> QED
  BY <1>7

LEMMA CoreServed ==
  ASSUME CoreOK, NEW r, NEW s, NEW got, Served(r, s, got) PROVE CoreOK'
<1>1. r \in rq /\ got \in Answers(r)
  BY DEF Served
<1>2. IF s.op = "nodes" THEN s.got \subseteq Area ELSE \E v \in Nat : s.got = {v}
  BY <1>1, AnswersTyped DEF Served
<1>3. Answered(s)
  BY <1>2 DEF Answered, Served
<1>4. rq' \subseteq Request /\ RequestsOK'
  BY <1>3 DEF CoreOK, RequestsOK, Served
<1>5. /\ level' \in [Target -> Nat]
      /\ \A i \in Esp : level'[EspLamp(i)] \in {0, 1}
  <2>1. CASE r.op \in Command
    BY <1>1, <2>1, CarriedTyped, Members DEF CoreOK, Served
  <2>2. CASE r.op \notin Command
    BY <2>2 DEF CoreOK, Served
  <2> QED
    BY <2>1, <2>2
<1> QED
  BY <1>4, <1>5 DEF CoreOK, Served

LEMMA CoreLost ==
  ASSUME CoreOK, NEW r \in rq, Lose(r) PROVE CoreOK'
BY DEF CoreOK, RequestsOK, Lose, pageVars, worldVars

\* What is left when r has ended is what waited beside it, and maybe r as a
\* late command.
LEMMA LeftIs ==
  ASSUME CoreOK, NEW r \in rq, NEW o, rq' \in Left(r, o)
  PROVE  \/ rq' = rq \ {r}
         \/ \E s \in Request :
              /\ rq' = (rq \ {r}) \cup {s} /\ Shaped(s) /\ About(s) = About(r)
              /\ s.op = r.op /\ s.elem = r.elem /\ s.on = r.on /\ s.val = r.val
              /\ s.phase = "late" /\ s.op \in Command /\ o # "ok"
<1>1. r \in Request /\ Shaped(r)
  BY DEF CoreOK, RequestsOK
<1> DEFINE s == [r EXCEPT !.phase = "late"]
<1>2. /\ s \in Request
      /\ s.op = r.op /\ s.elem = r.elem /\ s.on = r.on /\ s.val = r.val
      /\ s.phase = "late"
  BY <1>1, LateIs
<1>3. \/ rq' = rq \ {r}
      \/ rq' = (rq \ {r}) \cup {s} /\ r.op \in Command /\ o # "ok"
  BY Zenon DEF Left
<1> HIDE DEF s
<1>4. Shaped(s) /\ About(s) = About(r)
  BY <1>1, <1>2, SameShape
<1> QED
  BY <1>2, <1>3, <1>4

LEMMA CoreShown ==
  ASSUME CoreOK, NEW r \in rq, NEW o \in Outcome, NEW shown, Shown(r, o, shown)
  PROVE  CoreOK'
<1>1. r \in Request /\ Shaped(r)
  BY DEF CoreOK, RequestsOK
<1>2. Show(r, o, shown) /\ Ends(r, o)
  BY DEF Shown, Show
<1>3. rq' \subseteq Request /\ RequestsOK'
  <2>1. rq' \in Left(r, o)
    BY <1>2 DEF Show
  <2>2. CASE rq' = rq \ {r}
    BY <2>2 DEF CoreOK, RequestsOK
  <2>3. ASSUME NEW s \in Request, rq' = (rq \ {r}) \cup {s}, Shaped(s),
               s.phase = "late", s.op \in Command
        PROVE  rq' \subseteq Request /\ RequestsOK'
    BY <2>3 DEF CoreOK, RequestsOK, Answered
  <2> QED
    BY <2>1, <2>2, <2>3, LeftIs
<1>4. text' \in [Element -> Texts]
  BY <1>2, TextTyped DEF Shown, Show, CoreOK, Texts
<1>5. failed' \subseteq Element \cup Target
  BY <1>1, <1>2, AboutIs DEF Ends, CoreOK
<1> QED
  BY <1>2, <1>3, <1>4, <1>5 DEF CoreOK, Show, Ends, worldVars, Texts

LEMMA CoreThrown ==
  ASSUME CoreOK, NEW r \in rq, r.op \in {"nodes", "sensor"}, Throw(r) PROVE CoreOK'
<1>1. r \in Request /\ Shaped(r)
  BY DEF CoreOK, RequestsOK
<1>2. r.elem \in Element
  BY <1>1, Members DEF Shaped
<1>3. failed' \subseteq Element \cup Target
  BY <1>1, AboutIs DEF Throw, Ends, CoreOK
<1> QED
  BY <1>2, <1>3 DEF CoreOK, RequestsOK, Throw, Ends, worldVars

LEMMA CoreRests ==
  ASSUME CoreOK, UNCHANGED Own, Sense \/ UNCHANGED <<alarms, held>> PROVE CoreOK'
<1>1. alarms' \in [Figure -> 0 .. MaxAlarms]
  BY PageAssumption DEF CoreOK, Sense
<1>2. held' \in [Figure -> SUBSET (0 .. MaxAlarms)]
  BY PageAssumption DEF CoreOK, Sense
<1> QED
  BY <1>1, <1>2 DEF CoreOK, RequestsOK, Own

LEMMA CoreStep ==
  ASSUME CoreOK, PageOK, [GuiNext]_guiVars PROVE CoreOK'
BY StepIs, CoreIssued, ServeIs, CoreServed, CoreLost, CoreShown, CoreThrown, CoreRests

-----------------------------------------------------------------------------
(* Requests that have their target to themselves, and elements that wait *)

\* r is gone, or another request about the same has taken its place.
Replaced(r) ==
  /\ r \in rq /\ overlapped' = overlapped
  /\ \/ rq' = rq \ {r}
     \/ \E s \in Request :
          rq' = (rq \ {r}) \cup {s} /\ About(s) = About(r) /\ s.elem = r.elem

LEMMA AloneReplaced ==
  ASSUME Alone, NEW r, Replaced(r) PROVE Alone'
BY DEF Alone, Replaced

LEMMA AloneIssued ==
  ASSUME CoreOK, Alone, NEW new, NEW gone, Issued(new, gone) PROVE Alone'
<1> SUFFICES ASSUME NEW x \in Element \cup Target, x \notin overlapped',
                    NEW r1 \in rq', NEW r2 \in rq', x \in About(r1), x \in About(r2)
             PROVE  r1 = r2
  BY DEF Alone
<1>1. CASE Asking(new, x)
  <2>1. ~Asking(rq \ gone, x)
    BY <1>1 DEF Issued
  <2>2. r1 \in new /\ r2 \in new
    BY <2>1 DEF Issued, Asking
  <2> QED
    BY <2>2 DEF Issued, Fresh
<1>2. CASE ~Asking(new, x)
  <2>1. r1 \in rq /\ r2 \in rq
    BY <1>2 DEF Issued, Asking
  <2>2. x \notin overlapped
    BY <1>2 DEF Issued
  <2> QED
    BY <2>1, <2>2 DEF Alone
<1> QED
  BY <1>1, <1>2

\* Every step that issues nothing replaces a request, or none.
LEMMA ServedReplaces ==
  ASSUME CoreOK, NEW r, NEW s, NEW got, Served(r, s, got) PROVE Replaced(r)
BY DEF Served, Replaced

LEMMA LostReplaces ==
  ASSUME CoreOK, NEW r \in rq, Lose(r) PROVE Replaced(r)
BY DEF Lose, Replaced

LEMMA ShownReplaces ==
  ASSUME CoreOK, NEW r \in rq, NEW o, NEW shown, Shown(r, o, shown) PROVE Replaced(r)
<1>1. rq' \in Left(r, o) /\ overlapped' = overlapped
  BY DEF Shown, Show
<1> QED
  BY <1>1, LeftIs DEF Replaced

LEMMA ThrownReplaces ==
  ASSUME NEW r \in rq, Throw(r) PROVE Replaced(r)
BY DEF Throw, Replaced

LEMMA AloneStep ==
  ASSUME CoreOK, PageOK, Alone, [GuiNext]_guiVars PROVE Alone'
<1>1. ASSUME NEW r, Replaced(r) PROVE Alone'
  BY <1>1, AloneReplaced
<1>2. CASE UNCHANGED Own
  BY <1>2 DEF Alone, Own
<1> QED
  BY <1>1, <1>2, StepIs, AloneIssued, ServeIs, ServedReplaces, LostReplaces,
     ShownReplaces, ThrownReplaces

LEMMA LoadingIssued ==
  ASSUME CoreOK, LoadingMeansAsked, NEW new, NEW gone, Issued(new, gone)
  PROVE  LoadingMeansAsked'
<1> SUFFICES ASSUME NEW e \in Element, text'[e] = Loading
             PROVE  e \in stuck' \/ \E r \in rq' : r.elem = e /\ r.phase # "late"
  BY DEF LoadingMeansAsked
<1>1. CASE Asking(new, e)
  BY <1>1, AboutIs DEF Asking, Issued, Fresh
<1>2. CASE ~Asking(new, e)
  <2>1. text[e] = Loading /\ \A g \in gone : e # g.elem
    BY <1>2, TextTyped DEF Issued
  <2>2. CASE e \in stuck
    BY <1>2, <2>2 DEF Issued
  <2>3. CASE e \notin stuck
    BY <2>1, <2>3 DEF LoadingMeansAsked, Issued
  <2> QED
    BY <2>2, <2>3
<1> QED
  BY <1>1, <1>2

LEMMA LoadingServed ==
  ASSUME LoadingMeansAsked, NEW r, NEW s, NEW got, Served(r, s, got)
  PROVE  LoadingMeansAsked'
BY DEF LoadingMeansAsked, Served

LEMMA LoadingLost ==
  ASSUME LoadingMeansAsked, NEW r \in rq, Lose(r) PROVE LoadingMeansAsked'
BY DEF LoadingMeansAsked, Lose, pageVars

LEMMA LoadingShown ==
  ASSUME CoreOK, LoadingMeansAsked, NEW r \in rq, NEW o \in Outcome, NEW shown,
         Shown(r, o, shown)
  PROVE  LoadingMeansAsked'
<1>1. \A q \in rq : q # r => q \in rq'
  BY DEF Shown, Show, Left
<1>2. shown # Loading
  BY TextTyped DEF Shown
<1>3. \A e \in Element : text'[e] = IF e = r.elem THEN shown ELSE text[e]
  BY DEF Shown, Show
<1>4. stuck' = stuck
  BY DEF Shown, Show
<1> QED
  BY <1>1, <1>2, <1>3, <1>4 DEF LoadingMeansAsked

LEMMA LoadingThrown ==
  ASSUME LoadingMeansAsked, NEW r \in rq, Throw(r) PROVE LoadingMeansAsked'
BY DEF LoadingMeansAsked, Throw

LEMMA LoadingStep ==
  ASSUME CoreOK, PageOK, LoadingMeansAsked, [GuiNext]_guiVars PROVE LoadingMeansAsked'
<1>1. CASE UNCHANGED Own
  BY <1>1 DEF LoadingMeansAsked, Own
<1> QED
  BY <1>1, StepIs, LoadingIssued, ServeIs, LoadingServed, LoadingLost, LoadingShown,
     LoadingThrown

-----------------------------------------------------------------------------
(* Relays *)

\* A step about something else.
Undisturbed(p) ==
  /\ \A e \in Places(p) : text'[e] = text[e]
  /\ Relay(p) \in failed' <=> Relay(p) \in failed
  /\ Relay(p) \in overlapped => Relay(p) \in overlapped'
  /\ level'[Relay(p)] = level[Relay(p)]
  /\ \A r \in rq : r.on = Relay(p) => r \in rq'
  /\ \A r \in rq' : r.on = Relay(p) => r \in rq

LEMMA RelayStays ==
  ASSUME NEW p \in Pin, RelayOK(p), Undisturbed(p) PROVE RelayOK(p)'
<1>1. ErrorAt(p)' <=> ErrorAt(p)
  BY DEF ErrorAt, Undisturbed
<1>2. Told(p)' = Told(p)
  BY DEF Told, Undisturbed
<1>3. Shows(p)' <=> Shows(p)
  <2>1. State(p) \in Places(p)
    BY DEF Places
  <2> QED
    BY <1>1, <2>1 DEF Shows, Undisturbed
<1> QED
  BY <1>1, <1>2, <1>3 DEF RelayOK, Undisturbed

\* Of the requests in rq, those about relay p are at its places.
LEMMA RelayRequest ==
  ASSUME CoreOK, NEW p \in Pin, NEW r \in rq
  PROVE  /\ r.on = Relay(p) <=> r.elem \in Places(p)
         /\ r.on = Relay(p) <=> Relay(p) \in About(r)
         /\ r.on = Relay(p) => r.op \in {"set", "get"}
         /\ r.on = Relay(p) /\ r.op = "get" => r.elem = State(p)
BY AtPlaces, AboutIs, Members DEF CoreOK, RequestsOK

LEMMA RelayIssued ==
  ASSUME CoreOK, NEW p \in Pin, RelayOK(p), NEW new, NEW gone, Issued(new, gone)
  PROVE  RelayOK(p)'
<1>1. \A r \in new : /\ r.on = Relay(p) <=> r.elem \in Places(p)
                     /\ r.on = Relay(p) <=> Relay(p) \in About(r)
                     /\ \A e \in Places(p) : e \in About(r) => r.on = Relay(p)
                     /\ r.phase = "sent"
  BY AtPlaces, AboutIs, Members DEF Issued, Fresh
<1>2. CASE Asking(new, Relay(p))
  <2>1. PICK n \in new : n.on = Relay(p) /\ n \in rq'
    BY <1>1, <1>2 DEF Asking, Issued
  <2>2. ASSUME Relay(p) \notin overlapped', NEW r \in rq', r.on = Relay(p)
        PROVE  r.phase = "sent"
    <3>1. ~Asking(rq \ gone, Relay(p))
      BY <1>2, <2>2, Members DEF Issued
    <3>2. r \in new
      BY <2>2, <3>1, RelayRequest DEF Issued, Asking
    <3> QED
      BY <1>1, <3>2
  <2> QED
    BY <2>1, <2>2 DEF RelayOK
<1>3. CASE ~Asking(new, Relay(p))
  <2>1. \A r \in new : r.on # Relay(p)
    BY <1>1, <1>3 DEF Asking
  <2>2. \A g \in gone : g.on # Relay(p) /\ g.elem \notin Places(p)
    <3>1. ASSUME NEW g \in gone, g.on = Relay(p) PROVE FALSE
      BY <1>3, <3>1 DEF Issued
    <3> QED
      BY <3>1, RelayRequest DEF Issued
  <2>3. \A e \in Places(p) : e \in Element /\ ~Asking(new, e)
    BY <1>1, <2>1, Members DEF Asking
  <2>4. ~Asking(gone, Relay(p))
    BY <2>2, RelayRequest DEF Asking, Issued
  <2>5. Undisturbed(p)
    BY <1>3, <2>1, <2>2, <2>3, <2>4 DEF Undisturbed, Issued
  <2> QED
    BY <2>5, RelayStays
<1> QED
  BY <1>2, <1>3

\* The only one about relay p.
LEMMA OnlyRequest ==
  ASSUME CoreOK, Alone, NEW p \in Pin, Relay(p) \notin overlapped,
         NEW r \in rq, r.on = Relay(p)
  PROVE  \A q \in rq : q.on = Relay(p) => q = r
BY RelayRequest, Members DEF Alone

LEMMA RelayServed ==
  ASSUME CoreOK, Alone, NEW p \in Pin, RelayOK(p), NEW r, NEW s, NEW got,
         Served(r, s, got)
  PROVE  RelayOK(p)'
<1>1. r \in rq /\ r.phase \in {"sent", "late"}
  BY DEF Served
<1>2. CASE r.on # Relay(p)
  <2>1. level'[Relay(p)] = level[Relay(p)]
    BY <1>1, <1>2, CarriedTyped, Members DEF Served, CoreOK
  <2>2. Undisturbed(p)
    BY <1>2, <2>1 DEF Undisturbed, Served
  <2> QED
    BY <2>2, RelayStays
<1>3. CASE r.on = Relay(p)
  <2> SUFFICES ASSUME Relay(p) \notin overlapped
               PROVE  RelayOK(p)'
    BY DEF RelayOK, Served
  <2>1. \A q \in rq : q.on = Relay(p) => q = r
    BY <1>1, <1>3, OnlyRequest
  <2>2. ErrorAt(p)' <=> ErrorAt(p)
    BY DEF ErrorAt, Served
  <2>3. CASE r.phase = "late"
    <3>1. \A q \in rq' : q.on # Relay(p)
      BY <2>1, <2>3 DEF Served
    <3>2. Relay(p) \in failed /\ ErrorAt(p)
      BY <1>1, <1>3, <2>3 DEF RelayOK
    <3>3. Shows(p)'
      BY <2>2, <3>2 DEF Shows, Served
    <3> QED
      BY <3>1, <3>3 DEF RelayOK
  <2>4. CASE r.phase = "sent"
    <3>1. s \in rq' /\ \A q \in rq' : q.on = Relay(p) => q = s
      BY <1>1, <2>1, <2>4 DEF Served
    <3>2. s.phase = "done" /\ s.on = Relay(p)
      BY <1>3 DEF Served
    <3>3. ASSUME s.op = "get" PROVE s.got = {Told(p)'}
      <4>1. r.op = "get" /\ level' = level
        BY <3>3 DEF Served, Command
      <4>2. got = {Told(p)}
        BY <1>1, <1>3, <4>1, AnswersTyped DEF Served
      <4> QED
        BY <4>1, <4>2 DEF Told, Served
    <3> QED
      BY <3>1, <3>2, <3>3 DEF RelayOK
  <2> QED
    BY <1>1, <2>3, <2>4
<1> QED
  BY <1>2, <1>3

LEMMA RelayLost ==
  ASSUME CoreOK, Alone, NEW p \in Pin, RelayOK(p), NEW r \in rq, Lose(r)
  PROVE  RelayOK(p)'
<1>1. UNCHANGED <<text, level, failed, overlapped>> /\ rq' = rq \ {r} /\ r.phase = "late"
  BY DEF Lose, pageVars, worldVars
<1>2. CASE r.on # Relay(p)
  <2>1. Undisturbed(p)
    BY <1>1, <1>2 DEF Undisturbed
  <2> QED
    BY <2>1, RelayStays
<1>3. CASE r.on = Relay(p)
  <2> SUFFICES ASSUME Relay(p) \notin overlapped
               PROVE  RelayOK(p)'
    BY <1>1 DEF RelayOK
  <2>1. \A q \in rq' : q.on # Relay(p)
    BY <1>1, <1>3, OnlyRequest
  <2>2. Relay(p) \in failed /\ ErrorAt(p)
    BY <1>1, <1>3 DEF RelayOK
  <2>3. Shows(p)'
    BY <1>1, <2>2 DEF Shows, ErrorAt
  <2> QED
    BY <2>1, <2>3 DEF RelayOK
<1> QED
  BY <1>2, <1>3

\* What is told of a relay is 0 exactly if the relay's entry is.
LEMMA ToldIs ==
  ASSUME CoreOK, NEW p \in Pin
  PROVE  Told(p) = 0 <=> level[Relay(p)] = 0
<1>1. p \in 1 .. 15
  BY PageAssumption
<1> QED
  BY <1>1 DEF Told, UNSET

LEMMA RelayAnswered ==
  ASSUME CoreOK, Alone, NEW p \in Pin, RelayOK(p), NEW r \in rq, NEW o \in Outcome,
         NEW shown, Shown(r, o, shown)
  PROVE  RelayOK(p)'
<1>1. /\ rq' \in Left(r, o)
      /\ text' = [e \in Element |-> IF e = r.elem THEN shown ELSE text[e]]
      /\ failed' = IF o = "ok" THEN failed \ About(r) ELSE failed \cup About(r)
      /\ UNCHANGED <<level, overlapped>>
  BY DEF Shown, Show, Ends, worldVars
<1>2. \A q \in rq' : q.on = Relay(p) => q \in rq \/ r.on = Relay(p)
  BY <1>1, LeftIs
<1>3. \A q \in rq : q = r \/ q \in rq'
  BY <1>1 DEF Left
<1>4. CASE r.on # Relay(p)
  <2>1. r.elem \notin Places(p) /\ Relay(p) \notin About(r)
    BY <1>4, RelayRequest
  <2>2. Undisturbed(p)
    BY <1>1, <1>2, <1>3, <1>4, <2>1, Members DEF Undisturbed
  <2> QED
    BY <2>2, RelayStays
<1>5. CASE r.on = Relay(p)
  <2> SUFFICES ASSUME Relay(p) \notin overlapped
               PROVE  RelayOK(p)'
    BY <1>1 DEF RelayOK
  <2>1. \A q \in rq : q.on = Relay(p) => q = r
    BY <1>5, OnlyRequest
  <2>2. /\ r.op \in {"set", "get"} /\ Relay(p) \in About(r)
        /\ r.elem \in Places(p) /\ r.elem \in Element
        /\ r.op = "get" => r.elem = State(p)
    BY <1>5, RelayRequest, Members
  <2>3. text'[r.elem] = shown
    BY <1>1, <2>2
  <2>4. CASE o # "ok"
    <3>1. shown = Error
      BY <2>2, <2>4 DEF Shown
    <3>2. ErrorAt(p)' /\ Relay(p) \in failed'
      BY <1>1, <2>2, <2>3, <2>4, <3>1 DEF ErrorAt
    <3>3. Shows(p)'
      BY <3>2 DEF Shows
    <3>4. \A q \in rq' : q.on = Relay(p) => q.phase = "late"
      BY <1>1, <2>1, LeftIs
    <3> QED
      BY <3>2, <3>3, <3>4 DEF RelayOK
  <2>5. CASE o = "ok"
    <3>1. r.op = "get" /\ r.phase = "done"
      BY <2>2, <2>5, WellDone DEF Shown, Show
    <3>2. r.got = {Told(p)}
      BY <1>5, <3>1 DEF RelayOK
    <3>3. Got(r) = Told(p)
      BY <3>2 DEF Got
    <3>4. text'[State(p)] = Value(IF level'[Relay(p)] = 0 THEN 0 ELSE 1)
      BY <1>1, <2>2, <2>3, <2>5, <3>1, <3>3, ToldIs DEF Shown
    <3>5. Relay(p) \notin failed'
      BY <1>1, <2>2, <2>5
    <3>6. Shows(p)'
      BY <3>4, <3>5 DEF Shows
    <3>7. rq' = rq \ {r}
      BY <1>1, <2>5 DEF Left
    <3>8. \A q \in rq' : q.on # Relay(p)
      BY <2>1, <3>7
    <3> QED
      BY <3>6, <3>8 DEF RelayOK
  <2> QED
    BY <2>4, <2>5
<1> QED
  BY <1>4, <1>5

LEMMA RelayThrown ==
  ASSUME CoreOK, NEW p \in Pin, RelayOK(p), NEW r \in rq,
         r.op \in {"nodes", "sensor"}, Throw(r)
  PROVE  RelayOK(p)'
<1>1. r.on # Relay(p) /\ Relay(p) \notin About(r)
  BY RelayRequest
<1>2. Undisturbed(p)
  BY <1>1 DEF Undisturbed, Throw, Ends, worldVars
<1> QED
  BY <1>2, RelayStays

LEMMA RelaysStep ==
  ASSUME CoreOK, PageOK, Alone, RelaysOK, [GuiNext]_guiVars PROVE RelaysOK'
<1> SUFFICES ASSUME NEW p \in Pin PROVE RelayOK(p)'
  BY DEF RelaysOK
<1>1. RelayOK(p)
  BY DEF RelaysOK
<1>2. CASE UNCHANGED Own
  <2>1. Undisturbed(p)
    BY <1>2 DEF Undisturbed, Own
  <2> QED
    BY <1>1, <2>1, RelayStays
<1> QED
  BY <1>1, <1>2, StepIs, RelayIssued, ServeIs, RelayServed, RelayLost, RelayAnswered,
     RelayThrown

-----------------------------------------------------------------------------
(* What is dimmed *)

LEMMA DimmedRequest ==
  ASSUME CoreOK, NEW t \in Dimmed, NEW r \in rq
  PROVE  /\ r.on = t <=> t \in About(r)
         /\ r.on = t => r.op = "write"
BY AtDimmed, AboutIs, Kinds DEF CoreOK, RequestsOK

LEMMA OnlyWrite ==
  ASSUME CoreOK, Alone, NEW t \in Dimmed, t \notin overlapped, NEW r \in rq, r.on = t
  PROVE  \A q \in rq : q.on = t => q = r
BY DimmedRequest, Kinds DEF Alone

\* A step about something else.
Unlit(t) ==
  /\ t \in failed' <=> t \in failed
  /\ t \in overlapped => t \in overlapped'
  /\ level'[t] = level[t] /\ applied'[t] = applied[t]
  /\ \A r \in rq : r.on = t => r \in rq'
  /\ \A r \in rq' : r.on = t => r \in rq

LEMMA DimmedStays ==
  ASSUME NEW t \in Dimmed, DimmedOK(t), Unlit(t) PROVE DimmedOK(t)'
<1>1. Meant(t)' = Meant(t)
  BY DEF Meant, Unlit
<1> QED
  BY <1>1 DEF DimmedOK, Unlit

LEMMA DimmedIssued ==
  ASSUME CoreOK, NEW t \in Dimmed, DimmedOK(t), NEW new, NEW gone,
         Issued(new, gone), Meaning(new)
  PROVE  DimmedOK(t)'
<1>1. \A r \in new : /\ r.on = t <=> t \in About(r)
                     /\ r.phase = "sent"
  BY AboutIs, Kinds DEF Issued, Fresh
<1>2. \A r \in new : r.on = t => r.val = Meant(t)'
  BY DEF Meaning, Meant
<1>3. CASE Asking(new, t)
  <2>1. PICK n \in new : n.on = t /\ n \in rq'
    BY <1>1, <1>3 DEF Asking, Issued
  <2>2. ASSUME t \notin overlapped', NEW r \in rq', r.on = t
        PROVE  r \in new
    <3>1. ~Asking(rq \ gone, t)
      BY <1>3, <2>2, Kinds DEF Issued
    <3> QED
      BY <2>2, <3>1, DimmedRequest DEF Issued, Asking
  <2>3. ASSUME t \notin overlapped', NEW r \in rq', r.on = t
        PROVE  r.val = Meant(t)' /\ r.phase = "sent"
    BY <1>1, <1>2, <2>2, <2>3
  <2> QED
    BY <2>1, <2>3 DEF DimmedOK
<1>4. CASE ~Asking(new, t)
  <2>1. \A r \in new : r.on # t
    BY <1>1, <1>4 DEF Asking
  <2>2. \A g \in gone : g.on # t
    BY DimmedRequest DEF Issued
  <2>3. ~Asking(gone, t)
    BY <2>2, DimmedRequest DEF Asking, Issued
  <2>4. applied'[t] = applied[t]
    BY <2>1 DEF Meaning
  <2>5. Unlit(t)
    BY <1>4, <2>1, <2>2, <2>3, <2>4 DEF Unlit, Issued
  <2> QED
    BY <2>5, DimmedStays
<1> QED
  BY <1>3, <1>4

LEMMA DimmedServed ==
  ASSUME CoreOK, Alone, NEW t \in Dimmed, DimmedOK(t), NEW r, NEW s, NEW got,
         Served(r, s, got)
  PROVE  DimmedOK(t)'
<1>1. r \in rq /\ r.phase \in {"sent", "late"}
  BY DEF Served
<1>2. CASE r.on # t
  <2>1. level'[t] = level[t]
    BY <1>1, <1>2, CarriedTyped, Kinds DEF Served, CoreOK
  <2>2. Unlit(t)
    BY <1>2, <2>1 DEF Unlit, Served
  <2> QED
    BY <2>2, DimmedStays
<1>3. CASE r.on = t
  <2> SUFFICES ASSUME t \notin overlapped
               PROVE  DimmedOK(t)'
    BY DEF DimmedOK, Served
  <2>1. \A q \in rq : q.on = t => q = r
    BY <1>1, <1>3, OnlyWrite
  <2>2. r.op = "write" /\ r.val = Meant(t)
    BY <1>1, <1>3, DimmedRequest DEF DimmedOK
  <2>3. level'[t] = r.val
    BY <1>1, <1>3, <2>2, Kinds DEF Served, CoreOK, Command, Carried
  <2>4. Meant(t)' = Meant(t)
    BY DEF Meant, Served
  <2>5. CASE r.phase = "late"
    <3>1. \A q \in rq' : q.on # t
      BY <2>1, <2>5 DEF Served
    <3> QED
      BY <2>2, <2>3, <2>4, <3>1 DEF DimmedOK
  <2>6. CASE r.phase = "sent"
    <3>1. s \in rq' /\ \A q \in rq' : q.on = t => q = s
      BY <1>1, <2>1, <2>6 DEF Served
    <3>2. s.phase = "done" /\ s.on = t /\ s.val = Meant(t)
      BY <1>3, <2>2 DEF Served
    <3> QED
      BY <2>2, <2>3, <2>4, <3>1, <3>2 DEF DimmedOK
  <2> QED
    BY <1>1, <2>5, <2>6
<1> QED
  BY <1>2, <1>3

LEMMA DimmedLost ==
  ASSUME CoreOK, Alone, NEW t \in Dimmed, DimmedOK(t), NEW r \in rq, Lose(r)
  PROVE  DimmedOK(t)'
<1>1. /\ UNCHANGED <<level, failed, overlapped, applied>>
      /\ rq' = rq \ {r} /\ r.phase = "late"
  BY DEF Lose, worldVars
<1>2. CASE r.on # t
  <2>1. Unlit(t)
    BY <1>1, <1>2 DEF Unlit
  <2> QED
    BY <2>1, DimmedStays
<1>3. CASE r.on = t
  <2> SUFFICES ASSUME t \notin overlapped
               PROVE  DimmedOK(t)'
    BY <1>1 DEF DimmedOK
  <2>1. \A q \in rq' : q.on # t
    BY <1>1, <1>3, OnlyWrite
  <2>2. t \in failed'
    BY <1>1, <1>3 DEF DimmedOK
  <2> QED
    BY <2>1, <2>2 DEF DimmedOK
<1> QED
  BY <1>2, <1>3

LEMMA DimmedAnswered ==
  ASSUME CoreOK, Alone, NEW t \in Dimmed, DimmedOK(t), NEW r \in rq, NEW o \in Outcome,
         NEW shown, Shown(r, o, shown)
  PROVE  DimmedOK(t)'
<1>1. /\ rq' \in Left(r, o)
      /\ failed' = IF o = "ok" THEN failed \ About(r) ELSE failed \cup About(r)
      /\ UNCHANGED <<level, overlapped, applied>>
  BY DEF Shown, Show, Ends, worldVars
<1>2. \A q \in rq' : q.on = t => q \in rq \/ r.on = t
  BY <1>1, LeftIs
<1>3. \A q \in rq : q = r \/ q \in rq'
  BY <1>1 DEF Left
<1>4. CASE r.on # t
  <2>1. t \notin About(r)
    BY <1>4, DimmedRequest
  <2>2. Unlit(t)
    BY <1>1, <1>2, <1>3, <1>4, <2>1 DEF Unlit
  <2> QED
    BY <2>2, DimmedStays
<1>5. CASE r.on = t
  <2> SUFFICES ASSUME t \notin overlapped
               PROVE  DimmedOK(t)'
    BY <1>1 DEF DimmedOK
  <2>1. \A q \in rq : q.on = t => q = r
    BY <1>5, OnlyWrite
  <2>2. r.val = Meant(t) /\ t \in About(r)
    BY <1>5, DimmedRequest DEF DimmedOK
  <2>3. Meant(t)' = Meant(t)
    BY <1>1 DEF Meant
  <2>4. CASE o # "ok"
    <3>1. t \in failed'
      BY <1>1, <2>2, <2>4
    <3>2. \A q \in rq' : q.on = t => q.val = Meant(t) /\ q.phase = "late"
      BY <1>1, <2>1, <2>2, LeftIs
    <3> QED
      BY <2>3, <3>1, <3>2 DEF DimmedOK
  <2>5. CASE o = "ok"
    <3>1. level[t] = Meant(t)
      BY <1>5, <2>5, WellDone DEF DimmedOK, Shown, Show
    <3>2. \A q \in rq' : q.on # t
      BY <1>1, <2>1, <2>5 DEF Left
    <3> QED
      BY <1>1, <2>3, <3>1, <3>2 DEF DimmedOK
  <2> QED
    BY <2>4, <2>5
<1> QED
  BY <1>4, <1>5

LEMMA DimmedThrown ==
  ASSUME CoreOK, NEW t \in Dimmed, DimmedOK(t), NEW r \in rq,
         r.op \in {"nodes", "sensor"}, Throw(r)
  PROVE  DimmedOK(t)'
<1>1. r.on # t /\ t \notin About(r)
  BY DimmedRequest
<1>2. Unlit(t)
  BY <1>1 DEF Unlit, Throw, Ends, worldVars
<1> QED
  BY <1>2, DimmedStays

LEMMA DimmersStep ==
  ASSUME CoreOK, PageOK, Alone, DimmersOK, [GuiNext]_guiVars PROVE DimmersOK'
<1> SUFFICES ASSUME NEW t \in Dimmed PROVE DimmedOK(t)'
  BY DEF DimmersOK
<1>1. DimmedOK(t)
  BY DEF DimmersOK
<1>2. CASE UNCHANGED Own
  <2>1. Unlit(t)
    BY <1>2 DEF Unlit, Own
  <2> QED
    BY <1>1, <2>1, DimmedStays
<1> QED
  BY <1>1, <1>2, StepIs, DimmedIssued, ServeIs, DimmedServed, DimmedLost,
     DimmedAnswered, DimmedThrown

-----------------------------------------------------------------------------
(* Alarms *)

LEMMA AlarmRequest ==
  ASSUME CoreOK, NEW e \in Figure
  PROVE  /\ e \in Element /\ e # AlarmState
         /\ \A r \in rq : /\ r.elem = e <=> e \in About(r)
                          /\ r.elem = e => r.op = "alarm"
<1>1. e \in Element
  BY Members DEF Figure
<1>2. e # AlarmState
  BY DEF Figure, AlarmState, AlarmLast, AlarmTotal
<1>3. ASSUME NEW r \in rq PROVE /\ r.elem = e <=> e \in About(r)
                                /\ r.elem = e => r.op = "alarm"
  <2>1. r \in Request /\ Shaped(r) /\ r.op \in Op
    BY DEF CoreOK, RequestsOK, Request
  <2> QED
    BY <1>1, <2>1, AboutIs
       DEF Shaped, Op, Command, Places, State, Switch, EspLamp, NoElement, Nodes,
           Reading, Figure, AlarmLast, AlarmTotal
<1> QED
  BY <1>1, <1>2, <1>3

\* A question that is asked anew starts with the figure of now, unless another
\* still waits.
LEMMA AlarmIssued ==
  ASSUME CoreOK, NEW e \in Figure, AlarmOK(e), NEW new, NEW gone, Issued(new, gone)
  PROVE  AlarmOK(e)'
<1>1. /\ UNCHANGED alarms /\ rq' = (rq \ gone) \cup new
      /\ held'[e] = IF Asking(new, e) /\ ~Asking(rq \ gone, e)
                    THEN {alarms[e]} ELSE held[e]
  BY DEF Issued
<1>2. \A r \in rq' : r.phase = "done" => r \in rq \ gone
  BY DEF Issued, Fresh
<1>3. Asking(rq \ gone, e) => ~Quiet(e)
  BY DEF Asking, Quiet
<1>4. ~Quiet(e)' => Asking(new, e) \/ Asking(rq \ gone, e)
  BY <1>1 DEF Asking, Quiet
<1>5. ~Quiet(e)' => alarms'[e] \in held'[e]
  BY <1>1, <1>3, <1>4 DEF AlarmOK
<1>6. ASSUME NEW r \in rq', r.elem = e, r.phase = "done"
      PROVE  r.got \subseteq held'[e]
  <2>1. r \in rq \ gone /\ Asking(rq \ gone, e)
    BY <1>2, <1>6, AlarmRequest DEF Asking
  <2> QED
    BY <1>1, <1>6, <2>1 DEF AlarmOK
<1>7. CASE Asking(new, e)
  <2>1. text'[e] = Loading
    BY <1>7, AlarmRequest DEF Issued
  <2> QED
    BY <1>5, <1>6, <2>1 DEF AlarmOK, Loading
<1>8. CASE ~Asking(new, e)
  <2>1. text'[e] \in {text[e], Label} /\ held'[e] = held[e]
    BY <1>1, <1>8, AlarmRequest DEF Issued
  <2> QED
    BY <1>5, <1>6, <2>1 DEF AlarmOK, Label
<1> QED
  BY <1>7, <1>8

\* A question is answered with the figure of now, while it waits.
LEMMA AlarmServed ==
  ASSUME CoreOK, NEW e \in Figure, AlarmOK(e), NEW r, NEW s, NEW got,
         Served(r, s, got)
  PROVE  AlarmOK(e)'
<1>1. UNCHANGED <<text, alarms, held>> /\ r \in rq
  BY DEF Served
<1>2. \A q \in rq' : q \in rq \/ q = s
  BY DEF Served
<1>3. About(s) = About(r) /\ s.elem = r.elem /\ s.op = r.op /\ s.got = got
  BY DEF Served
<1>4. ~Quiet(e)' => ~Quiet(e)
  BY <1>1, <1>2, <1>3 DEF Quiet
<1>5. ASSUME s.elem = e PROVE s.got \subseteq held[e]
  <2>1. r.elem = e /\ ~Quiet(e) /\ r.op = "alarm"
    BY <1>1, <1>3, <1>5, AlarmRequest DEF Quiet
  <2>2. got = {alarms[e]}
    BY <1>1, <2>1, AlarmRequest, AnswersTyped DEF Served
  <2> QED
    BY <1>3, <2>1, <2>2 DEF AlarmOK
<1> QED
  BY <1>1, <1>2, <1>4, <1>5 DEF AlarmOK

LEMMA AlarmLost ==
  ASSUME CoreOK, NEW e \in Figure, AlarmOK(e), NEW r \in rq,
         Lose(r) \/ (r.op \in {"nodes", "sensor"} /\ Throw(r))
  PROVE  AlarmOK(e)'
<1>1. UNCHANGED <<text, alarms, held>> /\ rq' = rq \ {r}
  BY DEF Lose, Throw, Ends, pageVars, worldVars
<1> QED
  BY <1>1 DEF AlarmOK, Quiet

\* What is shown came while its own question waited.
LEMMA AlarmAnswered ==
  ASSUME CoreOK, NEW e \in Figure, AlarmOK(e), NEW r \in rq,
         NEW o \in Outcome, NEW shown, Shown(r, o, shown)
  PROVE  AlarmOK(e)'
<1>1. /\ rq' \in Left(r, o)
      /\ text' = [x \in Element |-> IF x = r.elem THEN shown ELSE text[x]]
      /\ UNCHANGED <<alarms, held>>
  BY DEF Shown, Show, Ends, worldVars
<1>2. \A q \in rq' : q.phase = "done" => q \in rq
  BY <1>1, LeftIs
<1>3. ~Quiet(e)' => ~Quiet(e)
  BY <1>1, LeftIs DEF Quiet
<1>4. /\ ~Quiet(e)' => alarms'[e] \in held'[e]
      /\ \A q \in rq' : q.elem = e /\ q.phase = "done" => q.got \subseteq held'[e]
  BY <1>1, <1>2, <1>3 DEF AlarmOK
<1>5. text'[e][1] = "value" => text'[e][2] \in held[e]
  <2>1. CASE r.elem # e
    BY <1>1, <2>1, AlarmRequest DEF AlarmOK
  <2>2. CASE r.elem = e /\ o # "ok"
    <3>1. text'[e] = Error
      BY <1>1, <2>2, AlarmRequest DEF Shown
    <3> QED
      BY <3>1 DEF Error
  <2>3. CASE r.elem = e /\ o = "ok"
    <3>1. r.op = "alarm" /\ text'[e] = Value(Got(r))
      BY <1>1, <2>3, AlarmRequest DEF Shown
    <3>2. r.phase = "done" /\ r.got = {Got(r)}
      BY <2>3, <3>1, WellDone, GotIs DEF Shown, Show
    <3>3. Got(r) \in held[e]
      BY <2>3, <3>2 DEF AlarmOK
    <3> QED
      BY <3>1, <3>3 DEF Value
  <2> QED
    BY <2>1, <2>2, <2>3
<1> QED
  BY <1>1, <1>4, <1>5 DEF AlarmOK

\* A figure that changes while a question about it waits is held from then on.
LEMMA AlarmSensed ==
  ASSUME CoreOK, NEW e \in Figure, AlarmOK(e), UNCHANGED Own,
         Sense \/ UNCHANGED <<alarms, held>>
  PROVE  AlarmOK(e)'
<1>1. UNCHANGED <<rq, text>>
  BY DEF Own
<1>2. CASE Sense
  <2>1. PICK f \in Figure, n \in 0 .. MaxAlarms :
          /\ alarms' = [alarms EXCEPT ![f] = n]
          /\ held' = IF Quiet(f) THEN held ELSE [held EXCEPT ![f] = @ \cup {n}]
    BY <1>2, Zenon DEF Sense
  <2>2. held[e] \subseteq held'[e]
    BY <2>1 DEF CoreOK
  <2>3. ~Quiet(e) => alarms'[e] \in held'[e]
    BY <2>1 DEF CoreOK, AlarmOK
  <2> QED
    BY <1>1, <2>2, <2>3 DEF AlarmOK, Quiet
<1>3. CASE UNCHANGED <<alarms, held>>
  BY <1>1, <1>3 DEF AlarmOK, Quiet
<1> QED
  BY <1>2, <1>3

LEMMA AlarmsStep ==
  ASSUME CoreOK, PageOK, AlarmsOK, [GuiNext]_guiVars PROVE AlarmsOK'
<1> SUFFICES ASSUME NEW e \in Figure PROVE AlarmOK(e)'
  BY DEF AlarmsOK
<1>1. AlarmOK(e)
  BY DEF AlarmsOK
<1> QED
  BY <1>1, StepIs, AlarmIssued, ServeIs, AlarmServed, AlarmLost, AlarmAnswered,
     AlarmSensed

-----------------------------------------------------------------------------
(* The theorems *)

LEMMA GuiStarts == GuiInit => GuiInv
<1> SUFFICES ASSUME GuiInit PROVE GuiInv
  OBVIOUS
<1>1. CoreOK
  BY Members, PageAssumption, TextTyped
     DEF GuiInit, CoreOK, RequestsOK, EspLamp, UNSET, Texts
<1>2. PageOK
  <2>1. Counted
    BY PageAssumption DEF GuiInit, Counted
  <2>2. Timed
    BY DEF GuiInit, Timed, OneInterval
  <2>3. Slid
    BY DEF GuiInit, Slid
  <2>4. Entered
    BY <2>3 DEF GuiInit, Entered
  <2> QED
    BY <2>1, <2>2, <2>4 DEF PageOK
<1>3. Alone /\ LoadingMeansAsked
  BY TextTyped DEF GuiInit, Alone, LoadingMeansAsked
<1>4. RelaysOK
  BY Members DEF GuiInit, RelaysOK, RelayOK, Shows, Places
<1>5. DimmersOK
  BY Kinds DEF GuiInit, DimmersOK, DimmedOK
<1>6. AlarmsOK
  BY Members DEF GuiInit, AlarmsOK, AlarmOK, Quiet, Figure, Initial
<1> QED
  BY <1>1, <1>2, <1>3, <1>4, <1>5, <1>6 DEF GuiInv

LEMMA GuiStep == GuiInv /\ [GuiNext]_guiVars => GuiInv'
BY CoreStep, PageStep, AloneStep, LoadingStep, RelaysStep, DimmersStep, AlarmsStep
   DEF GuiInv

\* Everything the specification can reach satisfies the invariant, whatever
\* panels are used together.
THEOREM GuiInvariant == GuiSpec => []GuiInv
BY GuiStarts, GuiStep, PTL DEF GuiSpec

\* The page's variables keep their types: no handler of app.js gets an answer it
\* cannot show.
THEOREM GuiTypeCorrect == GuiSpec => []GuiTypeOK
<1>1. GuiInv => GuiTypeOK
  BY DEF GuiInv, CoreOK, PageOK, Counted, Timed, Entered, Slid, GuiTypeOK
<1> QED
  BY <1>1, GuiInvariant, PTL

\* An element that shows "loading" waits, unless its handler threw (app.js:20-217).
THEOREM LoadingIsAsked == GuiSpec => []LoadingMeansAsked
<1>1. GuiInv => LoadingMeansAsked
  BY DEF GuiInv
<1> QED
  BY <1>1, GuiInvariant, PTL

\* Who uses a relay's buttons one at a time sees its state or an error
\* (app.js:124-160).
THEOREM RelaysAreShown == GuiSpec => []RelayShown
<1>1. GuiInv => RelayShown
  <2> SUFFICES ASSUME GuiInv, NEW p \in Pin, Calm(Relay(p))
               PROVE  Shows(p)
    BY DEF RelayShown, Shows, ErrorAt, Places
  <2>1. CoreOK /\ RelayOK(p)
    BY DEF GuiInv, RelaysOK
  <2>2. \A r \in rq : r.on # Relay(p)
    BY <2>1, RelayRequest DEF Calm, Quiet
  <2> QED
    BY <2>1, <2>2 DEF RelayOK, Calm
<1> QED
  BY <1>1, GuiInvariant, PTL

\* A write that went through has left what was meant.
LEMMA DimmedIsMeant ==
  ASSUME GuiInv, NEW t \in Dimmed, Calm(t), t \notin failed, applied[t] # -1
  PROVE  level[t] = Meant(t)
<1>1. CoreOK /\ DimmedOK(t)
  BY DEF GuiInv, DimmersOK
<1>2. \A r \in rq : r.on # t
  BY <1>1, DimmedRequest DEF Calm, Quiet
<1> QED
  BY <1>1, <1>2 DEF DimmedOK, Calm

\* The lamp has the colour of the rectangle once its three requests have gone
\* through, in whatever order (app.js:257-265).
THEOREM LampIsShown == GuiSpec => []LampShown
<1>1. GuiInv => LampShown
  <2> SUFFICES ASSUME GuiInv, NEW c \in Channels, rect # <<>>,
                      Calm(Channel(c)), Channel(c) \notin failed,
                      applied[Channel(c)] = hexToRgb(rect)[c]
               PROVE  level[Channel(c)] = hexToRgb(rect)[c]
    BY DEF LampShown
  <2>1. rect \in Picked
    BY DEF GuiInv, PageOK, Entered
  <2>2. hexToRgb(rect)[c] \in Nat
    BY <2>1, ColourTyped
  <2>3. applied[Channel(c)] # -1 /\ Channel(c) \in Dimmed
    BY <2>2, Members
  <2>4. Meant(Channel(c)) = applied[Channel(c)]
    BY DEF Meant, Channel
  <2> QED
    BY <2>3, <2>4, DimmedIsMeant
<1> QED
  BY <1>1, GuiInvariant, PTL

\* A slider that was not moved since shows the brightness (app.js:302-328).
THEOREM SlidersAreShown == GuiSpec => []SliderShown
<1>1. GuiInv => SliderShown
  <2> SUFFICES ASSUME GuiInv, NEW s \in {Strip, EspLed}, Calm(s), s \notin failed,
                      slider[s].knob = applied[s]
               PROVE  level[s] = Sent(s, slider[s].knob)
    BY DEF SliderShown
  <2>1. PageOK
    BY DEF GuiInv
  <2>2. slider[s].knob \in 0 .. 1023
    BY <2>1, SliderIs
  <2>3. applied[s] # -1 /\ s \in Dimmed /\ s[1] # "led"
    BY <2>2, Members DEF Strip, EspLed
  <2> QED
    BY <2>3, DimmedIsMeant DEF Meant
<1> QED
  BY <1>1, GuiInvariant, PTL

\* A total or last alarm on the page is one that the server had while questions
\* about it waited, also when an interval overtakes another (app.js:182-217, 282-286).
THEOREM AlarmsAreRecent == GuiSpec => []AlarmsRecent
<1>1. GuiInv => AlarmsRecent
  BY DEF GuiInv, AlarmsOK, AlarmOK, AlarmsRecent
<1> QED
  BY <1>1, GuiInvariant, PTL

\* The page has one interval while auto-update is on and none while it is off
\* (app.js:278-292).
THEOREM IntervalIsOne == GuiSpec => []OneInterval
<1>1. GuiInv => OneInterval
  BY DEF GuiInv, PageOK, Timed
<1> QED
  BY <1>1, GuiInvariant, PTL
=============================================================================
