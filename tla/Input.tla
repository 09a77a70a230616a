------------------------------- MODULE Input -------------------------------
(***************************************************************************)
(* Remote input, end to end: the Android controller and outbound lanes     *)
(* (AndroidInputController, TouchContactTracker, SessionOutboundMux), the  *)
(* link, the host's checks (handle_usb_control and                         *)
(* require_negotiated_input in runtime.rs) and NativeInputController       *)
(* (platform/windows/input_injector.rs) with the Windows state it drives.  *)
(*                                                                         *)
(* Buttons and keys follow the same code shape and are the Items; a touch  *)
(* is a contact slot.  Windows refuses any injection nondeterministically; *)
(* a refused call changes nothing.  Coordinates are treated apart, as      *)
(* functions: Android clamps what it sends to the negotiated extent.       *)
(* A frame on the wire is the InputEvent's kind byte followed by what its  *)
(* variant carries, without time stamp, coordinates and modifiers.         *)
(***************************************************************************)
EXTENDS Integers, Sequences, FiniteSetsExt

CONSTANTS
    Buttons,        \* pointer buttons
    Keys,           \* keyboard usages
    Contacts,       \* MAX_TOUCH_CONTACTS
    Negotiated,     \* families in the negotiated InputCapabilities
    CoalescibleCap, \* coalescibleInputCapacity
    WireCap,        \* frames the writer and the link hold
    MaxEvents       \* bound: what the user does in one session

Families == {"pointer", "keyboard", "touch"}
\* A button or a key is its kind byte with its code, as is a contact where it
\* stands beside them.
Items == ({2} \X Buttons) \cup ({4} \X Keys)
AsContacts(slots) == {5} \X slots
Slots == 0 .. Contacts - 1

ASSUME InputAssumption ==
    /\ Negotiated \subseteq Families
    /\ {Contacts, CoalescibleCap, WireCap} \subseteq Nat \ {0} /\ MaxEvents \in Nat

VARIABLES
    phys,           \* items held down on the Android side
    contacts,       \* TouchContactTracker.contacts, as contact slots
    did,            \* events the user has caused
    showing,        \* the session's state is Connected or Displaying
    lost,           \* history: items and contacts whose last change was discarded
    critical,       \* criticalInput and the senders suspended on it
    coalescible,    \* coalescibleInput
    wire,           \* encoded frames, in order
    status,         \* "active", "ending" (the session loop returned), "closed"
    pressed,        \* pressed_buttons and pressed_keys
    touches,        \* slots of NativeInputController.touches that are Some
    osPressed,      \* what Windows holds down for this session
    osTouches,
    refused         \* what Windows refused to release

androidVars == <<phys, contacts, did, showing, lost>>
laneVars == <<critical, coalescible>>
hostVars == <<pressed, touches>>
osVars == <<osPressed, osTouches, refused>>
inputVars == <<androidVars, laneVars, wire, status, hostVars, osVars>>

Item(i, phase) == [kind |-> "item", on |-> i, phase |-> phase]
Touch(c, phase) == [kind |-> "touch", on |-> c, phase |-> phase]
Focus(phase) == [kind |-> "focus", on |-> 0, phase |-> phase]
PointerMove == [kind |-> "pointer", on |-> 0, phase |-> "move"]
Wheel == [kind |-> "pointer", on |-> 0, phase |-> "wheel"]
Invalid == [kind |-> "invalid", on |-> 0, phase |-> "none"]

\* InputEvent::encode, and InputPayload.encode on Android.
ItemStates == <<"release", "press">>
TouchPhases == <<"begin", "move", "end", "cancel">>
Code(names, n) == CHOOSE k \in DOMAIN names : names[k] = n
Encode(e) ==
    CASE e.kind = "pointer" -> <<IF e.phase = "move" THEN 1 ELSE 3>>
      [] e.kind = "item"    -> <<e.on[1], e.on[2], Code(ItemStates, e.phase) - 1>>
      [] e.kind = "touch"   -> <<5, e.on, Code(TouchPhases, e.phase)>>
      [] e.kind = "focus"   -> <<6, IF e.phase = "gained" THEN 1 ELSE 0>>

\* InputEventKind::validate.
Validated(e) ==
    IF (e.kind = "touch" /\ e.on >= Contacts) \/ (e.kind = "item" /\ e.on[2] = 0)
      THEN Invalid ELSE e

\* InputEvent::decode: unknown kinds, buttons, states and phases are refused.
Decode(w) ==
    CASE w = <<1>> -> PointerMove
      [] w = <<3>> -> Wheel
      [] w[1] \in {2, 4} /\ w[3] \in 0 .. 1 /\ (w[1] = 2 => w[2] \in 1 .. 5) ->
            Validated(Item(<<w[1], w[2]>>, ItemStates[w[3] + 1]))
      [] w[1] = 5 /\ w[3] \in DOMAIN TouchPhases -> Validated(Touch(w[2], TouchPhases[w[3]]))
      [] w[1] = 6 /\ w[2] \in 0 .. 1 -> Focus(IF w[2] = 1 THEN "gained" ELSE "lost")
      [] OTHER -> Invalid

\* The usages Android's mapper sends, and those hid_usage_to_key takes.
UsageForKeyCode ==
    (4 .. 49) \cup (51 .. 99) \cup {101} \cup (224 .. 231)
HidUsageToKey ==
    (4 .. 38) \cup (39 .. 49) \cup (51 .. 57) \cup (58 .. 69) \cup (70 .. 88)
        \cup (89 .. 97) \cup {98, 99, 101} \cup (224 .. 231)

InputInit ==
    /\ phys = {} /\ contacts = {} /\ did = 0 /\ showing = FALSE /\ lost = {}
    /\ critical = <<>> /\ coalescible = <<>> /\ wire = <<>>
    /\ status = "active"
    /\ pressed = {} /\ touches = {}
    /\ osPressed = {} /\ osTouches = {} /\ refused = {}

----------------------------------------------------------------------------
(***************************************************************************)
(* Android: events, their delivery class, and the lanes.                   *)
(***************************************************************************)
\* require_negotiated_input; isSupportedBy on Android makes the same choice.
Allowed(e) ==
    CASE e.kind = "pointer" -> "pointer" \in Negotiated
      [] e.kind = "item"    -> (IF e.on[1] = 2 THEN "pointer" ELSE "keyboard") \in Negotiated
      [] e.kind = "touch"   -> "touch" \in Negotiated
      [] e.kind = "focus"   -> Negotiated # {}

\* submitInput: outside Connected and Displaying an event is discarded, though
\* the views go on sending them; critical events wait for room, in order.  The
\* events of one call are of one family, so all of them are supported or none.
Emitted(es) ==
    IF showing /\ \A k \in DOMAIN es : Allowed(es[k]) THEN critical \o es ELSE critical

\* What the discarded changes were about, after one about xs.
Missed(xs) == IF showing THEN lost \ xs ELSE lost \cup xs

\* submitInput: a coalescible event that finds its lane full is dropped.
Offered(e) ==
    IF showing /\ Allowed(e) /\ Len(coalescible) < CoalescibleCap
      THEN Append(coalescible, e) ELSE coalescible

UserActs ==
    /\ status = "active" /\ did < MaxEvents /\ did' = did + 1
    /\ UNCHANGED <<showing, wire, status, hostVars, osVars>>

\* onKeyEvent, and onGenericMotionEvent for a button, which first emits the
\* pointer's position.
ItemChanges(i) ==
    /\ UserActs
    /\ phys' = IF i \in phys THEN phys \ {i} ELSE phys \cup {i}
    /\ critical' = Emitted(<<Item(i, IF i \in phys THEN "release" ELSE "press")>>)
    /\ coalescible' = IF i[1] = 2 THEN Offered(PointerMove) ELSE coalescible
    /\ lost' = Missed({i})
    /\ UNCHANGED contacts

\* onGenericMotionEvent for a moving pointer and for the wheel.
PointerMoves ==
    /\ UserActs
    /\ \E e \in {PointerMove, Wheel} : coalescible' = Offered(e)
    /\ UNCHANGED <<phys, contacts, critical, lost>>

\* ACTION_DOWN: TouchContactTracker.begin takes the lowest free slot.
TouchBegins ==
    /\ UserActs
    /\ contacts # Slots
    /\ LET c == Min(Slots \ contacts)
       IN /\ contacts' = contacts \cup {c}
          /\ critical' = Emitted(<<Touch(c, "begin")>>)
          /\ lost' = Missed(AsContacts({c}))
    /\ UNCHANGED <<phys, coalescible>>

TouchMoves(c) ==
    /\ UserActs
    /\ c \in contacts
    /\ coalescible' = Offered(Touch(c, "move"))
    /\ UNCHANGED <<phys, contacts, critical, lost>>

TouchEnds(c) ==
    /\ UserActs
    /\ c \in contacts
    /\ contacts' = contacts \ {c}
    /\ critical' = Emitted(<<Touch(c, "end")>>)
    /\ lost' = Missed(AsContacts({c}))
    /\ UNCHANGED <<phys, coalescible>>

\* ACTION_CANCEL and updateViewport: cancelAll, one Cancel per contact, in the
\* order the contacts began, which may be any order of the slots.
TouchesCancelled ==
    /\ UserActs
    /\ contacts # {}
    /\ contacts' = {} /\ lost' = Missed(AsContacts(contacts))
    /\ \E order \in [1 .. Cardinality(contacts) -> contacts] :
          /\ \A c \in contacts : \E k \in DOMAIN order : order[k] = c
          /\ critical' = Emitted([k \in DOMAIN order |-> Touch(order[k], "cancel")])
    /\ UNCHANGED <<phys, coalescible>>

\* onFocusChanged tells the host and leaves the tracker alone.
FocusChanges(phase) ==
    /\ UserActs
    /\ critical' = Emitted(<<Focus(phase)>>)
    /\ UNCHANGED <<phys, contacts, lost, coalescible>>

User ==
    \/ \E i \in Items : ItemChanges(i)
    \/ PointerMoves \/ TouchBegins \/ TouchesCancelled
    \/ \E c \in Slots : TouchMoves(c) \/ TouchEnds(c)
    \/ \E phase \in {"gained", "lost"} : FocusChanges(phase)

\* handleDecoderState and handleDecoderMetrics: Connected once the decoder has
\* its surface, Recovering or Configured when it fails or loses it; neither
\* lets go of what is held.
DecoderChanges ==
    /\ status = "active"
    /\ showing' = ~showing
    /\ UNCHANGED <<phys, contacts, did, lost, laneVars, wire, status, hostVars, osVars>>

\* Mutant: the idle wait wakes up for coalescible events only.
MuxWakesForMotion ==
    /\ status = "active" /\ Len(wire) < WireCap /\ coalescible # <<>>
    /\ IF critical # <<>>
         THEN /\ wire' = Append(wire, Encode(Head(critical))) /\ critical' = Tail(critical)
              /\ UNCHANGED coalescible
         ELSE /\ wire' = Append(wire, Encode(Head(coalescible))) /\ coalescible' = Tail(coalescible)
              /\ UNCHANGED critical
    /\ UNCHANGED <<androidVars, status, hostVars, osVars>>

\* SessionOutboundMux.receiveNext and the writer: critical before coalescible,
\* numbered as they are chosen.
Mux ==
    /\ status = "active" /\ Len(wire) < WireCap
    /\ \/ /\ critical # <<>>
          /\ wire' = Append(wire, Encode(Head(critical))) /\ critical' = Tail(critical)
          /\ UNCHANGED coalescible
       \/ /\ critical = <<>> /\ coalescible # <<>>
          /\ wire' = Append(wire, Encode(Head(coalescible))) /\ coalescible' = Tail(coalescible)
          /\ UNCHANGED critical
    /\ UNCHANGED <<androidVars, status, hostVars, osVars>>

----------------------------------------------------------------------------
(***************************************************************************)
(* NativeInputController.                                                  *)
(***************************************************************************)
Fails == status' = "ending" /\ UNCHANGED <<hostVars, osVars>>

\* pointer_button and key: an unmapped key fails, a repeated state is ignored,
\* one that SendInput refuses fails.
InjectItem(i, press) ==
    IF i[1] = 4 /\ i[2] \notin HidUsageToKey THEN Fails
    ELSE IF (i \in pressed) = press THEN UNCHANGED <<status, hostVars, osVars>>
    ELSE \/ /\ pressed' = IF press THEN pressed \cup {i} ELSE pressed \ {i}
            /\ osPressed' = IF press THEN osPressed \cup {i} ELSE osPressed \ {i}
            /\ UNCHANGED <<status, touches, osTouches, refused>>
         \/ Fails

\* touch_frame and touch_pointer_flags: every active contact, with what the
\* frame does to it.  `changed` is <<slot, phase>>, or <<>> to cancel them all.
TouchFrame(active, changed) ==
    [c \in active |->
        IF changed = <<>> THEN "up"
        ELSE IF c # changed[1] THEN "update"
        ELSE CASE changed[2] = "begin" -> "down"
               [] changed[2] = "move"  -> "update"
               [] OTHER                -> "up"]

\* InjectTouchInput takes a frame that names every contact Windows holds, and
\* puts down only new ones.
WindowsTakes(frame) ==
    /\ osTouches \subseteq DOMAIN frame
    /\ \A c \in DOMAIN frame : (frame[c] = "down") = (c \notin osTouches)

InContact(frame) == {c \in DOMAIN frame : frame[c] # "up"}

\* touch: the protocol order of a contact, then one frame.
InjectTouch(c, phase) ==
    IF (phase = "begin") = (c \in touches)
      THEN Fails
      ELSE LET frame == TouchFrame(touches \cup {c}, <<c, phase>>)
           IN \/ /\ WindowsTakes(frame)
                 /\ osTouches' = InContact(frame)
                 /\ touches' = IF phase \in {"end", "cancel"} THEN touches \ {c}
                                                             ELSE touches \cup {c}
                 /\ UNCHANGED <<status, pressed, osPressed, refused>>
              \/ Fails

\* Mutant: the first refusal ends the release.
ReleaseAllUntilError(stuck, cancels) ==
    IF ~cancels /\ touches # {}
      THEN refused' = refused \cup AsContacts(touches) /\ UNCHANGED <<hostVars, osPressed, osTouches>>
      ELSE /\ touches' = {} /\ osTouches' = {}
           /\ pressed' = pressed \cap stuck
           /\ osPressed' = osPressed \ (pressed \ stuck)
           /\ refused' = refused \cup (stuck \cap pressed)

\* cancel_touches, then every button, then every key; what Windows refuses (the
\* items in `stuck`, the contacts unless it `cancels`) does not keep the rest
\* from being released.
ReleaseAll(stuck, cancels) ==
    LET frame == TouchFrame(touches, <<>>)
        held == IF cancels /\ WindowsTakes(frame) THEN {} ELSE touches
    IN /\ touches' = held
       /\ osTouches' = IF held = {} THEN InContact(frame) ELSE osTouches
       /\ pressed' = pressed \cap stuck
       /\ osPressed' = osPressed \ (pressed \ stuck)
       /\ refused' = refused \cup (stuck \cap pressed) \cup AsContacts(held)

\* inject: Focus(false) releases everything, Focus(true) does nothing.
Inject(e) ==
    CASE e.kind = "item"    -> InjectItem(e.on, e.phase = "press")
      [] e.kind = "touch"   -> InjectTouch(e.on, e.phase)
      [] e.kind = "pointer" -> UNCHANGED <<hostVars, osVars>> /\ status' \in {"active", "ending"}
      [] e.kind = "focus"   ->
           IF e.phase = "gained" THEN UNCHANGED <<status, hostVars, osVars>>
           ELSE \E stuck \in SUBSET Items, cancels \in BOOLEAN :
                    /\ ReleaseAll(stuck, cancels)
                    /\ status' = IF refused' = {} THEN "active" ELSE "ending"

\* handle_usb_control for an Input frame.
HostReceives ==
    /\ status = "active" /\ wire # <<>>
    /\ wire' = Tail(wire)
    /\ LET e == Decode(Head(wire))
       IN IF e.kind # "invalid" /\ Allowed(e) THEN Inject(e) ELSE Fails
    /\ UNCHANGED <<androidVars, laneVars>>

\* Cancelled, disconnected or failed elsewhere: the session loop returns.
SessionEnds ==
    /\ status = "active"
    /\ status' = "ending"
    /\ UNCHANGED <<androidVars, laneVars, wire, hostVars, osVars>>

\* Drop of NativeInputController.
DropController ==
    /\ status = "ending"
    /\ status' = "closed"
    /\ \E stuck \in SUBSET Items, cancels \in BOOLEAN : ReleaseAll(stuck, cancels)
    /\ UNCHANGED <<androidVars, laneVars, wire>>

InputNext == User \/ DecoderChanges \/ Mux \/ HostReceives \/ SessionEnds \/ DropController

InputSpec == InputInit /\ [][InputNext]_inputVars

\* The Android writer, the session loop and the unwinding of a session run.
LiveSpec == InputSpec /\ WF_inputVars(Mux) /\ WF_inputVars(HostReceives) /\ WF_inputVars(DropController)

----------------------------------------------------------------------------
(***************************************************************************)
(* Coordinates.                                                            *)
(***************************************************************************)
\* Mutant: the extent is scaled instead of the last coordinate.
ScaleByExtent(value, source, start, end) ==
    IF source = 1 \/ end - start = 1 THEN start
    ELSE start + (value * (end - start)) \div (source - 1)

\* scale_coordinate, for value < source (it refuses others).
Scale(value, source, start, end) ==
    IF source = 1 \/ end - start = 1 THEN start
    ELSE start + (value * (end - start - 1)) \div (source - 1)

NormalizedMouseMax == 65535

\* normalize_virtual_coordinate, for start <= value < end.
Normalize(value, start, end) ==
    IF end - start = 1 THEN 0
    ELSE ((value - start) * NormalizedMouseMax) \div (end - start - 1)

\* A rectangle, right and bottom excluded.
Rect(left, top, width, height) ==
    [left |-> left, top |-> top, right |-> left + width, bottom |-> top + height]

\* virtual_desktop_rect: the smallest rectangle around the monitors.
VirtualDesktop(rects) ==
    [left |-> Min({r.left : r \in rects}), top |-> Min({r.top : r \in rects}),
     right |-> Max({r.right : r \in rects}), bottom |-> Max({r.bottom : r \in rects})]

\* validate_rect, CoordinateMapper::new.
ValidRect(r) == r.left < r.right /\ r.top < r.bottom
Mapper(width, height, target, desktop) ==
    [width |-> width, height |-> height, target |-> target, desktop |-> desktop]
ValidMapper(m) == m.width > 0 /\ m.height > 0 /\ ValidRect(m.target) /\ ValidRect(m.desktop)

\* screen_point and normalized_mouse.
ScreenPoint(m, x, y) ==
    [x |-> Scale(x, m.width, m.target.left, m.target.right),
     y |-> Scale(y, m.height, m.target.top, m.target.bottom)]
NormalizedMouse(m, p) ==
    [x |-> Normalize(p.x, m.desktop.left, m.desktop.right),
     y |-> Normalize(p.y, m.desktop.top, m.desktop.bottom)]

\* touch_info: the contact rectangle, clipped to the desktop.
ContactRect(m, p) ==
    [left |-> Max({p.x - 2, m.desktop.left}), top |-> Max({p.y - 2, m.desktop.top}),
     right |-> Min({p.x + 2, m.desktop.right}), bottom |-> Min({p.y + 2, m.desktop.bottom})]

\* The mappers of small streams and displays, next to another monitor.
Targets ==
    {Rect(l, u, e, h) : l \in {-3, 0, 2}, u \in {-1, 4}, e \in 1 .. 6, h \in {1, 3}}
OnDesktop(w, t) == Mapper(w, 2, t, VirtualDesktop({t, Rect(0, 0, 3, 3)}))
Mappers == {OnDesktop(w, t) : w \in 1 .. 5, t \in Targets}

----------------------------------------------------------------------------
\* No stuck input.  With nothing on its way, no key, button or contact is down
\* on the host that is not down on the Android device, unless its release was
\* discarded because the decoder was not ready (submitInput): moves may be
\* dropped, focus changes release the host's side only, and what was discarded
\* is made good by the next change that is sent.  Once the controller is
\* dropped, Windows holds nothing of the session but what it refused to
\* release: one refusal never keeps the rest down.
NothingStuck ==
    /\ status = "active" /\ critical = <<>> /\ wire = <<>>
         => pressed \cup AsContacts(touches) \subseteq phys \cup AsContacts(contacts) \cup lost
    /\ status = "closed" => osPressed \cup AsContacts(osTouches) \subseteq refused

\* What the user lets go of while the display is shown is let go of on the
\* host, or the session ends.
ReleaseArrives ==
    /\ \A i \in Items :
          i \in pressed \ (phys \cup lost) ~> i \notin pressed \ (phys \cup lost) \/ status = "closed"
    /\ \A c \in Slots :
          c \in touches \ contacts /\ <<5, c>> \notin lost
            ~> c \notin touches \ contacts \/ <<5, c>> \in lost \/ status = "closed"

\* What a mapper owes: the corners of the stream map to the corners of the
\* selected display, nothing leaves it, order is kept, the normalized mouse
\* position is in 0..65535, and the contact rectangle holds its point and stays
\* inside the desktop.
MapsExactly(m) ==
    /\ ScreenPoint(m, 0, 0) = [x |-> m.target.left, y |-> m.target.top]
    /\ m.width > 1 /\ m.height > 1 =>
          ScreenPoint(m, m.width - 1, m.height - 1)
            = [x |-> m.target.right - 1, y |-> m.target.bottom - 1]
    /\ \A x \in 0 .. m.width - 1, y \in 0 .. m.height - 1 :
          LET p == ScreenPoint(m, x, y)
              mouse == NormalizedMouse(m, p)
              rect == ContactRect(m, p)
          IN /\ p.x \in m.target.left .. m.target.right - 1
             /\ p.y \in m.target.top .. m.target.bottom - 1
             /\ x > 0 => ScreenPoint(m, x - 1, y).x <= p.x
             /\ {mouse.x, mouse.y} \subseteq 0 .. NormalizedMouseMax
             /\ rect.left >= m.desktop.left /\ rect.left <= p.x /\ p.x < rect.right
             /\ rect.top >= m.desktop.top /\ rect.top <= p.y /\ p.y < rect.bottom
             /\ rect.right <= m.desktop.right /\ rect.bottom <= m.desktop.bottom

\* Where the session builds its CoordinateMapper, before the first event: for
\* displays of every small size and place, the mapping is exact.  And every key
\* the display can send is one the host can press: any other would end the
\* session.
MappingIsExact ==
    did = 0 /\ status = "active" =>
        /\ \A m \in Mappers : ValidMapper(m) => MapsExactly(m)
        /\ UsageForKeyCode \subseteq HidUsageToKey

=============================================================================
