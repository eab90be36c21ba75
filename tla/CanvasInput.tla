----------------------------- MODULE CanvasInput ------------------------------
(***************************************************************************)
(* The message procedure of the canvas window (apps/desktop/desktop_canvas *)
(* and crates/input-platform): the messages of one pen, one mouse and the  *)
(* fingers on the screen become gestures for the native lane or drags of   *)
(* the view, one message at a time on the window's thread.                 *)
(*                                                                         *)
(* Outside the program: penAt, held and fingers, where each device is;     *)
(* capture, whether the window has the mouse; faults, the messages whose   *)
(* data Windows could not give (but for a pen's that it takes back), and   *)
(* the moves the lane had no room for.                                     *)
(* w is the state of the window and of what its samples have become:       *)
(*   penContact, touchPointer   pen_contact, and touch_pointer             *)
(*   drag          the source of the view drag, "gone" if it is a pen that *)
(*                 is no longer there                                      *)
(*   mouse, touch  active: the gesture of the two mouse-like adapters      *)
(*   stale         those of them whose view has changed since their Begin  *)
(*   listening, precise   left_button_down, and precision                  *)
(*   penActive, gone, picking   active_pointer, whether it names a pen     *)
(*                 that has left, and {temporary, barrel}_picker           *)
(*   recorded, open   the recorder's gesture of the contact at hand, and   *)
(*                 whether the pen's policy has seen it begin              *)
(*   stray         the policy is open though the contact it saw begin is   *)
(*                 over: "kept" if the recorder still has a gesture, of    *)
(*                 that contact or of a later one, and "lost" if not       *)
(*   skipped       the lane refused a Begin, and refuses what follows it   *)
(*   stroke, awaiting   active and awaiting_clean_begin of the owner       *)
(* and what the properties remember:                                       *)
(*   begun         drawing gestures whose Begin was let in                 *)
(*   crossed       gestures that ran while the mouse and the pen both drew *)
(*                 or while a stray sample of the pen was let in           *)
(*   missed        a message of the pen was not read, and no contact has   *)
(*                 begun in order since                                    *)
(*   dropped       a move of the stroke being drawn found no room          *)
(*   ended, closed   the gestures of begun whose End the last message let  *)
(*                 in, and the strokes it closed                           *)
(***************************************************************************)
EXTENDS Naturals, FiniteSets

CONSTANTS
  Fingers, NoFinger,
  MaxFaults  \* bound: messages without data, and moves without room

ASSUME InputAssumption ==
  /\ NoFinger \notin Fingers
  /\ MaxFaults \in Nat

VARIABLES penAt, held, fingers, capture, faults, w
hardware == <<penAt, held, fingers>>
vars == <<hardware, capture, faults, w>>

(* turn tells a gesture from the one of its device that is not over yet.   *)
Gesture(device, turn) == [device |-> device, turn |-> turn]
None == Gesture("none", "this")
(* Samples of the pen that the policy takes for a contact that is over.     *)
Stray == Gesture("pen", "stray")

NoStroke == [of |-> {}, smooth |-> FALSE, reads |-> FALSE]

Init ==
  /\ penAt = "away" /\ held = {} /\ fingers = {} /\ capture = FALSE /\ faults = 0
  /\ w = [penContact |-> FALSE, touchPointer |-> NoFinger,
          drag |-> "none", mouse |-> None, touch |-> None, stale |-> {}, listening |-> FALSE,
          precise |-> FALSE, penActive |-> FALSE, gone |-> FALSE, picking |-> "no",
          recorded |-> None, open |-> FALSE, stray |-> "no", skipped |-> FALSE,
          stroke |-> NoStroke, awaiting |-> FALSE, begun |-> {}, crossed |-> {},
          missed |-> FALSE, dropped |-> FALSE, ended |-> {}, closed |-> {}]

-----------------------------------------------------------------------------
(* The lane and its owner, as far as the window can tell: a Begin, or a move *)
(* of the mouse, may be refused; the rest of a refused gesture is.           *)

(* What becomes of a Begin: off the page it is not pushed; an edit under way *)
(* refuses it; it is let in, to read a colour while Alt or the pen's button  *)
(* is held, or to draw, smoothed or not.                                     *)
Begins(s) ==
  [end : {"outside"}]
    \cup (IF s.stroke = NoStroke THEN [end : {"refused"}] ELSE {})
    \cup [end : {"taken"}, smooth : BOOLEAN, reads : {FALSE}]
    \cup [end : {"taken"}, smooth : {FALSE}, reads : {TRUE}]

(* The next gesture of a device *)
Known(s) == {s.mouse, s.touch, s.recorded} \cup s.stroke.of \cup s.ended
              \cup UNION {c.of : c \in s.closed}
Fresh(s, device) ==
  Gesture(device, IF Gesture(device, "this") \in Known(s) THEN "next" ELSE "this")

Crossing(s, g) ==
  CASE g.device = "pen" /\ s.mouse # None -> {g, s.mouse}
    [] g.device = "mouse" /\ s.open /\ penAt = "contact" -> {g, s.recorded}
    [] OTHER -> {}

LetIn(s, g, begin) ==
  [s EXCEPT !.skipped = FALSE, !.awaiting = FALSE, !.dropped = FALSE,
            !.stroke = [of |-> {g}, smooth |-> begin.smooth, reads |-> begin.reads],
            !.begun = IF begin.reads THEN @ ELSE @ \cup {g},
            !.crossed = @ \cup Crossing(s, g)]

(* Fault: the path takes samples of any device. *)
BrokenFault(s, g) == FALSE

(* The smoothed path refuses a sample of another device (StrokePath).       *)
Broken(s, g) == s.stroke.smooth /\ ~s.stroke.reads /\ \E h \in s.stroke.of : h.device # g.device

Spoil(s) == [s EXCEPT !.stroke = NoStroke, !.awaiting = TRUE]

Move(s, g) ==
  IF s.skipped \/ s.awaiting \/ s.stroke = NoStroke THEN s
  ELSE IF Broken(s, g) THEN Spoil(s)
  ELSE [s EXCEPT !.stroke.of = @ \cup {g}]

Close(s, g) ==
  IF s.awaiting \/ s.stroke = NoStroke THEN s
  ELSE IF Broken(s, g) THEN Spoil(s)
  ELSE [s EXCEPT !.stroke = NoStroke,
                 !.closed = IF s.stroke.reads THEN @
                            ELSE @ \cup {[of |-> s.stroke.of \cup {g},
                                          smooth |-> s.stroke.smooth]}]

End(s, g) ==
  IF s.skipped THEN s
  ELSE Close([s EXCEPT !.begun = @ \ {g}, !.ended = @ \cup (s.begun \cap {g})], g)

Cancel(s, g) ==
  IF s.skipped \/ s.awaiting THEN s ELSE [s EXCEPT !.stroke = NoStroke]

-----------------------------------------------------------------------------
(* WindowsMouseInput, of the mouse and of touch (k says which)              *)

Rest(s, k) == [s EXCEPT ![k] = None, !.stale = @ \ {k},
                        !.precise = IF k = "mouse" THEN FALSE ELSE @]

CancelAdapter(s, k) == IF s[k] = None THEN Rest(s, k) ELSE Cancel(Rest(s, k), s[k])

(* A Begin while a gesture runs cancels it first. *)
BeginAdapter(s, k, begin, precise) ==
  LET t == CancelAdapter(s, k)
      g == Fresh(s, k) IN
  CASE begin.end = "outside" -> t
    [] begin.end = "refused" -> [t EXCEPT !.skipped = TRUE]
    [] OTHER -> LetIn([t EXCEPT ![k] = g, !.precise = IF k = "mouse" THEN precise ELSE @], g, begin)

(* A view that changed cancels the gesture; a move the lane refuses, or has *)
(* no room for, makes the adapter forget it.                                *)
MoveAdapter(s, k, dropped) ==
  CASE s[k] = None -> s
    [] s[k] # None /\ k \in s.stale -> CancelAdapter(s, k)
    [] OTHER -> IF dropped \/ s.skipped THEN [Rest(s, k) EXCEPT !.dropped = @ \/ dropped]
                ELSE Move(s, s[k])

EndAdapter(s, k) ==
  CASE s[k] = None -> Rest(s, k)
    [] s[k] # None /\ k \in s.stale -> CancelAdapter(s, k)
    [] OTHER -> End(Rest(s, k), s[k])

(* capture_lost also drops the button the recorder thinks is down. *)
LoseMouse(s) == [CancelAdapter(s, "mouse") EXCEPT !.listening = FALSE]

(* Fault: the finger's gesture stays with its adapter. *)
CancelTouchFault(s) ==
  [s EXCEPT !.touchPointer = NoFinger, !.drag = IF @ = "touch" THEN "none" ELSE @]

CancelTouch(s) ==
  CancelAdapter([s EXCEPT !.touchPointer = NoFinger, !.drag = IF @ = "touch" THEN "none" ELSE @],
                "touch")

-----------------------------------------------------------------------------
(* WindowsPenInput over WindowsPenRecorder                                  *)

(* A gesture that the policy has not seen begin is not pushed; after a stray *)
(* one whatever comes next is, among the samples of the others that draw.    *)
Forget(s) == [s EXCEPT !.recorded = None, !.open = FALSE, !.stray = "no"]
Astray(s) == [s EXCEPT !.crossed = @ \cup ({s.mouse, s.touch} \ {None})]
PenEnds(s) ==
  CASE s.open -> End(Forget(s), s.recorded)
    [] s.stray # "no" -> End(Astray(Forget(s)), Stray)
    [] OTHER -> Forget(s)
PenCancels(s) ==
  CASE s.open -> Cancel(Forget(s), s.recorded)
    [] s.stray # "no" -> Cancel(Astray(Forget(s)), Stray)
    [] OTHER -> Forget(s)

(* cancel_active and finish_active, for a pointer this adapter has seen go   *)
(* down and that the recorder knows. Without one nobody asks for the picks;  *)
(* and what the recorder keeps of a pointer that has left is out of reach    *)
(* once active_pointer does not name it.                                     *)
Recorded(s) == s.recorded # None \/ s.stray = "kept"
Unpick(s) == [s EXCEPT !.penActive = FALSE, !.gone = FALSE, !.picking = "no",
                       !.stray = IF s.gone /\ @ = "kept" THEN "lost" ELSE @]
CancelPen(s) == IF s.penActive /\ Recorded(s) THEN Unpick(PenCancels(s)) ELSE Unpick(s)
FinishPen(s) == IF s.penActive /\ Recorded(s) THEN Unpick(PenEnds(s)) ELSE Unpick(s)

(* The recorder takes every Begin; the policy only one on the page. *)
PenBegins(s, begin) ==
  LET g == Fresh(s, "pen")
      off == [s EXCEPT !.recorded = g, !.stray = IF @ = "no" THEN "no" ELSE "kept",
                       !.missed = @ /\ (s.drag # "none" \/ s.stray # "no")]
      on == [s EXCEPT !.recorded = g, !.open = TRUE, !.stray = "no",
                      !.missed = @ /\ s.drag # "none"] IN
  CASE begin.end = "outside" -> off
    [] begin.end = "refused" -> [on EXCEPT !.skipped = TRUE]
    [] OTHER -> LetIn(on, g, begin)

(* A move is pushed where the contact is on the page, in the view the policy *)
(* saw it begin in.                                                          *)
PenMoves(s, page) ==
  CASE s.open /\ page -> Move(s, s.recorded)
    [] ~s.open /\ page /\ s.stray = "kept" /\ ~s.gone -> Move(Astray(s), Stray)
    [] OTHER -> s

Blank(m) == m.shortcut = "none" /\ ~m.contact /\ ~m.cancelled

(* A message: its kind, whether Windows gave all of the pen's data (read), or *)
(* at least its controls (known), and the controls. Only an update tells the *)
(* want of controls from a pen of which no button is pressed.                *)
Kinds == {"down", "update", "up", "leave", "lost"}
Messages ==
  [k \in Kinds |->
     {m \in [kind : {k}, read : BOOLEAN, known : BOOLEAN, shortcut : {"none", "grab", "picker"},
              contact : BOOLEAN, cancelled : BOOLEAN] :
        /\ m.cancelled => m.shortcut = "none"
        /\ ~m.known => ~m.read /\ k = "update" /\ Blank(m)}]

(* Of the messages that are not read only the loss of the pen is recorded,   *)
(* as a Cancel of what the recorder knows.                                   *)
Record(s, m, kind, begin, page) ==
  CASE ~m.read -> IF kind = "lost" /\ Recorded(s) THEN PenCancels(s) ELSE s
    [] m.read /\ kind = "update" ->
         CASE ~m.contact -> s
           [] m.contact /\ m.cancelled -> PenCancels(s)
           [] OTHER -> PenMoves(s, page)
    [] m.read /\ kind = "down" -> IF m.cancelled THEN PenCancels(s) ELSE PenBegins(s, begin)
    [] m.read /\ kind = "up" -> IF m.cancelled THEN PenCancels(s) ELSE PenEnds(s)
    [] OTHER -> PenCancels(s)

(* The button that picks ends the stroke and begins a pick where it is       *)
(* pressed, and ends the pick where it is released.                          *)
Steers(s, m) == m.kind = "update" /\ s.penActive /\ m.known /\ ~m.cancelled
Picks(s, m) == Steers(s, m) /\ s.picking = "no" /\ m.shortcut = "picker" /\ m.contact
ObservePen(s, m, alt, begin, page) ==
  LET kind == IF Picks(s, m) THEN "down" ELSE m.kind
      t == IF Picks(s, m) THEN FinishPen(s) ELSE s IN
  CASE Steers(s, m) /\ s.picking = "barrel" /\ m.shortcut # "picker" /\ ~alt -> FinishPen(s)
    [] kind = "down" ->
         Record([Unpick(t) EXCEPT !.penActive = TRUE,
                          !.picking = CASE m.shortcut = "picker" -> "barrel"
                                        [] alt /\ m.shortcut # "picker" -> "alt"
                                        [] OTHER -> "no"], m, kind, begin, page)
    [] kind \in {"up", "lost"} -> Record(Unpick(t), m, kind, begin, page)
    [] OTHER -> Record(t, m, kind, begin, page)

-----------------------------------------------------------------------------
(* WindowsViewportInput: the drag a message begins, moves or ends; a command *)
(* the view has no room for ends it.                                        *)

MouseDrags == {"mousePrimary", "mouseMiddle"}
PenDrags == {"penContact", "penButton"}

Moved(drag, jammed) == IF jammed THEN "none" ELSE drag

(* The drag after a message of the pen, and whether the message was its.     *)
Drag(drag, mine) == [drag |-> drag, mine |-> mine]
ObserveDrag(s, m, navigates, jammed) ==
  LET dragging == s.drag \in PenDrags IN
  CASE m.kind \in {"lost", "leave"} \/ m.cancelled ->
         Drag(IF dragging THEN "none" ELSE s.drag, FALSE)
    [] m.kind = "up" /\ ~m.cancelled -> Drag(IF dragging THEN "none" ELSE s.drag, dragging)
    [] m.kind = "update" /\ ~m.cancelled /\ s.drag = "penButton" /\ m.shortcut # "grab" ->
         Drag("none", TRUE)
    [] m.kind \in {"down", "update"} /\ ~m.cancelled /\ m.shortcut = "grab" ->
         Drag(CASE dragging -> Moved(s.drag, jammed)
                [] s.drag = "none" -> "penButton"
                [] OTHER -> s.drag, TRUE)
    [] m.kind = "down" /\ ~m.cancelled /\ m.shortcut # "grab" /\ navigates ->
         Drag("penContact", TRUE)
    [] OTHER -> IF m.kind = "update" /\ dragging THEN Drag(Moved(s.drag, jammed), TRUE)
                ELSE Drag(s.drag, FALSE)

-----------------------------------------------------------------------------
(* canvas_wnd_proc *)

(* The properties remember one message only. *)
Now ==
  LET running == {w.mouse, w.touch, w.recorded} IN
  [w EXCEPT !.ended = {}, !.closed = {}, !.begun = @ \cap running,
            !.dropped = @ /\ w.stroke # NoStroke,
            !.crossed = @ \cap (running \cup w.stroke.of)]

NeedsMouse(s) == s.drag \in MouseDrags \/ s.mouse # None

(* A drag that takes over cancels what the mouse draws.                      *)
TakeOver(s) == IF s.drag # "none" /\ s.mouse # None THEN LoseMouse(s) ELSE s

(* WM_CAPTURECHANGED, also sent within ReleaseCapture                        *)
CaptureLost(s) == LoseMouse([s EXCEPT !.drag = IF @ \in MouseDrags THEN "none" ELSE @])

(* Once a message is handled the window takes the mouse or lets it go.       *)
Settle(s) ==
  CASE ~NeedsMouse(w) /\ NeedsMouse(s) -> capture' = TRUE /\ w' = s
    [] NeedsMouse(w) /\ ~NeedsMouse(s) ->
         capture' = FALSE /\ w' = IF capture THEN CaptureLost(s) ELSE s
    [] OTHER -> capture' = capture /\ w' = s

Ignore == w' = Now /\ capture' = capture

Faulty == faults < MaxFaults /\ faults' = faults + 1
Fine == faults' = faults

(* A finger on the canvas keeps the messages of the mouse out.               *)
Hears == w.touchPointer = NoFinger

-----------------------------------------------------------------------------
(* The mouse *)

LeftDown ==
  /\ "left" \notin held
  /\ held' = held \cup {"left"}
  /\ UNCHANGED <<penAt, fingers>>
  /\ \/ ~Hears /\ Fine /\ Ignore
     \/ Hears /\ Fine /\ Settle(TakeOver([Now EXCEPT !.drag = "mousePrimary"]))
     \/ /\ Hears /\ Fine
        /\ \E begin \in Begins(w), precise \in BOOLEAN :
             Settle(BeginAdapter([Now EXCEPT !.listening = TRUE], "mouse", begin, precise))
     \/ Hears /\ Faulty /\ Settle(LoseMouse(Now))

(* Without the capture the button may come up over another window.           *)
Elsewhere == ~capture /\ Fine /\ Ignore

EndMouse(s) == IF s.listening THEN EndAdapter([s EXCEPT !.listening = FALSE], "mouse") ELSE s
LeftUp ==
  /\ "left" \in held
  /\ held' = held \ {"left"}
  /\ UNCHANGED <<penAt, fingers>>
  /\ \/ Elsewhere
     \/ ~Hears /\ Fine /\ Ignore
     \/ Hears /\ w.drag = "mousePrimary" /\ Fine /\ Settle([Now EXCEPT !.drag = "none"])
     \/ Hears /\ w.drag # "mousePrimary" /\ Fine /\ Settle(EndMouse(Now))
     \/ Hears /\ w.drag # "mousePrimary" /\ w.listening /\ Faulty /\ Settle(LoseMouse(Now))

MiddleDown ==
  /\ "middle" \notin held
  /\ held' = held \cup {"middle"}
  /\ Fine /\ UNCHANGED <<penAt, fingers>>
  /\ IF Hears THEN Settle(TakeOver([Now EXCEPT !.drag = "mouseMiddle"])) ELSE Ignore

MiddleUp ==
  /\ "middle" \in held
  /\ held' = held \ {"middle"}
  /\ Fine /\ UNCHANGED <<penAt, fingers>>
  /\ \/ ~capture /\ Ignore
     \/ IF Hears /\ w.drag = "mouseMiddle" THEN Settle([Now EXCEPT !.drag = "none"])
        ELSE Ignore

(* While raw packets carry the stroke the moves of the window are ignored.   *)
MouseMoves ==
  /\ Hears /\ NeedsMouse(w)
  /\ UNCHANGED hardware
  /\ IF w.drag \in MouseDrags
     THEN Fine /\ \E jammed \in BOOLEAN : Settle(TakeOver([Now EXCEPT !.drag = Moved(@, jammed)]))
     ELSE /\ w.listening /\ ~w.precise
          /\ \/ Fine /\ Settle(MoveAdapter(Now, "mouse", FALSE))
             \/ Faulty /\ \E s \in {MoveAdapter(Now, "mouse", TRUE), LoseMouse(Now)} : Settle(s)

(* observe_raw_mouse: a packet of another device, of none or at the wrong    *)
(* time cancels the stroke that raw packets carry.                           *)
RawMouse ==
  /\ w.precise
  /\ UNCHANGED hardware
  /\ LET blocked == ~Hears \/ w.penContact \/ w.penActive \/ w.drag # "none" \/ ~capture
         let_go(s) == IF s.mouse = None /\ w.mouse # None /\ capture /\ s.drag \notin MouseDrags
                      THEN capture' = FALSE /\ w' = CaptureLost(s)
                      ELSE capture' = capture /\ w' = s IN
     \/ Fine /\ let_go(CancelAdapter(Now, "mouse"))
     \/ ~blocked /\ Fine /\ let_go(MoveAdapter(Now, "mouse", FALSE))
     \/ ~blocked /\ Faulty /\ let_go(MoveAdapter(Now, "mouse", TRUE))

(* Another window takes the mouse. *)
CaptureStolen ==
  /\ capture
  /\ capture' = FALSE /\ w' = CaptureLost(Now)
  /\ Fine /\ UNCHANGED hardware

-----------------------------------------------------------------------------
(* Touch: only the first finger counts, in Auto once the pen has not been    *)
(* near for 700 ms (a time the finger may always wait for). The editor sets  *)
(* CanvasInputMode, an atomic, at any moment: every message reads any mode.  *)

Modes == {"auto", "pen", "finger"}

AllowsTouch(mode) ==
  /\ ~w.penContact
  /\ mode \in {"finger", "auto"}
  /\ ~w.penActive /\ w.mouse = None /\ w.drag = "none"

FingerDown(f) ==
  /\ f \notin fingers
  /\ fingers' = fingers \cup {f}
  /\ UNCHANGED <<penAt, held, capture>>
  /\ \E mode \in Modes :
       LET t == [Now EXCEPT !.touchPointer = f]
           allowed == Hears /\ AllowsTouch(mode) IN
       \/ ~allowed /\ Fine /\ w' = Now
       \/ allowed /\ Fine /\ w' = [t EXCEPT !.drag = "touch"]
       \/ /\ allowed /\ Fine
          /\ \E begin \in Begins(w) : w' = BeginAdapter(t, "touch", begin, FALSE)
       \/ allowed /\ Faulty /\ w' = CancelTouch(t)

(* The palm: a pen in contact, or one that alone may draw, cancels the finger. *)
Barred(mode) == mode = "pen" \/ w.penContact \/ w.penActive

FingerMoves(f) ==
  /\ f \in fingers /\ w.touchPointer = f
  /\ UNCHANGED <<hardware, capture>>
  /\ \E mode \in Modes :
       \/ Barred(mode) /\ Fine /\ w' = CancelTouch(Now)
       \/ ~Barred(mode) /\ Faulty /\ w' \in {CancelTouch(Now)} \cup
            (IF w.drag = "touch" THEN {} ELSE {MoveAdapter(Now, "touch", TRUE)})
       \/ /\ ~Barred(mode) /\ Fine
          /\ IF w.drag = "touch"
             THEN \E jammed \in BOOLEAN : w' = [Now EXCEPT !.drag = Moved(@, jammed)]
             ELSE w' = MoveAdapter(Now, "touch", FALSE)

FingerUp(f) ==
  /\ f \in fingers
  /\ fingers' = fingers \ {f}
  /\ UNCHANGED <<penAt, held, capture>>
  /\ LET t == [Now EXCEPT !.touchPointer = NoFinger] IN
     \/ w.touchPointer # f /\ Fine /\ w' = Now
     \/ /\ w.touchPointer = f
        /\ \E mode \in Modes :
             \/ Barred(mode) /\ Fine /\ w' = CancelTouch(Now)
             \/ ~Barred(mode) /\ Faulty /\ w' = CancelTouch(Now)
             \/ /\ ~Barred(mode) /\ Fine
                /\ w' = IF w.drag = "touch" THEN [t EXCEPT !.drag = "none"]
                        ELSE EndAdapter(t, "touch")

(* Windows takes the finger back: captured elsewhere, or cancelled.          *)
FingerLost(f) ==
  /\ f \in fingers
  /\ fingers' = fingers \ {f}
  /\ Fine /\ UNCHANGED <<penAt, held, capture>>
  /\ w' = IF w.touchPointer = f THEN CancelTouch(Now) ELSE Now

-----------------------------------------------------------------------------
(* The pen *)

(* Every message of the pen keeps the palm off, in Auto; a pen in contact    *)
(* does in every mode.                                                       *)
NearPen(s, m, auto) ==
  LET touching == m.kind = "down" \/ (m.kind = "update" /\ m.contact /\ ~m.cancelled)
      t == [s EXCEPT !.penContact = touching] IN
  IF touching \/ auto THEN CancelTouch(t) ELSE t

(* After the message: the contact is over, with what was not told of it left *)
(* open, and the pen that went away is not the one that comes next.          *)
Over(s, m) ==
  CASE m.kind = "up" -> [s EXCEPT !.recorded = None, !.open = FALSE,
                                  !.stray = IF s.open THEN "kept" ELSE @]
    [] m.kind \in {"lost", "leave"} ->
         [s EXCEPT !.gone = s.penActive,
                   !.stray = IF @ = "kept" /\ ~s.penActive THEN "lost" ELSE @,
                   !.drag = IF @ \in PenDrags THEN "gone" ELSE @]
    [] OTHER -> s

Misses(s, m) == [s EXCEPT !.missed = @ \/ (~m.read /\ m.kind # "lost")]

PenMessage(m, auto, navigates, alt, jammed, begin, page) ==
  LET near == NearPen(Misses(Now, m), m, auto)
      grabs == m.kind \in {"down", "update"} /\ m.shortcut = "grab" /\ ~m.cancelled
      t == IF grabs THEN FinishPen(near) ELSE near
      view == ObserveDrag(t, m, navigates, jammed)
      s == [t EXCEPT !.drag = view.drag] IN
  Settle(Over(CASE view.mine -> TakeOver(s)
                [] m.kind = "leave" -> s
                [] OTHER -> ObservePen(s, m, alt, begin, page), m))

(* The choices a message leaves open: what it begins, the state of Alt, and  *)
(* whether the space bar or the tool drags the view. Alt and the pen's       *)
(* button make a pick.                                                       *)
Only(condition) == IF condition THEN BOOLEAN ELSE {FALSE}
Acts(m) == ~m.cancelled /\ m.shortcut # "grab"

PenBegin(m, auto, navigates, alt) ==
  LET t == NearPen(Now, m, auto)
      reads == m.shortcut = "picker" \/ alt
      begins(s) == {b \in Begins(s) : b.end = "taken" /\ reads => b.reads} IN
  CASE m.kind = "down" /\ m.read /\ Acts(m) /\ ~navigates -> begins(t)
    [] Picks(t, m) /\ m.read -> begins(FinishPen(t))
    [] OTHER -> {[end |-> "outside"]}

(* A message of which Windows does not give even the type of the pointer is  *)
(* the pen's only if the window knows the pointer.                           *)
Foreign == ~w.penContact /\ (w.gone \/ ~w.penActive)

Pen(m) ==
  /\ IF m.read \/ m.kind = "lost" THEN Fine ELSE Faulty
  /\ \/ /\ m.read \/ m.kind # "leave"
        /\ \E auto \in Only(w.touchPointer # NoFinger),
             navigates \in Only(Acts(m) /\ m.kind = "down"),
             jammed \in Only(m.kind = "update" /\ w.drag \in PenDrags),
             page \in Only(m.kind = "update" /\ m.read /\ m.contact /\ Acts(m) /\ Recorded(w)) :
           \E alt \in Only(Acts(m) /\ m.shortcut = "none" /\ ~navigates /\
                          (m.kind = "down" \/ (m.kind = "update" /\ w.picking = "barrel"))) :
             \E begin \in PenBegin(m, auto, navigates, alt) :
               PenMessage(m, auto, navigates, alt, jammed, begin, page)
     \/ ~m.read /\ Blank(m) /\ Foreign /\ w' = Over(Misses(Now, m), m) /\ capture' = capture

Near(where) == penAt' = where /\ UNCHANGED <<held, fingers>>

(* Windows reports one change at a time: the pen does not touch the screen   *)
(* in the message that releases its button.                                  *)
PenDown ==
  /\ penAt # "contact"
  /\ Near("contact")
  /\ \E m \in Messages["down"] :
       /\ m.read => m.contact /\ (w.drag = "penButton" /\ ~w.missed => m.shortcut = "grab")
       /\ ~m.read => ~m.contact
       /\ Pen(m)

PenHovers ==
  /\ penAt # "contact"
  /\ Near("hover")
  /\ \E m \in Messages["update"] : ~m.contact /\ Pen(m)

PenDraws ==
  /\ penAt = "contact"
  /\ UNCHANGED hardware
  /\ \E m \in Messages["update"] : m.contact = m.known /\ Pen(m)

PenUp ==
  /\ penAt = "contact"
  /\ Near("hover")
  /\ \E m \in Messages["up"] : ~m.contact /\ m.shortcut = "none" /\ Pen(m)

PenLeaves ==
  /\ penAt = "hover"
  /\ Near("away")
  /\ \E m \in Messages["leave"] : Blank(m) /\ Pen(m)

(* Windows takes the pen back, and may give no more of its data.             *)
PenLost ==
  /\ penAt = "contact"
  /\ Near("away")
  /\ \E m \in Messages["lost"] : Blank(m) /\ Pen(m)

-----------------------------------------------------------------------------
(* The window *)

(* WM_NAYATI_CANCEL_INPUT and WM_KILLFOCUS, which first let the mouse go     *)
CancelInput ==
  /\ capture' = FALSE
  /\ LET s == IF capture THEN CaptureLost(Now) ELSE Now
         t == CancelTouch(LoseMouse([s EXCEPT !.drag = "none"])) IN
     w' = [CancelPen(t) EXCEPT !.penContact = FALSE]
  /\ Fine /\ UNCHANGED hardware

(* The view is zoomed, dragged or resized: its revision changes.             *)
ViewChanges ==
  /\ w' = [Now EXCEPT !.stale = {k \in {"mouse", "touch"} : w[k] # None}]
  /\ w' # w
  /\ UNCHANGED <<hardware, capture, faults>>

-----------------------------------------------------------------------------
Mouse == LeftDown \/ LeftUp \/ MiddleDown \/ MiddleUp \/ MouseMoves \/ RawMouse \/ CaptureStolen
Touch == \E f \in Fingers : FingerDown(f) \/ FingerMoves(f) \/ FingerUp(f) \/ FingerLost(f)
Stylus == PenDown \/ PenHovers \/ PenDraws \/ PenUp \/ PenLeaves \/ PenLost
Window == CancelInput \/ ViewChanges

Next == Mouse \/ Touch \/ Stylus \/ Window
Spec == Init /\ [][Next]_vars

-----------------------------------------------------------------------------
(* A stroke is one gesture and a gesture one stroke: only when the mouse and *)
(* the pen drew at once, without smoothing, or a contact of the pen whose    *)
(* end was not read let later samples of it in, are samples of two gestures  *)
(* joined, and no palm, drag, button, view change, message that is not read  *)
(* or loss of the mouse keeps another gesture that was let in from closing   *)
(* as it was drawn.                                                          *)
GesturesStayWhole ==
  /\ \A stroke \in w.closed :
       \/ Cardinality(stroke.of) = 1
       \/ ~stroke.smooth /\ stroke.of \cap w.crossed # {}
       \/ Stray \in stroke.of
  /\ \A g \in w.ended \ w.crossed : \E stroke \in w.closed : stroke.of = {g}

(* Once every device has let go, so has the window: neither the mouse nor a  *)
(* finger drags or draws, the mouse is free for the other windows and the    *)
(* fingers for the touch; and unless a message of the pen was not read since *)
(* a contact of it last began, nothing is dragged and the stroke has ended,  *)
(* or the lane had no room for a move of it.                                 *)
LetGo == penAt = "away" /\ held = {} /\ fingers = {}
NothingIsHeldBack ==
  /\ capture = NeedsMouse(w)
  /\ LetGo =>
       /\ w.mouse = None /\ w.touch = None /\ w.drag \in {"none", "gone"}
       /\ ~w.penContact /\ w.touchPointer = NoFinger
       /\ \/ w.missed
          \/ w.drag = "none" /\ ~w.penActive /\ (w.stroke # NoStroke => w.dropped)
=============================================================================
