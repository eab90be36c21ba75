-------------------------- MODULE CanvasInput_proofs ---------------------------
(***************************************************************************)
(* Proofs about the canvas window's message procedure, for any fingers and *)
(* any number of messages that are not read and moves that are refused: a  *)
(* stroke is one gesture, and once every device has let go so has the      *)
(* window.                                                                 *)
(*                                                                         *)
(* The inductive invariant has two halves.  Ink says how the stroke the    *)
(* lane holds relates to the gestures that still write to it, and to the   *)
(* pen whose end was not read.  Touched, Held and Penned tie what the      *)
(* window remembers of a device to where the device is.  Every function of *)
(* the message procedure is shown to keep Ink; an action is then a matter  *)
(* of the few fields it changes.                                           *)
(***************************************************************************)
EXTENDS CanvasInput, FiniteSetTheorems, TLAPS

Turns == {"this", "next"}
AllGestures == [device : {"pen", "mouse", "touch"}, turn : Turns]
Samples == AllGestures \cup {Stray}
Of(device) == [device : {device}, turn : Turns] \cup {None}
Strokes == [of : SUBSET Samples, smooth : BOOLEAN, reads : BOOLEAN]
Closed == [of : SUBSET Samples, smooth : BOOLEAN]
Windows ==
  [penContact : BOOLEAN, touchPointer : Fingers \cup {NoFinger},
   drag : {"none", "touch", "gone"} \cup MouseDrags \cup PenDrags,
   mouse : Of("mouse"), touch : Of("touch"), stale : SUBSET {"mouse", "touch"},
   listening : BOOLEAN, precise : BOOLEAN, penActive : BOOLEAN, gone : BOOLEAN,
   picking : {"no", "barrel", "alt"}, recorded : Of("pen"), open : BOOLEAN,
   stray : {"no", "kept", "lost"}, skipped : BOOLEAN, stroke : Strokes,
   awaiting : BOOLEAN, begun : SUBSET AllGestures, crossed : SUBSET AllGestures,
   missed : BOOLEAN, dropped : BOOLEAN, ended : SUBSET AllGestures,
   closed : SUBSET Closed]

TypeOK ==
  /\ penAt \in {"away", "hover", "contact"} /\ held \subseteq {"left", "middle"}
  /\ fingers \subseteq Fingers /\ capture \in BOOLEAN /\ faults \in Nat
  /\ w \in Windows

(* The gestures whose samples reach the lane. *)
Writing(s) == ({s.mouse, s.touch} \cup (IF s.open THEN {s.recorded} ELSE {})) \ {None}

(* Touch draws alone, and the pen's policy has seen only a recorded gesture, *)
(* or one whose end was not read.                                            *)
Apart(s) ==
  /\ s.open => s.recorded # None /\ s.stray = "no"
  /\ s.touch # None => s.mouse = None /\ ~s.open
(* Only that one lets stray samples in. *)
Strayed(s) == Stray \in s.stroke.of => s.stray # "no"
(* What the lane refuses leaves it no stroke. *)
Quiet(s) ==
  /\ s.skipped \/ s.awaiting => s.stroke = NoStroke
  /\ s.stroke # NoStroke => s.stroke.of # {}
(* A device has one gesture in the stroke, and it is the one that writes. *)
Same(s) == \A h \in s.stroke.of, g \in Writing(s) : g.device = h.device => g = h
(* A gesture that writes has the stroke to itself, or everything in it but    *)
(* the stray samples was crossed.                                             *)
Joined(s) ==
  s.stroke # NoStroke =>
    \A g \in Writing(s) :
      s.stroke.of = {g} \/ {g} \cup (s.stroke.of \ {Stray}) \subseteq s.crossed
(* A gesture that was let in still draws its own stroke, unless crossed. *)
Begun(s) ==
  \A g \in s.begun \cap {s.mouse, s.touch, s.recorded} :
    g \in s.crossed \/ (g \in Writing(s) /\ s.stroke.of = {g} /\ ~s.stroke.reads)
(* Somebody draws the stroke, unless a move of it found no room or the end    *)
(* of the pen was not read.                                                   *)
Owned(s) == s.stroke # NoStroke => s.dropped \/ Writing(s) # {} \/ s.stray # "no"
(* GesturesStayWhole, without cardinalities. *)
Whole(s) ==
  /\ \A stroke \in s.closed :
       \/ \E g \in AllGestures : stroke.of = {g}
       \/ ~stroke.smooth /\ stroke.of \cap s.crossed # {}
       \/ Stray \in stroke.of
  /\ \A g \in s.ended \ s.crossed : \E stroke \in s.closed : stroke.of = {g}
Ink(s) ==
  /\ Apart(s) /\ Strayed(s) /\ Quiet(s) /\ Same(s)
  /\ Joined(s) /\ Begun(s) /\ Owned(s) /\ Whole(s)

(* Against the fingers on the screen ... *)
Touched(s, on) ==
  /\ s.touchPointer \in on \cup {NoFinger}
  /\ s.touchPointer = NoFinger => s.touch = None /\ s.drag # "touch"
  /\ s.drag = "touch" => s.touch = None
  /\ s.touchPointer # NoFinger => s.mouse = None /\ s.drag \notin MouseDrags
(* ... the buttons of the mouse that are down ... *)
Held(s, buttons) ==
  /\ s.mouse # None => s.listening /\ "left" \in buttons
  /\ s.drag = "mousePrimary" => "left" \in buttons /\ s.mouse = None
  /\ s.drag = "mouseMiddle" => "middle" \in buttons
(* ... and where the pen is, whatever message of it was not read ... *)
Placed(s, at) ==
  /\ s.penContact => at = "contact"
  /\ s.recorded # None => s.penActive /\ ~s.gone /\ at = "contact"
  /\ s.gone => s.penActive
  /\ s.drag \in PenDrags => at # "away"
(* ... or if every one was.                                                 *)
Sharp(s, at) ==
  /\ s.penActive \/ s.drag = "penContact" => at = "contact"
  /\ s.drag \in PenDrags => ~s.penActive /\ (at = "contact" => s.penContact)
  /\ s.drag # "gone" /\ ~s.gone /\ s.stray = "no"
Penned(s, at) == Placed(s, at) /\ (s.missed \/ Sharp(s, at))

IInv ==
  /\ TypeOK /\ Ink(w) /\ capture = NeedsMouse(w)
  /\ Touched(w, fingers) /\ Held(w, held) /\ Penned(w, penAt)

-----------------------------------------------------------------------------
(* What the samples become leaves alone where the hands are, and the        *)
(* adapters' own fields.                                                    *)
Keeps(s, u) ==
  /\ u.penContact = s.penContact /\ u.touchPointer = s.touchPointer
  /\ u.drag = s.drag /\ u.mouse = s.mouse /\ u.touch = s.touch /\ u.stale = s.stale
  /\ u.listening = s.listening /\ u.precise = s.precise /\ u.penActive = s.penActive
  /\ u.gone = s.gone /\ u.picking = s.picking /\ u.recorded = s.recorded /\ u.open = s.open
  /\ u.stray = s.stray /\ u.missed = s.missed

(* ... and the other way round. *)
Remembers(s, u) ==
  /\ u.skipped = s.skipped /\ u.stroke = s.stroke /\ u.awaiting = s.awaiting
  /\ u.begun = s.begun /\ u.crossed = s.crossed /\ u.dropped = s.dropped
  /\ u.ended = s.ended /\ u.closed = s.closed

(* A Begin that is let in. *)
Taken == [end : {"taken"}, smooth : BOOLEAN, reads : BOOLEAN]

Running(s) == {s.mouse, s.touch, s.recorded}

(* u is s without the gesture g. *)
Leaves(s, u, g) ==
  /\ Writing(u) \subseteq Writing(s) \ {g} /\ Running(u) \subseteq Running(s) \cup {None}
  /\ Writing(s) \cap Running(u) \subseteq Writing(u)
  /\ Remembers(s, u) /\ Apart(u)

-----------------------------------------------------------------------------
LEMMA WritingIs ==
  ASSUME NEW s \in Windows, Apart(s)
  PROVE /\ Writing(s) \subseteq AllGestures /\ Writing(s) \subseteq Running(s)
        /\ \A g, h \in Writing(s) : g.device = h.device => g = h
        /\ None \notin AllGestures /\ Stray \notin AllGestures
<1>1. None \notin AllGestures /\ Stray \notin AllGestures
  BY DEF None, Stray, Gesture, AllGestures, Turns
<1>2. \A d \in {"pen", "mouse", "touch"} : \A g \in Of(d) : g # None => g \in AllGestures /\ g.device = d
  BY DEF Of, AllGestures
<1>3. s.mouse \in Of("mouse") /\ s.touch \in Of("touch") /\ s.recorded \in Of("pen") BY DEF Windows
<1>4. \A g \in Writing(s) :
        /\ g \in AllGestures
        /\ \/ g = s.mouse /\ g.device = "mouse"
           \/ g = s.touch /\ g.device = "touch"
           \/ g = s.recorded /\ g.device = "pen"
  BY <1>2, <1>3 DEF Writing
<1> QED BY <1>1, <1>4 DEF Running

LEMMA StrokeTypes ==
  ASSUME NEW s \in Windows
  PROVE /\ s.stroke \in Strokes /\ NoStroke \in Strokes /\ NoStroke.of = {}
        /\ s.stroke.of \subseteq Samples /\ s.stroke.smooth \in BOOLEAN /\ s.stroke.reads \in BOOLEAN
        /\ s.begun \subseteq AllGestures /\ s.crossed \subseteq AllGestures
        /\ s.ended \subseteq AllGestures /\ s.closed \subseteq Closed
        /\ None \notin Samples /\ Stray \notin AllGestures /\ AllGestures \subseteq Samples
        /\ s.skipped \in BOOLEAN /\ s.awaiting \in BOOLEAN /\ s.dropped \in BOOLEAN
<1>1. None \notin Samples /\ Stray \notin AllGestures
  BY DEF None, Stray, Gesture, AllGestures, Turns, Samples
<1>2. AllGestures \subseteq Samples BY DEF Samples
<1>3. s.stroke \in Strokes /\ NoStroke \in Strokes /\ NoStroke.of = {}
  BY DEF Windows, Strokes, NoStroke
<1>4. /\ s.begun \subseteq AllGestures /\ s.crossed \subseteq AllGestures
      /\ s.ended \subseteq AllGestures /\ s.closed \subseteq Closed
      /\ s.skipped \in BOOLEAN /\ s.awaiting \in BOOLEAN /\ s.dropped \in BOOLEAN
  BY DEF Windows
<1> QED BY <1>1, <1>2, <1>3, <1>4 DEF Strokes

(* Giving up. *)
LEMMA SpoilIs ==
  ASSUME NEW s \in Windows
  PROVE /\ Spoil(s) \in Windows /\ Keeps(s, Spoil(s))
        /\ Spoil(s).stroke = NoStroke /\ Spoil(s).awaiting = TRUE /\ Spoil(s).skipped = s.skipped
        /\ Spoil(s).begun = s.begun /\ Spoil(s).crossed = s.crossed /\ Spoil(s).dropped = s.dropped
        /\ Spoil(s).ended = s.ended /\ Spoil(s).closed = s.closed
BY StrokeTypes DEF Spoil, Windows, Keeps

LEMMA CancelIs ==
  ASSUME NEW s \in Windows, NEW g
  PROVE /\ Cancel(s, g) \in Windows /\ Keeps(s, Cancel(s, g))
        /\ s.skipped \/ s.awaiting => Cancel(s, g) = s
        /\ ~s.skipped /\ ~s.awaiting => Cancel(s, g).stroke = NoStroke
        /\ Cancel(s, g).awaiting = s.awaiting /\ Cancel(s, g).skipped = s.skipped
        /\ Cancel(s, g).begun = s.begun /\ Cancel(s, g).crossed = s.crossed
        /\ Cancel(s, g).dropped = s.dropped
        /\ Cancel(s, g).ended = s.ended /\ Cancel(s, g).closed = s.closed
BY StrokeTypes DEF Cancel, Windows, Keeps

(* The End of a gesture that is not refused. *)
LEMMA EndIs ==
  ASSUME NEW s \in Windows, NEW g \in Samples
  PROVE /\ End(s, g) \in Windows /\ Keeps(s, End(s, g))
        /\ s.skipped => End(s, g) = s
        /\ ~s.skipped =>
             /\ End(s, g).skipped = s.skipped /\ End(s, g).crossed = s.crossed
             /\ End(s, g).dropped = s.dropped /\ End(s, g).begun = s.begun \ {g}
             /\ End(s, g).ended = s.ended \cup (s.begun \cap {g})
             /\ s.awaiting \/ s.stroke = NoStroke =>
                  /\ End(s, g).stroke = s.stroke /\ End(s, g).closed = s.closed
                  /\ End(s, g).awaiting = s.awaiting
             /\ ~s.awaiting /\ s.stroke # NoStroke /\ Broken(s, g) =>
                  /\ End(s, g).stroke = NoStroke /\ End(s, g).closed = s.closed
                  /\ End(s, g).awaiting = TRUE
             /\ ~s.awaiting /\ s.stroke # NoStroke /\ ~Broken(s, g) =>
                  /\ End(s, g).stroke = NoStroke /\ End(s, g).awaiting = s.awaiting
                  /\ End(s, g).closed =
                       IF s.stroke.reads THEN s.closed
                       ELSE s.closed \cup {[of |-> s.stroke.of \cup {g}, smooth |-> s.stroke.smooth]}
<1> DEFINE t == [s EXCEPT !.begun = @ \ {g}, !.ended = @ \cup (s.begun \cap {g})]
<1>1. /\ t \in Windows /\ Keeps(s, t) /\ t.skipped = s.skipped /\ t.crossed = s.crossed
      /\ t.dropped = s.dropped /\ t.begun = s.begun \ {g} /\ t.ended = s.ended \cup (s.begun \cap {g})
      /\ t.stroke = s.stroke /\ t.awaiting = s.awaiting /\ t.closed = s.closed
  BY DEF Windows, Keeps
<1>2. Broken(t, g) <=> Broken(s, g) BY <1>1 DEF Broken
<1>t. End(s, g) = IF s.skipped THEN s ELSE Close(t, g) BY DEF End
<1> HIDE DEF t
<1>3. CASE s.skipped BY <1>3, <1>t DEF Keeps
<1>4. CASE ~s.skipped
  <2>1. End(s, g) = Close(t, g) BY <1>4, <1>t
  <2>2. CASE s.awaiting \/ s.stroke = NoStroke
    <3>1. Close(t, g) = t BY <1>1, <2>2 DEF Close
    <3> QED BY <1>1, <1>4, <2>1, <2>2, <3>1
  <2>3. CASE ~s.awaiting /\ s.stroke # NoStroke /\ Broken(s, g)
    <3>1. ~(t.awaiting \/ t.stroke = NoStroke) /\ Broken(t, g) BY <1>1, <1>2, <2>3
    <3>2. Close(t, g) = Spoil(t) BY <3>1 DEF Close
    <3>3. /\ Spoil(t) \in Windows /\ Keeps(t, Spoil(t))
          /\ Spoil(t).stroke = NoStroke /\ Spoil(t).awaiting = TRUE /\ Spoil(t).skipped = t.skipped
          /\ Spoil(t).begun = t.begun /\ Spoil(t).crossed = t.crossed /\ Spoil(t).dropped = t.dropped
          /\ Spoil(t).ended = t.ended /\ Spoil(t).closed = t.closed
      BY <1>1, SpoilIs
    <3>4. End(s, g) = Spoil(t) BY <2>1, <3>2
    <3>5. Keeps(s, Spoil(t)) BY <1>1, <3>3 DEF Keeps
    <3> QED BY <1>1, <1>4, <2>3, <3>3, <3>4, <3>5
  <2>4. CASE ~s.awaiting /\ s.stroke # NoStroke /\ ~Broken(s, g)
    <3> DEFINE more == IF s.stroke.reads THEN s.closed
                       ELSE s.closed \cup {[of |-> s.stroke.of \cup {g}, smooth |-> s.stroke.smooth]}
    <3>1. more \subseteq Closed BY StrokeTypes DEF Closed
    <3>0. ~(t.awaiting \/ t.stroke = NoStroke) /\ ~Broken(t, g) /\ t.stroke = s.stroke /\ t.closed = s.closed
      BY <1>1, <1>2, <2>4
    <3>a. Close(t, g) = [t EXCEPT !.stroke = NoStroke,
                                  !.closed = IF t.stroke.reads THEN @
                                             ELSE @ \cup {[of |-> t.stroke.of \cup {g},
                                                           smooth |-> t.stroke.smooth]}]
      BY <3>0 DEF Close
    <3>2. End(s, g) = [t EXCEPT !.stroke = NoStroke, !.closed = more]
      BY <2>1, <3>0, <3>a
    <3> HIDE DEF more
    <3>b. ASSUME NEW u \in Windows, NEW v, v = [u EXCEPT !.stroke = NoStroke, !.closed = more]
          PROVE /\ v \in Windows /\ Keeps(u, v) /\ v.stroke = NoStroke /\ v.closed = more
                /\ v.skipped = u.skipped /\ v.crossed = u.crossed /\ v.dropped = u.dropped
                /\ v.begun = u.begun /\ v.ended = u.ended /\ v.awaiting = u.awaiting
      BY <3>b, <3>1, StrokeTypes DEF Windows, Keeps
    <3>3. /\ End(s, g) \in Windows /\ Keeps(t, End(s, g)) /\ End(s, g).stroke = NoStroke
          /\ End(s, g).closed = more /\ End(s, g).skipped = t.skipped
          /\ End(s, g).crossed = t.crossed /\ End(s, g).dropped = t.dropped
          /\ End(s, g).begun = t.begun /\ End(s, g).ended = t.ended /\ End(s, g).awaiting = t.awaiting
      BY <1>1, <3>2, <3>b
    <3> QED BY <1>1, <1>4, <2>4, <3>3 DEF Keeps, more
  <2> QED BY <2>2, <2>3, <2>4
<1> QED BY <1>3, <1>4

LEMMA MoveIs ==
  ASSUME NEW s \in Windows, NEW g \in Samples
  PROVE /\ Move(s, g) \in Windows /\ Keeps(s, Move(s, g))
        /\ s.skipped \/ s.awaiting \/ s.stroke = NoStroke => Move(s, g) = s
        /\ ~(s.skipped \/ s.awaiting \/ s.stroke = NoStroke) =>
             /\ Broken(s, g) => Move(s, g) = Spoil(s)
             /\ ~Broken(s, g) =>
                  /\ Move(s, g).skipped = s.skipped /\ Move(s, g).awaiting = s.awaiting
                  /\ Move(s, g).begun = s.begun /\ Move(s, g).crossed = s.crossed
                  /\ Move(s, g).dropped = s.dropped
                  /\ Move(s, g).ended = s.ended /\ Move(s, g).closed = s.closed
                  /\ Move(s, g).stroke.of = s.stroke.of \cup {g}
                  /\ Move(s, g).stroke.smooth = s.stroke.smooth
                  /\ Move(s, g).stroke.reads = s.stroke.reads
<1>1. CASE s.skipped \/ s.awaiting \/ s.stroke = NoStroke BY <1>1 DEF Move, Keeps
<1>2. CASE ~(s.skipped \/ s.awaiting \/ s.stroke = NoStroke) /\ Broken(s, g)
  BY <1>2, SpoilIs DEF Move
<1>3. CASE ~(s.skipped \/ s.awaiting \/ s.stroke = NoStroke) /\ ~Broken(s, g)
  <2> DEFINE more == [s.stroke EXCEPT !.of = @ \cup {g}]
  <2>1. more \in Strokes /\ more.of = s.stroke.of \cup {g} /\ more.smooth = s.stroke.smooth
          /\ more.reads = s.stroke.reads
    BY StrokeTypes DEF Strokes
  <2>2. Move(s, g) = [s EXCEPT !.stroke = more] BY <1>3 DEF Move, Windows
  <2> HIDE DEF more
  <2>3. \A u \in Windows : LET v == [u EXCEPT !.stroke = more] IN
             /\ v \in Windows /\ Keeps(u, v) /\ v.stroke = more
             /\ v.skipped = u.skipped /\ v.crossed = u.crossed /\ v.dropped = u.dropped
             /\ v.begun = u.begun /\ v.ended = u.ended /\ v.awaiting = u.awaiting
             /\ v.closed = u.closed
    BY <2>1 DEF Windows, Keeps
  <2> QED BY <1>3, <2>1, <2>2, <2>3
<1> QED BY <1>1, <1>2, <1>3

-----------------------------------------------------------------------------
(* A gesture that ends, or is cancelled, takes the stroke with it, and only  *)
(* a crossed gesture can lose its stroke to another.                         *)
LEMMA OthersCrossed ==
  ASSUME NEW s \in Windows, Ink(s), NEW g \in Writing(s), NEW h \in s.begun \cap Running(s), h # g
  PROVE h \in s.crossed
<1>1. h \in s.crossed \/ (h \in Writing(s) /\ s.stroke.of = {h}) BY DEF Ink, Begun, Running
<1>2. CASE s.stroke.of = {h}
  <2>1. s.stroke # NoStroke BY <1>2, StrokeTypes
  <2>2. s.stroke.of = {g} \/ {g} \cup (s.stroke.of \ {Stray}) \subseteq s.crossed BY <2>1 DEF Ink, Joined
  <2> QED BY <1>2, <2>2, StrokeTypes
<1> QED BY <1>1, <1>2

(* Whatever is left once the stroke is gone. *)
LEMMA Emptied ==
  ASSUME NEW s \in Windows, Ink(s), NEW g \in Writing(s), NEW t \in Windows, Leaves(s, t, g),
         NEW u \in Windows, Keeps(t, u), u.stroke = NoStroke, u.begun \subseteq t.begun,
         u.crossed = t.crossed,
         Whole(u)
  PROVE Ink(u)
<1>1. Writing(u) = Writing(t) /\ Running(u) = Running(t) BY DEF Writing, Running, Keeps
<1>2. Apart(u) BY DEF Apart, Keeps, Leaves
<1>3. Strayed(u) /\ Quiet(u) /\ Same(u) /\ Joined(u) /\ Owned(u)
  BY StrokeTypes DEF Strayed, Quiet, Same, Joined, Owned
<1>4. Begun(u)
  <2> SUFFICES ASSUME NEW h \in u.begun \cap Running(u) PROVE h \in u.crossed BY DEF Begun, Running
  <2>1. h \in s.begun \cap Running(s)
    <3>1. h # None BY StrokeTypes
    <3> QED BY <1>1, <3>1 DEF Leaves, Remembers
  <2>2. CASE h # g BY <2>1, <2>2, OthersCrossed DEF Leaves, Remembers
  <2>3. CASE h = g
    <3>1. g \notin Writing(t) /\ g \in Running(t) BY <1>1, <2>3 DEF Leaves
    <3> QED BY <3>1 DEF Leaves
  <2> QED BY <2>2, <2>3
<1> QED BY <1>2, <1>3, <1>4 DEF Ink

LEMMA Cancels ==
  ASSUME NEW s \in Windows, Ink(s), NEW g \in Writing(s), NEW t \in Windows, Leaves(s, t, g)
  PROVE /\ Cancel(t, g) \in Windows /\ Ink(Cancel(t, g)) /\ Keeps(t, Cancel(t, g))
        /\ Cancel(t, g).stroke = NoStroke
<1> DEFINE u == Cancel(t, g)
<1>1. /\ u \in Windows /\ Keeps(t, u) /\ u.begun = t.begun /\ u.crossed = t.crossed
      /\ u.ended = t.ended /\ u.closed = t.closed
      /\ t.skipped \/ t.awaiting => u = t
      /\ ~t.skipped /\ ~t.awaiting => u.stroke = NoStroke
  BY CancelIs
<1>2. u.stroke = NoStroke
  <2>1. s.skipped \/ s.awaiting => s.stroke = NoStroke BY DEF Ink, Quiet
  <2> QED BY <1>1, <2>1 DEF Leaves, Remembers
<1> HIDE DEF u
<1>3. Whole(u) BY <1>1 DEF Ink, Whole, Leaves, Remembers
<1>4. Ink(u) BY <1>1, <1>2, <1>3, Emptied
<1> QED BY <1>1, <1>2, <1>4 DEF u

LEMMA Ends ==
  ASSUME NEW s \in Windows, Ink(s), NEW g \in Writing(s), NEW t \in Windows, Leaves(s, t, g)
  PROVE /\ End(t, g) \in Windows /\ Ink(End(t, g)) /\ Keeps(t, End(t, g))
        /\ End(t, g).stroke = NoStroke
        /\ g \in End(t, g).begun => g \in End(t, g).crossed
        /\ s.begun \ {g} \subseteq End(t, g).begun /\ End(t, g).begun \subseteq s.begun
        /\ End(t, g).crossed = s.crossed
<1> DEFINE u == End(t, g)
<1>0. Apart(s) BY DEF Ink
<1>1. g \in AllGestures /\ g \in Samples /\ g \in Running(s) /\ g # Stray
  BY <1>0, WritingIs, StrokeTypes
<1>2. /\ t.stroke = s.stroke /\ t.skipped = s.skipped /\ t.awaiting = s.awaiting
      /\ t.begun = s.begun /\ t.crossed = s.crossed /\ t.ended = s.ended /\ t.closed = s.closed
  BY DEF Leaves, Remembers
<1>3. s.skipped \/ s.awaiting => s.stroke = NoStroke BY DEF Ink, Quiet
<1>4. CASE s.skipped
  <2>1. u = t BY <1>1, <1>2, <1>4, EndIs
  <2>2. Keeps(t, t) BY DEF Keeps
  <2>3. Whole(t) BY <1>2 DEF Ink, Whole
  <2>4. Ink(t) BY <1>2, <1>3, <1>4, <2>2, <2>3, Emptied
  <2>5. g \in s.begun => g \in s.crossed
    <3>1. g \in s.begun => g \in s.crossed \/ s.stroke.of = {g} BY <1>1 DEF Ink, Begun, Running
    <3>2. s.stroke.of = {} BY <1>3, <1>4, StrokeTypes
    <3> QED BY <3>1, <3>2
  <2> QED BY <1>2, <1>3, <1>4, <2>1, <2>2, <2>4, <2>5
<1>5. CASE ~s.skipped
  <2>1. /\ u \in Windows /\ Keeps(t, u) /\ u.crossed = s.crossed /\ u.begun = s.begun \ {g}
        /\ u.ended = s.ended \cup (s.begun \cap {g})
        /\ s.awaiting \/ s.stroke = NoStroke => u.stroke = s.stroke /\ u.closed = s.closed
        /\ ~s.awaiting /\ s.stroke # NoStroke /\ Broken(t, g) =>
             u.stroke = NoStroke /\ u.closed = s.closed
        /\ ~s.awaiting /\ s.stroke # NoStroke /\ ~Broken(t, g) =>
             /\ u.stroke = NoStroke
             /\ u.closed = IF s.stroke.reads THEN s.closed
                           ELSE s.closed \cup {[of |-> s.stroke.of \cup {g}, smooth |-> s.stroke.smooth]}
    <3>1. ~t.skipped BY <1>2, <1>5
    <3>2. /\ u \in Windows /\ Keeps(t, u) /\ u.crossed = t.crossed /\ u.begun = t.begun \ {g}
          /\ u.ended = t.ended \cup (t.begun \cap {g})
          /\ t.awaiting \/ t.stroke = NoStroke => u.stroke = t.stroke /\ u.closed = t.closed
          /\ ~t.awaiting /\ t.stroke # NoStroke /\ Broken(t, g) =>
               u.stroke = NoStroke /\ u.closed = t.closed
          /\ ~t.awaiting /\ t.stroke # NoStroke /\ ~Broken(t, g) =>
               /\ u.stroke = NoStroke
               /\ u.closed = IF t.stroke.reads THEN t.closed
                             ELSE t.closed \cup {[of |-> t.stroke.of \cup {g}, smooth |-> t.stroke.smooth]}
      BY <1>1, <3>1, EndIs
    <3> HIDE DEF u
    <3> QED BY <1>2, <3>2
  <2> HIDE DEF u
  <2>2. Broken(t, g) <=> Broken(s, g) BY <1>2 DEF Broken
  <2>3. u.stroke = NoStroke BY <1>3, <2>1
  <2>4. s.stroke # NoStroke => s.stroke.of = {g} \/ {g} \cup (s.stroke.of \ {Stray}) \subseteq s.crossed
    BY DEF Ink, Joined
  <2>5. \A stroke \in u.closed :
          \/ \E h \in AllGestures : stroke.of = {h}
          \/ ~stroke.smooth /\ stroke.of \cap u.crossed # {}
          \/ Stray \in stroke.of
    <3> SUFFICES ASSUME NEW stroke \in u.closed, stroke \notin s.closed
                 PROVE \/ \E h \in AllGestures : stroke.of = {h}
                       \/ ~stroke.smooth /\ stroke.of \cap u.crossed # {}
                       \/ Stray \in stroke.of
      BY <2>1 DEF Ink, Whole
    <3>1. /\ ~s.awaiting /\ s.stroke # NoStroke /\ ~Broken(s, g) /\ ~s.stroke.reads
          /\ stroke = [of |-> s.stroke.of \cup {g}, smooth |-> s.stroke.smooth]
      BY <2>1, <2>2
    <3>2. CASE s.stroke.smooth
      <4>1. \A h \in s.stroke.of : h.device = g.device BY <3>1, <3>2 DEF Broken
      <4>2. \A h \in s.stroke.of : h = g BY <4>1 DEF Ink, Same
      <4> QED BY <1>1, <3>1, <4>2
    <3>3. CASE ~s.stroke.smooth
      <4>1. CASE s.stroke.of = {g} BY <1>1, <3>1, <4>1
      <4>2. CASE {g} \cup (s.stroke.of \ {Stray}) \subseteq s.crossed BY <2>1, <3>1, <3>3, <4>2
      <4> QED BY <2>4, <3>1, <4>1, <4>2
    <3> QED BY <3>2, <3>3, StrokeTypes
  <2>6. \A h \in u.ended \ u.crossed : \E stroke \in u.closed : stroke.of = {h}
    <3>0. s.closed \subseteq u.closed BY <2>1, StrokeTypes
    <3> SUFFICES ASSUME NEW h \in u.ended \ u.crossed, h \notin s.ended
                 PROVE \E stroke \in u.closed : stroke.of = {h}
      BY <2>1, <3>0 DEF Ink, Whole
    <3>1. h = g /\ g \in s.begun /\ g \notin s.crossed BY <2>1
    <3>2. s.stroke.of = {g} /\ ~s.stroke.reads BY <1>1, <3>1 DEF Ink, Begun, Running
    <3>3. s.stroke # NoStroke BY <3>2, StrokeTypes
    <3>4. ~s.awaiting /\ ~Broken(s, g) BY <1>3, <3>2, <3>3 DEF Broken
    <3>5. [of |-> s.stroke.of \cup {g}, smooth |-> s.stroke.smooth] \in u.closed
      BY <2>1, <2>2, <3>2, <3>3, <3>4
    <3>6. [of |-> s.stroke.of \cup {g}, smooth |-> s.stroke.smooth].of = {h} BY <3>1, <3>2
    <3> QED BY <3>5, <3>6
  <2>7. Ink(u)
    <3>1. Whole(u) BY <2>5, <2>6 DEF Whole
    <3> QED BY <1>2, <2>1, <2>3, <3>1, Emptied
  <2> QED BY <1>2, <2>1, <2>3, <2>7 DEF u
<1> QED BY <1>4, <1>5, StrokeTypes

LEMMA Moves ==
  ASSUME NEW s \in Windows, Ink(s), NEW g \in Writing(s)
  PROVE /\ Move(s, g) \in Windows /\ Ink(Move(s, g)) /\ Keeps(s, Move(s, g))
<1> DEFINE u == Move(s, g)
<1>0. Apart(s) BY DEF Ink
<1>1. g \in AllGestures /\ g \in Samples /\ g \in Running(s) /\ g # Stray
  BY <1>0, WritingIs, StrokeTypes
<1>2. u \in Windows /\ Keeps(s, u) BY <1>1, MoveIs
<1>3. Writing(u) = Writing(s) /\ Running(u) = Running(s) /\ Apart(u)
  BY <1>0, <1>2 DEF Writing, Running, Keeps, Apart
<1>4. CASE s.skipped \/ s.awaiting \/ s.stroke = NoStroke BY <1>1, <1>2, <1>4, MoveIs
<1>5. CASE ~(s.skipped \/ s.awaiting \/ s.stroke = NoStroke) /\ Broken(s, g)
  <2>1. u = Spoil(s) BY <1>1, <1>5, MoveIs
  <2>2. u.stroke = NoStroke /\ u.begun = s.begun /\ u.crossed = s.crossed
          /\ u.ended = s.ended /\ u.closed = s.closed
    BY <2>1, SpoilIs
  <2> HIDE DEF u
  <2>3. Strayed(u) /\ Quiet(u) /\ Same(u) /\ Joined(u) /\ Owned(u) /\ Whole(u)
    BY <2>2, StrokeTypes DEF Strayed, Quiet, Same, Joined, Owned, Whole, Ink
  <2>4. Begun(u)
    <3> SUFFICES ASSUME NEW h \in u.begun \cap Running(u) PROVE h \in u.crossed BY DEF Begun, Running
    <3>1. CASE h # g BY <1>3, <2>2, <3>1, OthersCrossed
    <3>2. CASE h = g
      <4>1. s.stroke.of # {g} BY <1>5 DEF Broken
      <4> QED BY <1>3, <2>2, <3>2, <4>1 DEF Ink, Begun, Running
    <3> QED BY <3>1, <3>2
  <2>5. Ink(u) BY <1>3, <2>3, <2>4 DEF Ink
  <2> QED BY <1>2, <2>5 DEF u
<1>6. CASE ~(s.skipped \/ s.awaiting \/ s.stroke = NoStroke) /\ ~Broken(s, g)
  <2>1. /\ u.skipped = s.skipped /\ u.awaiting = s.awaiting /\ u.begun = s.begun
        /\ u.crossed = s.crossed /\ u.dropped = s.dropped /\ u.ended = s.ended
        /\ u.closed = s.closed /\ u.stroke.of = s.stroke.of \cup {g}
        /\ u.stroke.smooth = s.stroke.smooth /\ u.stroke.reads = s.stroke.reads
    BY <1>1, <1>6, MoveIs
  <2> HIDE DEF u
  <2>2. u.stroke # NoStroke /\ u.stroke.of # {} BY <2>1, StrokeTypes
  <2>3. s.stroke.of = {g} \/ {g} \cup (s.stroke.of \ {Stray}) \subseteq s.crossed BY <1>6 DEF Ink, Joined
  <2>4. \A h \in Writing(s) : s.stroke.of = {h} \/ {h} \cup (s.stroke.of \ {Stray}) \subseteq s.crossed
    BY <1>6 DEF Ink, Joined
  <2>5. Quiet(u) /\ Strayed(u) BY <1>1, <1>2, <1>6, <2>1, <2>2 DEF Quiet, Strayed, Keeps, Ink
  <2>6. Same(u)
    <3>1. \A h \in s.stroke.of, x \in Writing(s) : x.device = h.device => x = h BY DEF Ink, Same
    <3>2. \A x \in Writing(s) : x.device = g.device => x = g BY <1>0, WritingIs
    <3> QED BY <1>3, <2>1, <3>1, <3>2 DEF Same
  <2>7. Joined(u)
    <3> SUFFICES ASSUME NEW h \in Writing(s)
                 PROVE u.stroke.of = {h} \/ {h} \cup (u.stroke.of \ {Stray}) \subseteq u.crossed
      BY <1>3 DEF Joined
    <3>1. h # Stray BY <1>0, WritingIs
    <3> QED BY <2>1, <2>3, <2>4, <3>1
  <2>8. Begun(u)
    <3> SUFFICES ASSUME NEW h \in s.begun \cap Running(s), h \notin s.crossed
                 PROVE h \in Writing(s) /\ u.stroke.of = {h} /\ ~u.stroke.reads
      BY <1>3, <2>1 DEF Begun, Running
    <3>1. h = g BY OthersCrossed
    <3>2. s.stroke.of = {h} /\ ~s.stroke.reads BY DEF Ink, Begun, Running
    <3> QED BY <2>1, <3>1, <3>2
  <2>9. Owned(u) BY <1>3 DEF Owned
  <2>10. Whole(u) BY <2>1 DEF Whole, Ink
  <2>11. Ink(u) BY <1>3, <2>5, <2>6, <2>7, <2>8, <2>9, <2>10 DEF Ink
  <2> QED BY <1>2, <2>11 DEF u
<1> QED BY <1>4, <1>5, <1>6

(* A Begin that is let in.  Of the gestures that still write each must be    *)
(* crossed with it.                                                          *)
LEMMA LetInIs ==
  ASSUME NEW s \in Windows, NEW g \in AllGestures, NEW begin \in Taken,
         Crossing(s, g) \subseteq AllGestures
  PROVE LET u == LetIn(s, g, begin) IN
        /\ u \in Windows /\ Keeps(s, u)
        /\ u.skipped = FALSE /\ u.awaiting = FALSE /\ u.dropped = FALSE
        /\ u.stroke = [of |-> {g}, smooth |-> begin.smooth, reads |-> begin.reads]
        /\ u.begun = (IF begin.reads THEN s.begun ELSE s.begun \cup {g})
        /\ u.crossed = s.crossed \cup Crossing(s, g)
        /\ u.ended = s.ended /\ u.closed = s.closed
<1> DEFINE stroke == [of |-> {g}, smooth |-> begin.smooth, reads |-> begin.reads]
           begun == IF begin.reads THEN s.begun ELSE s.begun \cup {g}
           crossed == s.crossed \cup Crossing(s, g)
           u == LetIn(s, g, begin)
<1>1. stroke \in Strokes /\ begun \subseteq AllGestures /\ crossed \subseteq AllGestures
  BY StrokeTypes DEF Strokes, Taken
<1>2. u = [s EXCEPT !.skipped = FALSE, !.awaiting = FALSE, !.dropped = FALSE,
                    !.stroke = stroke, !.begun = begun, !.crossed = crossed]
  BY DEF LetIn
<1> HIDE DEF stroke, begun, crossed, u
<1>3. ASSUME NEW v, v = [s EXCEPT !.skipped = FALSE, !.awaiting = FALSE, !.dropped = FALSE,
                                  !.stroke = stroke, !.begun = begun, !.crossed = crossed]
      PROVE /\ v \in Windows /\ Keeps(s, v)
            /\ v.skipped = FALSE /\ v.awaiting = FALSE /\ v.dropped = FALSE
            /\ v.stroke = stroke /\ v.begun = begun /\ v.crossed = crossed
            /\ v.ended = s.ended /\ v.closed = s.closed
  BY <1>1, <1>3 DEF Windows, Keeps
<1>4. /\ u \in Windows /\ Keeps(s, u)
      /\ u.skipped = FALSE /\ u.awaiting = FALSE /\ u.dropped = FALSE
      /\ u.stroke = stroke /\ u.begun = begun /\ u.crossed = crossed
      /\ u.ended = s.ended /\ u.closed = s.closed
  BY <1>2, <1>3
<1> QED BY <1>4 DEF stroke, begun, crossed, u

LEMMA BeginsAre ==
  ASSUME NEW s, NEW b \in Begins(s), b.end # "outside", b.end # "refused"
  PROVE b \in Taken
BY DEF Begins, Taken

LEMMA LetsIn ==
  ASSUME NEW s \in Windows, Ink(s), NEW t \in Windows, Remembers(s, t), Apart(t),
         NEW g \in Writing(t), g \in s.begun => g \in s.crossed,
         Running(t) \subseteq Running(s) \cup {g}, Writing(s) \cap Running(t) \subseteq Writing(t),
         Crossing(t, g) \subseteq AllGestures,
         \A h \in Writing(t) \ {g} : {g, h} \subseteq Crossing(t, g),
         NEW begin \in Taken
  PROVE LET u == LetIn(t, g, begin) IN u \in Windows /\ Ink(u) /\ Keeps(t, u)
<1> DEFINE u == LetIn(t, g, begin)
<1>1. g \in AllGestures BY WritingIs
<1>2. /\ u \in Windows /\ Keeps(t, u)
      /\ u.skipped = FALSE /\ u.awaiting = FALSE /\ u.dropped = FALSE
      /\ u.stroke = [of |-> {g}, smooth |-> begin.smooth, reads |-> begin.reads]
      /\ u.begun = (IF begin.reads THEN t.begun ELSE t.begun \cup {g})
      /\ u.crossed = t.crossed \cup Crossing(t, g)
      /\ u.ended = t.ended /\ u.closed = t.closed
  BY <1>1, LetInIs
<1> HIDE DEF u
<1>3. Writing(u) = Writing(t) /\ Running(u) = Running(t) /\ Apart(u)
  BY <1>2 DEF Writing, Running, Keeps, Apart
<1>4. u.stroke.of = {g} /\ u.stroke.reads = begin.reads BY <1>2
<1>5. Quiet(u) /\ Strayed(u) BY <1>1, <1>2, <1>4, StrokeTypes DEF Quiet, Strayed
<1>6. Same(u) BY <1>3, <1>4, WritingIs DEF Same
<1>7. Joined(u) BY <1>2, <1>3, <1>4 DEF Joined
<1>8. Owned(u) BY <1>3 DEF Owned
<1>9. Begun(u)
  <2> SUFFICES ASSUME NEW h \in u.begun \cap Running(u), h \notin u.crossed
               PROVE h \in Writing(u) /\ u.stroke.of = {h} /\ ~u.stroke.reads
    BY DEF Begun, Running
  <2>1. CASE h = g BY <1>2, <1>3, <1>4, <2>1 DEF Remembers
  <2>2. CASE h # g
    <3>1. h \in s.begun \cap Running(s) /\ h \notin s.crossed BY <1>2, <1>3, <2>2 DEF Remembers
    <3>2. h \in Writing(s) BY <3>1 DEF Ink, Begun, Running
    <3>3. h \in Writing(t) BY <1>3, <3>2
    <3> QED BY <1>2, <2>2, <3>3
  <2> QED BY <2>1, <2>2
<1>10. Whole(u) BY <1>2 DEF Whole, Ink, Remembers
<1> QED BY <1>2, <1>3, <1>5, <1>6, <1>7, <1>8, <1>9, <1>10 DEF Ink, u

(* A gesture that the lane did not let in. *)
LEMMA Refuses ==
  ASSUME NEW s \in Windows, Ink(s), NEW u \in Windows, Apart(u),
         u.skipped => u.stroke = NoStroke, u.awaiting = s.awaiting,
         u.stroke = s.stroke, u.begun = s.begun, u.crossed = s.crossed, u.ended = s.ended,
         u.closed = s.closed, u.dropped = s.dropped,
         NEW g, g \in s.begun => g \in s.crossed,
         Running(u) \subseteq Running(s) \cup {g}, Writing(s) \cap Running(u) \subseteq Writing(u),
         Writing(u) \subseteq Writing(s) \/ u.stroke = NoStroke,
         s.stray # "no" => u.stray # "no",
         u.stroke = NoStroke \/ u.dropped \/ Writing(u) # {} \/ u.stray # "no"
  PROVE Ink(u)
<1>1. Quiet(u) /\ Strayed(u) BY DEF Quiet, Strayed, Ink
<1>2. Same(u) /\ Joined(u) BY StrokeTypes DEF Same, Joined, Ink
<1>3. Owned(u) BY DEF Owned
<1>4. Begun(u) BY DEF Begun, Running, Ink
<1>5. Whole(u) BY DEF Whole, Ink
<1> QED BY <1>1, <1>2, <1>3, <1>4, <1>5 DEF Ink
-----------------------------------------------------------------------------
(* The two mouse-like adapters.  Steady is what neither touches.            *)
Adapters == {"mouse", "touch"}
Steady(s, u) ==
  /\ u.penContact = s.penContact /\ u.touchPointer = s.touchPointer
  /\ u.drag = s.drag /\ u.listening = s.listening /\ u.penActive = s.penActive
  /\ u.gone = s.gone /\ u.picking = s.picking /\ u.recorded = s.recorded /\ u.open = s.open
  /\ u.stray = s.stray /\ u.missed = s.missed

(* u is s with the slot of adapter k at g. *)
Slots(s, u, k, g) ==
  /\ k = "mouse" => u.mouse = g /\ u.touch = s.touch
  /\ k = "touch" => u.touch = g /\ u.mouse = s.mouse

LEMMA RestsAre ==
  ASSUME NEW s
  PROVE /\ Rest(s, "mouse") = [s EXCEPT !.mouse = None, !.stale = @ \ {"mouse"}, !.precise = FALSE]
        /\ Rest(s, "touch") =
             [s EXCEPT !.touch = None, !.stale = @ \ {"touch"}, !.precise = s.precise]
<1>1. Rest(s, "mouse") = [s EXCEPT !.mouse = None, !.stale = @ \ {"mouse"}, !.precise = FALSE]
  BY DEF Rest
<1>2. Rest(s, "touch") =
        [s EXCEPT !.touch = None, !.stale = @ \ {"touch"}, !.precise = s.precise]
  BY DEF Rest
<1> QED BY <1>1, <1>2

LEMMA RestIs ==
  ASSUME NEW s \in Windows, NEW k \in Adapters
  PROVE /\ Rest(s, k) \in Windows /\ Steady(s, Rest(s, k)) /\ Remembers(s, Rest(s, k))
        /\ Slots(s, Rest(s, k), k, None)
<1> DEFINE Rests(j) == /\ Rest(s, j) \in Windows /\ Steady(s, Rest(s, j)) /\ Remembers(s, Rest(s, j))
                       /\ Slots(s, Rest(s, j), j, None)
<1>1. Rests("mouse")
  <2>1. Rest(s, "mouse") = [s EXCEPT !.mouse = None, !.stale = @ \ {"mouse"}, !.precise = FALSE]
    BY RestsAre
  <2> DEFINE stale == s.stale \ {"mouse"}
  <2>2. stale \in SUBSET {"mouse", "touch"} /\ None \in Of("mouse") /\ s.precise \in BOOLEAN
    BY DEF Windows, Of
  <2>3. Rest(s, "mouse") = [s EXCEPT !.mouse = None, !.stale = stale, !.precise = FALSE] BY <2>1
  <2> HIDE DEF stale
  <2>4. ASSUME NEW v, v = [s EXCEPT !.mouse = None, !.stale = stale, !.precise = FALSE]
        PROVE /\ v \in Windows /\ Steady(s, v) /\ Remembers(s, v) /\ Slots(s, v, "mouse", None)
    BY <2>2, <2>4 DEF Windows, Steady, Remembers, Slots
  <2> QED BY <2>3, <2>4
<1>2. Rests("touch")
  <2>1. Rest(s, "touch") =
          [s EXCEPT !.touch = None, !.stale = @ \ {"touch"}, !.precise = s.precise]
    BY RestsAre
  <2> DEFINE stale == s.stale \ {"touch"}
  <2>2. stale \in SUBSET {"mouse", "touch"} /\ None \in Of("touch") /\ s.precise \in BOOLEAN
    BY DEF Windows, Of
  <2>3. Rest(s, "touch") = [s EXCEPT !.touch = None, !.stale = stale, !.precise = s.precise] BY <2>1
  <2> HIDE DEF stale
  <2>4. ASSUME NEW v, v = [s EXCEPT !.touch = None, !.stale = stale, !.precise = s.precise]
        PROVE /\ v \in Windows /\ Steady(s, v) /\ Remembers(s, v) /\ Slots(s, v, "touch", None)
    BY <2>2, <2>4 DEF Windows, Steady, Remembers, Slots
  <2> QED BY <2>3, <2>4
<1> HIDE DEF Rests
<1>3. Rests(k) BY <1>1, <1>2 DEF Adapters
<1> QED BY <1>3 DEF Rests

LEMMA RestLeaves ==
  ASSUME NEW s \in Windows, Ink(s), NEW k \in Adapters
  PROVE /\ s[k] # None => s[k] \in Writing(s) /\ Leaves(s, Rest(s, k), s[k])
        /\ s[k] = None => Ink(Rest(s, k)) /\ Writing(Rest(s, k)) = Writing(s)
<1> DEFINE u == Rest(s, k)
<1>1. u \in Windows /\ Steady(s, u) /\ Remembers(s, u) /\ Slots(s, u, k, None) BY RestIs
<1>2. Apart(s) BY DEF Ink
<1> HIDE DEF u
<1>3. Apart(u) BY <1>1, <1>2 DEF Apart, Steady, Slots, Adapters
<1>4. s[k] = IF k = "mouse" THEN s.mouse ELSE s.touch BY DEF Adapters, Windows
<1>5. CASE s[k] # None
  <2>1. s[k] \in Writing(s) BY <1>4, <1>5 DEF Writing
  <2>2. Running(u) \subseteq Running(s) \cup {None} /\ Writing(u) \subseteq Writing(s)
    BY <1>1 DEF Running, Writing, Steady, Slots, Adapters
  <2>3. \A g, h \in Writing(s) : g.device = h.device => g = h BY <1>2, WritingIs
  <2>4. /\ s.mouse \in Of("mouse") /\ s.touch \in Of("touch") /\ s.recorded \in Of("pen") BY DEF Windows
  <2>5. s[k] \notin Writing(u) BY <1>1, <1>4, <1>5, <2>4 DEF Writing, Steady, Slots, Adapters, Of
  <2>6. Writing(s) \cap Running(u) \subseteq Writing(u)
    BY <1>1, <2>4 DEF Writing, Running, Steady, Slots, Adapters, Of
  <2> QED BY <1>1, <1>3, <1>5, <2>1, <2>2, <2>5, <2>6 DEF Leaves, u
<1>6. CASE s[k] = None
  <2>1. u.mouse = s.mouse /\ u.touch = s.touch BY <1>1, <1>4, <1>6 DEF Slots, Adapters
  <2>2. Writing(u) = Writing(s) /\ Running(u) = Running(s)
    BY <1>1, <2>1 DEF Writing, Running, Steady
  <2>3. Ink(u)
    BY <1>1, <1>3, <2>2
      DEF Ink, Strayed, Quiet, Same, Joined, Begun, Owned, Whole, Remembers, Running, Steady
  <2> QED BY <1>6, <2>2, <2>3 DEF u
<1> QED BY <1>5, <1>6

LEMMA CancelAdapterIs ==
  ASSUME NEW s \in Windows, Ink(s), NEW k \in Adapters
  PROVE LET u == CancelAdapter(s, k) IN
        /\ u \in Windows /\ Ink(u) /\ Steady(s, u) /\ Slots(s, u, k, None)
        /\ u.begun = s.begun /\ u.crossed = s.crossed
        /\ s.stroke = NoStroke => u.stroke = NoStroke
<1> DEFINE t == Rest(s, k)
           u == CancelAdapter(s, k)
<1>1. t \in Windows /\ Steady(s, t) /\ Remembers(s, t) /\ Slots(s, t, k, None) BY RestIs
<1>2. CASE s[k] = None
  <2>1. u = t BY <1>2 DEF CancelAdapter
  <2>2. Ink(t) BY <1>2, RestLeaves
  <2> HIDE DEF t, u
  <2> QED BY <1>1, <2>1, <2>2 DEF Remembers, u
<1>3. CASE s[k] # None
  <2>1. u = Cancel(t, s[k]) BY <1>3 DEF CancelAdapter
  <2>2. s[k] \in Writing(s) /\ Leaves(s, t, s[k]) BY <1>3, RestLeaves
  <2> HIDE DEF t, u
  <2>3. u \in Windows /\ Ink(u) /\ Keeps(t, u) /\ u.stroke = NoStroke BY <1>1, <2>1, <2>2, Cancels
  <2>4. u.begun = t.begun /\ u.crossed = t.crossed BY <1>1, <2>1, CancelIs
  <2> QED BY <1>1, <2>3, <2>4 DEF Keeps, Steady, Slots, Remembers, u
<1> QED BY <1>2, <1>3

(* A Begin that is not let in marks the lane at most. *)
LEMMA SkipsIs ==
  ASSUME NEW s \in Windows, Ink(s), s.stroke = NoStroke, NEW v, v = [s EXCEPT !.skipped = TRUE]
  PROVE v \in Windows /\ Ink(v) /\ Keeps(s, v)
<1>1. v \in Windows /\ Keeps(s, v) BY DEF Windows, Keeps
<1>2. /\ v.stroke = s.stroke /\ v.awaiting = s.awaiting /\ v.begun = s.begun
      /\ v.crossed = s.crossed /\ v.dropped = s.dropped /\ v.ended = s.ended /\ v.closed = s.closed
  BY DEF Windows
<1>3. Writing(v) = Writing(s) /\ Running(v) = Running(s) BY <1>1 DEF Writing, Running, Keeps
<1>4. Apart(v) BY <1>1 DEF Apart, Keeps, Ink
<1>5. None \notin s.begun /\ v.stray = s.stray BY <1>1, StrokeTypes DEF Keeps
<1>6. Ink(v) BY <1>1, <1>2, <1>3, <1>4, <1>5, Refuses
<1> QED BY <1>1, <1>6

LEMMA BeginAdapterIs ==
  ASSUME NEW s \in Windows, Ink(s), NEW k \in Adapters, s[k] = None, NEW begin \in Begins(s),
         NEW precise \in BOOLEAN,
         \A g \in s.begun : g.device = k => g \in s.crossed,
         k = "mouse" => s.touch = None /\ (s.open => penAt = "contact"),
         k = "touch" => s.mouse = None /\ ~s.open
  PROVE LET u == BeginAdapter(s, k, begin, precise) IN
        /\ u \in Windows /\ Ink(u) /\ Steady(s, u)
        /\ k = "mouse" => u.touch = s.touch
        /\ k = "touch" => u.mouse = s.mouse
<1> DEFINE t == Rest(s, k)
           g == Fresh(s, k)
           u == BeginAdapter(s, k, begin, precise)
           bold == IF k = "mouse" THEN precise ELSE t.precise
           v == [t EXCEPT ![k] = g, !.precise = bold]
<1>1. t \in Windows /\ Steady(s, t) /\ Remembers(s, t) /\ Slots(s, t, k, None) BY RestIs
<1>2. Ink(t) /\ Writing(t) = Writing(s) BY RestLeaves
<1>3. CancelAdapter(s, k) = t BY DEF CancelAdapter
<1>4. g \in Of(k) /\ g \in AllGestures /\ g.device = k /\ g # None
  BY DEF Fresh, Gesture, Of, Adapters, AllGestures, Turns, None
<1>5. CASE begin.end = "outside"
  <2>1. u = t BY <1>3, <1>5 DEF BeginAdapter
  <2> HIDE DEF t, u
  <2> QED BY <1>1, <1>2, <2>1 DEF Slots, u
<1>6. CASE begin.end = "refused"
  <2>1. u = [t EXCEPT !.skipped = TRUE] BY <1>3, <1>6 DEF BeginAdapter
  <2>2. t.stroke = NoStroke BY <1>1, <1>6 DEF Begins, Remembers
  <2> HIDE DEF t, u
  <2>3. u \in Windows /\ Ink(u) /\ Keeps(t, u) BY <1>1, <1>2, <2>1, <2>2, SkipsIs
  <2> QED BY <1>1, <2>3 DEF Keeps, Steady, Slots, u
<1>7. CASE begin.end # "outside" /\ begin.end # "refused"
  <2>1. u = LetIn(v, g, begin) BY <1>3, <1>7 DEF BeginAdapter
  <2>2. begin \in Taken BY <1>7, BeginsAre
  <2> HIDE DEF t, g, u
  <2>3. v \in Windows /\ Steady(t, v) /\ Remembers(t, v) /\ Slots(t, v, k, g)
    <3>1. bold \in BOOLEAN BY <1>1 DEF Windows
    <3> HIDE DEF bold
    <3>2. CASE k = "mouse"
      <4>1. v = [t EXCEPT !.mouse = g, !.precise = bold] BY <3>2
      <4> HIDE DEF v
      <4> QED BY <1>1, <1>4, <3>1, <3>2, <4>1 DEF Windows, Steady, Remembers, Slots
    <3>3. CASE k = "touch"
      <4>1. v = [t EXCEPT !.touch = g, !.precise = bold] BY <3>3
      <4> HIDE DEF v
      <4> QED BY <1>1, <1>4, <3>1, <3>3, <4>1 DEF Windows, Steady, Remembers, Slots
    <3> QED BY <3>2, <3>3 DEF Adapters
  <2> HIDE DEF v
  <2>4. Steady(s, v) /\ Remembers(s, v) /\ Slots(s, v, k, g)
    BY <1>1, <2>3 DEF Steady, Remembers, Slots, Adapters
  <2>5. /\ k = "mouse" => v.mouse = g /\ v.touch = None
        /\ k = "touch" => v.touch = g /\ v.mouse = None /\ ~v.open
        /\ v.recorded = s.recorded /\ v.open = s.open
    BY <2>4 DEF Slots, Steady
  <2>6. Apart(v) BY <2>4, <2>5 DEF Apart, Ink, Adapters, Steady
  <2>7. g \in Writing(v) BY <1>4, <2>5 DEF Writing, Adapters
  <2>8. Running(v) \subseteq Running(s) \cup {g} BY <2>4 DEF Running, Slots, Steady, Adapters
  <2>9. Writing(s) \cap Running(v) \subseteq Writing(v)
    <3>1. s.mouse \in Of("mouse") /\ s.touch \in Of("touch") /\ s.recorded \in Of("pen") BY DEF Windows
    <3> QED BY <1>4, <2>4, <2>5, <3>1 DEF Writing, Running, Slots, Adapters, Of
  <2>10. Crossing(v, g) = IF k = "mouse" /\ v.open /\ penAt = "contact" THEN {g, v.recorded} ELSE {}
    BY <1>4 DEF Crossing, Adapters
  <2>11. v.open => v.recorded \in AllGestures
    BY <2>3, <2>6 DEF Apart, Windows, Of, AllGestures
  <2>12. Crossing(v, g) \subseteq AllGestures BY <1>4, <2>10, <2>11
  <2>13. \A h \in Writing(v) \ {g} : {g, h} \subseteq Crossing(v, g)
    <3> SUFFICES ASSUME NEW h \in Writing(v), h # g PROVE {g, h} \subseteq Crossing(v, g) OBVIOUS
    <3>1. k = "mouse" /\ h = v.recorded /\ v.open BY <2>5 DEF Writing, Adapters
    <3> QED BY <2>5, <2>10, <3>1
  <2>14. Apart(s) BY DEF Ink
  <2>15. g \in s.begun => g \in s.crossed BY <1>4
  <2>16. LET x == LetIn(v, g, begin) IN x \in Windows /\ Ink(x) /\ Keeps(v, x)
    BY <2>2, <2>3, <2>4, <2>6, <2>7, <2>8, <2>9, <2>12, <2>13, <2>15, LetsIn
  <2>17. u \in Windows /\ Ink(u) /\ Keeps(v, u) BY <2>1, <2>16
  <2> QED BY <2>4, <2>17 DEF Keeps, Steady, Slots, u
<1> QED BY <1>5, <1>6, <1>7

LEMMA MoveAdapterIs ==
  ASSUME NEW s \in Windows, Ink(s), NEW k \in Adapters, NEW dropped \in BOOLEAN
  PROVE LET u == MoveAdapter(s, k, dropped) IN
        /\ u \in Windows /\ Ink(u) /\ Steady(s, u)
        /\ Slots(s, u, k, None) \/ Slots(s, u, k, s[k])
<1> DEFINE u == MoveAdapter(s, k, dropped)
           t == Rest(s, k)
<1>0. Slots(s, s, k, s[k]) BY DEF Slots, Adapters, Windows
<1>1. CASE s[k] = None
  <2>1. u = s BY <1>1 DEF MoveAdapter
  <2> QED BY <1>0, <2>1 DEF Steady
<1>2. CASE s[k] # None /\ k \in s.stale
  <2>1. u = CancelAdapter(s, k) BY <1>2 DEF MoveAdapter
  <2> HIDE DEF u
  <2> QED BY <2>1, CancelAdapterIs DEF u
<1>3. CASE s[k] # None /\ k \notin s.stale /\ (dropped \/ s.skipped)
  <2>1. u = [t EXCEPT !.dropped = @ \/ dropped] BY <1>3 DEF MoveAdapter
  <2>2. t \in Windows /\ Steady(s, t) /\ Remembers(s, t) /\ Slots(s, t, k, None) BY RestIs
  <2>3. Leaves(s, t, s[k]) BY <1>3, RestLeaves
  <2> HIDE DEF t, u
  <2> DEFINE jammed == t.dropped \/ dropped
  <2>4. jammed \in BOOLEAN BY <2>2 DEF Windows
  <2>5. u = [t EXCEPT !.dropped = jammed] BY <2>1
  <2> HIDE DEF jammed
  <2>6. /\ u \in Windows /\ Steady(t, u) /\ u.mouse = t.mouse /\ u.touch = t.touch
        /\ u.skipped = t.skipped /\ u.stroke = t.stroke /\ u.awaiting = t.awaiting
        /\ u.begun = t.begun /\ u.crossed = t.crossed /\ u.dropped = jammed
        /\ u.ended = t.ended /\ u.closed = t.closed
    BY <2>2, <2>4, <2>5 DEF Windows, Steady
  <2>7. u.dropped \/ u.stroke = NoStroke
    <3>1. CASE dropped BY <2>6, <3>1 DEF jammed
    <3>2. CASE s.skipped BY <2>2, <2>6, <3>2 DEF Ink, Quiet, Remembers
    <3> QED BY <1>3, <3>1, <3>2
  <2>8. Writing(u) = Writing(t) /\ Running(u) = Running(t) BY <2>6 DEF Writing, Running, Steady
  <2>9. Apart(u) BY <2>3, <2>6 DEF Apart, Leaves, Steady
  <2>10. Ink(u)
    <3>1. Quiet(u) /\ Strayed(u)
      BY <2>2, <2>6 DEF Quiet, Strayed, Ink, Remembers, Steady
    <3>2. Same(u) /\ Joined(u) BY <2>2, <2>3, <2>6, <2>8 DEF Same, Joined, Ink, Leaves, Remembers
    <3>3. Owned(u) BY <2>7 DEF Owned
    <3>4. Begun(u)
      <4> SUFFICES ASSUME NEW h \in u.begun \cap Running(u), h \notin u.crossed
                   PROVE h \in Writing(u) /\ u.stroke.of = {h} /\ ~u.stroke.reads
        BY DEF Begun, Running
      <4>1. h \in s.begun /\ h \notin s.crossed BY <2>2, <2>6 DEF Remembers
      <4>2. h # None BY <4>1, StrokeTypes
      <4>3. h \in Running(s) BY <2>3, <2>8, <4>2 DEF Leaves
      <4>4. h \in Writing(s) /\ s.stroke.of = {h} /\ ~s.stroke.reads
        BY <4>1, <4>3 DEF Ink, Begun, Running
      <4> QED BY <2>2, <2>3, <2>6, <2>8, <4>4 DEF Leaves, Remembers
    <3>5. Whole(u) BY <2>2, <2>6 DEF Whole, Ink, Remembers
    <3> QED BY <2>9, <3>1, <3>2, <3>3, <3>4, <3>5 DEF Ink
  <2> QED BY <2>2, <2>6, <2>10 DEF Steady, Slots, u
<1>4. CASE s[k] # None /\ k \notin s.stale /\ ~(dropped \/ s.skipped)
  <2>1. u = Move(s, s[k]) BY <1>4 DEF MoveAdapter
  <2>2. s[k] \in Writing(s) BY <1>4, RestLeaves
  <2> HIDE DEF u
  <2>3. u \in Windows /\ Ink(u) /\ Keeps(s, u) BY <2>1, <2>2, Moves
  <2> QED BY <1>0, <2>3 DEF Keeps, Steady, Slots, u
<1> QED BY <1>1, <1>2, <1>3, <1>4

LEMMA EndAdapterIs ==
  ASSUME NEW s \in Windows, Ink(s), NEW k \in Adapters
  PROVE LET u == EndAdapter(s, k) IN
        u \in Windows /\ Ink(u) /\ Steady(s, u) /\ Slots(s, u, k, None)
<1> DEFINE u == EndAdapter(s, k)
           t == Rest(s, k)
<1>0. t \in Windows /\ Steady(s, t) /\ Remembers(s, t) /\ Slots(s, t, k, None) BY RestIs
<1>1. CASE s[k] = None
  <2>1. u = t BY <1>1 DEF EndAdapter
  <2>2. Ink(t) BY <1>1, RestLeaves
  <2> HIDE DEF t, u
  <2> QED BY <1>0, <2>1, <2>2 DEF u
<1>2. CASE s[k] # None /\ k \in s.stale
  <2>1. u = CancelAdapter(s, k) BY <1>2 DEF EndAdapter
  <2> HIDE DEF u
  <2> QED BY <2>1, CancelAdapterIs DEF u
<1>3. CASE s[k] # None /\ k \notin s.stale
  <2>1. u = End(t, s[k]) BY <1>3 DEF EndAdapter
  <2>2. s[k] \in Writing(s) /\ Leaves(s, t, s[k]) BY <1>3, RestLeaves
  <2> HIDE DEF t, u
  <2>3. u \in Windows /\ Ink(u) /\ Keeps(t, u) BY <1>0, <2>1, <2>2, Ends
  <2> QED BY <1>0, <2>3 DEF Keeps, Steady, Slots, u
<1> QED BY <1>1, <1>2, <1>3

-----------------------------------------------------------------------------
(* The pen.  Grasps is what its adapter never touches, Pens that it knows    *)
(* whose gesture it records, and PenBegun that a gesture it lets go was      *)
(* crossed.                                                                  *)
Grasps(s, u) ==
  /\ u.penContact = s.penContact /\ u.touchPointer = s.touchPointer
  /\ u.drag = s.drag /\ u.mouse = s.mouse /\ u.touch = s.touch /\ u.listening = s.listening
Pens(s) == (s.recorded # None => s.penActive /\ ~s.gone) /\ (s.gone => s.penActive)
PenBegun(s) == \A g \in s.begun : g.device = "pen" => g \in s.crossed \/ g = s.recorded

(* u is s with its policy closed. *)
Shuts(s, u) ==
  /\ Grasps(s, u) /\ u.recorded = None /\ u.open = FALSE /\ u.stray = "no"
  /\ u.penActive = s.penActive /\ u.gone = s.gone /\ u.picking = s.picking /\ u.missed = s.missed

LEMMA ForgetIs ==
  ASSUME NEW s \in Windows, Ink(s)
  PROVE /\ Forget(s) \in Windows /\ Shuts(s, Forget(s)) /\ Remembers(s, Forget(s))
        /\ s.open => s.recorded \in Writing(s) /\ Leaves(s, Forget(s), s.recorded)
        /\ ~s.open /\ s.stray = "no" => Ink(Forget(s))
        /\ ~s.open => (s.recorded \in s.begun => s.recorded \in s.crossed)
<1> DEFINE u == Forget(s)
<1>1. u \in Windows /\ Shuts(s, u) /\ Remembers(s, u)
  BY DEF Forget, Windows, Grasps, Shuts, Remembers, Of
<1> HIDE DEF u
<1>2. Apart(s) BY DEF Ink
<1>3. Apart(u) BY <1>1, <1>2 DEF Apart, Grasps, Shuts
<1>4. /\ s.mouse \in Of("mouse") /\ s.touch \in Of("touch") /\ s.recorded \in Of("pen") BY DEF Windows
<1>5. Writing(u) = {s.mouse, s.touch} \ {None} BY <1>1 DEF Writing, Grasps, Shuts
<1>6. Running(u) = {s.mouse, s.touch, None} BY <1>1 DEF Running, Grasps, Shuts
<1>7. s.recorded # None => s.recorded \notin Writing(u) BY <1>4, <1>5 DEF Of
<1>8. CASE s.open
  <2>1. s.recorded # None BY <1>2, <1>8 DEF Apart
  <2>2. Writing(s) = {s.mouse, s.touch, s.recorded} \ {None} BY <1>8 DEF Writing
  <2>3. s.recorded \in Writing(s) BY <2>1, <2>2
  <2>4. Leaves(s, u, s.recorded)
    <3>1. Writing(u) \subseteq Writing(s) \ {s.recorded} BY <1>5, <1>7, <2>1, <2>2
    <3>2. Running(u) \subseteq Running(s) \cup {None} BY <1>6 DEF Running
    <3>3. Writing(s) \cap Running(u) \subseteq Writing(u) BY <1>5, <1>6, <2>2
    <3> QED BY <1>1, <1>3, <3>1, <3>2, <3>3 DEF Leaves
  <2> QED BY <1>1, <1>8, <2>3, <2>4 DEF u
<1>9. CASE ~s.open
  <2>1. Writing(s) = Writing(u) BY <1>5, <1>9 DEF Writing
  <2>2. None \notin s.begun BY StrokeTypes
  <2>3. s.recorded \in s.begun => s.recorded \in s.crossed
    <3>1. s.recorded \in s.begun => s.recorded # None BY <2>2
    <3>2. s.recorded # None => s.recorded \notin Writing(s) BY <1>7, <2>1
    <3> QED BY <3>1, <3>2 DEF Ink, Begun
  <2>4. Running(u) \subseteq Running(s) \cup {None} BY <1>6 DEF Running
  <2>5. s.stray = "no" => Ink(u)
    <3> SUFFICES ASSUME s.stray = "no" PROVE Ink(u) OBVIOUS
    <3>1. /\ u.skipped = s.skipped /\ u.stroke = s.stroke /\ u.awaiting = s.awaiting
          /\ u.begun = s.begun /\ u.crossed = s.crossed /\ u.dropped = s.dropped
          /\ u.ended = s.ended /\ u.closed = s.closed
      BY <1>1 DEF Remembers
    <3>2. u.skipped => u.stroke = NoStroke BY <3>1 DEF Ink, Quiet
    <3>3. u.stroke = NoStroke \/ u.dropped \/ Writing(u) # {} BY <2>1, <3>1 DEF Ink, Owned
    <3> QED BY <1>1, <1>3, <2>1, <2>2, <2>4, <3>1, <3>2, <3>3, Refuses
  <2> QED BY <1>1, <1>9, <2>3, <2>5 DEF u
<1> QED BY <1>8, <1>9

(* A stray sample crosses whatever the others draw. *)
LEMMA AstrayIs ==
  ASSUME NEW s \in Windows
  PROVE LET u == Astray(s) IN
        /\ u \in Windows /\ Keeps(s, u) /\ u.skipped = s.skipped /\ u.stroke = s.stroke
        /\ u.awaiting = s.awaiting /\ u.begun = s.begun /\ u.dropped = s.dropped
        /\ u.ended = s.ended /\ u.closed = s.closed
        /\ u.crossed = s.crossed \cup ({s.mouse, s.touch} \ {None})
<1> DEFINE crossed == s.crossed \cup ({s.mouse, s.touch} \ {None})
           u == Astray(s)
<1>1. crossed \subseteq AllGestures
  <2>1. s.mouse \in Of("mouse") /\ s.touch \in Of("touch") /\ s.crossed \subseteq AllGestures
    BY DEF Windows
  <2> QED BY <2>1 DEF Of, AllGestures
<1>2. u = [s EXCEPT !.crossed = crossed] BY DEF Astray
<1> HIDE DEF crossed, u
<1>3. /\ u \in Windows /\ Keeps(s, u) /\ u.skipped = s.skipped /\ u.stroke = s.stroke
      /\ u.awaiting = s.awaiting /\ u.begun = s.begun /\ u.dropped = s.dropped
      /\ u.ended = s.ended /\ u.closed = s.closed /\ u.crossed = crossed
  BY <1>1, <1>2 DEF Windows, Keeps
<1> QED BY <1>3 DEF crossed, u

(* The policy of a contact that is over is closed: the stroke goes with it. *)
(* An End that is not refused leaves no stroke. *)
Finished(s, u, g) ==
  /\ u \in Windows /\ Keeps(s, u)
  /\ ~s.skipped =>
       /\ u.crossed = s.crossed /\ u.begun = s.begun \ {g}
       /\ u.ended = s.ended \cup (s.begun \cap {g})
       /\ s.awaiting \/ s.stroke = NoStroke => u.stroke = s.stroke /\ u.closed = s.closed
       /\ ~s.awaiting /\ s.stroke # NoStroke /\ Broken(s, g) =>
            u.stroke = NoStroke /\ u.closed = s.closed
       /\ ~s.awaiting /\ s.stroke # NoStroke /\ ~Broken(s, g) =>
            /\ u.stroke = NoStroke
            /\ u.closed = IF s.stroke.reads THEN s.closed
                          ELSE s.closed \cup {[of |-> s.stroke.of \cup {g}, smooth |-> s.stroke.smooth]}

LEMMA EndFinishes ==
  ASSUME NEW s \in Windows, NEW g \in Samples
  PROVE Finished(s, End(s, g), g)
<1> DEFINE u == End(s, g)
<1>1. /\ u \in Windows /\ Keeps(s, u)
      /\ ~s.skipped =>
           /\ u.crossed = s.crossed /\ u.begun = s.begun \ {g}
           /\ u.ended = s.ended \cup (s.begun \cap {g})
           /\ s.awaiting \/ s.stroke = NoStroke => u.stroke = s.stroke /\ u.closed = s.closed
           /\ ~s.awaiting /\ s.stroke # NoStroke /\ Broken(s, g) =>
                u.stroke = NoStroke /\ u.closed = s.closed
           /\ ~s.awaiting /\ s.stroke # NoStroke /\ ~Broken(s, g) =>
                /\ u.stroke = NoStroke
                /\ u.closed = IF s.stroke.reads THEN s.closed
                              ELSE s.closed \cup {[of |-> s.stroke.of \cup {g}, smooth |-> s.stroke.smooth]}
  BY EndIs
<1> HIDE DEF u
<1>2. Finished(s, u, g) BY <1>1 DEF Finished
<1> QED BY <1>2 DEF u

LEMMA PolicyCloses ==
  ASSUME NEW s \in Windows, Ink(s), ~s.open, s.stray # "no"
  PROVE LET t == Astray(Forget(s)) IN
        \A u \in {End(t, Stray), Cancel(t, Stray)} :
          /\ u \in Windows /\ Ink(u) /\ Shuts(s, u) /\ u.stroke = NoStroke
          /\ PenBegun(s) => PenBegun(u)
<1> DEFINE f == Forget(s)
           t == Astray(f)
<1>1. /\ f \in Windows /\ Shuts(s, f) /\ Remembers(s, f)
      /\ s.recorded \in s.begun => s.recorded \in s.crossed
  BY ForgetIs
<1> HIDE DEF f
<1>2. /\ t \in Windows /\ Keeps(f, t) /\ t.skipped = f.skipped /\ t.stroke = f.stroke
      /\ t.awaiting = f.awaiting /\ t.begun = f.begun /\ t.dropped = f.dropped
      /\ t.ended = f.ended /\ t.closed = f.closed
      /\ t.crossed = f.crossed \cup ({f.mouse, f.touch} \ {None})
  BY <1>1, AstrayIs
<1> HIDE DEF t
<1>3. /\ t.skipped = s.skipped /\ t.stroke = s.stroke /\ t.awaiting = s.awaiting
      /\ t.begun = s.begun /\ t.ended = s.ended /\ t.closed = s.closed /\ Shuts(s, t)
      /\ t.crossed = s.crossed \cup ({s.mouse, s.touch} \ {None})
  BY <1>1, <1>2 DEF Shuts, Remembers, Keeps, Grasps
<1>4. t.skipped \/ t.awaiting => t.stroke = NoStroke BY <1>3 DEF Ink, Quiet
<1>5. Stray \in Samples /\ Stray \notin t.begun BY <1>2, StrokeTypes DEF Samples
<1>6. ASSUME NEW u \in Windows, Keeps(t, u), u.stroke = NoStroke, u.begun = t.begun,
             u.crossed = t.crossed, u.ended = t.ended, s.closed \subseteq u.closed,
             \A c \in u.closed : c \in s.closed \/ Stray \in c.of
      PROVE Ink(u) /\ Shuts(s, u) /\ (PenBegun(s) => PenBegun(u))
  <2>1. Shuts(s, u) BY <1>3, <1>6 DEF Shuts, Keeps, Grasps
  <2>2. Apart(u) BY <2>1 DEF Apart, Ink, Shuts, Grasps
  <2>3. Strayed(u) /\ Quiet(u) /\ Same(u) /\ Joined(u) /\ Owned(u)
    BY <1>6, StrokeTypes DEF Strayed, Quiet, Same, Joined, Owned
  <2>4. Begun(u)
    <3> SUFFICES ASSUME NEW h \in u.begun \cap {u.mouse, u.touch, u.recorded} PROVE h \in u.crossed
      BY DEF Begun
    <3>1. h # None BY StrokeTypes
    <3> QED BY <1>3, <1>6, <2>1, <3>1 DEF Shuts, Grasps
  <2>5. Whole(u)
    <3>1. Whole(s) BY DEF Ink
    <3>2. s.crossed \subseteq u.crossed /\ u.ended = s.ended BY <1>3, <1>6
    <3> QED BY <1>6, <3>1, <3>2 DEF Whole
  <2>6. PenBegun(s) => PenBegun(u) BY <1>1, <1>3, <1>6 DEF PenBegun
  <2> QED BY <2>1, <2>2, <2>3, <2>4, <2>5, <2>6 DEF Ink
<1>7. ASSUME NEW u, u = Cancel(t, Stray)
      PROVE u \in Windows /\ Ink(u) /\ Shuts(s, u) /\ u.stroke = NoStroke /\ (PenBegun(s) => PenBegun(u))
  <2>1. /\ u \in Windows /\ Keeps(t, u) /\ u.begun = t.begun /\ u.crossed = t.crossed
        /\ u.ended = t.ended /\ u.closed = t.closed
        /\ t.skipped \/ t.awaiting => u = t
        /\ ~t.skipped /\ ~t.awaiting => u.stroke = NoStroke
    BY <1>2, <1>7, CancelIs
  <2>2. u.stroke = NoStroke BY <1>4, <2>1
  <2> QED BY <1>3, <1>6, <2>1, <2>2
<1>e. Finished(t, End(t, Stray), Stray) BY <1>2, <1>5, EndFinishes
<1>8. ASSUME NEW u, u = End(t, Stray)
      PROVE u \in Windows /\ Ink(u) /\ Shuts(s, u) /\ u.stroke = NoStroke /\ (PenBegun(s) => PenBegun(u))
  <2>1. CASE t.skipped
    <3>1. u = t BY <1>8, <2>1 DEF End
    <3>2. Keeps(t, t) BY DEF Keeps
    <3> QED BY <1>2, <1>3, <1>4, <1>6, <2>1, <3>1, <3>2
  <2>2. CASE ~t.skipped
    <3>1. /\ u \in Windows /\ Keeps(t, u) /\ u.crossed = t.crossed /\ u.begun = t.begun \ {Stray}
          /\ u.ended = t.ended \cup (t.begun \cap {Stray})
          /\ t.awaiting \/ t.stroke = NoStroke => u.stroke = t.stroke /\ u.closed = t.closed
          /\ ~t.awaiting /\ t.stroke # NoStroke /\ Broken(t, Stray) =>
               u.stroke = NoStroke /\ u.closed = t.closed
          /\ ~t.awaiting /\ t.stroke # NoStroke /\ ~Broken(t, Stray) =>
               /\ u.stroke = NoStroke
               /\ u.closed = IF t.stroke.reads THEN t.closed
                             ELSE t.closed \cup {[of |-> t.stroke.of \cup {Stray}, smooth |-> t.stroke.smooth]}
      BY <1>8, <1>e, <2>2 DEF Finished
    <3>2. u.begun = t.begun /\ u.ended = t.ended BY <1>5, <3>1
    <3>3. u.stroke = NoStroke BY <1>4, <3>1
    <3>4. s.closed \subseteq u.closed /\ \A c \in u.closed : c \in s.closed \/ Stray \in c.of
      BY <1>3, <3>1
    <3> QED BY <1>6, <3>1, <3>2, <3>3, <3>4
  <2> QED BY <2>1, <2>2
<1> QED BY <1>7, <1>8 DEF t, f

LEMMA PenEndsIs ==
  ASSUME NEW s \in Windows, Ink(s)
  PROVE LET u == PenEnds(s) IN
        /\ u \in Windows /\ Ink(u) /\ Shuts(s, u)
        /\ PenBegun(s) => PenBegun(u)
        /\ u.stroke = IF s.open \/ s.stray # "no" THEN NoStroke ELSE s.stroke
<1> DEFINE u == PenEnds(s)
           t == Forget(s)
<1>0. s.open => s.stray = "no" BY DEF Ink, Apart
<1>1. t \in Windows /\ Shuts(s, t) /\ Remembers(s, t) BY ForgetIs
<1>2. CASE s.open
  <2>1. u = End(t, s.recorded) BY <1>0, <1>2 DEF PenEnds
  <2>2. s.recorded \in Writing(s) /\ Leaves(s, t, s.recorded) BY <1>2, ForgetIs
  <2> HIDE DEF t, u
  <2>3. /\ u \in Windows /\ Ink(u) /\ Keeps(t, u) /\ u.stroke = NoStroke
        /\ s.recorded \in u.begun => s.recorded \in u.crossed
        /\ u.begun \subseteq s.begun /\ u.crossed = s.crossed
    BY <1>1, <2>1, <2>2, Ends
  <2>4. PenBegun(s) => PenBegun(u)
    <3> SUFFICES ASSUME PenBegun(s), NEW g \in u.begun, g.device = "pen" PROVE g \in u.crossed
      BY DEF PenBegun
    <3> QED BY <2>3 DEF PenBegun
  <2> QED BY <1>1, <1>2, <2>3, <2>4 DEF Keeps, Grasps, Shuts, u
<1>3. CASE ~s.open /\ s.stray = "no"
  <2>1. u = t BY <1>3 DEF PenEnds
  <2>2. Ink(t) /\ (s.recorded \in s.begun => s.recorded \in s.crossed) BY <1>3, ForgetIs
  <2> HIDE DEF t, u
  <2>3. PenBegun(s) => PenBegun(t) BY <1>1, <2>2 DEF PenBegun, Remembers
  <2> QED BY <1>1, <1>3, <2>1, <2>2, <2>3 DEF Remembers, u
<1>4. CASE ~s.open /\ s.stray # "no"
  <2>1. u = End(Astray(t), Stray) BY <1>4 DEF PenEnds
  <2> HIDE DEF u
  <2> QED BY <1>4, <2>1, PolicyCloses DEF u
<1> QED BY <1>2, <1>3, <1>4

LEMMA PenCancelsIs ==
  ASSUME NEW s \in Windows, Ink(s)
  PROVE LET u == PenCancels(s) IN u \in Windows /\ Ink(u) /\ Shuts(s, u)
<1> DEFINE u == PenCancels(s)
           t == Forget(s)
<1>0. s.open => s.stray = "no" BY DEF Ink, Apart
<1>1. t \in Windows /\ Shuts(s, t) /\ Remembers(s, t) BY ForgetIs
<1>2. CASE s.open
  <2>1. u = Cancel(t, s.recorded) BY <1>0, <1>2 DEF PenCancels
  <2>2. s.recorded \in Writing(s) /\ Leaves(s, t, s.recorded) BY <1>2, ForgetIs
  <2> HIDE DEF t, u
  <2>3. u \in Windows /\ Ink(u) /\ Keeps(t, u) BY <1>1, <2>1, <2>2, Cancels
  <2> QED BY <1>1, <2>3 DEF Keeps, Grasps, Shuts, u
<1>3. CASE ~s.open /\ s.stray = "no"
  <2>1. u = t BY <1>3 DEF PenCancels
  <2>2. Ink(t) BY <1>3, ForgetIs
  <2> HIDE DEF t, u
  <2> QED BY <1>1, <2>1, <2>2 DEF u
<1>4. CASE ~s.open /\ s.stray # "no"
  <2>1. u = Cancel(Astray(t), Stray) BY <1>4 DEF PenCancels
  <2> HIDE DEF u
  <2> QED BY <1>4, <2>1, PolicyCloses DEF u
<1> QED BY <1>2, <1>3, <1>4

(* Fields that say nothing of the ink. *)
LEMMA SameInk ==
  ASSUME NEW s \in Windows, Ink(s), NEW u, Remembers(s, u), u.mouse = s.mouse, u.touch = s.touch,
         u.recorded = s.recorded, u.open = s.open, u.stray = "no" <=> s.stray = "no"
  PROVE Ink(u)
<1>1. Writing(u) = Writing(s) BY DEF Writing
<1> QED BY <1>1 DEF Ink, Apart, Strayed, Quiet, Same, Joined, Begun, Owned, Whole, Remembers

LEMMA UnpickIs ==
  ASSUME NEW s \in Windows, Ink(s)
  PROVE LET u == Unpick(s) IN
        /\ u \in Windows /\ Ink(u) /\ Grasps(s, u) /\ u.recorded = s.recorded /\ u.open = s.open
        /\ u.penActive = FALSE /\ u.gone = FALSE /\ u.picking = "no" /\ Remembers(s, u)
        /\ u.stray = "no" <=> s.stray = "no"
        /\ u.missed = s.missed
<1> DEFINE stray == IF s.gone /\ s.stray = "kept" THEN "lost" ELSE s.stray
           u == Unpick(s)
<1>1. stray \in {"no", "kept", "lost"} /\ (stray = "no" <=> s.stray = "no") BY DEF Windows
<1>2. u = [s EXCEPT !.penActive = FALSE, !.gone = FALSE, !.picking = "no", !.stray = stray]
  BY DEF Unpick
<1> HIDE DEF stray, u
<1>3. /\ u \in Windows /\ Grasps(s, u) /\ u.recorded = s.recorded /\ u.open = s.open
      /\ u.penActive = FALSE /\ u.gone = FALSE /\ u.picking = "no" /\ Remembers(s, u)
      /\ u.stray = stray /\ u.missed = s.missed
  BY <1>1, <1>2 DEF Windows, Grasps, Remembers
<1>4. Ink(u) BY <1>1, <1>3, SameInk DEF Grasps
<1> QED BY <1>1, <1>3, <1>4 DEF u

(* What finish_active and cancel_active leave. *)
Idle(s, u) ==
  /\ u \in Windows /\ Ink(u) /\ Grasps(s, u) /\ u.recorded = None /\ u.open = FALSE
  /\ u.penActive = FALSE /\ u.gone = FALSE /\ u.picking = "no" /\ u.missed = s.missed
  /\ s.stray = "no" => u.stray = "no"

LEMMA FinishPenIs ==
  ASSUME NEW s \in Windows, Ink(s), Pens(s)
  PROVE LET u == FinishPen(s) IN
        /\ Idle(s, u) /\ (PenBegun(s) => PenBegun(u))
        /\ u.stroke = IF s.penActive /\ Recorded(s) /\ (s.open \/ s.stray # "no") THEN NoStroke
                      ELSE s.stroke
<1> DEFINE u == FinishPen(s)
           t == PenEnds(s)
<1>1. CASE s.penActive /\ Recorded(s)
  <2>1. u = Unpick(t) BY <1>1 DEF FinishPen
  <2>2. /\ t \in Windows /\ Ink(t) /\ Shuts(s, t) /\ (PenBegun(s) => PenBegun(t))
        /\ t.stroke = IF s.open \/ s.stray # "no" THEN NoStroke ELSE s.stroke
    BY PenEndsIs
  <2> HIDE DEF t, u
  <2>3. /\ u \in Windows /\ Ink(u) /\ Grasps(t, u) /\ u.recorded = t.recorded /\ u.open = t.open
        /\ u.penActive = FALSE /\ u.gone = FALSE /\ u.picking = "no" /\ Remembers(t, u)
        /\ u.stray = "no" <=> t.stray = "no"
        /\ u.missed = t.missed
    BY <2>1, <2>2, UnpickIs
  <2> QED BY <1>1, <2>2, <2>3 DEF Grasps, Remembers, PenBegun, Shuts, Idle, u
<1>2. CASE ~(s.penActive /\ Recorded(s))
  <2>1. u = Unpick(s) BY <1>2 DEF FinishPen
  <2>2. s.recorded = None /\ ~s.open BY <1>2 DEF Pens, Ink, Apart, Recorded
  <2>3. s.open = FALSE BY <2>2 DEF Windows
  <2> HIDE DEF t, u
  <2>4. /\ u \in Windows /\ Ink(u) /\ Grasps(s, u) /\ u.recorded = s.recorded /\ u.open = s.open
        /\ u.penActive = FALSE /\ u.gone = FALSE /\ u.picking = "no" /\ Remembers(s, u)
        /\ u.stray = "no" <=> s.stray = "no"
        /\ u.missed = s.missed
    BY <2>1, UnpickIs
  <2> QED BY <1>2, <2>2, <2>3, <2>4 DEF Remembers, PenBegun, Idle, u
<1> QED BY <1>1, <1>2

LEMMA CancelPenIs ==
  ASSUME NEW s \in Windows, Ink(s), Pens(s)
  PROVE Idle(s, CancelPen(s))
<1> DEFINE u == CancelPen(s)
           t == PenCancels(s)
<1>1. CASE s.penActive /\ Recorded(s)
  <2>1. u = Unpick(t) BY <1>1 DEF CancelPen
  <2>2. t \in Windows /\ Ink(t) /\ Shuts(s, t) BY PenCancelsIs
  <2> HIDE DEF t, u
  <2>3. /\ u \in Windows /\ Ink(u) /\ Grasps(t, u) /\ u.recorded = t.recorded /\ u.open = t.open
        /\ u.penActive = FALSE /\ u.gone = FALSE /\ u.picking = "no"
        /\ u.stray = "no" <=> t.stray = "no"
        /\ u.missed = t.missed
    BY <2>1, <2>2, UnpickIs
  <2> QED BY <2>2, <2>3 DEF Grasps, Shuts, Idle, u
<1>2. CASE ~(s.penActive /\ Recorded(s))
  <2>1. u = Unpick(s) BY <1>2 DEF CancelPen
  <2>2. s.recorded = None /\ ~s.open BY <1>2 DEF Pens, Ink, Apart, Recorded
  <2>3. s.open = FALSE BY <2>2 DEF Windows
  <2> HIDE DEF t, u
  <2>4. /\ u \in Windows /\ Ink(u) /\ Grasps(s, u) /\ u.recorded = s.recorded /\ u.open = s.open
        /\ u.penActive = FALSE /\ u.gone = FALSE /\ u.picking = "no"
        /\ u.stray = "no" <=> s.stray = "no"
        /\ u.missed = s.missed
    BY <2>1, UnpickIs
  <2> QED BY <2>2, <2>3, <2>4 DEF Idle, u
<1> QED BY <1>1, <1>2

IsMessage(m) ==
  /\ m.kind \in Kinds /\ m.read \in BOOLEAN /\ m.known \in BOOLEAN
  /\ m.contact \in BOOLEAN /\ m.cancelled \in BOOLEAN /\ m.shortcut \in {"none", "grab", "picker"}
  /\ m.cancelled => m.shortcut = "none"
  /\ ~m.known => ~m.read /\ m.kind = "update" /\ Blank(m)

LEMMA MessagesAre ==
  ASSUME NEW k \in Kinds, NEW m \in Messages[k]
  PROVE IsMessage(m) /\ m.kind = k
<1>1. Messages[k] =
        {n \in [kind : {k}, read : BOOLEAN, known : BOOLEAN, shortcut : {"none", "grab", "picker"},
                contact : BOOLEAN, cancelled : BOOLEAN] :
           /\ n.cancelled => n.shortcut = "none"
           /\ ~n.known => ~n.read /\ k = "update" /\ Blank(n)}
  BY DEF Messages
<1> QED BY <1>1 DEF IsMessage

(* A Begin of the pen may put its messages in order again. *)
Orders(s, u) ==
  /\ s.stray = "no" => u.stray = "no"
  /\ ~u.missed => ~s.missed \/ (s.drag = "none" /\ u.stray = "no")

LEMMA PenBeginsIs ==
  ASSUME NEW s \in Windows, Ink(s), s.recorded = None, PenBegun(s), s.touch = None,
         NEW begin \in Begins(s)
  PROVE LET u == PenBegins(s, begin) IN
        /\ u \in Windows /\ Ink(u) /\ Grasps(s, u) /\ Orders(s, u)
        /\ u.penActive = s.penActive /\ u.gone = s.gone
<1> DEFINE g == Fresh(s, "pen")
           stray == IF s.stray = "no" THEN "no" ELSE "kept"
           late == s.missed /\ (s.drag # "none" \/ s.stray # "no")
           still == s.missed /\ s.drag # "none"
           t == [s EXCEPT !.recorded = g, !.stray = stray, !.missed = late]
           v == [s EXCEPT !.recorded = g, !.open = TRUE, !.stray = "no", !.missed = still]
           u == PenBegins(s, begin)
<1>1. g \in Of("pen") /\ g \in AllGestures /\ g # None /\ g.device = "pen"
  BY DEF Fresh, Gesture, Of, AllGestures, Turns, None
<1>2. ~s.open BY DEF Ink, Apart
<1>3. /\ s.mouse \in Of("mouse") /\ s.touch \in Of("touch") /\ s.open \in BOOLEAN
      /\ s.missed \in BOOLEAN
  BY DEF Windows
<1>4. g \in s.begun => g \in s.crossed BY <1>1 DEF PenBegun
<1>5. u = CASE begin.end = "outside" -> t
            [] begin.end = "refused" -> [v EXCEPT !.skipped = TRUE]
            [] OTHER -> LetIn(v, g, begin)
  BY DEF PenBegins
<1>6. /\ stray \in {"no", "kept", "lost"} /\ late \in BOOLEAN /\ still \in BOOLEAN
      /\ (stray = "no" <=> s.stray = "no") /\ (~late => ~s.missed \/ (s.drag = "none" /\ s.stray = "no"))
      /\ (~still => ~s.missed \/ s.drag = "none")
  BY <1>3
<1> HIDE DEF g, stray, late, still
<1>10. /\ t \in Windows /\ Grasps(s, t) /\ Remembers(s, t) /\ t.recorded = g /\ t.open = s.open
       /\ t.penActive = s.penActive /\ t.gone = s.gone /\ t.stray = stray /\ t.missed = late
  <2> HIDE DEF t
  <2>1. t = [s EXCEPT !.recorded = g, !.stray = stray, !.missed = late] BY DEF t
  <2> QED BY <1>1, <1>6, <2>1 DEF Windows, Grasps, Remembers
<1>11. /\ v \in Windows /\ Grasps(s, v) /\ Remembers(s, v) /\ v.recorded = g /\ v.open = TRUE
       /\ v.penActive = s.penActive /\ v.gone = s.gone /\ v.stray = "no" /\ v.missed = still
  <2> HIDE DEF v
  <2>1. v = [s EXCEPT !.recorded = g, !.open = TRUE, !.stray = "no", !.missed = still] BY DEF v
  <2> QED BY <1>1, <1>6, <2>1 DEF Windows, Grasps, Remembers
<1> HIDE DEF t, u, v
<1>12. /\ Writing(v) = {s.mouse, g} \ {None} /\ Running(v) = {s.mouse, None, g} /\ Apart(v)
  BY <1>1, <1>11 DEF Writing, Running, Apart, Grasps
<1>13. /\ Writing(s) = {s.mouse} \ {None} /\ Running(s) = {s.mouse, None}
  BY <1>2 DEF Writing, Running
<1>o. /\ Orders(s, t)
      /\ \A x : x.stray = v.stray /\ x.missed = v.missed => Orders(s, x)
  BY <1>6, <1>10, <1>11 DEF Orders
<1>14. CASE begin.end = "outside"
  <2>1. u = t BY <1>5, <1>14
  <2>2. Writing(t) = Writing(s) /\ Running(t) \subseteq Running(s) \cup {g} /\ Apart(t)
    BY <1>2, <1>10 DEF Writing, Running, Apart, Grasps
  <2>3. /\ t.skipped = s.skipped /\ t.stroke = s.stroke /\ t.awaiting = s.awaiting
        /\ t.begun = s.begun /\ t.crossed = s.crossed /\ t.dropped = s.dropped
        /\ t.ended = s.ended /\ t.closed = s.closed
    BY <1>10 DEF Remembers
  <2>4. t.skipped => t.stroke = NoStroke BY <2>3 DEF Ink, Quiet
  <2>5. t.stroke = NoStroke \/ t.dropped \/ Writing(t) # {} \/ t.stray # "no"
    BY <1>6, <1>10, <2>2, <2>3 DEF Ink, Owned
  <2>6. Ink(t) BY <1>4, <1>6, <1>10, <2>2, <2>3, <2>4, <2>5, Refuses
  <2> QED BY <1>10, <1>o, <2>1, <2>6 DEF u
<1>15. CASE begin.end = "refused"
  <2>1. u = [v EXCEPT !.skipped = TRUE] BY <1>5, <1>15
  <2>2. s.stroke = NoStroke BY <1>15 DEF Begins
  <2>3. /\ v.stroke = s.stroke /\ v.awaiting = s.awaiting
        /\ v.begun = s.begun /\ v.crossed = s.crossed /\ v.dropped = s.dropped
        /\ v.ended = s.ended /\ v.closed = s.closed
    BY <1>11 DEF Remembers
  <2>4. Running(v) \subseteq Running(s) \cup {g} /\ Writing(s) \cap Running(v) \subseteq Writing(v)
    BY <1>12, <1>13
  <2>5. Ink(v)
    <3>1. Strayed(v) /\ Quiet(v) /\ Same(v) /\ Joined(v) /\ Owned(v)
      BY <2>2, <2>3, StrokeTypes DEF Strayed, Quiet, Same, Joined, Owned
    <3>2. Begun(v)
      <4> SUFFICES ASSUME NEW h \in s.begun \cap Running(v) PROVE h \in s.crossed
        BY <2>3 DEF Begun, Running
      <4>1. h # None BY StrokeTypes
      <4>2. h \in s.crossed \/ (h \in Writing(s) /\ s.stroke.of = {h}) \/ h = g
        BY <1>12, <1>13, <4>1 DEF Ink, Begun, Running
      <4>3. s.stroke.of = {} BY <2>2, StrokeTypes
      <4> QED BY <1>4, <4>2, <4>3
    <3>3. Whole(v) BY <2>3 DEF Ink, Whole
    <3> QED BY <1>12, <3>1, <3>2, <3>3 DEF Ink
  <2>6. u \in Windows /\ Ink(u) /\ Keeps(v, u) BY <1>11, <2>1, <2>2, <2>3, <2>5, SkipsIs
  <2>7. Orders(s, u) BY <1>o, <2>6 DEF Keeps
  <2> QED BY <1>11, <2>6, <2>7 DEF Keeps, Grasps, u
<1>16. CASE begin.end # "outside" /\ begin.end # "refused"
  <2>1. u = LetIn(v, g, begin) BY <1>5, <1>16
  <2>2. begin \in Taken BY <1>16, BeginsAre
  <2>3. v.mouse = s.mouse BY <1>11 DEF Grasps
  <2>4. Crossing(v, g) = IF v.mouse # None THEN {g, v.mouse} ELSE {}
    BY <1>1 DEF Crossing
  <2>5. Crossing(v, g) \subseteq AllGestures BY <1>1, <1>3, <2>3, <2>4 DEF Of, AllGestures
  <2>6. \A h \in Writing(v) \ {g} : {g, h} \subseteq Crossing(v, g)
    BY <1>12, <2>3, <2>4
  <2>7. g \in Writing(v) /\ Running(v) \subseteq Running(s) \cup {g}
          /\ Writing(s) \cap Running(v) \subseteq Writing(v)
    BY <1>1, <1>12, <1>13
  <2>8. LET x == LetIn(v, g, begin) IN x \in Windows /\ Ink(x) /\ Keeps(v, x)
    BY <1>4, <1>11, <1>12, <2>2, <2>5, <2>6, <2>7, LetsIn
  <2>9. u \in Windows /\ Ink(u) /\ Keeps(v, u) BY <2>1, <2>8
  <2>10. Orders(s, u) BY <1>o, <2>9 DEF Keeps
  <2> QED BY <1>11, <2>9, <2>10 DEF Keeps, Grasps, u
<1> QED BY <1>14, <1>15, <1>16

(* A stray sample joins the stroke. *)
LEMMA StrayMoves ==
  ASSUME NEW s \in Windows, Ink(s), ~s.open, s.stray # "no"
  PROVE LET u == Move(Astray(s), Stray) IN u \in Windows /\ Ink(u) /\ Keeps(s, u)
<1> DEFINE t == Astray(s)
           u == Move(t, Stray)
<1>1. /\ t \in Windows /\ Keeps(s, t) /\ t.skipped = s.skipped /\ t.stroke = s.stroke
      /\ t.awaiting = s.awaiting /\ t.begun = s.begun /\ t.dropped = s.dropped
      /\ t.ended = s.ended /\ t.closed = s.closed
      /\ t.crossed = s.crossed \cup ({s.mouse, s.touch} \ {None})
  BY AstrayIs
<1> HIDE DEF t
<1>2. Stray \in Samples BY DEF Samples
<1>3. /\ u \in Windows /\ Keeps(t, u)
      /\ t.skipped \/ t.awaiting \/ t.stroke = NoStroke => u = t
      /\ ~(t.skipped \/ t.awaiting \/ t.stroke = NoStroke) =>
           /\ Broken(t, Stray) => u = Spoil(t)
           /\ ~Broken(t, Stray) =>
                /\ u.skipped = t.skipped /\ u.awaiting = t.awaiting
                /\ u.begun = t.begun /\ u.crossed = t.crossed /\ u.dropped = t.dropped
                /\ u.ended = t.ended /\ u.closed = t.closed
                /\ u.stroke.of = t.stroke.of \cup {Stray}
  BY <1>1, <1>2, MoveIs
<1>4. /\ Spoil(t).stroke = NoStroke /\ Spoil(t).begun = t.begun /\ Spoil(t).crossed = t.crossed
      /\ Spoil(t).ended = t.ended /\ Spoil(t).closed = t.closed
  BY <1>1, SpoilIs
<1> HIDE DEF u
<1>5. Keeps(s, u) BY <1>1, <1>3 DEF Keeps
<1>6. /\ u.begun = s.begun /\ u.ended = s.ended /\ u.closed = s.closed
      /\ u.crossed = s.crossed \cup ({s.mouse, s.touch} \ {None})
  BY <1>1, <1>3, <1>4
<1>7. /\ Writing(u) = {s.mouse, s.touch} \ {None} /\ Writing(s) = {s.mouse, s.touch} \ {None}
      /\ Running(u) = Running(s)
  BY <1>5 DEF Keeps, Writing, Running
<1>8. Writing(u) \subseteq u.crossed BY <1>6, <1>7
<1>9. Apart(u) BY <1>5 DEF Apart, Ink, Keeps
<1>10. Begun(u)
  <2> SUFFICES ASSUME NEW h \in u.begun \cap Running(u) PROVE h \in u.crossed
    BY DEF Begun, Running
  <2>1. h \in s.crossed \/ h \in Writing(s) BY <1>6, <1>7 DEF Ink, Begun, Running
  <2> QED BY <1>6, <1>7, <2>1
<1>11. Whole(u) BY <1>6 DEF Whole, Ink
<1>12. Strayed(u) /\ Owned(u) BY <1>5 DEF Strayed, Owned, Keeps
<1>13. Quiet(u) /\ Same(u) /\ Joined(u)
  <2>1. CASE u.stroke = NoStroke BY <2>1, StrokeTypes DEF Quiet, Same, Joined
  <2>2. CASE t.skipped \/ t.awaiting \/ t.stroke = NoStroke
    <3>1. t.stroke = NoStroke BY <1>1, <2>2 DEF Ink, Quiet
    <3> QED BY <1>3, <2>1, <2>2, <3>1
  <2>3. CASE ~(t.skipped \/ t.awaiting \/ t.stroke = NoStroke) /\ Broken(t, Stray)
    BY <1>3, <1>4, <2>1, <2>3
  <2>4. CASE ~(t.skipped \/ t.awaiting \/ t.stroke = NoStroke) /\ ~Broken(t, Stray)
    <3>1. /\ u.skipped = s.skipped /\ u.awaiting = s.awaiting /\ ~s.skipped /\ ~s.awaiting
          /\ s.stroke # NoStroke /\ u.stroke.of = s.stroke.of \cup {Stray}
      BY <1>1, <1>3, <2>4
    <3>2. Quiet(u) BY <3>1 DEF Quiet
    <3>3. Same(u)
      <4>1. s.mouse \in Of("mouse") /\ s.touch \in Of("touch") BY DEF Windows
      <4>2. \A g \in Writing(u) : g.device # Stray.device
        BY <1>7, <4>1 DEF Of, Stray, Gesture
      <4> QED BY <1>7, <3>1, <4>2 DEF Ink, Same
    <3>4. Joined(u)
      <4> SUFFICES ASSUME NEW g \in Writing(u)
                   PROVE {g} \cup (u.stroke.of \ {Stray}) \subseteq u.crossed
        BY DEF Joined
      <4>1. s.stroke.of = {g} \/ {g} \cup (s.stroke.of \ {Stray}) \subseteq s.crossed
        BY <1>7, <3>1 DEF Ink, Joined
      <4> QED BY <1>6, <1>8, <3>1, <4>1
    <3> QED BY <3>2, <3>3, <3>4
  <2> QED BY <2>2, <2>3, <2>4
<1>14. Ink(u) BY <1>9, <1>10, <1>11, <1>12, <1>13 DEF Ink
<1> QED BY <1>3, <1>5, <1>14 DEF u, t

LEMMA PenMovesIs ==
  ASSUME NEW s \in Windows, Ink(s), NEW page
  PROVE LET u == PenMoves(s, page) IN u \in Windows /\ Ink(u) /\ Keeps(s, u)
<1> DEFINE u == PenMoves(s, page)
<1>1. CASE s.open /\ page
  <2>1. u = Move(s, s.recorded) BY <1>1 DEF PenMoves
  <2>2. s.recorded \in Writing(s) BY <1>1 DEF Writing, Ink, Apart
  <2> HIDE DEF u
  <2>3. u \in Windows /\ Ink(u) /\ Keeps(s, u) BY <2>1, <2>2, Moves
  <2> QED BY <2>3 DEF u
<1>2. CASE ~s.open /\ page /\ s.stray = "kept" /\ ~s.gone
  <2>1. u = Move(Astray(s), Stray) BY <1>2 DEF PenMoves
  <2> HIDE DEF u
  <2>2. u \in Windows /\ Ink(u) /\ Keeps(s, u) BY <1>2, <2>1, StrayMoves
  <2> QED BY <2>2 DEF u
<1>3. CASE ~(s.open /\ page) /\ ~(~s.open /\ page /\ s.stray = "kept" /\ ~s.gone)
  <2>1. u = s BY <1>3 DEF PenMoves
  <2> QED BY <2>1 DEF Keeps
<1> QED BY <1>1, <1>2, <1>3

(* What a Begin the recorder takes needs, and what a message it takes leaves. *)
Ready(s, m, kind, begin) ==
  kind = "down" /\ m.read /\ ~m.cancelled =>
    s.recorded = None /\ PenBegun(s) /\ s.touch = None /\ begin \in Begins(s)
Noted(s, v, m, kind) ==
  /\ v \in Windows /\ Ink(v) /\ Grasps(s, v) /\ v.penActive = s.penActive /\ v.gone = s.gone
  /\ Orders(s, v) /\ (kind # "down" => v.missed = s.missed)
  /\ kind # "down" => v.recorded = None \/ v.recorded = s.recorded
  /\ kind = "up" /\ m.read => v.recorded = None /\ v.open = FALSE
  /\ kind = "lost" => v.recorded = None

LEMMA RecordIs ==
  ASSUME NEW s \in Windows, Ink(s), NEW m, IsMessage(m), NEW kind \in {"down", "update", "up", "lost"},
         NEW begin, NEW page, Ready(s, m, kind, begin)
  PROVE Noted(s, Record(s, m, kind, begin, page), m, kind)
<1> USE DEF Ready
<1> DEFINE u == Record(s, m, kind, begin, page)
           Done(v) == Noted(s, v, m, kind)
<1>0. m.read \in BOOLEAN /\ m.cancelled \in BOOLEAN /\ m.contact \in BOOLEAN BY DEF IsMessage
<1>1. Done(PenCancels(s)) BY PenCancelsIs DEF Noted, Shuts, Orders
<1>2. (kind = "lost" => s.recorded = None) /\ (kind = "up" => ~m.read) => Done(s)
  BY DEF Noted, Grasps, Orders
<1>3. kind = "update" => Done(PenMoves(s, page)) BY PenMovesIs DEF Noted, Keeps, Grasps, Orders
<1>4. kind = "down" /\ m.read /\ ~m.cancelled => Done(PenBegins(s, begin)) BY PenBeginsIs DEF Noted
<1>5. Done(PenEnds(s)) BY PenEndsIs DEF Noted, Shuts, Orders
<1> HIDE DEF Done
<1>6. CASE ~m.read
  <2>1. u = IF kind = "lost" /\ Recorded(s) THEN PenCancels(s) ELSE s BY <1>6 DEF Record
  <2> HIDE DEF u
  <2>2. CASE kind = "lost" /\ Recorded(s) BY <1>1, <2>1, <2>2 DEF Done, u
  <2>3. CASE ~(kind = "lost" /\ Recorded(s))
    <3>1. kind = "lost" => s.recorded = None BY <2>3 DEF Recorded
    <3>2. Done(u) BY <1>2, <1>6, <2>1, <2>3, <3>1
    <3> QED BY <3>2 DEF Done, u
  <2> QED BY <2>2, <2>3
<1>7. CASE m.read /\ kind = "update"
  <2>1. u = CASE ~m.contact -> s
              [] m.contact /\ m.cancelled -> PenCancels(s)
              [] OTHER -> PenMoves(s, page)
    BY <1>7 DEF Record
  <2> HIDE DEF u
  <2>2. u \in {s, PenCancels(s), PenMoves(s, page)} BY <1>0, <2>1
  <2>3. Done(u) BY <1>1, <1>2, <1>3, <1>7, <2>2
  <2> QED BY <2>3 DEF Done, u
<1>8. CASE m.read /\ kind = "down"
  <2>1. u = IF m.cancelled THEN PenCancels(s) ELSE PenBegins(s, begin) BY <1>8 DEF Record
  <2> QED BY <1>0, <1>1, <1>4, <1>8, <2>1 DEF Done
<1>9. CASE m.read /\ kind = "up"
  <2>1. u = IF m.cancelled THEN PenCancels(s) ELSE PenEnds(s) BY <1>9 DEF Record
  <2> QED BY <1>0, <1>1, <1>5, <2>1 DEF Done
<1>10. CASE m.read /\ kind = "lost"
  <2>1. u = PenCancels(s) BY <1>10 DEF Record
  <2> QED BY <1>1, <2>1 DEF Done
<1> QED BY <1>0, <1>6, <1>7, <1>8, <1>9, <1>10

PenSet(s, u) ==
  /\ u \in Windows /\ Ink(u) /\ Grasps(s, u) /\ u.recorded = s.recorded
  /\ u.penActive = TRUE /\ Remembers(s, u) /\ u.gone = s.gone
  /\ u.stray = s.stray /\ u.missed = s.missed

LEMMA SetsPen ==
  ASSUME NEW s \in Windows, Ink(s), NEW picking \in {"no", "barrel", "alt"},
         NEW u, u = [s EXCEPT !.penActive = TRUE, !.picking = picking]
  PROVE PenSet(s, u)
<1>1. /\ u \in Windows /\ Grasps(s, u) /\ u.recorded = s.recorded /\ u.open = s.open
      /\ u.penActive = TRUE /\ Remembers(s, u) /\ u.gone = s.gone
      /\ u.stray = s.stray /\ u.missed = s.missed
  BY DEF Windows, Grasps, Remembers
<1> QED BY <1>1, SameInk DEF Grasps, PenSet

(* What a message the view does not take leaves of the pen's adapter. *)
Observed(s, u, m) ==
  /\ u \in Windows /\ Ink(u) /\ Grasps(s, u) /\ Orders(s, u)
  /\ m.kind \notin {"down", "update"} => u.missed = s.missed
  /\ m.kind # "up" => Pens(u)
  /\ m.kind \in {"up", "lost"} => ~u.penActive /\ ~u.gone
  /\ m.kind = "up" /\ m.read => u.recorded = None /\ u.open = FALSE
  /\ m.kind = "lost" => u.recorded = None
  /\ u.penActive => s.penActive \/ m.kind = "down"
  /\ u.recorded # None => s.recorded # None \/ m.kind = "down" \/ (m.kind = "update" /\ m.contact)
  /\ u.gone => s.gone
  /\ ~u.missed /\ s.missed => ~u.gone /\ (m.kind = "down" \/ (m.kind = "update" /\ m.contact))

LEMMA ObservePenIs ==
  ASSUME NEW s \in Windows, Ink(s), Pens(s), PenBegun(s), NEW m, IsMessage(m), m.kind # "leave",
         NEW alt, NEW begin, NEW page,
         m.kind = "down" => s.recorded = None,
         m.kind = "down" /\ m.read /\ ~m.cancelled => s.touch = None /\ begin \in Begins(s),
         Picks(s, m) /\ m.read => s.touch = None /\ begin \in Begins(FinishPen(s))
  PROVE Observed(s, ObservePen(s, m, alt, begin, page), m)
<1> DEFINE u == ObservePen(s, m, alt, begin, page)
           kind == IF Picks(s, m) THEN "down" ELSE m.kind
           t == IF Picks(s, m) THEN FinishPen(s) ELSE s
           p == Unpick(t)
           releases == Steers(s, m) /\ s.picking = "barrel" /\ m.shortcut # "picker" /\ ~alt
           picking == CASE m.shortcut = "picker" -> "barrel"
                        [] alt /\ m.shortcut # "picker" -> "alt"
                        [] OTHER -> "no"
<1>1. kind \in {"down", "update", "up", "lost"} BY DEF Kinds, IsMessage
<1>2. /\ t \in Windows /\ Ink(t) /\ Grasps(s, t) /\ PenBegun(t) /\ Pens(t)
      /\ t.missed = s.missed /\ (s.stray = "no" => t.stray = "no") /\ (t.gone => s.gone)
      /\ kind = "down" => t.recorded = None
      /\ kind = "down" /\ m.read /\ ~m.cancelled => t.touch = None /\ begin \in Begins(t)
  <2>1. CASE Picks(s, m)
    <3>1. t = FinishPen(s) BY <2>1
    <3>2. Idle(s, FinishPen(s)) /\ PenBegun(FinishPen(s)) BY FinishPenIs
    <3>3. FinishPen(s).touch = s.touch BY <3>2 DEF Idle, Grasps
    <3> QED BY <2>1, <3>1, <3>2, <3>3 DEF Idle, Pens
  <2>2. CASE ~Picks(s, m)
    <3>1. t = s /\ kind = m.kind BY <2>2
    <3> HIDE DEF t, kind
    <3> QED BY <3>1 DEF Grasps
  <2> QED BY <2>1, <2>2
<1>3. Picks(s, m) => m.kind = "update" /\ s.penActive /\ m.contact BY DEF Picks, Steers
<1>4. ~Picks(s, m) => t = s /\ kind = m.kind OBVIOUS
<1>5. picking \in {"no", "barrel", "alt"} OBVIOUS
<1>6. u = CASE releases -> FinishPen(s)
            [] kind = "down" ->
                 Record([Unpick(t) EXCEPT !.penActive = TRUE, !.picking = picking], m, kind, begin, page)
            [] kind \in {"up", "lost"} -> Record(Unpick(t), m, kind, begin, page)
            [] OTHER -> Record(t, m, kind, begin, page)
  BY DEF ObservePen
<1>7. releases => kind = "update"
  BY DEF Picks, Steers
<1>p. p = Unpick(t) OBVIOUS
<1>k. kind = "down" => m.kind = "down" \/ (m.kind = "update" /\ m.contact) BY <1>3
<1>l. kind = m.kind \/ kind = "down" BY <1>4
<1> HIDE DEF u, kind, t, p, releases, picking
<1>q. /\ p \in Windows /\ Ink(p) /\ Grasps(t, p) /\ p.recorded = t.recorded /\ p.open = t.open
      /\ p.penActive = FALSE /\ p.gone = FALSE /\ Remembers(t, p)
      /\ p.stray = "no" <=> t.stray = "no"
      /\ p.missed = t.missed
  BY <1>2, <1>p, UnpickIs
<1>8. CASE releases
  <2>1. u = FinishPen(s) BY <1>6, <1>7, <1>8
  <2>2. m.kind = "update" BY <1>8 DEF releases, Steers
  <2>3. Idle(s, u) BY <2>1, FinishPenIs
  <2> QED BY <2>2, <2>3 DEF Pens, Idle, Observed, Orders, u
<1>9. CASE ~releases /\ kind = "down"
  <2> DEFINE v == [p EXCEPT !.penActive = TRUE, !.picking = picking]
  <2>1. u = Record(v, m, kind, begin, page) BY <1>6, <1>9, <1>p
  <2>2. v = [p EXCEPT !.penActive = TRUE, !.picking = picking] OBVIOUS
  <2> HIDE DEF v
  <2>a. PenSet(p, v) BY <1>5, <1>q, <2>2, SetsPen
  <2>3. /\ v \in Windows /\ Ink(v) /\ Grasps(p, v) /\ v.recorded = p.recorded
        /\ v.penActive = TRUE /\ Remembers(p, v) /\ v.gone = p.gone
        /\ v.stray = p.stray /\ v.missed = p.missed
    BY <2>a DEF PenSet
  <2>4. Ready(v, m, kind, begin)
    <3>1. v.recorded = t.recorded /\ v.touch = t.touch BY <1>q, <2>3 DEF Grasps
    <3>2. v.begun = t.begun /\ v.crossed = t.crossed /\ v.stroke = t.stroke
      BY <1>q, <2>3 DEF Remembers
    <3>3. PenBegun(v) BY <1>2, <3>1, <3>2 DEF PenBegun
    <3>4. Begins(v) = Begins(t) BY <3>2 DEF Begins
    <3> QED BY <1>2, <3>1, <3>3, <3>4 DEF Ready
  <2>b. Noted(v, u, m, kind) BY <1>1, <2>1, <2>3, <2>4, RecordIs
  <2>5. /\ u \in Windows /\ Ink(u) /\ Grasps(v, u) /\ u.penActive = v.penActive
        /\ u.gone = v.gone /\ Orders(v, u)
    BY <2>b DEF Noted
  <2>6. m.kind = "down" \/ (m.kind = "update" /\ m.contact) BY <1>9, <1>k
  <2>7. s.penActive \/ m.kind = "down" BY <1>3, <1>4, <1>9
  <2>8. Grasps(s, u) BY <1>2, <1>q, <2>3, <2>5 DEF Grasps
  <2>9. Orders(s, u)
    <3>1. v.drag = s.drag BY <1>2, <1>q, <2>3 DEF Grasps
    <3> QED BY <1>2, <1>q, <2>3, <2>5, <3>1 DEF Orders
  <2> QED BY <1>q, <2>3, <2>5, <2>6, <2>7, <2>8, <2>9 DEF Pens, Observed, u
<1>10. CASE ~releases /\ kind \in {"up", "lost"}
  <2>1. u = Record(p, m, kind, begin, page) BY <1>6, <1>10, <1>p
  <2>2. m.kind = kind BY <1>10, <1>l
  <2>a. Ready(p, m, kind, begin) BY <1>10 DEF Ready
  <2>b. Noted(p, u, m, kind) BY <1>1, <1>q, <2>1, <2>a, RecordIs
  <2>3. /\ u \in Windows /\ Ink(u) /\ Grasps(p, u) /\ u.penActive = p.penActive
        /\ u.gone = p.gone /\ Orders(p, u) /\ u.missed = p.missed
        /\ u.recorded = None \/ u.recorded = p.recorded
        /\ kind = "up" /\ m.read => u.recorded = None /\ u.open = FALSE
        /\ kind = "lost" => u.recorded = None
    BY <1>10, <2>b DEF Noted
  <2>4. t = s BY <1>3, <1>4, <1>10, <2>2
  <2>5. Grasps(s, u) BY <1>2, <1>q, <2>3 DEF Grasps
  <2>6. Orders(s, u) BY <1>q, <2>3, <2>4 DEF Orders
  <2> QED BY <1>10, <1>q, <2>2, <2>3, <2>4, <2>5, <2>6 DEF Pens, Observed, u
<1>11. CASE ~releases /\ kind = "update"
  <2>1. u = Record(t, m, kind, begin, page) BY <1>6, <1>11
  <2>2. t = s /\ m.kind = "update" BY <1>3, <1>4, <1>11 DEF kind
  <2>a. Ready(s, m, kind, begin) BY <1>11 DEF Ready
  <2>b. Noted(s, u, m, kind) BY <1>1, <2>1, <2>2, <2>a, RecordIs
  <2>3. /\ u \in Windows /\ Ink(u) /\ Grasps(s, u) /\ u.penActive = s.penActive
        /\ u.gone = s.gone /\ Orders(s, u) /\ u.missed = s.missed
        /\ u.recorded = None \/ u.recorded = s.recorded
    BY <1>11, <2>b DEF Noted
  <2> QED BY <2>2, <2>3 DEF Pens, Observed, u
<1> QED BY <1>1, <1>8, <1>9, <1>10, <1>11

-----------------------------------------------------------------------------
(* The state of the window against the fingers on the screen, the buttons    *)
(* that are down and the place of the pen.                                   *)
Parts(s, on, buttons, at) ==
  s \in Windows /\ Ink(s) /\ Touched(s, on) /\ Held(s, buttons) /\ Penned(s, at)

(* What no step of the mouse or of touch changes.                            *)
Elsewise(s, u) ==
  /\ u.picking = s.picking /\ u.penActive = s.penActive /\ u.gone = s.gone
  /\ u.recorded = s.recorded /\ u.open = s.open
  /\ u.stray = s.stray /\ u.missed = s.missed

LEMMA NowIs ==
  ASSUME IInv
  PROVE /\ Parts(Now, fingers, held, penAt) /\ Keeps(w, Now) /\ Now.stroke = w.stroke
        /\ Now.skipped = w.skipped
        /\ \A g \in Now.begun : g \in {w.mouse, w.touch, w.recorded}
        /\ PenBegun(Now) /\ Pens(Now)
<1> DEFINE running == {w.mouse, w.touch, w.recorded}
           begun == w.begun \cap running
           crossed == w.crossed \cap (running \cup w.stroke.of)
           dropped == w.dropped /\ w.stroke # NoStroke
<1>1. w \in Windows /\ Ink(w) BY DEF IInv, TypeOK
<1>2. begun \subseteq AllGestures /\ crossed \subseteq AllGestures BY <1>1, StrokeTypes
<1>d. dropped \in BOOLEAN OBVIOUS
<1>3. Now = [w EXCEPT !.ended = {}, !.closed = {}, !.begun = begun, !.dropped = dropped,
                      !.crossed = crossed]
  BY DEF Now
<1> HIDE DEF begun, crossed, dropped
<1>4. ASSUME NEW v, v = [w EXCEPT !.ended = {}, !.closed = {}, !.begun = begun,
                                  !.dropped = dropped, !.crossed = crossed]
      PROVE /\ v \in Windows /\ Keeps(w, v) /\ v.stroke = w.stroke /\ v.skipped = w.skipped
            /\ v.awaiting = w.awaiting /\ v.dropped = dropped
            /\ v.ended = {} /\ v.closed = {} /\ v.begun = begun /\ v.crossed = crossed
  BY <1>1, <1>2, <1>d, <1>4 DEF Windows, Keeps
<1>5. /\ Now \in Windows /\ Keeps(w, Now) /\ Now.stroke = w.stroke /\ Now.skipped = w.skipped
      /\ Now.awaiting = w.awaiting /\ Now.dropped = dropped
      /\ Now.ended = {} /\ Now.closed = {} /\ Now.begun = begun /\ Now.crossed = crossed
  BY <1>3, <1>4
<1>6. Ink(Now)
  <2>1. Apart(Now) /\ Quiet(Now) /\ Writing(Now) = Writing(w)
    BY <1>1, <1>5 DEF Apart, Quiet, Writing, Keeps, Ink
  <2>2. Writing(w) \subseteq running BY DEF Writing
  <2>3. Same(Now) /\ Whole(Now) BY <1>1, <1>5, <2>1 DEF Same, Whole, Ink
  <2>o. Owned(Now) /\ Strayed(Now)
    BY <1>1, <1>5, <2>1 DEF Owned, Strayed, Keeps, Ink, dropped
  <2>4. Joined(Now)
    <3> SUFFICES ASSUME Now.stroke # NoStroke, NEW g \in Writing(w)
                 PROVE w.stroke.of = {g} \/ {g} \cup (w.stroke.of \ {Stray}) \subseteq crossed
      BY <1>5, <2>1 DEF Joined
    <3>1. w.stroke.of = {g} \/ {g} \cup (w.stroke.of \ {Stray}) \subseteq w.crossed
      BY <1>1, <1>5 DEF Ink, Joined
    <3> QED BY <2>2, <3>1 DEF crossed
  <2>5. Begun(Now)
    <3> SUFFICES ASSUME NEW g \in begun \cap running, g \notin crossed
                 PROVE g \in Writing(w) /\ w.stroke.of = {g} /\ ~w.stroke.reads
      BY <1>5, <2>1 DEF Begun, Keeps
    <3>1. g \in w.begun /\ g \notin w.crossed BY DEF begun, crossed
    <3> QED BY <1>1, <3>1 DEF Ink, Begun
  <2> QED BY <2>1, <2>3, <2>o, <2>4, <2>5 DEF Ink
<1>7. Touched(Now, fingers) /\ Held(Now, held) /\ Penned(Now, penAt)
  BY <1>5 DEF IInv, Touched, Held, Penned, Placed, Sharp, Keeps
<1>8. \A g \in Now.begun : g \in {w.mouse, w.touch, w.recorded} BY <1>5 DEF begun
<1>9. PenBegun(Now)
  <2>1. w.mouse \in Of("mouse") /\ w.touch \in Of("touch") /\ w.recorded \in Of("pen")
    BY <1>1 DEF Windows
  <2> QED BY <1>5, <1>8, <2>1 DEF PenBegun, Of, None, Gesture, Keeps
<1>10. Pens(Now) BY <1>7 DEF Pens, Penned, Placed, Sharp
<1> QED BY <1>5, <1>6, <1>7, <1>8, <1>9, <1>10 DEF Parts

LEMMA DragIs ==
  ASSUME NEW s \in Windows, Ink(s),
         NEW drag \in {"none", "touch", "gone"} \cup MouseDrags \cup PenDrags,
         NEW u, u = [s EXCEPT !.drag = drag]
  PROVE /\ u \in Windows /\ Ink(u) /\ Elsewise(s, u) /\ Remembers(s, u) /\ u.drag = drag
        /\ u.penContact = s.penContact /\ u.touchPointer = s.touchPointer
        /\ u.mouse = s.mouse /\ u.touch = s.touch /\ u.listening = s.listening
<1>1. /\ u \in Windows /\ Elsewise(s, u) /\ Remembers(s, u) /\ u.drag = drag
      /\ u.penContact = s.penContact /\ u.touchPointer = s.touchPointer
      /\ u.mouse = s.mouse /\ u.touch = s.touch /\ u.listening = s.listening
  BY DEF Windows, Elsewise, Remembers
<1> QED BY <1>1, SameInk DEF Elsewise

LEMMA LoseMouseIs ==
  ASSUME NEW s \in Windows, Ink(s)
  PROVE LET u == LoseMouse(s) IN
        /\ u \in Windows /\ Ink(u) /\ Elsewise(s, u) /\ u.mouse = None /\ u.listening = FALSE
        /\ u.penContact = s.penContact /\ u.touchPointer = s.touchPointer
        /\ u.drag = s.drag /\ u.touch = s.touch
<1> DEFINE t == CancelAdapter(s, "mouse")
           u == LoseMouse(s)
<1>1. "mouse" \in Adapters BY DEF Adapters
<1>2. t \in Windows /\ Ink(t) /\ Steady(s, t) /\ Slots(s, t, "mouse", None)
  BY <1>1, CancelAdapterIs
<1>3. u = [t EXCEPT !.listening = FALSE] BY DEF LoseMouse
<1> HIDE DEF t, u
<1>4. /\ u \in Windows /\ Elsewise(t, u) /\ Remembers(t, u) /\ u.listening = FALSE
      /\ u.penContact = t.penContact /\ u.touchPointer = t.touchPointer
      /\ u.drag = t.drag /\ u.mouse = t.mouse /\ u.touch = t.touch
  BY <1>2, <1>3 DEF Windows, Elsewise, Remembers
<1>5. Ink(u) BY <1>2, <1>4, SameInk DEF Elsewise
<1> QED BY <1>2, <1>4, <1>5 DEF Elsewise, Steady, Slots, u

LEMMA CancelTouchIs ==
  ASSUME NEW s \in Windows, Ink(s)
  PROVE LET u == CancelTouch(s) IN
        /\ u \in Windows /\ Ink(u) /\ Elsewise(s, u) /\ u.touch = None /\ u.touchPointer = NoFinger
        /\ u.drag = (IF s.drag = "touch" THEN "none" ELSE s.drag)
        /\ u.penContact = s.penContact /\ u.mouse = s.mouse /\ u.listening = s.listening
        /\ u.begun = s.begun /\ u.crossed = s.crossed
        /\ s.stroke = NoStroke => u.stroke = NoStroke
<1> DEFINE drag == IF s.drag = "touch" THEN "none" ELSE s.drag
           t == [s EXCEPT !.touchPointer = NoFinger, !.drag = drag]
           u == CancelTouch(s)
<1>1. drag \in {"none", "touch", "gone"} \cup MouseDrags \cup PenDrags BY DEF Windows
<1>2. u = CancelAdapter(t, "touch") BY DEF CancelTouch
<1> HIDE DEF drag, u
<1>3. /\ t \in Windows /\ Elsewise(s, t) /\ Remembers(s, t) /\ t.touchPointer = NoFinger
      /\ t.drag = drag /\ t.penContact = s.penContact /\ t.mouse = s.mouse /\ t.touch = s.touch
      /\ t.listening = s.listening
  BY <1>1 DEF Windows, Elsewise, Remembers
<1> HIDE DEF t
<1>4. Ink(t) BY <1>3, SameInk DEF Elsewise
<1>5. "touch" \in Adapters BY DEF Adapters
<1>6. /\ u \in Windows /\ Ink(u) /\ Steady(t, u) /\ Slots(t, u, "touch", None)
      /\ u.begun = t.begun /\ u.crossed = t.crossed
      /\ t.stroke = NoStroke => u.stroke = NoStroke
  BY <1>2, <1>3, <1>4, <1>5, CancelAdapterIs
<1> QED BY <1>3, <1>6 DEF Elsewise, Steady, Slots, Remembers, drag, u

LEMMA TakeOverIs ==
  ASSUME NEW s \in Windows, Ink(s)
  PROVE LET u == TakeOver(s) IN
        /\ u \in Windows /\ Ink(u) /\ Elsewise(s, u)
        /\ u.penContact = s.penContact /\ u.touchPointer = s.touchPointer
        /\ u.drag = s.drag /\ u.touch = s.touch
        /\ u.mouse = None \/ (u.drag = "none" /\ u.mouse = s.mouse /\ u.listening = s.listening)
<1>1. CASE s.drag # "none" /\ s.mouse # None
  <2>1. TakeOver(s) = LoseMouse(s) BY <1>1 DEF TakeOver
  <2> QED BY <2>1, LoseMouseIs
<1>2. CASE ~(s.drag # "none" /\ s.mouse # None)
  <2>1. TakeOver(s) = s BY <1>2 DEF TakeOver
  <2> QED BY <1>2, <2>1 DEF Elsewise
<1> QED BY <1>1, <1>2

LEMMA CaptureLostIs ==
  ASSUME NEW s, NEW on, NEW buttons, NEW at, Parts(s, on, buttons, at)
  PROVE LET u == CaptureLost(s) IN
        Parts(u, on, buttons, at) /\ ~NeedsMouse(u) /\ u.listening = FALSE
          /\ u.touch = s.touch /\ u.penContact = s.penContact /\ u.touchPointer = s.touchPointer
          /\ Elsewise(s, u)
          /\ u.drag = (IF s.drag \in MouseDrags THEN "none" ELSE s.drag)
<1> DEFINE drag == IF s.drag \in MouseDrags THEN "none" ELSE s.drag
           t == [s EXCEPT !.drag = drag]
           u == CaptureLost(s)
<1>1. s \in Windows /\ Ink(s) BY DEF Parts
<1>2. drag \in {"none", "touch", "gone"} \cup MouseDrags \cup PenDrags BY <1>1 DEF Windows
<1>3. u = LoseMouse(t) BY DEF CaptureLost
<1>4. t = [s EXCEPT !.drag = drag] OBVIOUS
<1> HIDE DEF drag, t, u
<1>5. /\ t \in Windows /\ Ink(t) /\ Elsewise(s, t) /\ t.drag = drag
      /\ t.penContact = s.penContact /\ t.touchPointer = s.touchPointer
      /\ t.mouse = s.mouse /\ t.touch = s.touch
  BY <1>1, <1>2, <1>4, DragIs
<1>6. /\ u \in Windows /\ Ink(u) /\ Elsewise(t, u) /\ u.mouse = None /\ u.listening = FALSE
      /\ u.penContact = t.penContact /\ u.touchPointer = t.touchPointer
      /\ u.drag = t.drag /\ u.touch = t.touch
  BY <1>3, <1>5, LoseMouseIs
<1>7. /\ Elsewise(s, u) /\ u.penContact = s.penContact /\ u.touchPointer = s.touchPointer
      /\ u.touch = s.touch /\ u.drag = drag
  BY <1>5, <1>6 DEF Elsewise
<1>8. "none" \notin MouseDrags /\ "none" \notin PenDrags BY DEF MouseDrags, PenDrags
<1>9. u.drag = s.drag \/ u.drag = "none" BY <1>7 DEF drag
<1>10. u.drag \notin MouseDrags BY <1>7, <1>8 DEF drag
<1>11. Touched(u, on) BY <1>6, <1>7, <1>9, <1>10 DEF Parts, Touched
<1>12. Held(u, buttons) BY <1>6, <1>10 DEF Held, MouseDrags
<1>13. Penned(u, at) BY <1>7, <1>8, <1>9 DEF Parts, Penned, Placed, Sharp, Elsewise
<1>14. Parts(u, on, buttons, at) /\ ~NeedsMouse(u)
  BY <1>6, <1>10, <1>11, <1>12, <1>13 DEF Parts, NeedsMouse
<1> QED BY <1>6, <1>7, <1>14 DEF drag, u

(* What an action has to leave behind. *)
Places ==
  /\ penAt \in {"away", "hover", "contact"} /\ held \subseteq {"left", "middle"}
  /\ fingers \subseteq Fingers /\ faults \in Nat

LEMMA Closes ==
  ASSUME Parts(w', fingers', held', penAt'), capture' = NeedsMouse(w'), Places'
  PROVE IInv'
<1>1. NeedsMouse(w)' = NeedsMouse(w') BY DEF NeedsMouse
<1>2. /\ (w \in Windows)' /\ Ink(w)' /\ Touched(w, fingers)' /\ Held(w, held)'
      /\ Penned(w, penAt)'
  BY DEF Parts
<1>3. capture' \in BOOLEAN BY DEF NeedsMouse
<1> QED BY <1>1, <1>2, <1>3 DEF IInv, TypeOK, Places

LEMMA SettleIs ==
  ASSUME IInv, NEW s, Parts(s, fingers', held', penAt'), Settle(s), Places'
  PROVE IInv'
<1>1. capture = NeedsMouse(w) BY DEF IInv
<1>2. /\ Parts(CaptureLost(s), fingers', held', penAt') /\ ~NeedsMouse(CaptureLost(s))
  BY CaptureLostIs
<1>3. /\ Parts(w', fingers', held', penAt') /\ capture' = NeedsMouse(w')
  <2>1. CASE ~NeedsMouse(w) /\ NeedsMouse(s)
    <3>1. capture' = TRUE /\ w' = s BY <2>1 DEF Settle
    <3> QED BY <2>1, <3>1
  <2>2. CASE NeedsMouse(w) /\ ~NeedsMouse(s)
    <3>1. capture' = FALSE /\ w' = IF capture THEN CaptureLost(s) ELSE s BY <2>2 DEF Settle
    <3>2. capture = TRUE BY <1>1, <2>2 DEF NeedsMouse
    <3>3. w' = CaptureLost(s) BY <3>1, <3>2
    <3> QED BY <1>2, <2>2, <3>1, <3>3 DEF NeedsMouse
  <2>3. CASE NeedsMouse(w) <=> NeedsMouse(s)
    <3>1. capture' = capture /\ w' = s BY <2>3 DEF Settle
    <3>2. NeedsMouse(s) = NeedsMouse(w) BY <2>3 DEF NeedsMouse
    <3> QED BY <1>1, <3>1, <3>2
  <2> QED BY <2>1, <2>2, <2>3
<1> QED BY <1>3, Closes

LEMMA IgnoreIs ==
  ASSUME IInv, Ignore, Held(w, held'), Touched(w, fingers'), Penned(w, penAt'), Places'
  PROVE IInv'
<1>1. Now \in Windows /\ Ink(Now) /\ Keeps(w, Now) BY NowIs DEF Parts
<1>2. Touched(Now, fingers') /\ Held(Now, held') /\ Penned(Now, penAt')
  BY <1>1 DEF Touched, Held, Penned, Placed, Sharp, Keeps
<1>3. NeedsMouse(Now) = NeedsMouse(w) BY <1>1 DEF NeedsMouse, Keeps
<1>4. w' = Now /\ capture' = capture /\ capture = NeedsMouse(w) BY DEF Ignore, IInv
<1> QED BY <1>1, <1>2, <1>3, <1>4, Closes DEF Parts

LEMMA FaultsAre ==
  ASSUME IInv
  PROVE /\ Fine \/ Faulty => faults' \in Nat
        /\ faults' = faults => faults' \in Nat
BY DEF IInv, TypeOK, Fine, Faulty

-----------------------------------------------------------------------------
(* The mouse *)

(* What the window knows when it hears the mouse. *)
LEMMA HearsIs ==
  ASSUME IInv, Hears
  PROVE Now.touchPointer = NoFinger /\ Now.touch = None /\ Now.drag # "touch"
BY NowIs DEF Parts, Touched, Hears, Keeps

(* A drag with the mouse cancels what it draws. *)
LEMMA DragsOff ==
  ASSUME IInv, Hears, NEW d \in {"mousePrimary", "mouseMiddle", "none"}, NEW buttons,
         Held(w, buttons), d = "mousePrimary" => "left" \in buttons,
         d = "mouseMiddle" => "middle" \in buttons
  PROVE Parts(TakeOver([Now EXCEPT !.drag = d]), fingers, buttons, penAt)
<1> DEFINE t == [Now EXCEPT !.drag = d]
           u == TakeOver(t)
<1>1. Parts(Now, fingers, held, penAt) /\ Keeps(w, Now) BY NowIs
<1>2. Now.touchPointer = NoFinger /\ Now.touch = None BY HearsIs
<1>3. d \in {"none", "touch", "gone"} \cup MouseDrags \cup PenDrags BY DEF MouseDrags
<1>4. d \notin PenDrags /\ d # "touch" BY DEF PenDrags
<1>5. t = [Now EXCEPT !.drag = d] OBVIOUS
<1> HIDE DEF t
<1>6. /\ t \in Windows /\ Ink(t) /\ Elsewise(Now, t) /\ t.drag = d
      /\ t.penContact = Now.penContact /\ t.touchPointer = Now.touchPointer
      /\ t.mouse = Now.mouse /\ t.touch = Now.touch /\ t.listening = Now.listening
  BY <1>1, <1>3, <1>5, DragIs DEF Parts
<1>7. /\ u \in Windows /\ Ink(u) /\ Elsewise(t, u)
      /\ u.penContact = t.penContact /\ u.touchPointer = t.touchPointer
      /\ u.drag = t.drag /\ u.touch = t.touch
      /\ u.mouse = None \/ (u.drag = "none" /\ u.mouse = t.mouse /\ u.listening = t.listening)
  BY <1>6, TakeOverIs
<1> HIDE DEF u
<1>8. Touched(u, fingers) BY <1>2, <1>4, <1>6, <1>7 DEF Touched
<1>9. Held(u, buttons) BY <1>1, <1>6, <1>7 DEF Held, Keeps
<1>10. Penned(u, penAt)
  BY <1>1, <1>4, <1>6, <1>7 DEF Parts, Penned, Placed, Sharp, Elsewise, PenDrags
<1>11. Parts(u, fingers, buttons, penAt) BY <1>7, <1>8, <1>9, <1>10 DEF Parts
<1> QED BY <1>11 DEF t, u

LEMMA LosesMouse ==
  ASSUME IInv, NEW buttons, "middle" \in held => "middle" \in buttons,
         w.drag = "mousePrimary" => "left" \in buttons
  PROVE Parts(LoseMouse(Now), fingers, buttons, penAt)
<1> DEFINE u == LoseMouse(Now)
<1>1. Parts(Now, fingers, held, penAt) /\ Keeps(w, Now) BY NowIs
<1>2. /\ u \in Windows /\ Ink(u) /\ Elsewise(Now, u) /\ u.mouse = None /\ u.listening = FALSE
      /\ u.penContact = Now.penContact /\ u.touchPointer = Now.touchPointer
      /\ u.drag = Now.drag /\ u.touch = Now.touch
  BY <1>1, LoseMouseIs DEF Parts
<1> HIDE DEF u
<1>3. Touched(u, fingers) BY <1>1, <1>2 DEF Parts, Touched
<1>4. Held(u, buttons) BY <1>1, <1>2 DEF Parts, Held, Keeps
<1>5. Penned(u, penAt) BY <1>1, <1>2 DEF Parts, Penned, Placed, Sharp, Elsewise
<1>6. Parts(u, fingers, buttons, penAt) BY <1>2, <1>3, <1>4, <1>5 DEF Parts
<1> QED BY <1>6 DEF u

LEMMA LeftDownKeeps ==
  ASSUME IInv, LeftDown
  PROVE IInv'
<1>1. /\ "left" \notin held /\ held' = held \cup {"left"} /\ penAt' = penAt /\ fingers' = fingers
  BY DEF LeftDown
<1>2. Places'
  BY <1>1, FaultsAre DEF LeftDown, Places, IInv, TypeOK
<1>3. Parts(Now, fingers, held, penAt) /\ Keeps(w, Now) BY NowIs
<1>4. Held(w, held') BY <1>1 DEF IInv, Held
<1>5. CASE ~Hears /\ Ignore
  <2>1. Touched(w, fingers') /\ Penned(w, penAt') BY <1>1 DEF IInv
  <2> QED BY <1>2, <1>4, <1>5, <2>1, IgnoreIs
<1>6. CASE Hears /\ Settle(TakeOver([Now EXCEPT !.drag = "mousePrimary"]))
  <2>1. Parts(TakeOver([Now EXCEPT !.drag = "mousePrimary"]), fingers', held', penAt')
    BY <1>1, <1>4, <1>6, DragsOff
  <2> QED BY <1>2, <1>6, <2>1, SettleIs
<1>7. ASSUME Hears, NEW begin \in Begins(w), NEW precise \in BOOLEAN,
             Settle(BeginAdapter([Now EXCEPT !.listening = TRUE], "mouse", begin, precise))
      PROVE IInv'
  <2> DEFINE t == [Now EXCEPT !.listening = TRUE]
             u == BeginAdapter(t, "mouse", begin, precise)
  <2>1. /\ t \in Windows /\ Elsewise(Now, t) /\ Remembers(Now, t) /\ t.listening = TRUE
        /\ t.penContact = Now.penContact /\ t.touchPointer = Now.touchPointer
        /\ t.drag = Now.drag /\ t.mouse = Now.mouse /\ t.touch = Now.touch
    BY <1>3 DEF Parts, Windows, Elsewise, Remembers
  <2>2. w.mouse = None /\ w.drag # "mousePrimary" BY <1>1 DEF IInv, Held
  <2>3. Now.touchPointer = NoFinger /\ Now.touch = None /\ Now.drag # "touch" BY <1>7, HearsIs
  <2> HIDE DEF t
  <2>4. Ink(t) BY <1>3, <2>1, SameInk DEF Parts, Elsewise
  <2>5. begin \in Begins(t) BY <2>1, NowIs, <1>7 DEF Begins, Remembers
  <2>6. t.open => penAt = "contact"
    <3>1. w.open => w.recorded # None /\ w.penActive BY DEF IInv, Ink, Apart, Penned, Placed, Sharp
    <3> QED BY <1>3, <2>1, <3>1 DEF Keeps, Elsewise, IInv, Penned, Placed, Sharp
  <2>7. \A g \in t.begun : g.device = "mouse" => g \in t.crossed
    <3>1. \A g \in t.begun : g \in {w.mouse, w.touch, w.recorded} BY <2>1, NowIs DEF Remembers
    <3>2. w.touch = None /\ w.recorded \in Of("pen") BY <1>3, <2>3 DEF IInv, TypeOK, Windows, Keeps
    <3> QED BY <2>2, <3>1, <3>2 DEF Of, None, Gesture
  <2>8. "mouse" \in Adapters /\ t["mouse"] = None BY <1>3, <2>1, <2>2 DEF Adapters, Keeps
  <2>9. u \in Windows /\ Ink(u) /\ Steady(t, u) /\ u.touch = t.touch
    BY <1>7, <2>1, <2>3, <2>4, <2>5, <2>6, <2>7, <2>8, BeginAdapterIs
  <2>10. Settle(u) BY <1>7 DEF t
  <2> HIDE DEF u
  <2>11. Touched(u, fingers') BY <2>1, <2>3, <2>9 DEF Touched, Steady
  <2>12. Held(u, held') BY <1>1, <1>3, <1>4, <2>1, <2>2, <2>9 DEF Held, Steady, Keeps
  <2>13. Penned(u, penAt')
    BY <1>1, <1>3, <2>1, <2>9 DEF Parts, Penned, Placed, Sharp, Steady, Elsewise
  <2> QED BY <1>2, <2>9, <2>10, <2>11, <2>12, <2>13, SettleIs DEF Parts
<1>8. CASE Hears /\ Settle(LoseMouse(Now))
  <2>1. Parts(LoseMouse(Now), fingers', held', penAt')
    BY <1>1, LosesMouse DEF IInv, Held
  <2> QED BY <1>2, <1>8, <2>1, SettleIs
<1> QED BY <1>5, <1>6, <1>7, <1>8 DEF LeftDown

LEMMA LeftUpKeeps ==
  ASSUME IInv, LeftUp
  PROVE IInv'
<1>1. /\ "left" \in held /\ held' = held \ {"left"} /\ penAt' = penAt /\ fingers' = fingers
  BY DEF LeftUp
<1>2. Places' BY <1>1, FaultsAre DEF LeftUp, Places, IInv, TypeOK, Elsewhere
<1>3. Parts(Now, fingers, held, penAt) /\ Keeps(w, Now) BY NowIs
<1>4. Touched(w, fingers') /\ Penned(w, penAt') BY <1>1 DEF IInv
<1>5. "middle" \in held <=> "middle" \in held' BY <1>1
<1>6. CASE Elsewhere
  <2>1. w.mouse = None /\ w.drag \notin MouseDrags BY <1>6 DEF Elsewhere, IInv, NeedsMouse
  <2>2. Held(w, held') BY <2>1 DEF Held, MouseDrags
  <2> QED BY <1>2, <1>4, <1>6, <2>2, IgnoreIs DEF Elsewhere
<1>7. CASE ~Hears /\ Ignore
  <2>1. w.mouse = None /\ w.drag \notin MouseDrags BY <1>7 DEF Hears, IInv, Touched
  <2>2. Held(w, held') BY <2>1 DEF Held, MouseDrags
  <2> QED BY <1>2, <1>4, <1>7, <2>2, IgnoreIs
<1>8. CASE Hears /\ w.drag = "mousePrimary" /\ Settle([Now EXCEPT !.drag = "none"])
  <2> DEFINE u == [Now EXCEPT !.drag = "none"]
  <2>1. u = [Now EXCEPT !.drag = "none"] OBVIOUS
  <2>2. Settle(u) BY <1>8
  <2> HIDE DEF u
  <2>3. /\ u \in Windows /\ Ink(u) /\ Elsewise(Now, u) /\ u.drag = "none"
        /\ u.penContact = Now.penContact /\ u.touchPointer = Now.touchPointer
        /\ u.mouse = Now.mouse /\ u.touch = Now.touch /\ u.listening = Now.listening
    BY <1>3, <2>1, DragIs DEF Parts
  <2>4. w.mouse = None BY <1>8 DEF IInv, Held
  <2>5. Touched(u, fingers') BY <1>1, <1>3, <2>3 DEF Parts, Touched, MouseDrags
  <2>6. Held(u, held') BY <1>3, <2>3, <2>4 DEF Held, Keeps
  <2>7. Penned(u, penAt') BY <1>1, <1>3, <2>3 DEF Parts, Penned, Placed, Sharp, Elsewise, PenDrags
  <2> QED BY <1>2, <2>2, <2>3, <2>5, <2>6, <2>7, SettleIs DEF Parts
<1>9. CASE Hears /\ w.drag # "mousePrimary" /\ Settle(EndMouse(Now))
  <2> DEFINE u == EndMouse(Now)
             t == [Now EXCEPT !.listening = FALSE]
  <2>1. /\ u \in Windows /\ Ink(u) /\ Elsewise(Now, u) /\ u.mouse = None
        /\ u.penContact = Now.penContact /\ u.touchPointer = Now.touchPointer
        /\ u.drag = Now.drag /\ u.touch = Now.touch
    <3>1. CASE Now.listening
      <4>1. u = EndAdapter(t, "mouse") BY <3>1 DEF EndMouse
      <4>2. /\ t \in Windows /\ Elsewise(Now, t) /\ Remembers(Now, t)
            /\ t.penContact = Now.penContact /\ t.touchPointer = Now.touchPointer
            /\ t.drag = Now.drag /\ t.mouse = Now.mouse /\ t.touch = Now.touch
        BY <1>3 DEF Parts, Windows, Elsewise, Remembers
      <4> HIDE DEF t, u
      <4>3. Ink(t) BY <1>3, <4>2, SameInk DEF Parts, Elsewise
      <4>4. "mouse" \in Adapters BY DEF Adapters
      <4>5. u \in Windows /\ Ink(u) /\ Steady(t, u) /\ Slots(t, u, "mouse", None)
        BY <4>1, <4>2, <4>3, <4>4, EndAdapterIs
      <4> QED BY <4>2, <4>5 DEF Elsewise, Steady, Slots
    <3>2. CASE ~Now.listening
      <4>1. u = Now BY <3>2 DEF EndMouse
      <4>2. Now.mouse = None BY <1>3, <3>2 DEF Parts, Held
      <4> QED BY <1>3, <4>1, <4>2 DEF Parts, Elsewise
    <3> QED BY <3>1, <3>2
  <2>2. Settle(u) BY <1>9
  <2> HIDE DEF u
  <2>3. Touched(u, fingers') BY <1>1, <1>3, <2>1 DEF Parts, Touched
  <2>4. Held(u, held') BY <1>3, <1>5, <1>9, <2>1 DEF Parts, Held, Keeps
  <2>5. Penned(u, penAt') BY <1>1, <1>3, <2>1 DEF Parts, Penned, Placed, Sharp, Elsewise
  <2> QED BY <1>2, <2>1, <2>2, <2>3, <2>4, <2>5, SettleIs DEF Parts
<1>10. CASE Hears /\ w.drag # "mousePrimary" /\ Settle(LoseMouse(Now))
  <2>1. Parts(LoseMouse(Now), fingers', held', penAt') BY <1>1, <1>5, <1>10, LosesMouse
  <2> QED BY <1>2, <1>10, <2>1, SettleIs
<1> QED BY <1>6, <1>7, <1>8, <1>9, <1>10 DEF LeftUp

LEMMA MiddleKeeps ==
  ASSUME IInv, MiddleDown \/ MiddleUp
  PROVE IInv'
<1>1. penAt' = penAt /\ fingers' = fingers /\ ("left" \in held <=> "left" \in held')
  BY DEF MiddleDown, MiddleUp
<1>2. Places' BY <1>1, FaultsAre DEF MiddleDown, MiddleUp, Places, IInv, TypeOK
<1>3. Touched(w, fingers') /\ Penned(w, penAt') BY <1>1 DEF IInv
<1>4. Parts(Now, fingers, held, penAt) /\ Keeps(w, Now) BY NowIs
<1>5. CASE MiddleDown
  <2>1. held' = held \cup {"middle"} BY <1>5 DEF MiddleDown
  <2>2. Held(w, held') BY <2>1 DEF IInv, Held
  <2>3. CASE Hears
    <3>1. Settle(TakeOver([Now EXCEPT !.drag = "mouseMiddle"])) BY <1>5, <2>3 DEF MiddleDown
    <3>2. Parts(TakeOver([Now EXCEPT !.drag = "mouseMiddle"]), fingers', held', penAt')
      BY <1>1, <2>1, <2>2, <2>3, DragsOff
    <3> QED BY <1>2, <3>1, <3>2, SettleIs
  <2>4. CASE ~Hears
    <3>1. Ignore BY <1>5, <2>4 DEF MiddleDown
    <3> QED BY <1>2, <1>3, <2>2, <3>1, IgnoreIs
  <2> QED BY <2>3, <2>4
<1>6. CASE MiddleUp
  <2>1. w.drag # "mouseMiddle" => Held(w, held') BY <1>1 DEF IInv, Held
  <2>2. ~capture => w.drag # "mouseMiddle" BY DEF IInv, NeedsMouse, MouseDrags
  <2>3. ~Hears => w.drag # "mouseMiddle" BY DEF IInv, Touched, Hears, MouseDrags
  <2>4. CASE w.drag # "mouseMiddle" /\ Ignore BY <1>2, <1>3, <2>1, <2>4, IgnoreIs
  <2>5. CASE Settle([Now EXCEPT !.drag = "none"]) /\ w.drag = "mouseMiddle"
    <3> DEFINE u == [Now EXCEPT !.drag = "none"]
    <3>1. u = [Now EXCEPT !.drag = "none"] OBVIOUS
    <3>2. Settle(u) BY <2>5
    <3> HIDE DEF u
    <3>3. /\ u \in Windows /\ Ink(u) /\ Elsewise(Now, u) /\ u.drag = "none"
          /\ u.penContact = Now.penContact /\ u.touchPointer = Now.touchPointer
          /\ u.mouse = Now.mouse /\ u.touch = Now.touch /\ u.listening = Now.listening
      BY <1>4, <3>1, DragIs DEF Parts
    <3>4. Touched(u, fingers') BY <1>1, <1>4, <3>3 DEF Parts, Touched, MouseDrags
    <3>5. Held(u, held') BY <1>1, <1>4, <3>3 DEF Parts, Held
    <3>6. Penned(u, penAt') BY <1>1, <1>4, <3>3 DEF Parts, Penned, Placed, Sharp, Elsewise, PenDrags
    <3> QED BY <1>2, <3>2, <3>3, <3>4, <3>5, <3>6, SettleIs DEF Parts
  <2>6. \/ w.drag # "mouseMiddle" /\ Ignore
        \/ Settle([Now EXCEPT !.drag = "none"]) /\ w.drag = "mouseMiddle"
    BY <1>6, <2>2, <2>3 DEF MiddleUp
  <2> QED BY <2>4, <2>5, <2>6
<1> QED BY <1>5, <1>6

(* The mouse adapter after a move that it hears, or after a raw packet.      *)
LEMMA MovesMouse ==
  ASSUME IInv, NEW u, u = CancelAdapter(Now, "mouse") \/ (\E b \in BOOLEAN : u = MoveAdapter(Now, "mouse", b))
  PROVE /\ Parts(u, fingers, held, penAt)
        /\ u.drag = w.drag /\ u.mouse \in {None, w.mouse}
<1>1. Parts(Now, fingers, held, penAt) /\ Keeps(w, Now) BY NowIs
<1>2. "mouse" \in Adapters BY DEF Adapters
<1>3. /\ u \in Windows /\ Ink(u) /\ Steady(Now, u)
      /\ Slots(Now, u, "mouse", None) \/ Slots(Now, u, "mouse", Now.mouse)
  <2>1. CASE u = CancelAdapter(Now, "mouse") BY <1>1, <1>2, <2>1, CancelAdapterIs DEF Parts
  <2>2. ASSUME NEW b \in BOOLEAN, u = MoveAdapter(Now, "mouse", b)
        PROVE /\ u \in Windows /\ Ink(u) /\ Steady(Now, u)
              /\ Slots(Now, u, "mouse", None) \/ Slots(Now, u, "mouse", Now["mouse"])
    BY <1>1, <1>2, <2>2, MoveAdapterIs DEF Parts
  <2> QED BY <2>1, <2>2
<1>4. /\ u.touch = Now.touch /\ u.mouse \in {None, Now.mouse} BY <1>3 DEF Slots
<1>5. Touched(u, fingers) BY <1>1, <1>3, <1>4 DEF Parts, Touched, Steady
<1>6. Held(u, held) BY <1>1, <1>3, <1>4 DEF Parts, Held, Steady
<1>7. Penned(u, penAt) BY <1>1, <1>3 DEF Parts, Penned, Placed, Sharp, Steady
<1> QED BY <1>1, <1>3, <1>4, <1>5, <1>6, <1>7 DEF Parts, Steady, Keeps

LEMMA MouseMovesKeeps ==
  ASSUME IInv, MouseMoves
  PROVE IInv'
<1>1. penAt' = penAt /\ held' = held /\ fingers' = fingers /\ Hears BY DEF MouseMoves, hardware
<1>2. Places' BY <1>1, FaultsAre DEF MouseMoves, Places, IInv, TypeOK
<1>3. ASSUME NEW jammed \in BOOLEAN, w.drag \in MouseDrags,
             Settle(TakeOver([Now EXCEPT !.drag = Moved(@, jammed)]))
      PROVE IInv'
  <2>1. Now.drag = w.drag BY NowIs DEF Keeps
  <2> DEFINE d == Moved(Now.drag, jammed)
  <2>2. d \in {"none", w.drag} BY <2>1 DEF Moved
  <2>3. d \in {"mousePrimary", "mouseMiddle", "none"} BY <1>3, <2>2 DEF MouseDrags
  <2>4. Settle(TakeOver([Now EXCEPT !.drag = d])) BY <1>3
  <2> HIDE DEF d
  <2>5. /\ Held(w, held) /\ (d = "mousePrimary" => "left" \in held)
        /\ (d = "mouseMiddle" => "middle" \in held)
    BY <2>2 DEF IInv, Held
  <2>6. Parts(TakeOver([Now EXCEPT !.drag = d]), fingers, held, penAt)
    BY <1>1, <2>3, <2>5, DragsOff
  <2> QED BY <1>1, <1>2, <2>4, <2>6, SettleIs
<1>4. ASSUME NEW b \in BOOLEAN, Settle(MoveAdapter(Now, "mouse", b)) PROVE IInv'
  <2>1. Parts(MoveAdapter(Now, "mouse", b), fingers, held, penAt) BY MovesMouse
  <2> QED BY <1>1, <1>2, <1>4, <2>1, SettleIs
<1>5. CASE Settle(LoseMouse(Now))
  <2>1. Parts(LoseMouse(Now), fingers, held, penAt) BY LosesMouse DEF IInv, Held
  <2> QED BY <1>1, <1>2, <1>5, <2>1, SettleIs
<1> QED BY <1>3, <1>4, <1>5 DEF MouseMoves

LEMMA RawMouseKeeps ==
  ASSUME IInv, RawMouse
  PROVE IInv'
<1>1. penAt' = penAt /\ held' = held /\ fingers' = fingers BY DEF RawMouse, hardware
<1>2. Places' BY <1>1, FaultsAre DEF RawMouse, Places, IInv, TypeOK
<1>3. ASSUME NEW s, s = CancelAdapter(Now, "mouse") \/ (\E b \in BOOLEAN : s = MoveAdapter(Now, "mouse", b)),
             IF s.mouse = None /\ w.mouse # None /\ capture /\ s.drag \notin MouseDrags
             THEN capture' = FALSE /\ w' = CaptureLost(s) ELSE capture' = capture /\ w' = s
      PROVE IInv'
  <2>1. /\ Parts(s, fingers, held, penAt) /\ s.drag = w.drag /\ s.mouse \in {None, w.mouse}
    BY <1>3, MovesMouse
  <2>2. CASE s.mouse = None /\ w.mouse # None /\ capture /\ s.drag \notin MouseDrags
    <3>1. capture' = FALSE /\ w' = CaptureLost(s) BY <1>3, <2>2
    <3>2. Parts(CaptureLost(s), fingers, held, penAt) /\ ~NeedsMouse(CaptureLost(s))
      BY <2>1, CaptureLostIs
    <3>3. capture' = NeedsMouse(w') BY <3>1, <3>2 DEF NeedsMouse
    <3> QED BY <1>1, <1>2, <3>1, <3>2, <3>3, Closes
  <2>3. CASE ~(s.mouse = None /\ w.mouse # None /\ capture /\ s.drag \notin MouseDrags)
    <3>1. capture' = capture /\ w' = s BY <1>3, <2>3
    <3>2. NeedsMouse(s) = NeedsMouse(w)
      <4>1. capture = NeedsMouse(w) BY DEF IInv
      <4> QED BY <2>1, <2>3, <4>1 DEF NeedsMouse
    <3>3. capture' = NeedsMouse(w') BY <3>1, <3>2 DEF IInv
    <3> QED BY <1>1, <1>2, <2>1, <3>1, <3>3, Closes
  <2> QED BY <2>2, <2>3
<1> QED BY <1>3 DEF RawMouse

LEMMA CaptureStolenKeeps ==
  ASSUME IInv, CaptureStolen
  PROVE IInv'
<1>1. /\ penAt' = penAt /\ held' = held /\ fingers' = fingers
      /\ capture' = FALSE /\ w' = CaptureLost(Now)
  BY DEF CaptureStolen, hardware
<1>2. Places' BY <1>1, FaultsAre DEF CaptureStolen, Places, IInv, TypeOK
<1>3. Parts(Now, fingers, held, penAt) BY NowIs
<1>4. Parts(CaptureLost(Now), fingers, held, penAt) /\ ~NeedsMouse(CaptureLost(Now))
  BY <1>3, CaptureLostIs
<1>5. capture' = NeedsMouse(w') BY <1>1, <1>4 DEF NeedsMouse
<1> QED BY <1>1, <1>2, <1>4, <1>5, Closes

-----------------------------------------------------------------------------
(* Touch *)

LEMMA TouchCloses ==
  ASSUME IInv, NEW u \in Windows, Ink(u), Elsewise(w, u), u.penContact = w.penContact,
         u.mouse = w.mouse, u.listening = w.listening,
         u.drag = w.drag \/ (w.drag \notin MouseDrags /\ u.drag \in {"none", "touch"}),
         w' = u, capture' = capture, held' = held, penAt' = penAt, Touched(u, fingers'), Places'
  PROVE IInv'
<1>1. Held(u, held') BY DEF IInv, Held
<1>2. Penned(u, penAt') BY DEF IInv, Penned, Placed, Sharp, Elsewise, PenDrags
<1>3. NeedsMouse(u) = NeedsMouse(w) BY DEF NeedsMouse, MouseDrags
<1>4. capture' = NeedsMouse(w') BY <1>3 DEF IInv
<1> QED BY <1>1, <1>2, <1>4, Closes DEF Parts

LEMMA FingersAre ==
  ASSUME IInv, NEW f \in fingers, w.touchPointer = f
  PROVE w.touchPointer # NoFinger /\ w.mouse = None /\ w.drag \notin MouseDrags
BY InputAssumption DEF IInv, TypeOK, Touched

LEMMA TouchCancelled ==
  ASSUME IInv, w' = CancelTouch(Now),
         UNCHANGED <<penAt, held, capture>>, Places'
  PROVE IInv'
<1> DEFINE u == CancelTouch(Now)
<1>1. Parts(Now, fingers, held, penAt) /\ Keeps(w, Now) BY NowIs
<1>2. /\ u \in Windows /\ Ink(u) /\ Elsewise(Now, u) /\ u.touch = None /\ u.touchPointer = NoFinger
      /\ u.drag = (IF Now.drag = "touch" THEN "none" ELSE Now.drag)
      /\ u.penContact = Now.penContact /\ u.mouse = Now.mouse /\ u.listening = Now.listening
  BY <1>1, CancelTouchIs DEF Parts
<1>3. w' = u OBVIOUS
<1> HIDE DEF u
<1>4. Touched(u, fingers') BY <1>2 DEF Touched
<1>5. "touch" \notin MouseDrags BY DEF MouseDrags
<1>6. Elsewise(w, u) BY <1>1, <1>2 DEF Elsewise, Keeps
<1>7. u.drag = w.drag \/ (w.drag \notin MouseDrags /\ u.drag \in {"none", "touch"})
  BY <1>1, <1>2, <1>5 DEF Keeps
<1> QED BY <1>1, <1>2, <1>3, <1>4, <1>6, <1>7, TouchCloses DEF Keeps

LEMMA FingerDownKeeps ==
  ASSUME IInv, NEW f \in Fingers, FingerDown(f)
  PROVE IInv'
<1>1. /\ fingers' = fingers \cup {f} /\ penAt' = penAt /\ held' = held /\ capture' = capture
  BY DEF FingerDown
<1>2. Places' BY <1>1, FaultsAre DEF FingerDown, Places, IInv, TypeOK
<1>3. Parts(Now, fingers, held, penAt) /\ Keeps(w, Now) BY NowIs
<1> DEFINE t == [Now EXCEPT !.touchPointer = f]
<1>4. /\ t \in Windows /\ Elsewise(Now, t) /\ Remembers(Now, t) /\ t.touchPointer = f
      /\ t.penContact = Now.penContact /\ t.drag = Now.drag /\ t.mouse = Now.mouse
      /\ t.touch = Now.touch /\ t.listening = Now.listening
  BY <1>3 DEF Parts, Windows, Elsewise, Remembers
<1>5. CASE w' = Now
  <2>1. Touched(w, fingers') /\ Held(w, held') /\ Penned(w, penAt')
    BY <1>1 DEF IInv, Touched
  <2>2. Ignore BY <1>1, <1>5 DEF Ignore
  <2> QED BY <1>2, <2>1, <2>2, IgnoreIs
<1>6. CASE Hears /\ (\E mode \in Modes : AllowsTouch(mode)) /\ w' = [t EXCEPT !.drag = "touch"]
  <2> DEFINE u == [t EXCEPT !.drag = "touch"]
  <2>1. w' = u BY <1>6
  <2>2. u = [t EXCEPT !.drag = "touch"] OBVIOUS
  <2> HIDE DEF t, u
  <2>3. Ink(t) BY <1>3, <1>4, SameInk DEF Parts, Elsewise
  <2>4. /\ u \in Windows /\ Ink(u) /\ Elsewise(t, u) /\ u.drag = "touch"
        /\ u.penContact = t.penContact /\ u.touchPointer = t.touchPointer
        /\ u.mouse = t.mouse /\ u.touch = t.touch /\ u.listening = t.listening
    BY <1>4, <2>2, <2>3, DragIs
  <2>5. w.mouse = None /\ w.drag = "none" BY <1>6 DEF AllowsTouch
  <2>6. "none" \notin MouseDrags /\ "touch" \notin MouseDrags BY DEF MouseDrags
  <2>7. Touched(u, fingers')
    <3>1. f # NoFinger BY InputAssumption
    <3>2. Now.touch = None BY <1>6, HearsIs
    <3> QED BY <1>1, <1>3, <1>4, <2>4, <2>5, <2>6, <3>1, <3>2 DEF Touched, Keeps
  <2>8. Elsewise(w, u) BY <1>3, <1>4, <2>4 DEF Elsewise, Keeps
  <2> QED BY <1>1, <1>2, <1>3, <1>4, <2>1, <2>4, <2>5, <2>6, <2>7, <2>8, TouchCloses DEF Keeps
<1>7. ASSUME Hears, NEW mode \in Modes, AllowsTouch(mode), NEW begin \in Begins(w), w' = BeginAdapter(t, "touch", begin, FALSE)
      PROVE IInv'
  <2> DEFINE u == BeginAdapter(t, "touch", begin, FALSE)
  <2>1. w' = u BY <1>7
  <2>2. w.mouse = None /\ w.drag = "none" /\ ~w.penActive BY <1>7 DEF AllowsTouch
  <2>3. w.touch = None BY <1>3, <1>7, HearsIs DEF Keeps
  <2>4. w.recorded = None /\ ~w.open BY <2>2 DEF IInv, Penned, Placed, Sharp, Ink, Apart
  <2> HIDE DEF t
  <2>5. Ink(t) BY <1>3, <1>4, SameInk DEF Parts, Elsewise
  <2>6. begin \in Begins(t) BY <1>4, NowIs, <1>7 DEF Begins, Remembers
  <2>7. \A g \in t.begun : g.device = "touch" => g \in t.crossed
    <3>1. \A g \in t.begun : g \in {w.mouse, w.touch, w.recorded} BY <1>4, NowIs DEF Remembers
    <3> QED BY <2>2, <2>3, <2>4, <3>1 DEF None, Gesture
  <2>8. "touch" \in Adapters /\ t["touch"] = None BY <1>3, <1>4, <2>3 DEF Adapters, Keeps
  <2>9. t.mouse = None /\ ~t.open BY <1>3, <1>4, <2>2, <2>4 DEF Keeps, Elsewise
  <2>10. u \in Windows /\ Ink(u) /\ Steady(t, u) /\ u.mouse = t.mouse
    BY <1>4, <2>5, <2>6, <2>7, <2>8, <2>9, BeginAdapterIs
  <2> HIDE DEF u
  <2>11. "none" \notin MouseDrags BY DEF MouseDrags
  <2>12. Touched(u, fingers')
    <3>1. f # NoFinger BY InputAssumption
    <3> QED BY <1>1, <1>3, <1>4, <2>2, <2>10, <2>11, <3>1 DEF Touched, Keeps, Steady
  <2>13. Elsewise(w, u) BY <1>3, <1>4, <2>10 DEF Elsewise, Keeps, Steady
  <2> QED BY <1>1, <1>2, <1>3, <1>4, <2>1, <2>10, <2>12, <2>13, TouchCloses DEF Keeps, Steady
<1>8. CASE Hears /\ (\E mode \in Modes : AllowsTouch(mode)) /\ w' = CancelTouch(t)
  <2> DEFINE u == CancelTouch(t)
  <2>1. w' = u BY <1>8
  <2> HIDE DEF t
  <2>2. Ink(t) BY <1>3, <1>4, SameInk DEF Parts, Elsewise
  <2>3. /\ u \in Windows /\ Ink(u) /\ Elsewise(t, u) /\ u.touch = None /\ u.touchPointer = NoFinger
        /\ u.drag = (IF t.drag = "touch" THEN "none" ELSE t.drag)
        /\ u.penContact = t.penContact /\ u.mouse = t.mouse /\ u.listening = t.listening
    BY <1>4, <2>2, CancelTouchIs
  <2> HIDE DEF u
  <2>4. w.drag = "none" BY <1>8 DEF AllowsTouch
  <2>5. Touched(u, fingers') BY <2>3 DEF Touched
  <2>6. Elsewise(w, u) BY <1>3, <1>4, <2>3 DEF Elsewise, Keeps
  <2>7. u.drag = w.drag BY <1>3, <1>4, <2>3, <2>4 DEF Keeps
  <2> QED BY <1>1, <1>2, <1>3, <1>4, <2>1, <2>3, <2>5, <2>6, <2>7, TouchCloses DEF Keeps
<1> QED BY <1>5, <1>6, <1>7, <1>8 DEF FingerDown

LEMMA FingerMovesKeeps ==
  ASSUME IInv, NEW f \in Fingers, FingerMoves(f)
  PROVE IInv'
<1>1. /\ fingers' = fingers /\ penAt' = penAt /\ held' = held /\ capture' = capture
      /\ f \in fingers /\ w.touchPointer = f
  BY DEF FingerMoves, hardware
<1>2. Places' BY <1>1, FaultsAre DEF FingerMoves, Places, IInv, TypeOK
<1>3. Parts(Now, fingers, held, penAt) /\ Keeps(w, Now) BY NowIs
<1>4. w.touchPointer # NoFinger /\ w.mouse = None /\ w.drag \notin MouseDrags BY <1>1, FingersAre
<1>5. CASE w' = CancelTouch(Now) BY <1>1, <1>2, <1>5, TouchCancelled DEF IInv
<1>6. ASSUME NEW b \in BOOLEAN, w' = MoveAdapter(Now, "touch", b) PROVE IInv'
  <2> DEFINE u == MoveAdapter(Now, "touch", b)
  <2>0. "touch" \in Adapters BY DEF Adapters
  <2>1. /\ u \in Windows /\ Ink(u) /\ Steady(Now, u)
        /\ Slots(Now, u, "touch", None) \/ Slots(Now, u, "touch", Now["touch"])
    BY <1>3, <2>0, MoveAdapterIs DEF Parts
  <2>2. w' = u BY <1>6
  <2> HIDE DEF u
  <2>3. u.mouse = Now.mouse /\ u.touch \in {None, Now.touch} BY <2>1 DEF Slots
  <2>4. Touched(u, fingers') BY <1>1, <1>3, <1>4, <2>1, <2>3 DEF Parts, Touched, Steady, Keeps
  <2>5. Elsewise(w, u) BY <1>3, <2>1 DEF Elsewise, Keeps, Steady
  <2> QED BY <1>1, <1>2, <1>3, <2>1, <2>2, <2>3, <2>4, <2>5, TouchCloses DEF Keeps, Steady
<1>7. ASSUME w.drag = "touch", NEW jammed \in BOOLEAN, w' = [Now EXCEPT !.drag = Moved(@, jammed)]
      PROVE IInv'
  <2> DEFINE d == Moved(Now.drag, jammed)
             u == [Now EXCEPT !.drag = d]
  <2>1. Now.drag = "touch" BY <1>3, <1>7 DEF Keeps
  <2>2. d \in {"none", "touch"} BY <2>1 DEF Moved
  <2>3. w' = u BY <1>7
  <2>4. u = [Now EXCEPT !.drag = d] OBVIOUS
  <2> HIDE DEF d, u
  <2>5. /\ u \in Windows /\ Ink(u) /\ Elsewise(Now, u) /\ u.drag = d
        /\ u.penContact = Now.penContact /\ u.touchPointer = Now.touchPointer
        /\ u.mouse = Now.mouse /\ u.touch = Now.touch /\ u.listening = Now.listening
    BY <1>3, <2>2, <2>4, DragIs DEF Parts
  <2>6. Touched(u, fingers')
    <3>1. Now.touch = None BY <1>3, <2>1 DEF Parts, Touched
    <3> QED BY <1>1, <1>3, <1>4, <2>2, <2>5, <3>1 DEF Touched, Keeps, MouseDrags
  <2>7. Elsewise(w, u) BY <1>3, <2>5 DEF Elsewise, Keeps
  <2> QED BY <1>1, <1>2, <1>3, <1>4, <2>2, <2>3, <2>5, <2>6, <2>7, TouchCloses DEF Keeps
<1> QED BY <1>5, <1>6, <1>7 DEF FingerMoves

LEMMA FingerUpKeeps ==
  ASSUME IInv, NEW f \in Fingers, FingerUp(f) \/ FingerLost(f)
  PROVE IInv'
<1>1. /\ fingers' = fingers \ {f} /\ penAt' = penAt /\ held' = held /\ capture' = capture
      /\ f \in fingers
  BY DEF FingerUp, FingerLost
<1>2. Places' BY <1>1, FaultsAre DEF FingerUp, FingerLost, Places, IInv, TypeOK
<1>3. Parts(Now, fingers, held, penAt) /\ Keeps(w, Now) BY NowIs
<1> DEFINE t == [Now EXCEPT !.touchPointer = NoFinger]
<1>4. /\ t \in Windows /\ Elsewise(Now, t) /\ Remembers(Now, t) /\ t.touchPointer = NoFinger
      /\ t.penContact = Now.penContact /\ t.drag = Now.drag /\ t.mouse = Now.mouse
      /\ t.touch = Now.touch /\ t.listening = Now.listening
  BY <1>3 DEF Parts, Windows, Elsewise, Remembers
<1>5. CASE w' = CancelTouch(Now) BY <1>1, <1>2, <1>5, TouchCancelled DEF IInv
<1>6. CASE w' = Now /\ w.touchPointer # f
  <2>1. Touched(w, fingers') /\ Held(w, held') /\ Penned(w, penAt')
    BY <1>1, <1>6 DEF IInv, Touched
  <2>2. Ignore BY <1>1, <1>6 DEF Ignore
  <2> QED BY <1>2, <2>1, <2>2, IgnoreIs
<1>7. CASE w.touchPointer = f /\ w.drag = "touch" /\ w' = [t EXCEPT !.drag = "none"]
  <2> DEFINE u == [t EXCEPT !.drag = "none"]
  <2>1. w' = u BY <1>7
  <2>2. u = [t EXCEPT !.drag = "none"] OBVIOUS
  <2> HIDE DEF t, u
  <2>3. Ink(t) BY <1>3, <1>4, SameInk DEF Parts, Elsewise
  <2>4. /\ u \in Windows /\ Ink(u) /\ Elsewise(t, u) /\ u.drag = "none"
        /\ u.penContact = t.penContact /\ u.touchPointer = t.touchPointer
        /\ u.mouse = t.mouse /\ u.touch = t.touch /\ u.listening = t.listening
    BY <1>4, <2>2, <2>3, DragIs
  <2>5. "touch" \notin MouseDrags BY DEF MouseDrags
  <2>6. w.touch = None BY <1>7 DEF IInv, Touched
  <2>7. Touched(u, fingers') BY <1>3, <1>4, <2>4, <2>6 DEF Touched, Keeps
  <2>8. Elsewise(w, u) BY <1>3, <1>4, <2>4 DEF Elsewise, Keeps
  <2> QED BY <1>1, <1>2, <1>3, <1>4, <1>7, <2>1, <2>4, <2>5, <2>7, <2>8, TouchCloses DEF Keeps
<1>8. CASE w.touchPointer = f /\ w.drag # "touch" /\ w' = EndAdapter(t, "touch")
  <2> DEFINE u == EndAdapter(t, "touch")
  <2>1. w' = u BY <1>8
  <2>2. "touch" \in Adapters BY DEF Adapters
  <2> HIDE DEF t
  <2>3. Ink(t) BY <1>3, <1>4, SameInk DEF Parts, Elsewise
  <2>4. u \in Windows /\ Ink(u) /\ Steady(t, u) /\ Slots(t, u, "touch", None)
    BY <1>4, <2>2, <2>3, EndAdapterIs
  <2> HIDE DEF u
  <2>5. u.mouse = t.mouse /\ u.touch = None BY <2>4 DEF Slots
  <2>6. Touched(u, fingers') BY <1>3, <1>4, <1>8, <2>4, <2>5 DEF Touched, Keeps, Steady
  <2>7. Elsewise(w, u) BY <1>3, <1>4, <2>4 DEF Elsewise, Keeps, Steady
  <2> QED BY <1>1, <1>2, <1>3, <1>4, <2>1, <2>4, <2>5, <2>6, <2>7, TouchCloses DEF Keeps, Steady
<1> QED BY <1>5, <1>6, <1>7, <1>8 DEF FingerUp, FingerLost

-----------------------------------------------------------------------------
(* The messages of the pen *)

Drags == {"none", "touch", "gone"} \cup MouseDrags \cup PenDrags
Touching(m) == m.kind = "down" \/ (m.kind = "update" /\ m.contact /\ ~m.cancelled)
Grabs(m) == m.kind \in {"down", "update"} /\ m.shortcut = "grab" /\ ~m.cancelled

(* The window that has heard of a message of the pen ... *)
Approached(u, m) ==
  /\ u \in Windows /\ Ink(u) /\ u.mouse = w.mouse /\ u.listening = w.listening
  /\ u.picking = w.picking /\ u.penActive = w.penActive /\ u.gone = w.gone
  /\ u.recorded = w.recorded /\ u.open = w.open /\ u.stray = w.stray
  /\ u.missed = (w.missed \/ (~m.read /\ m.kind # "lost"))
  /\ u.penContact = Touching(m) /\ Touched(u, fingers)
  /\ u.drag = w.drag \/ (w.drag = "touch" /\ u.drag = "none")
  /\ Touching(m) => u.touch = None
  /\ PenBegun(u) /\ Pens(u)

LEMMA MissesIs ==
  ASSUME NEW s \in Windows, NEW m, IsMessage(m)
  PROVE LET u == Misses(s, m) IN
        /\ u \in Windows /\ Remembers(s, u) /\ Grasps(s, u) /\ u.picking = s.picking
        /\ u.penActive = s.penActive /\ u.gone = s.gone /\ u.recorded = s.recorded
        /\ u.open = s.open /\ u.stray = s.stray
        /\ u.missed = (s.missed \/ (~m.read /\ m.kind # "lost"))
        /\ m.read => u = s
<1> DEFINE missed == s.missed \/ (~m.read /\ m.kind # "lost")
           u == Misses(s, m)
<1>1. missed \in BOOLEAN BY DEF Windows
<1>2. u = [s EXCEPT !.missed = missed] BY DEF Misses
<1>3. m.read => missed = s.missed BY <1>1 DEF Windows
<1>4. [s EXCEPT !.missed = s.missed] = s BY DEF Windows
<1> HIDE DEF missed, u
<1>5. /\ u \in Windows /\ Remembers(s, u) /\ Grasps(s, u) /\ u.picking = s.picking
      /\ u.penActive = s.penActive /\ u.gone = s.gone /\ u.recorded = s.recorded
      /\ u.open = s.open /\ u.stray = s.stray /\ u.missed = missed
  BY <1>1, <1>2 DEF Windows, Remembers, Grasps
<1>6. m.read => u = s BY <1>2, <1>3, <1>4
<1> QED BY <1>5, <1>6 DEF missed, u

LEMMA NearPenIs ==
  ASSUME IInv, NEW m, IsMessage(m), NEW auto \in BOOLEAN
  PROVE Approached(NearPen(Misses(Now, m), m, auto), m)
<1> DEFINE n == Misses(Now, m)
           t == [n EXCEPT !.penContact = Touching(m)]
           u == NearPen(n, m, auto)
<1>1. Parts(Now, fingers, held, penAt) /\ Keeps(w, Now) /\ PenBegun(Now) /\ Pens(Now) BY NowIs
<1>2. Touching(m) \in BOOLEAN BY DEF Touching, IsMessage
<1>3. u = IF Touching(m) \/ auto THEN CancelTouch(t) ELSE t BY DEF NearPen, Touching
<1>n. /\ n \in Windows /\ Remembers(Now, n) /\ Grasps(Now, n) /\ n.picking = Now.picking
      /\ n.penActive = Now.penActive /\ n.gone = Now.gone /\ n.recorded = Now.recorded
      /\ n.open = Now.open /\ n.stray = Now.stray
      /\ n.missed = (Now.missed \/ (~m.read /\ m.kind # "lost"))
  BY <1>1, MissesIs DEF Parts
<1> HIDE DEF n
<1>4. /\ t \in Windows /\ Elsewise(n, t) /\ Remembers(n, t) /\ t.penContact = Touching(m)
      /\ t.touchPointer = n.touchPointer /\ t.drag = n.drag /\ t.mouse = n.mouse
      /\ t.touch = n.touch /\ t.listening = n.listening
  <2> HIDE DEF Touching
  <2> QED BY <1>n, <1>2 DEF Windows, Elsewise, Remembers
<1> HIDE DEF t, u
<1>a. /\ Remembers(Now, t) /\ t.touchPointer = Now.touchPointer /\ t.drag = Now.drag
      /\ t.mouse = Now.mouse /\ t.touch = Now.touch /\ t.listening = Now.listening
      /\ t.picking = Now.picking /\ t.penActive = Now.penActive /\ t.gone = Now.gone
      /\ t.recorded = Now.recorded /\ t.open = Now.open /\ t.stray = Now.stray
      /\ t.missed = (Now.missed \/ (~m.read /\ m.kind # "lost"))
  BY <1>n, <1>4 DEF Remembers, Grasps, Elsewise
<1>5. Ink(t) BY <1>1, <1>a, SameInk DEF Parts
<1>6. PenBegun(t) /\ Pens(t) BY <1>1, <1>a DEF PenBegun, Pens, Remembers
<1>b. /\ t.mouse = w.mouse /\ t.listening = w.listening /\ t.picking = w.picking
      /\ t.penActive = w.penActive /\ t.gone = w.gone /\ t.recorded = w.recorded
      /\ t.open = w.open /\ t.stray = w.stray /\ t.drag = w.drag
      /\ t.missed = (w.missed \/ (~m.read /\ m.kind # "lost"))
  BY <1>1, <1>a DEF Keeps
<1>7. CASE Touching(m) \/ auto
  <2>1. u = CancelTouch(t) BY <1>3, <1>7
  <2>2. /\ u \in Windows /\ Ink(u) /\ Elsewise(t, u) /\ u.touch = None /\ u.touchPointer = NoFinger
        /\ u.drag = (IF t.drag = "touch" THEN "none" ELSE t.drag)
        /\ u.penContact = t.penContact /\ u.mouse = t.mouse /\ u.listening = t.listening
        /\ u.begun = t.begun /\ u.crossed = t.crossed
    BY <1>4, <1>5, <2>1, CancelTouchIs
  <2>3. Touched(u, fingers) BY <2>2 DEF Touched
  <2>4. PenBegun(u) /\ Pens(u) BY <1>6, <2>2 DEF PenBegun, Pens, Elsewise
  <2>5. Approached(u, m)
    BY <1>4, <1>b, <2>2, <2>3, <2>4 DEF Elsewise, Approached
  <2> QED BY <2>5 DEF u, n
<1>8. CASE ~(Touching(m) \/ auto)
  <2>1. u = t BY <1>3, <1>8
  <2>2. Touched(t, fingers) BY <1>1, <1>a DEF Parts, Touched
  <2>3. Approached(u, m) BY <1>4, <1>5, <1>6, <1>8, <1>b, <2>1, <2>2 DEF Approached
  <2> QED BY <2>3 DEF u, n
<1> QED BY <1>7, <1>8

(* ... that no longer draws with a pen that grabs ... *)
Gripped(n, u, m) ==
  /\ u \in Windows /\ Ink(u) /\ Grasps(n, u) /\ PenBegun(u) /\ Pens(u) /\ u.missed = n.missed
  /\ Grabs(m) => ~u.penActive
  /\ ~Grabs(m) => u = n
  /\ u.penActive => n.penActive
  /\ u.recorded # None => n.recorded # None
  /\ u.gone => n.gone
  /\ n.stray = "no" => u.stray = "no"

LEMMA GrabIs ==
  ASSUME NEW n \in Windows, Ink(n), PenBegun(n), Pens(n), NEW m,
         NEW u, u = IF Grabs(m) THEN FinishPen(n) ELSE n
  PROVE Gripped(n, u, m)
<1>1. CASE Grabs(m)
  <2>1. u = FinishPen(n) BY <1>1
  <2>2. Idle(n, u) /\ PenBegun(u) BY <2>1, FinishPenIs
  <2> QED BY <1>1, <2>2 DEF Idle, Pens, Gripped
<1>2. CASE ~Grabs(m)
  <2>1. u = n BY <1>2
  <2> QED BY <1>2, <2>1 DEF Grasps, Gripped
<1> QED BY <1>1, <1>2

(* ... and has dragged the view ... *)
Dragged(drag, v, m) ==
  /\ v.drag \in Drags /\ v.mine \in BOOLEAN
  /\ v.drag \in {drag, "none"} \cup PenDrags
  /\ v.drag \in PenDrags => ~m.cancelled /\ m.kind \in {"down", "update"}
  /\ v.drag \in PenDrags /\ drag \notin PenDrags => Grabs(m) \/ m.kind = "down"
  /\ v.drag = "penContact" => drag = "penContact" \/ m.kind = "down"
  /\ ~v.mine /\ v.drag \in PenDrags => m.kind = "down" /\ drag \in PenDrags /\ ~Grabs(m)
  /\ Grabs(m) => v.mine
  /\ v.mine /\ m.kind \notin {"down", "update"} => drag \in PenDrags /\ m.kind = "up"

LEMMA ObserveDragIs ==
  ASSUME NEW s, s.drag \in Drags, NEW m, IsMessage(m), NEW navigates \in BOOLEAN,
         NEW jammed \in BOOLEAN
  PROVE LET v == ObserveDrag(s, m, navigates, jammed) IN
        /\ Dragged(s.drag, v, m)
        /\ m.kind = "down" /\ Acts(m) /\ navigates => v.mine
<1> DEFINE v == ObserveDrag(s, m, navigates, jammed)
           dragging == s.drag \in PenDrags
<1> USE DEF Dragged, Acts
<1>0. /\ m.kind \in Kinds /\ m.cancelled \in BOOLEAN BY DEF IsMessage
<1>p. PenDrags = {"penContact", "penButton"} /\ "none" \in Drags /\ PenDrags \subseteq Drags
        /\ "none" \notin PenDrags
  BY DEF PenDrags, Drags
<1>1. CASE m.kind \in {"lost", "leave"} \/ m.cancelled
  <2>1. v = Drag(IF dragging THEN "none" ELSE s.drag, FALSE) BY <1>1 DEF ObserveDrag
  <2>2. v.drag = (IF dragging THEN "none" ELSE s.drag) /\ v.mine = FALSE BY <2>1 DEF Drag
  <2> QED BY <1>0, <1>1, <1>p, <2>2 DEF Grabs
<1>2. CASE m.kind = "up" /\ ~m.cancelled
  <2>1. v = Drag(IF dragging THEN "none" ELSE s.drag, dragging) BY <1>2 DEF ObserveDrag
  <2>2. v.drag = (IF dragging THEN "none" ELSE s.drag) /\ v.mine = dragging BY <2>1 DEF Drag
  <2> QED BY <1>0, <1>2, <1>p, <2>2 DEF Grabs
<1>3. CASE m.kind = "update" /\ ~m.cancelled /\ s.drag = "penButton" /\ m.shortcut # "grab"
  <2>1. v = Drag("none", TRUE) BY <1>3 DEF ObserveDrag
  <2>2. v.drag = "none" /\ v.mine = TRUE BY <2>1 DEF Drag
  <2> QED BY <1>3, <1>p, <2>2
<1>4. CASE m.kind \in {"down", "update"} /\ ~m.cancelled /\ m.shortcut = "grab"
  <2>1. v = Drag(CASE dragging -> Moved(s.drag, jammed)
                   [] s.drag = "none" -> "penButton"
                   [] OTHER -> s.drag, TRUE)
    BY <1>4 DEF ObserveDrag
  <2>2. v.mine = TRUE /\ v.drag = CASE dragging -> Moved(s.drag, jammed)
                                    [] s.drag = "none" -> "penButton"
                                    [] OTHER -> s.drag
    BY <2>1 DEF Drag
  <2>3. CASE dragging
    <3>1. v.drag \in {s.drag, "none"} BY <1>p, <2>2, <2>3 DEF Moved
    <3> QED BY <1>4, <1>p, <2>2, <2>3, <3>1
  <2>4. CASE ~dragging
    <3>1. v.drag = IF s.drag = "none" THEN "penButton" ELSE s.drag BY <2>2, <2>4
    <3> QED BY <1>4, <1>p, <2>2, <2>4, <3>1 DEF Grabs
  <2> QED BY <2>3, <2>4
<1>5. CASE m.kind = "down" /\ ~m.cancelled /\ m.shortcut # "grab" /\ navigates
  <2>1. v = Drag("penContact", TRUE) BY <1>5 DEF ObserveDrag
  <2>2. v.drag = "penContact" /\ v.mine = TRUE BY <2>1 DEF Drag
  <2> QED BY <1>5, <1>p, <2>2
<1>6. CASE /\ ~m.cancelled /\ m.shortcut # "grab"
           /\ \/ m.kind = "down" /\ ~navigates
              \/ m.kind = "update" /\ s.drag # "penButton"
  <2>1. v = IF m.kind = "update" /\ dragging THEN Drag(Moved(s.drag, jammed), TRUE)
            ELSE Drag(s.drag, FALSE)
    BY <1>6 DEF ObserveDrag
  <2>2. CASE m.kind = "update" /\ dragging
    <3>1. v.drag \in {s.drag, "none"} /\ v.mine = TRUE BY <2>1, <2>2 DEF Drag, Moved
    <3> QED BY <1>6, <1>p, <2>2, <3>1
  <2>3. CASE ~(m.kind = "update" /\ dragging)
    <3>1. v.drag = s.drag /\ v.mine = FALSE BY <2>1, <2>3 DEF Drag
    <3> QED BY <1>6, <1>p, <2>3, <3>1 DEF Grabs
  <2> QED BY <2>2, <2>3
<1> QED BY <1>0, <1>1, <1>2, <1>3, <1>4, <1>5, <1>6 DEF Kinds

(* Where the pen is in the message m, and after it. *)
Reported(m) ==
  /\ m.kind = "down" =>
       /\ penAt # "contact" /\ penAt' = "contact"
       /\ m.read /\ w.drag = "penButton" /\ ~w.missed => m.shortcut = "grab"
  /\ m.kind = "update" /\ m.contact => penAt = "contact" /\ penAt' = "contact"
  /\ m.kind = "update" /\ m.known /\ ~m.contact => penAt # "contact" /\ penAt' = "hover"
  /\ m.kind = "update" => penAt' # "away" /\ (penAt = "contact" <=> penAt' = "contact")
  /\ m.kind = "up" => penAt = "contact" /\ penAt' = "hover"
  /\ m.kind = "leave" => penAt = "hover" /\ penAt' = "away"
  /\ m.kind = "lost" => penAt = "contact" /\ penAt' = "away"
  /\ penAt' \in {"away", "hover", "contact"}

(* ... when it is all over. *)
LEMMA OverIs ==
  ASSUME NEW s \in Windows, Ink(s), NEW m, IsMessage(m), (s.gone => s.penActive)
  PROVE LET u == Over(s, m) IN
        /\ u \in Windows /\ Ink(u) /\ u.penContact = s.penContact
        /\ u.touchPointer = s.touchPointer /\ u.mouse = s.mouse /\ u.touch = s.touch
        /\ u.listening = s.listening /\ u.penActive = s.penActive /\ u.missed = s.missed
        /\ u.drag = (IF m.kind \in {"lost", "leave"} /\ s.drag \in PenDrags THEN "gone" ELSE s.drag)
        /\ u.gone = (IF m.kind \in {"lost", "leave"} THEN s.penActive ELSE s.gone)
        /\ u.recorded = (IF m.kind = "up" THEN None ELSE s.recorded)
        /\ s.stray = "no" /\ ~(m.kind = "up" /\ s.open) => u.stray = "no"
<1> DEFINE u == Over(s, m)
<1>1. CASE m.kind = "up"
  <2> DEFINE stray == IF s.open THEN "kept" ELSE s.stray
  <2>1. u = [s EXCEPT !.recorded = None, !.open = FALSE, !.stray = stray] BY <1>1 DEF Over
  <2>2. stray \in {"no", "kept", "lost"} /\ (s.open => stray # "no") /\ (~s.open => stray = s.stray)
    BY DEF Windows
  <2> HIDE DEF u, stray
  <2>3. /\ u \in Windows /\ Grasps(s, u) /\ Remembers(s, u) /\ u.recorded = None /\ u.open = FALSE
        /\ u.stray = stray /\ u.penActive = s.penActive /\ u.missed = s.missed /\ u.gone = s.gone
    BY <2>1, <2>2 DEF Windows, Of, Grasps, Remembers
  <2>4. Writing(u) = {s.mouse, s.touch} \ {None} BY <2>3 DEF Writing, Grasps
  <2>5. Writing(u) \subseteq Writing(s) BY <2>4 DEF Writing
  <2>6. Apart(u) /\ Quiet(u) /\ Whole(u) BY <2>3 DEF Ink, Apart, Quiet, Whole, Grasps, Remembers
  <2>7. Strayed(u) BY <2>2, <2>3 DEF Ink, Strayed, Remembers
  <2>8. Same(u) /\ Joined(u) BY <2>3, <2>5 DEF Ink, Same, Joined, Remembers
  <2>9. Begun(u)
    <3> SUFFICES ASSUME NEW g \in u.begun \cap {u.mouse, u.touch, u.recorded}
                 PROVE g \in u.crossed \/ (g \in Writing(u) /\ u.stroke.of = {g} /\ ~u.stroke.reads)
      BY DEF Begun
    <3>1. g # None BY <2>3, StrokeTypes DEF Remembers
    <3>2. g \in s.begun \cap {s.mouse, s.touch, s.recorded} /\ g \in {s.mouse, s.touch}
      BY <2>3, <3>1 DEF Grasps, Remembers
    <3>3. g \in Writing(u) BY <2>4, <3>1, <3>2
    <3>4. g \in s.crossed \/ (s.stroke.of = {g} /\ ~s.stroke.reads) BY <3>2 DEF Ink, Begun
    <3> QED BY <2>3, <3>3, <3>4 DEF Remembers
  <2>10. Owned(u)
    <3>1. ~s.open => Writing(s) = Writing(u) BY <2>4 DEF Writing
    <3> QED BY <2>2, <2>3, <3>1 DEF Ink, Owned, Remembers
  <2>11. Ink(u) BY <2>6, <2>7, <2>8, <2>9, <2>10 DEF Ink
  <2> QED BY <1>1, <2>2, <2>3, <2>11 DEF Grasps, u
<1>2. CASE m.kind \in {"lost", "leave"}
  <2> DEFINE stray == IF s.stray = "kept" /\ ~s.penActive THEN "lost" ELSE s.stray
             drag == IF s.drag \in PenDrags THEN "gone" ELSE s.drag
             gone == s.penActive
  <2>1. u = [s EXCEPT !.gone = gone, !.stray = stray, !.drag = drag] BY <1>2 DEF Over
  <2>2. /\ stray \in {"no", "kept", "lost"} /\ (stray = "no" <=> s.stray = "no")
        /\ drag \in Drags /\ gone \in BOOLEAN
    BY DEF Windows, Drags
  <2>3. drag = IF s.drag \in PenDrags THEN "gone" ELSE s.drag OBVIOUS
  <2> HIDE DEF u, stray, drag
  <2>4. /\ u \in Windows /\ Remembers(s, u) /\ u.penContact = s.penContact
        /\ u.touchPointer = s.touchPointer /\ u.mouse = s.mouse /\ u.touch = s.touch
        /\ u.listening = s.listening /\ u.recorded = s.recorded /\ u.open = s.open
        /\ u.stray = stray /\ u.penActive = s.penActive /\ u.missed = s.missed
        /\ u.gone = s.penActive /\ u.drag = drag
    BY <2>1, <2>2 DEF Windows, Drags, Remembers
  <2>5. Ink(u) BY <2>2, <2>4, SameInk
  <2> QED BY <1>2, <2>2, <2>3, <2>4, <2>5 DEF u
<1>3. CASE m.kind \in {"down", "update"}
  <2>1. u = s BY <1>3 DEF Over
  <2> QED BY <1>3, <2>1
<1> QED BY <1>1, <1>2, <1>3 DEF IsMessage, Kinds

LEMMA PenBeginIs ==
  ASSUME NEW m, m.read, NEW auto, NEW navigates, NEW alt, NEW begin,
         begin \in PenBegin(m, auto, navigates, alt), Now \in Windows, IsMessage(m)
  PROVE LET near == NearPen(Misses(Now, m), m, auto) IN
        /\ m.kind = "down" /\ Acts(m) /\ ~navigates => begin \in Begins(near)
        /\ Picks(near, m) => begin \in Begins(FinishPen(near))
<1> DEFINE near == NearPen(Now, m, auto)
           reads == m.shortcut = "picker" \/ alt
           begins(s) == {b \in Begins(s) : b.end = "taken" /\ reads => b.reads}
           first == begins(near)
           second == begins(FinishPen(near))
           off == {[end |-> "outside"]}
           acts == m.kind = "down" /\ m.read /\ Acts(m) /\ ~navigates
<1>0. Misses(Now, m) = Now BY MissesIs
<1>1. PenBegin(m, auto, navigates, alt) =
        CASE acts -> first [] Picks(near, m) /\ m.read -> second [] OTHER -> off
  BY DEF PenBegin
<1>2. first \subseteq Begins(near) /\ second \subseteq Begins(FinishPen(near)) OBVIOUS
<1>3. Picks(near, m) => m.kind = "update" BY DEF Picks, Steers
<1>5. acts <=> m.kind = "down" /\ Acts(m) /\ ~navigates OBVIOUS
<1>n. near = NearPen(Now, m, auto) OBVIOUS
<1> HIDE DEF first, second, off, acts, near
<1>4. acts => begin \in Begins(near)
  <2> SUFFICES ASSUME acts PROVE begin \in Begins(near) OBVIOUS
  <2>1. ~Picks(near, m) BY <1>3, <1>5
  <2>2. PenBegin(m, auto, navigates, alt) = first BY <1>1, <2>1
  <2> QED BY <1>2, <2>2
<1>6. Picks(near, m) => begin \in Begins(FinishPen(near))
  <2> SUFFICES ASSUME Picks(near, m) PROVE begin \in Begins(FinishPen(near)) OBVIOUS
  <2>1. ~acts BY <1>3, <1>5
  <2>2. PenBegin(m, auto, navigates, alt) = second BY <1>1, <2>1
  <2> QED BY <1>2, <2>2
<1> QED BY <1>0, <1>4, <1>5, <1>6, <1>n

(* What the samples of the message leave of the drag s ... *)
Told(s, v, m, mine) ==
  /\ v \in Windows /\ Ink(v) /\ v.penContact = s.penContact
  /\ v.touchPointer = s.touchPointer /\ v.drag = s.drag /\ v.touch = s.touch
  /\ v.mouse = None \/ (v.mouse = s.mouse /\ v.listening = s.listening)
  /\ v.gone => s.gone /\ v.penActive
  /\ v.penActive => s.penActive \/ (~mine /\ m.kind = "down")
  /\ v.recorded # None => s.recorded # None \/ m.kind = "down" \/ (m.kind = "update" /\ m.contact)
  /\ m.kind # "up" => Pens(v)
  /\ m.kind = "lost" => v.recorded = None /\ ~v.penActive
  /\ m.kind = "up" /\ ~mine => ~v.penActive /\ (m.read => ~v.open)
  /\ m.kind = "up" /\ mine => v.open = s.open
  /\ s.stray = "no" => v.stray = "no"
  /\ ~v.missed /\ s.missed =>
       /\ s.drag = "none" /\ v.stray = "no" /\ ~v.gone
       /\ m.kind = "down" \/ (m.kind = "update" /\ m.contact)

LEMMA TellsIs ==
  ASSUME NEW s \in Windows, Ink(s), Pens(s), PenBegun(s), NEW m, IsMessage(m),
         NEW mine \in BOOLEAN, mine => m.kind \notin {"lost", "leave"},
         NEW alt, NEW begin, NEW page,
         m.kind = "down" => s.recorded = None,
         ~mine /\ m.kind = "down" /\ m.read /\ ~m.cancelled => s.touch = None /\ begin \in Begins(s),
         ~mine /\ Picks(s, m) /\ m.read => s.touch = None /\ begin \in Begins(FinishPen(s)),
         NEW v, v = CASE mine -> TakeOver(s)
                      [] m.kind = "leave" -> s
                      [] OTHER -> ObservePen(s, m, alt, begin, page)
  PROVE Told(s, v, m, mine)
<1>1. CASE mine
  <2>1. v = TakeOver(s) BY <1>1
  <2>2. /\ v \in Windows /\ Ink(v) /\ Elsewise(s, v)
        /\ v.penContact = s.penContact /\ v.touchPointer = s.touchPointer
        /\ v.drag = s.drag /\ v.touch = s.touch
        /\ v.mouse = None \/ (v.mouse = s.mouse /\ v.listening = s.listening)
    BY <2>1, TakeOverIs
  <2>3. Pens(v) BY <2>2 DEF Pens, Elsewise
  <2> QED BY <1>1, <2>2, <2>3 DEF Told, Elsewise, Pens
<1>2. CASE ~mine /\ m.kind = "leave"
  <2>1. v = s BY <1>2
  <2> QED BY <1>2, <2>1 DEF Told, Pens
<1>3. CASE ~mine /\ m.kind # "leave"
  <2>1. v = ObservePen(s, m, alt, begin, page) BY <1>3
  <2>2. Observed(s, v, m) BY <1>3, <2>1, ObservePenIs
  <2>3. s.drag = v.drag BY <2>2 DEF Observed, Grasps
  <2>4. v.gone => v.penActive BY <2>2 DEF Observed, Pens
  <2> QED BY <1>3, <2>2, <2>3, <2>4 DEF Observed, Grasps, Orders, Told
<1> QED BY <1>1, <1>2, <1>3

(* ... and when it is over. *)
Passed(v, u, m) ==
  /\ u.penContact = v.penContact /\ u.penActive = v.penActive /\ u.missed = v.missed
  /\ u.drag = (IF m.kind \in {"lost", "leave"} /\ v.drag \in PenDrags THEN "gone" ELSE v.drag)
  /\ u.gone = (IF m.kind \in {"lost", "leave"} THEN v.penActive ELSE v.gone)
  /\ u.recorded = (IF m.kind = "up" THEN None ELSE v.recorded)
  /\ v.stray = "no" /\ ~(m.kind = "up" /\ v.open) => u.stray = "no"

(* The pen is where the window thinks it is. *)
LEMMA PenIsPlaced ==
  ASSUME IInv, NEW m, IsMessage(m), Reported(m), NEW n, Approached(n, m), NEW t, Gripped(n, t, m),
         NEW view, Dragged(t.drag, view, m), NEW s, Elsewise(t, s), s.drag = view.drag,
         s.penContact = t.penContact, NEW v, Told(s, v, m, view.mine), NEW u, Passed(v, u, m)
  PROVE Penned(u, penAt')
<1>1. Placed(w, penAt) /\ (w.missed \/ Sharp(w, penAt)) BY DEF IInv, Penned
<1>2. /\ s.recorded # None => w.recorded # None
      /\ s.penActive => w.penActive
      /\ Grabs(m) => ~s.penActive
      /\ ~Grabs(m) => s.open = w.open
      /\ s.gone => w.gone
      /\ w.stray = "no" => s.stray = "no"
      /\ s.missed = (w.missed \/ (~m.read /\ m.kind # "lost"))
      /\ s.penContact = Touching(m)
  BY DEF Approached, Gripped, Grasps, Elsewise
<1>3. /\ t.drag = w.drag \/ (w.drag = "touch" /\ t.drag = "none")
      /\ t.drag \in PenDrags => w.drag = t.drag
  BY DEF Approached, Gripped, Grasps, PenDrags
<1>k. /\ m.kind \in {"down", "update", "up", "leave", "lost"} /\ m.contact \in BOOLEAN
      /\ ~m.known => ~m.read
  BY DEF IsMessage, Kinds
<1>d. view.drag \in PenDrags => ~m.cancelled /\ m.kind \in {"down", "update"} BY DEF Dragged
<1>4. u.penContact => penAt' = "contact" BY <1>2 DEF Passed, Told, Touching, Reported
<1>5. u.recorded # None => u.penActive /\ ~u.gone /\ penAt' = "contact"
  <2> SUFFICES ASSUME u.recorded # None PROVE u.penActive /\ ~u.gone /\ penAt' = "contact" OBVIOUS
  <2>1. m.kind # "up" /\ v.recorded # None BY DEF Passed
  <2>2. v.penActive /\ ~v.gone BY <2>1 DEF Told, Pens
  <2>3. w.recorded # None \/ m.kind = "down" \/ (m.kind = "update" /\ m.contact)
    BY <1>2, <2>1 DEF Told
  <2>4. m.kind # "lost" BY <2>1 DEF Told
  <2>5. w.recorded # None => penAt = "contact" BY <1>1 DEF Placed
  <2>6. m.kind \in {"down", "update"} BY <1>k, <2>1, <2>3, <2>4, <2>5 DEF Reported
  <2>7. penAt' = "contact" BY <2>3, <2>5, <2>6 DEF Reported
  <2> QED BY <2>2, <2>6, <2>7 DEF Passed
<1>6. u.gone => u.penActive BY DEF Passed, Told
<1>7. u.drag \in PenDrags => view.drag \in PenDrags /\ u.drag = view.drag
  BY DEF Passed, Told, PenDrags
<1>8. u.drag \in PenDrags => penAt' # "away" BY <1>7, <1>d DEF Reported
<1>9. Placed(u, penAt') BY <1>4, <1>5, <1>6, <1>8 DEF Placed
<1>10. ASSUME ~u.missed, s.missed PROVE Sharp(u, penAt')
  <2>1. /\ v.drag = "none" /\ v.stray = "no" /\ ~v.gone
        /\ m.kind = "down" \/ (m.kind = "update" /\ m.contact)
    BY <1>10 DEF Passed, Told
  <2>2. penAt' = "contact" BY <2>1 DEF Reported
  <2>3. u.drag = "none" /\ u.stray = "no" /\ ~u.gone BY <2>1 DEF Passed
  <2> QED BY <2>2, <2>3 DEF Sharp, PenDrags
<1>11. ASSUME ~u.missed, ~s.missed PROVE Sharp(u, penAt')
  <2>1. ~w.missed /\ (m.read \/ m.kind = "lost") BY <1>2, <1>11
  <2>2. Sharp(w, penAt) BY <1>1, <2>1
  <2>3. m.kind = "update" /\ penAt = "contact" => m.contact /\ penAt' = "contact"
    BY <1>k, <2>1 DEF Reported
  <2>4. w.drag \in PenDrags => ~w.penActive BY <2>2 DEF Sharp
  <2>5. m.kind \in {"down", "leave"} => ~w.penActive BY <2>2 DEF Sharp, Reported
  <2>6. m.kind = "up" => ~v.penActive
    <3>1. m.kind = "up" /\ view.mine => w.drag \in PenDrags BY <1>3 DEF Dragged
    <3> QED BY <1>2, <2>4, <3>1 DEF Told
  <2>7. v.penActive => m.kind \in {"down", "update"}
    BY <1>2, <1>k, <2>5, <2>6 DEF Told
  <2>8. v.penActive => penAt' = "contact"
    <3>1. v.penActive /\ m.kind = "update" => penAt = "contact" BY <1>2, <2>2 DEF Told, Sharp
    <3> QED BY <2>3, <2>7, <3>1 DEF Reported
  <2>9. u.drag = "penContact" => penAt' = "contact"
    <3> SUFFICES ASSUME u.drag = "penContact" PROVE penAt' = "contact" OBVIOUS
    <3>1. "penContact" \in PenDrags BY DEF PenDrags
    <3>2. view.drag = "penContact" BY <1>7, <3>1
    <3>3. t.drag = "penContact" \/ m.kind = "down" BY <3>2 DEF Dragged
    <3>4. t.drag = "penContact" => penAt = "contact" BY <1>3, <2>2, <3>1 DEF Sharp
    <3>5. m.kind \in {"down", "update"} BY <1>d, <3>1, <3>2
    <3> QED BY <2>3, <3>3, <3>4, <3>5 DEF Reported
  <2>10. u.drag \in PenDrags => ~u.penActive
    <3> SUFFICES ASSUME view.drag \in PenDrags PROVE ~v.penActive BY <1>7 DEF Passed
    <3>1. CASE view.mine
      <4>1. v.penActive => s.penActive BY <3>1 DEF Told
      <4>2. t.drag \in PenDrags => ~s.penActive BY <1>2, <1>3, <2>4
      <4>3. t.drag \notin PenDrags => Grabs(m) \/ m.kind = "down" BY DEF Dragged
      <4> QED BY <1>2, <2>5, <4>1, <4>2, <4>3
    <3>2. CASE ~view.mine
      <4>1. m.kind = "down" /\ t.drag \in PenDrags /\ ~Grabs(m) BY <3>2 DEF Dragged
      <4>2. w.drag = t.drag /\ ~m.cancelled BY <1>3, <1>d, <4>1
      <4>3. w.drag # "penButton" BY <2>1, <4>1, <4>2 DEF Reported, Grabs
      <4>4. w.drag # "penContact" BY <2>2, <4>1 DEF Reported, Sharp
      <4> QED BY <4>1, <4>2, <4>3, <4>4 DEF PenDrags
    <3> QED BY <3>1, <3>2 DEF Dragged
  <2>11. u.drag \in PenDrags /\ penAt' = "contact" => u.penContact
    <3> SUFFICES ASSUME view.drag \in PenDrags, penAt' = "contact" PROVE Touching(m)
      BY <1>2, <1>7 DEF Passed, Told
    <3>1. ~m.cancelled /\ m.kind \in {"down", "update"} BY <1>d
    <3>2. m.kind = "update" => m.contact BY <2>3 DEF Reported
    <3> QED BY <3>1, <3>2 DEF Touching
  <2>12. u.drag # "gone"
    <3>1. t.drag # "gone" BY <1>3, <2>2 DEF Sharp
    <3>2. v.drag # "gone" BY <3>1 DEF Told, Dragged, PenDrags
    <3>3. m.kind \in {"lost", "leave"} => v.drag \notin PenDrags BY <1>d DEF Told
    <3> QED BY <3>2, <3>3 DEF Passed
  <2>13. ~u.gone
    <3>1. ~v.gone BY <1>2, <2>2 DEF Told, Sharp
    <3>2. m.kind \in {"lost", "leave"} => ~v.penActive BY <2>7
    <3> QED BY <3>1, <3>2 DEF Passed
  <2>14. u.stray = "no"
    <3>1. v.stray = "no" BY <1>2, <2>2 DEF Told, Sharp
    <3>2. m.kind = "up" => ~v.open
      <4> SUFFICES ASSUME m.kind = "up" PROVE ~v.open OBVIOUS
      <4>1. CASE ~view.mine BY <2>1, <4>1 DEF Told
      <4>2. CASE view.mine
        <5>1. v.open = w.open BY <1>2, <4>2 DEF Told, Grabs
        <5>2. w.drag \in PenDrags BY <1>3, <4>2 DEF Dragged
        <5>3. w.recorded = None BY <1>1, <2>4, <5>2 DEF Placed
        <5> QED BY <5>1, <5>3 DEF IInv, Ink, Apart
      <4> QED BY <4>1, <4>2 DEF Dragged
    <3> QED BY <3>1, <3>2 DEF Passed
  <2> QED BY <2>8, <2>9, <2>10, <2>11, <2>12, <2>13, <2>14 DEF Sharp, Passed
<1> QED BY <1>9, <1>10, <1>11 DEF Penned

LEMMA PenMessageKeeps ==
  ASSUME IInv, NEW m, IsMessage(m), Reported(m), m.read \/ m.kind # "leave",
         NEW auto \in BOOLEAN, NEW navigates \in BOOLEAN, NEW alt \in BOOLEAN,
         NEW jammed \in BOOLEAN, NEW page, NEW begin,
         begin \in PenBegin(m, auto, navigates, alt),
         PenMessage(m, auto, navigates, alt, jammed, begin, page),
         held' = held, fingers' = fingers, Places'
  PROVE IInv'
<1> DEFINE n == NearPen(Misses(Now, m), m, auto)
           t == IF Grabs(m) THEN FinishPen(n) ELSE n
           view == ObserveDrag(t, m, navigates, jammed)
           d == view.drag
           s == [t EXCEPT !.drag = d]
           v == CASE view.mine -> TakeOver(s)
                  [] m.kind = "leave" -> s
                  [] OTHER -> ObservePen(s, m, alt, begin, page)
           u == Over(v, m)
<1>1. Settle(u) BY DEF PenMessage, Grabs
<1>2. Approached(n, m) BY NearPenIs
<1>3. n = NearPen(Misses(Now, m), m, auto) OBVIOUS
<1>4. t = IF Grabs(m) THEN FinishPen(n) ELSE n OBVIOUS
<1>5. view = ObserveDrag(t, m, navigates, jammed) /\ d = view.drag OBVIOUS
<1>6. s = [t EXCEPT !.drag = d] OBVIOUS
<1>7. v = CASE view.mine -> TakeOver(s)
            [] m.kind = "leave" -> s
            [] OTHER -> ObservePen(s, m, alt, begin, page)
  OBVIOUS
<1>8. u = Over(v, m) OBVIOUS
<1> HIDE DEF n, t, view, d, s, v, u
<1>9. n \in Windows /\ Ink(n) /\ PenBegun(n) /\ Pens(n) BY <1>2 DEF Approached
<1>10. Gripped(n, t, m) BY <1>4, <1>9, GrabIs
<1>11. t \in Windows /\ Ink(t) BY <1>10 DEF Gripped
<1>12. t.drag \in Drags BY <1>11 DEF Windows, Drags
<1>13. /\ Dragged(t.drag, view, m)
       /\ m.kind = "down" /\ Acts(m) /\ navigates => view.mine
  BY <1>5, <1>12, ObserveDragIs
<1>14. d \in {"none", "touch", "gone"} \cup MouseDrags \cup PenDrags
  BY <1>5, <1>13 DEF Dragged, Drags
<1>15. /\ s \in Windows /\ Ink(s) /\ Elsewise(t, s) /\ Remembers(t, s) /\ s.drag = view.drag
       /\ s.penContact = t.penContact /\ s.touchPointer = t.touchPointer
       /\ s.mouse = t.mouse /\ s.touch = t.touch /\ s.listening = t.listening
  BY <1>5, <1>6, <1>11, <1>14, DragIs
<1>16. Pens(s) /\ PenBegun(s)
  BY <1>10, <1>15 DEF Gripped, Pens, PenBegun, Elsewise, Remembers
<1>17. view.mine \in BOOLEAN /\ (view.mine => m.kind \notin {"lost", "leave"}) BY <1>13 DEF Dragged
<1>18. ~view.mine => t = n /\ ~Grabs(m) BY <1>10, <1>13 DEF Gripped, Dragged
<1>19. /\ s.mouse = w.mouse /\ s.listening = w.listening
       /\ s.touchPointer = n.touchPointer /\ s.touch = n.touch
  BY <1>2, <1>10, <1>15 DEF Approached, Gripped, Grasps
<1>20. m.kind = "down" => s.recorded = None
  <2>1. m.kind = "down" => w.recorded = None BY DEF IInv, Penned, Placed, Reported
  <2> QED BY <1>2, <1>10, <1>15, <2>1 DEF Approached, Gripped, Elsewise
<1>21. ~view.mine /\ m.kind = "down" /\ m.read /\ ~m.cancelled => s.touch = None /\ begin \in Begins(s)
  <2> SUFFICES ASSUME ~view.mine, m.kind = "down", m.read, ~m.cancelled
               PROVE s.touch = None /\ begin \in Begins(s)
    OBVIOUS
  <2>1. Acts(m) /\ ~navigates BY <1>13, <1>18 DEF Acts, Grabs
  <2>2. s.touch = None BY <1>2, <1>19 DEF Approached, Touching
  <2>3. Now \in Windows BY NowIs DEF Parts
  <2>4. begin \in Begins(n) BY <1>3, <2>1, <2>3, PenBeginIs
  <2>5. s.stroke = n.stroke BY <1>15, <1>18 DEF Remembers
  <2> QED BY <2>2, <2>4, <2>5 DEF Begins
<1>22. ~view.mine /\ Picks(s, m) /\ m.read => s.touch = None /\ begin \in Begins(FinishPen(s))
  <2> SUFFICES ASSUME ~view.mine, Picks(s, m), m.read
               PROVE s.touch = None /\ begin \in Begins(FinishPen(s))
    OBVIOUS
  <2>1. m.kind = "update" /\ m.contact /\ ~m.cancelled BY DEF Picks, Steers
  <2>2. s.touch = None BY <1>2, <1>19, <2>1 DEF Approached, Touching
  <2>3. Now \in Windows BY NowIs DEF Parts
  <2>4. /\ s.penActive = n.penActive /\ s.picking = n.picking /\ s.open = n.open
        /\ s.recorded = n.recorded /\ s.stray = n.stray /\ s.stroke = n.stroke
    BY <1>15, <1>18 DEF Remembers, Elsewise
  <2>5. Picks(n, m) BY <2>4 DEF Picks, Steers
  <2>6. begin \in Begins(FinishPen(n)) BY <1>3, <2>3, <2>5, PenBeginIs
  <2>7. FinishPen(n).stroke = IF n.penActive /\ Recorded(n) /\ (n.open \/ n.stray # "no")
                              THEN NoStroke ELSE n.stroke
    BY <1>9, FinishPenIs
  <2>8. FinishPen(s).stroke = IF s.penActive /\ Recorded(s) /\ (s.open \/ s.stray # "no")
                              THEN NoStroke ELSE s.stroke
    BY <1>15, <1>16, FinishPenIs
  <2>9. FinishPen(s).stroke = FinishPen(n).stroke BY <2>4, <2>7, <2>8 DEF Recorded
  <2> QED BY <2>2, <2>6, <2>9 DEF Begins
<1>23. Told(s, v, m, view.mine)
  <2> DEFINE mine == view.mine
  <2>1. /\ mine \in BOOLEAN /\ (mine => m.kind \notin {"lost", "leave"})
        /\ ~mine /\ m.kind = "down" /\ m.read /\ ~m.cancelled => s.touch = None /\ begin \in Begins(s)
        /\ ~mine /\ Picks(s, m) /\ m.read => s.touch = None /\ begin \in Begins(FinishPen(s))
        /\ v = CASE mine -> TakeOver(s)
                 [] m.kind = "leave" -> s
                 [] OTHER -> ObservePen(s, m, alt, begin, page)
    BY <1>7, <1>17, <1>21, <1>22
  <2> HIDE DEF mine
  <2>2. Told(s, v, m, mine) BY <1>15, <1>16, <1>20, <2>1, TellsIs
  <2> QED BY <2>2 DEF mine
<1>24. v \in Windows /\ Ink(v) /\ (v.gone => v.penActive) BY <1>23 DEF Told
<1>25. /\ u \in Windows /\ Ink(u) /\ Passed(v, u, m)
       /\ u.touchPointer = v.touchPointer /\ u.mouse = v.mouse /\ u.touch = v.touch
       /\ u.listening = v.listening
  BY <1>8, <1>24, OverIs DEF Passed
<1>26. Penned(u, penAt') BY <1>2, <1>10, <1>13, <1>15, <1>23, <1>25, PenIsPlaced
<1>27. s.drag \in {w.drag, "none"} \cup PenDrags
  BY <1>2, <1>10, <1>13, <1>15 DEF Approached, Gripped, Grasps, Dragged
<1>28. u.drag \in {s.drag, "gone"} BY <1>23, <1>25 DEF Told, Passed
<1>29. u.mouse = None \/ (u.mouse = w.mouse /\ u.listening = w.listening)
  BY <1>19, <1>23, <1>25 DEF Told
<1>30. Touched(u, fingers)
  <2>1. Touched(n, fingers) /\ n.mouse = w.mouse BY <1>2 DEF Approached
  <2>2. t.drag = n.drag BY <1>10 DEF Gripped, Grasps
  <2>3. u.drag \in {n.drag, "none", "gone"} \cup PenDrags
    BY <1>13, <1>15, <1>28, <2>2 DEF Dragged
  <2>4. u.touchPointer = n.touchPointer /\ u.touch = n.touch BY <1>19, <1>23, <1>25 DEF Told
  <2>5. /\ "touch" \notin {"none", "gone"} \cup PenDrags
        /\ ({"none", "gone"} \cup PenDrags) \cap MouseDrags = {}
    BY DEF PenDrags, MouseDrags
  <2> QED BY <1>29, <2>1, <2>3, <2>4, <2>5 DEF Touched
<1>31. Held(u, held)
  <2>1. Held(w, held) BY DEF IInv
  <2>2. u.drag \in {w.drag, "none", "gone"} \cup PenDrags BY <1>27, <1>28
  <2>3. "mousePrimary" \notin {"none", "gone"} \cup PenDrags
          /\ "mouseMiddle" \notin {"none", "gone"} \cup PenDrags
    BY DEF PenDrags
  <2> QED BY <1>29, <2>1, <2>2, <2>3 DEF Held
<1> QED BY <1>1, <1>25, <1>26, <1>30, <1>31, SettleIs DEF Parts

(* A message that is not known to be the pen's only counts as one missed.    *)
LEMMA ForeignKeeps ==
  ASSUME IInv, NEW m, IsMessage(m), Reported(m), ~m.read, Blank(m), Foreign,
         w' = Over(Misses(Now, m), m), capture' = capture, held' = held, fingers' = fingers, Places'
  PROVE IInv'
<1> DEFINE n == Misses(Now, m)
           u == Over(n, m)
<1>1. Parts(Now, fingers, held, penAt) /\ Keeps(w, Now) BY NowIs
<1>2. /\ n \in Windows /\ Remembers(Now, n) /\ Grasps(Now, n) /\ n.picking = Now.picking
      /\ n.penActive = Now.penActive /\ n.gone = Now.gone /\ n.recorded = Now.recorded
      /\ n.open = Now.open /\ n.stray = Now.stray
      /\ n.missed = (Now.missed \/ (~m.read /\ m.kind # "lost"))
  BY <1>1, MissesIs DEF Parts
<1>3. w' = u /\ u = Over(n, m) OBVIOUS
<1> HIDE DEF n, u
<1>4. Ink(n) BY <1>1, <1>2, SameInk DEF Parts, Grasps
<1>5. /\ n.penContact = w.penContact /\ n.touchPointer = w.touchPointer /\ n.drag = w.drag
      /\ n.mouse = w.mouse /\ n.touch = w.touch /\ n.listening = w.listening
      /\ n.penActive = w.penActive /\ n.gone = w.gone /\ n.recorded = w.recorded
      /\ n.open = w.open /\ n.stray = w.stray
      /\ n.missed = (w.missed \/ m.kind # "lost")
  BY <1>1, <1>2 DEF Keeps, Grasps
<1>6. Placed(w, penAt) /\ (w.missed \/ Sharp(w, penAt)) BY DEF IInv, Penned
<1>7. n.gone => n.penActive BY <1>5, <1>6 DEF Placed
<1>8. /\ u \in Windows /\ Ink(u) /\ u.penContact = n.penContact
      /\ u.touchPointer = n.touchPointer /\ u.mouse = n.mouse /\ u.touch = n.touch
      /\ u.listening = n.listening /\ u.penActive = n.penActive /\ u.missed = n.missed
      /\ u.drag = (IF m.kind \in {"lost", "leave"} /\ n.drag \in PenDrags THEN "gone" ELSE n.drag)
      /\ u.gone = (IF m.kind \in {"lost", "leave"} THEN n.penActive ELSE n.gone)
      /\ u.recorded = (IF m.kind = "up" THEN None ELSE n.recorded)
      /\ n.stray = "no" /\ ~(m.kind = "up" /\ n.open) => u.stray = "no"
  BY <1>2, <1>3, <1>4, <1>7, OverIs
<1>9. ~w.penContact /\ (w.gone \/ ~w.penActive) BY DEF Foreign
<1>10. w.recorded = None BY <1>6, <1>9 DEF Placed
<1>11. Placed(u, penAt')
  <2>1. u.recorded = None BY <1>5, <1>8, <1>10
  <2>2. u.gone => u.penActive BY <1>7, <1>8
  <2>3. u.drag \in PenDrags => m.kind \notin {"lost", "leave"} BY <1>8 DEF PenDrags
  <2>4. m.kind \notin {"lost", "leave"} => penAt' # "away" BY DEF IsMessage, Kinds, Reported
  <2> QED BY <1>5, <1>8, <1>9, <2>1, <2>2, <2>3, <2>4 DEF Placed
<1>12. ~u.missed => Sharp(u, penAt')
  <2> SUFFICES ASSUME ~u.missed PROVE Sharp(u, penAt') OBVIOUS
  <2>1. ~w.missed /\ m.kind = "lost" BY <1>5, <1>8
  <2>2. Sharp(w, penAt) /\ penAt = "contact" BY <1>6, <2>1 DEF Reported
  <2>3. ~w.gone /\ ~w.penActive /\ w.drag \notin PenDrags /\ w.drag # "gone" /\ w.stray = "no"
    BY <1>9, <2>2 DEF Sharp
  <2> QED BY <1>5, <1>8, <2>1, <2>3 DEF Sharp, PenDrags
<1>13. Touched(u, fingers) /\ Held(u, held)
  <2>1. Touched(w, fingers) /\ Held(w, held) BY DEF IInv
  <2>2. u.drag \in {w.drag, "gone"} BY <1>5, <1>8
  <2> QED BY <1>5, <1>8, <2>1, <2>2 DEF Touched, Held, MouseDrags
<1>14. NeedsMouse(u) = NeedsMouse(w)
  <2>1. u.drag = w.drag \/ (w.drag \in PenDrags /\ u.drag = "gone") BY <1>5, <1>8
  <2> QED BY <1>5, <1>8, <2>1 DEF NeedsMouse, MouseDrags, PenDrags
<1>15. capture' = NeedsMouse(w') BY <1>3, <1>14 DEF IInv
<1> QED BY <1>3, <1>8, <1>11, <1>12, <1>13, <1>15, Closes DEF Parts, Penned

LEMMA PenKeeps ==
  ASSUME IInv, NEW m, IsMessage(m), Reported(m), Pen(m), held' = held, fingers' = fingers
  PROVE IInv'
<1>1. Places' BY FaultsAre DEF Pen, Places, Reported, IInv, TypeOK
<1>2. ASSUME m.read \/ m.kind # "leave", NEW auto \in Only(w.touchPointer # NoFinger),
             NEW navigates \in Only(Acts(m) /\ m.kind = "down"),
             NEW jammed \in Only(m.kind = "update" /\ w.drag \in PenDrags),
             NEW page,
             NEW alt \in Only(Acts(m) /\ m.shortcut = "none" /\ ~navigates /\
                              (m.kind = "down" \/ (m.kind = "update" /\ w.picking = "barrel"))),
             NEW begin, begin \in PenBegin(m, auto, navigates, alt),
             PenMessage(m, auto, navigates, alt, jammed, begin, page)
      PROVE IInv'
  <2>1. auto \in BOOLEAN /\ navigates \in BOOLEAN /\ jammed \in BOOLEAN /\ alt \in BOOLEAN BY DEF Only
  <2> QED BY <1>1, <1>2, <2>1, PenMessageKeeps
<1>3. CASE ~m.read /\ Blank(m) /\ Foreign /\ w' = Over(Misses(Now, m), m) /\ capture' = capture
  BY <1>1, <1>3, ForeignKeeps
<1> QED BY <1>2, <1>3 DEF Pen

LEMMA StylusKeeps ==
  ASSUME IInv, Stylus
  PROVE IInv'
<1>1. CASE PenDown
  <2>1. "down" \in Kinds BY DEF Kinds
  <2>2. PICK m \in Messages["down"] :
          /\ m.read => m.contact /\ (w.drag = "penButton" /\ ~w.missed => m.shortcut = "grab")
          /\ ~m.read => ~m.contact
          /\ Pen(m)
    BY <1>1 DEF PenDown
  <2>3. IsMessage(m) /\ m.kind = "down" BY <2>1, MessagesAre
  <2>4. Reported(m) /\ held' = held /\ fingers' = fingers
    BY <1>1, <2>2, <2>3 DEF PenDown, Near, Reported
  <2> QED BY <2>2, <2>3, <2>4, PenKeeps
<1>2. CASE PenHovers
  <2>1. "update" \in Kinds BY DEF Kinds
  <2>2. PICK m \in Messages["update"] : ~m.contact /\ Pen(m) BY <1>2 DEF PenHovers
  <2>3. IsMessage(m) /\ m.kind = "update" BY <2>1, MessagesAre
  <2>4. Reported(m) /\ held' = held /\ fingers' = fingers
    BY <1>2, <2>2, <2>3 DEF PenHovers, Near, Reported
  <2> QED BY <2>2, <2>3, <2>4, PenKeeps
<1>3. CASE PenDraws
  <2>1. "update" \in Kinds BY DEF Kinds
  <2>2. PICK m \in Messages["update"] : m.contact = m.known /\ Pen(m) BY <1>3 DEF PenDraws
  <2>3. IsMessage(m) /\ m.kind = "update" BY <2>1, MessagesAre
  <2>4. Reported(m) /\ held' = held /\ fingers' = fingers
    BY <1>3, <2>2, <2>3 DEF PenDraws, hardware, Reported
  <2> QED BY <2>2, <2>3, <2>4, PenKeeps
<1>4. CASE PenUp
  <2>1. "up" \in Kinds BY DEF Kinds
  <2>2. PICK m \in Messages["up"] : ~m.contact /\ m.shortcut = "none" /\ Pen(m) BY <1>4 DEF PenUp
  <2>3. IsMessage(m) /\ m.kind = "up" BY <2>1, MessagesAre
  <2>4. Reported(m) /\ held' = held /\ fingers' = fingers
    BY <1>4, <2>3 DEF PenUp, Near, Reported
  <2> QED BY <2>2, <2>3, <2>4, PenKeeps
<1>5. CASE PenLeaves
  <2>1. "leave" \in Kinds BY DEF Kinds
  <2>2. PICK m \in Messages["leave"] : Blank(m) /\ Pen(m) BY <1>5 DEF PenLeaves
  <2>3. IsMessage(m) /\ m.kind = "leave" BY <2>1, MessagesAre
  <2>4. Reported(m) /\ held' = held /\ fingers' = fingers
    BY <1>5, <2>2, <2>3 DEF PenLeaves, Near, Reported
  <2> QED BY <2>2, <2>3, <2>4, PenKeeps
<1>6. CASE PenLost
  <2>1. "lost" \in Kinds BY DEF Kinds
  <2>2. PICK m \in Messages["lost"] : Blank(m) /\ Pen(m) BY <1>6 DEF PenLost
  <2>3. IsMessage(m) /\ m.kind = "lost" BY <2>1, MessagesAre
  <2>4. Reported(m) /\ held' = held /\ fingers' = fingers
    BY <1>6, <2>3 DEF PenLost, Near, Reported
  <2> QED BY <2>2, <2>3, <2>4, PenKeeps
<1> QED BY <1>1, <1>2, <1>3, <1>4, <1>5, <1>6 DEF Stylus

-----------------------------------------------------------------------------
(* The window *)

LEMMA CancelInputKeeps ==
  ASSUME IInv, CancelInput
  PROVE IInv'
<1> DEFINE s == IF capture THEN CaptureLost(Now) ELSE Now
           r == [s EXCEPT !.drag = "none"]
           q == LoseMouse(r)
           t == CancelTouch(q)
           p == CancelPen(t)
           u == [p EXCEPT !.penContact = FALSE]
<1>1. /\ penAt' = penAt /\ held' = held /\ fingers' = fingers /\ capture' = FALSE /\ w' = u
  BY DEF CancelInput, hardware
<1>2. Places' BY <1>1, FaultsAre DEF CancelInput, Places, IInv, TypeOK
<1>3. Parts(Now, fingers, held, penAt) BY NowIs
<1>4. s \in Windows /\ Ink(s) /\ Pens(s) /\ (s.missed \/ s.stray = "no")
  <2>1. Parts(CaptureLost(Now), fingers, held, penAt) BY <1>3, CaptureLostIs
  <2>2. Parts(s, fingers, held, penAt) BY <1>3, <2>1
  <2> HIDE DEF s
  <2> QED BY <2>2 DEF Parts, Penned, Placed, Sharp, Pens
<1>5. r = [s EXCEPT !.drag = "none"] OBVIOUS
<1>6. u = [p EXCEPT !.penContact = FALSE] OBVIOUS
<1> HIDE DEF s, r
<1>7. r \in Windows /\ Ink(r) /\ Elsewise(s, r) /\ r.drag = "none" BY <1>4, <1>5, DragIs
<1>8. /\ q \in Windows /\ Ink(q) /\ Elsewise(r, q) /\ q.mouse = None /\ q.drag = "none"
  BY <1>7, LoseMouseIs
<1> HIDE DEF q
<1>9. /\ t \in Windows /\ Ink(t) /\ Elsewise(q, t) /\ t.mouse = None /\ t.drag = "none"
      /\ t.touch = None /\ t.touchPointer = NoFinger
  BY <1>8, CancelTouchIs
<1>10. Pens(t) /\ (t.missed \/ t.stray = "no") BY <1>4, <1>7, <1>8, <1>9 DEF Pens, Elsewise
<1> HIDE DEF t
<1>p. p = CancelPen(t) OBVIOUS
<1> HIDE DEF p, u
<1>i. Idle(t, p) BY <1>9, <1>10, <1>p, CancelPenIs
<1>11. /\ p \in Windows /\ Ink(p) /\ Grasps(t, p) /\ p.recorded = None /\ p.penActive = FALSE
       /\ p.gone = FALSE /\ p.missed = t.missed /\ (t.stray = "no" => p.stray = "no")
  BY <1>i DEF Idle
<1>12. /\ u \in Windows /\ Elsewise(p, u) /\ Remembers(p, u) /\ u.penContact = FALSE
       /\ u.touchPointer = p.touchPointer /\ u.mouse = p.mouse /\ u.touch = p.touch
       /\ u.drag = p.drag
  BY <1>6, <1>11 DEF Windows, Elsewise, Remembers
<1>13. Ink(u) BY <1>11, <1>12, SameInk DEF Elsewise
<1>14. u.mouse = None /\ u.touch = None /\ u.drag = "none" /\ u.touchPointer = NoFinger
  BY <1>9, <1>11, <1>12 DEF Grasps
<1>15. Touched(u, fingers) /\ Held(u, held) BY <1>14 DEF Touched, Held
<1>16. Penned(u, penAt) BY <1>10, <1>11, <1>12, <1>14 DEF Penned, Placed, Sharp, Elsewise, PenDrags
<1>17. capture' = NeedsMouse(w') BY <1>1, <1>14 DEF NeedsMouse, MouseDrags
<1> QED BY <1>1, <1>2, <1>12, <1>13, <1>15, <1>16, <1>17, Closes DEF Parts

LEMMA ViewChangesKeeps ==
  ASSUME IInv, ViewChanges
  PROVE IInv'
<1> DEFINE stale == {k \in {"mouse", "touch"} : w[k] # None}
           u == [Now EXCEPT !.stale = stale]
<1>1. penAt' = penAt /\ held' = held /\ fingers' = fingers /\ capture' = capture /\ faults' = faults
  BY DEF ViewChanges, hardware
<1>2. Places' BY <1>1, FaultsAre DEF Places, IInv, TypeOK
<1>3. Parts(Now, fingers, held, penAt) /\ Keeps(w, Now) BY NowIs
<1>4. w' = u BY DEF ViewChanges
<1>5. stale \subseteq {"mouse", "touch"} OBVIOUS
<1> HIDE DEF stale
<1>6. /\ u \in Windows /\ Remembers(Now, u) /\ Elsewise(Now, u) /\ u.penContact = Now.penContact
      /\ u.touchPointer = Now.touchPointer /\ u.drag = Now.drag /\ u.mouse = Now.mouse
      /\ u.touch = Now.touch /\ u.listening = Now.listening
  BY <1>3, <1>5 DEF Parts, Windows, Remembers, Elsewise
<1> HIDE DEF u
<1>7. Ink(u) BY <1>3, <1>6, SameInk DEF Parts, Elsewise
<1>8. Touched(u, fingers) /\ Held(u, held) /\ Penned(u, penAt)
  BY <1>3, <1>6 DEF Parts, Touched, Held, Penned, Placed, Sharp, Elsewise
<1>9. NeedsMouse(u) = NeedsMouse(w) BY <1>3, <1>6 DEF NeedsMouse, Keeps
<1>10. capture' = NeedsMouse(w') BY <1>1, <1>4, <1>9 DEF IInv
<1> QED BY <1>1, <1>2, <1>4, <1>6, <1>7, <1>8, <1>10, Closes DEF Parts

-----------------------------------------------------------------------------
LEMMA StartsRight ==
  Init => IInv
<1> SUFFICES ASSUME Init PROVE IInv OBVIOUS
<1>1. w.drag = "none" /\ w.mouse = None /\ w.touch = None /\ w.recorded = None /\ w.open = FALSE
        /\ w.touchPointer = NoFinger /\ w.penContact = FALSE /\ w.penActive = FALSE
        /\ w.stroke = NoStroke /\ w.skipped = FALSE /\ w.awaiting = FALSE
        /\ w.begun = {} /\ w.crossed = {} /\ w.ended = {} /\ w.closed = {}
        /\ w.gone = FALSE /\ w.stray = "no"
  BY DEF Init
<1>2. TypeOK
  <2>1. w \in Windows BY DEF Init, Windows, Of, Strokes, NoStroke
  <2> QED BY <2>1 DEF Init, TypeOK
<1>3. NoStroke.of = {} BY DEF NoStroke
<1>4. Writing(w) = {} BY <1>1 DEF Writing
<1>5. Apart(w) /\ Strayed(w) /\ Quiet(w) /\ Same(w) /\ Joined(w) /\ Begun(w) /\ Owned(w) /\ Whole(w)
  BY <1>1, <1>3, <1>4 DEF Apart, Strayed, Quiet, Same, Joined, Begun, Owned, Whole
<1>6. capture = NeedsMouse(w) BY <1>1 DEF Init, NeedsMouse, MouseDrags
<1>7. Touched(w, fingers) /\ Held(w, held) /\ Penned(w, penAt)
  BY <1>1 DEF Touched, Held, Penned, Placed, Sharp, PenDrags
<1> QED BY <1>2, <1>5, <1>6, <1>7 DEF IInv, Ink

LEMMA IInvHolds ==
  Spec => []IInv
<1>1. IInv /\ [Next]_vars => IInv'
  <2> SUFFICES ASSUME IInv, [Next]_vars PROVE IInv' OBVIOUS
  <2>1. CASE Mouse
    BY <2>1, LeftDownKeeps, LeftUpKeeps, MiddleKeeps, MouseMovesKeeps, RawMouseKeeps,
       CaptureStolenKeeps
      DEF Mouse
  <2>2. CASE Touch BY <2>2, FingerDownKeeps, FingerMovesKeeps, FingerUpKeeps DEF Touch
  <2>3. CASE Stylus BY <2>3, StylusKeeps
  <2>4. CASE Window BY <2>4, CancelInputKeeps, ViewChangesKeeps DEF Window
  <2>5. CASE UNCHANGED vars
    BY <2>5 DEF vars, hardware, IInv, TypeOK, Ink, Apart, Strayed, Quiet, Same, Joined, Begun,
                Owned, Whole, NeedsMouse, Touched, Held, Penned, Placed, Sharp, Writing
  <2> QED BY <2>1, <2>2, <2>3, <2>4, <2>5 DEF Next
<1> QED BY StartsRight, <1>1, PTL DEF Spec

(* A stroke is one gesture and a gesture one stroke, for any fingers and any *)
(* number of messages that are not read: only the mouse and the pen drawing  *)
(* at once, unsmoothed, or a contact of the pen whose end was not read, join *)
(* samples of two gestures (canvas_wnd_proc).                                *)
THEOREM StrokesAreGestures ==
  Spec => []GesturesStayWhole
<1>1. IInv => GesturesStayWhole
  <2> SUFFICES ASSUME IInv PROVE GesturesStayWhole OBVIOUS
  <2>1. Whole(w) BY DEF IInv, Ink
  <2>2. \A g : Cardinality({g}) = 1 BY FS_Singleton
  <2>3. \A stroke \in w.closed :
          \/ Cardinality(stroke.of) = 1
          \/ ~stroke.smooth /\ stroke.of \cap w.crossed # {}
          \/ Stray \in stroke.of
    BY <2>1, <2>2 DEF Whole
  <2> QED BY <2>1, <2>3 DEF Whole, GesturesStayWhole
<1> QED BY <1>1, IInvHolds, PTL

(* Once every device has let go the mouse is free for the other windows and  *)
(* no finger or button holds anything, whatever was not read on the way; and *)
(* if every message of the pen was read since one of its contacts last began *)
(* in order, nothing is dragged or drawn at all.                             *)
THEOREM EverythingIsLetGo ==
  Spec => []NothingIsHeldBack
<1>1. IInv => NothingIsHeldBack
  <2> SUFFICES ASSUME IInv PROVE NothingIsHeldBack OBVIOUS
  <2>1. capture = NeedsMouse(w) BY DEF IInv
  <2> SUFFICES ASSUME LetGo
               PROVE /\ w.mouse = None /\ w.touch = None /\ w.drag \in {"none", "gone"}
                     /\ ~w.penContact /\ w.touchPointer = NoFinger
                     /\ \/ w.missed
                        \/ w.drag = "none" /\ ~w.penActive /\ (w.stroke # NoStroke => w.dropped)
    BY <2>1 DEF NothingIsHeldBack
  <2>2. penAt = "away" /\ held = {} /\ fingers = {} BY DEF LetGo
  <2>3. w.mouse = None /\ w.drag \notin MouseDrags BY <2>2 DEF IInv, Held, MouseDrags
  <2>4. w.touchPointer = NoFinger /\ w.touch = None /\ w.drag # "touch" BY <2>2 DEF IInv, Touched
  <2>5. ~w.penContact /\ w.recorded = None /\ w.drag \notin PenDrags
    BY <2>2 DEF IInv, Penned, Placed
  <2>6. w.drag \in {"none", "gone"} BY <2>3, <2>4, <2>5 DEF IInv, TypeOK, Windows
  <2>7. ~w.open BY <2>5 DEF IInv, Ink, Apart
  <2>8. Writing(w) = {} BY <2>3, <2>4, <2>7 DEF Writing
  <2>9. CASE ~w.missed
    <3>1. Sharp(w, penAt) BY <2>9 DEF IInv, Penned
    <3>2. ~w.penActive /\ w.drag = "none" /\ w.stray = "no" BY <2>2, <2>6, <3>1 DEF Sharp
    <3>3. w.stroke # NoStroke => w.dropped BY <2>8, <3>2 DEF IInv, Ink, Owned
    <3> QED BY <2>3, <2>4, <2>5, <3>2, <3>3
  <2> QED BY <2>3, <2>4, <2>5, <2>6, <2>9
<1> QED BY <1>1, IInvHolds, PTL
=============================================================================
