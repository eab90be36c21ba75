----------------------------- MODULE Drafts_proofs -----------------------------
(***************************************************************************)
(* Proofs about the drafts of the canvas and of its worker, for any values,*)
(* any number of requests, contacts and moves, and with and without limits.*)
(*                                                                         *)
(* Neither side sees the other's draft, and both may be changed while a    *)
(* request or an answer is on its way.  The inductive invariant therefore  *)
(* says what the canvas will hold once the answer that waits is taken      *)
(* (Foreseen...), and that this is what the worker holds (Agreed); that    *)
(* nothing the pen has begun can still reach the artwork when a draft is   *)
(* asked for or held (Still); and that the two kinds of draft keep out of  *)
(* each other's way although the worker looks only in one direction (Apart).*)
(***************************************************************************)
EXTENDS Drafts, TLAPS

Names == Tools \cup {"Lasso"}

Tints == [projection : Projections \cup {None}, starting : BOOLEAN, preview : Payloads,
          cancel : BOOLEAN, tool : Names \cup {None}]

Owns == [tool : Names, next : Names \cup {None}, projection : Projections \cup {None},
         starting : BOOLEAN, gesture : Payloads, pending : Payloads, cancel : BOOLEAN,
         paste : BOOLEAN, revalidating : BOOLEAN,
         tint : Tints,
         job : Jobs \cup {None}, active : Nat, paused : BOOLEAN]

(* The layers are numbered from the base on.                                *)
Rows == {S \in SUBSET Nat : \E n \in Nat \ {0} : S = 1..n}

TypeOK ==
  /\ own \in Owns /\ answer \in Answers \cup {None, Refused}
  /\ shown \in Pictures /\ art \in Pictures /\ layers \in Rows
  /\ contact \in BOOLEAN /\ samples \in Seq({"Begin", "Move", "End", "Cancel"})
  /\ ink \in {"none", "drawing", "queued", "written"}
  /\ moving \in MoveDrafts \cup {None} /\ tinting \in TintDrafts \cup {None}
  /\ moving # None => moving.layers \in Rows
  /\ generations \in [move : Nat, tint : Nat]

(* A colour correction keeps the pen out and has the canvas to itself.      *)
Apart(o) == TintActive(o) => ~MoveActive(o)

Still ==
  /\ own.job # None \/ own.projection # None \/ own.tint.projection # None => ink = "none"
  /\ JobIs(own, "move") => own.starting \/ own.projection # None
  /\ TintActive(own) => own.paused /\ samples = <<>> /\ ~contact
  /\ own.tint.starting => JobIs(own, "tint") /\ own.job.do = "Begin"
  /\ answer # None => own.job # None
  /\ \A i \in 1..Len(samples) : samples[i] = "Begin" => i = 1 /\ ink = "none"

(* What the canvas will hold and show once it has taken the answer.         *)
Told == answer \notin {None, Refused}

Foreseen(on, projection) ==
  CASE Told /\ own.job.on = on -> answer.projection
    [] answer = Refused -> Unready(projection)
    [] OTHER -> projection

ForeseenTiles == IF Told THEN answer.tiles ELSE shown

ForeseenTree == IF Told THEN IF answer.committed THEN answer.layers ELSE tree ELSE tree

Matches(projection, draft) ==
  /\ (projection = None) <=> (draft = None)
  /\ projection # None =>
       /\ projection.generation = draft.projection.generation
       /\ projection.transform = draft.projection.transform
       /\ projection.canCommit => draft.projection.canCommit
       /\ ForeseenTiles = draft.displayed

Agreed ==
  /\ Matches(Foreseen("move", own.projection), moving)
  /\ Matches(Foreseen("tint", own.tint.projection), tinting)
  /\ ForeseenTree = layers
  /\ moving = None /\ tinting = None =>
       ForeseenTiles = IF ink = "queued" THEN Drawn(art, "ink", None) ELSE art

IInv == TypeOK /\ Apart(own) /\ Still /\ Agreed /\ NothingChangesUnderADraft

-----------------------------------------------------------------------------
(* What the canvas may do to what it remembers outside of an answer: send   *)
(* one request, or forget that it was starting; the drafts it holds stay.   *)
Alike(o, p) ==
  /\ p \in Owns
  /\ p.projection = o.projection /\ p.tint.projection = o.tint.projection
  /\ p.tint.starting = o.tint.starting /\ p.starting = o.starting
  /\ p.job = o.job /\ p.paused = o.paused

Waits(o, p) ==
  /\ p.job = o.job /\ p.paused = o.paused /\ p.tint.starting = o.tint.starting
  /\ p.starting # o.starting => o.job = None /\ ~p.starting

SendsMove(o, p) ==
  /\ Idle(o) /\ JobIs(p, "move") /\ ~TintActive(o)
  /\ p.starting \/ p.projection # None
  /\ p.tint.starting = o.tint.starting

SendsTint(o, p) ==
  /\ Idle(o) /\ JobIs(p, "tint") /\ ~MoveActive(o)
  /\ CanPause /\ p.paused /\ ~p.starting
  /\ p.tint.starting => o.tint.starting \/ p.job.do = "Begin"

Follows(o, p) ==
  /\ p \in Owns
  /\ p.projection = o.projection /\ p.tint.projection = o.tint.projection
  /\ Waits(o, p) \/ SendsMove(o, p) \/ SendsTint(o, p)

LEMMA AlikeFollows ==
  ASSUME NEW o \in Owns, NEW p, Alike(o, p)
  PROVE  Follows(o, p)
BY DEF Alike, Follows, Waits

LEMMA AlikeActive ==
  ASSUME NEW o \in Owns, NEW p, Alike(o, p)
  PROVE  /\ MoveActive(p) = MoveActive(o) /\ TintActive(p) = TintActive(o)
         /\ Idle(p) = Idle(o) /\ Apart(p) = Apart(o)
BY DEF Alike, MoveActive, TintActive, JobIs, Idle, Apart

LEMMA FollowsAlike ==
  ASSUME NEW o \in Owns, NEW p \in Owns, NEW q, NEW r,
         Alike(o, p), Follows(p, q), Alike(q, r)
  PROVE  Follows(o, r)
BY AlikeActive DEF Alike, Follows, Waits, SendsMove, SendsTint, JobIs

LEMMA SentIsOwn ==
  ASSUME NEW o \in Owns, NEW on \in {"move", "tint"},
         NEW do \in Starts \cup {"Preview", "Commit", "Cancel"}, NEW with \in Payloads
  PROVE  /\ Sent(o, on, do, with) \in Owns
         /\ Sent(o, on, do, with).job \in Jobs
         /\ Sent(o, on, do, with).job.on = on /\ Sent(o, on, do, with).job.do = do
         /\ Sent(o, on, do, with) = [o EXCEPT !.job = Sent(o, on, do, with).job]
<1>1. [on |-> on, do |-> do, with |-> with, target |-> o.active] \in Jobs
  BY DEF Jobs, Owns
<1> QED
  BY <1>1 DEF Sent, Owns

LEMMA AdmitMoveFollows ==
  ASSUME NEW o \in Owns, Apart(o),
         NEW do \in Starts \cup {"Preview", "Commit", "Cancel"}, NEW with \in Payloads,
         do \in Starts => ~TintActive(o)
  PROVE  Follows(o, AdmitMove(o, do, with).own)
<1> DEFINE p == AdmitMove(o, do, with).own
           sent == Sent(o, "move", do, with)
<1>1. CASE p = o
  BY <1>1, AlikeFollows DEF Alike
<1>2. CASE p # o
  <2>1. Idle(o) /\ (do \notin Starts => o.projection # None)
    BY <1>2 DEF AdmitMove, Done, Fails
  <2>2. PICK pauses \in BOOLEAN :
          p = LET held == [sent EXCEPT !.paused = o.paused \/ pauses]
              IN  IF do \in Starts
                  THEN [held EXCEPT !.starting = TRUE, !.paste = (do = "Paste"),
                                    !.tool = "MoveSelection"]
                  ELSE held
    <3>1. o.starting \in BOOLEAN
      BY DEF Owns
    <3> QED
      BY <1>2, <3>1 DEF AdmitMove, Done, Fails
  <2>3. sent \in Owns /\ sent.job \in Jobs /\ sent.job.on = "move"
        /\ sent = [o EXCEPT !.job = sent.job]
    BY SentIsOwn
  <2>4. ~TintActive(o)
    BY <2>1 DEF Apart, MoveActive
  <2>5. /\ p \in Owns /\ p.job = sent.job /\ p.projection = o.projection /\ p.tint = o.tint
        /\ p.starting = (o.starting \/ do \in Starts)
    <3> HIDE DEF p, sent
    <3>1. PICK job \in Jobs, paused \in BOOLEAN, starting \in BOOLEAN, paste \in BOOLEAN, tool \in Names :
            /\ p = [o EXCEPT !.job = job, !.paused = paused, !.starting = starting,
                              !.paste = paste, !.tool = tool]
            /\ job = sent.job /\ starting = (o.starting \/ do \in Starts)
      <4>1. /\ (o.paused \/ pauses) \in BOOLEAN
            /\ "MoveSelection" \in Names
            /\ o.starting \in BOOLEAN /\ o.paste \in BOOLEAN /\ o.tool \in Names
        BY DEF Owns, Names, Tools
      <4>2. CASE do \in Starts
        <5>1. p = [o EXCEPT !.job = sent.job, !.paused = o.paused \/ pauses, !.starting = TRUE,
                            !.paste = (do = "Paste"), !.tool = "MoveSelection"]
          BY <2>2, <2>3, <4>2 DEF Owns
        <5> QED
          BY <2>3, <4>1, <4>2, <5>1
      <4>3. CASE do \notin Starts
        <5>1. p = [o EXCEPT !.job = sent.job, !.paused = o.paused \/ pauses,
                            !.starting = o.starting, !.paste = o.paste, !.tool = o.tool]
          BY <2>2, <2>3, <4>3 DEF Owns
        <5> QED
          BY <2>3, <4>1, <4>3, <5>1
      <4> QED
        BY <4>2, <4>3
    <3>2. p \in Owns
      BY <3>1 DEF Owns
    <3>3. p.job = sent.job /\ p.projection = o.projection /\ p.tint = o.tint
      BY <3>1 DEF Owns
    <3>4. p.starting = (o.starting \/ do \in Starts)
      BY <3>1 DEF Owns
    <3> QED
      BY <3>2, <3>3, <3>4
  <2>6. JobIs(p, "move")
    BY <2>3, <2>5, DraftsAssumption DEF JobIs
  <2> QED
    BY <2>1, <2>4, <2>5, <2>6 DEF Follows, SendsMove
<1> QED
  BY <1>1, <1>2

LEMMA AdmitMoveRefuses ==
  ASSUME NEW o, NEW do, NEW with, AdmitMove(o, do, with).result # "done"
  PROVE  AdmitMove(o, do, with).own = o
BY DEF AdmitMove, Done, Fails

LEMMA EnqueueMoveFollows ==
  ASSUME NEW o \in Owns, Apart(o),
         NEW do \in Starts \cup {"Preview", "Commit", "Cancel"}, NEW with \in Payloads,
         do \in Starts => ~TintActive(o)
  PROVE  /\ Follows(o, EnqueueMove(o, do, with).own)
         /\ EnqueueMove(o, do, with).result # "done" => Alike(o, EnqueueMove(o, do, with).own)
<1> DEFINE e == EnqueueMove(o, do, with)
           dropped == [o EXCEPT !.gesture = None, !.pending = None, !.next = None]
<1>1. Alike(o, dropped) /\ dropped \in Owns
  BY DEF Alike, Owns, Payloads
<1>2. Alike(o, o)
  BY DEF Alike
<1>3. CASE e = AdmitMove(o, do, with)
  BY <1>2, <1>3, AdmitMoveFollows, AdmitMoveRefuses
<1>4. CASE e = Done(o)
  BY <1>2, <1>4, AlikeFollows DEF Done
<1>5. CASE e = Done([dropped EXCEPT !.cancel = TRUE])
  <2>1. Alike(o, [dropped EXCEPT !.cancel = TRUE])
    BY DEF Alike, Owns, Payloads
  <2> QED
    BY <1>5, <2>1, AlikeFollows DEF Done
<1>6. CASE /\ e = Done([dropped EXCEPT !.starting = FALSE, !.cancel = FALSE])
           /\ o.job = None
  <2>1. [dropped EXCEPT !.starting = FALSE, !.cancel = FALSE] \in Owns
    BY <1>1 DEF Owns
  <2>2. e.own = [dropped EXCEPT !.starting = FALSE, !.cancel = FALSE] /\ e.result = "done"
    BY <1>6 DEF Done
  <2>3. /\ e.own.projection = o.projection /\ e.own.tint = o.tint /\ e.own.job = o.job
        /\ e.own.paused = o.paused /\ e.own.starting = FALSE
    BY <2>2 DEF Owns
  <2> QED
    BY <1>6, <2>1, <2>2, <2>3 DEF Follows, Waits
<1>7. CASE do = "Cancel" /\ e = AdmitMove(dropped, do, with)
  <2>1. Apart(dropped)
    BY <1>1, AlikeActive
  <2>2. Follows(dropped, AdmitMove(dropped, do, with).own)
    BY <1>1, <1>7, <2>1, AdmitMoveFollows DEF Starts
  <2>3. Alike(e.own, e.own)
    BY <1>7, <2>2 DEF Follows, Alike
  <2> QED
    BY <1>1, <1>7, <2>2, <2>3, FollowsAlike, AdmitMoveRefuses
<1> QED
  BY <1>3, <1>4, <1>5, <1>6, <1>7 DEF EnqueueMove

LEMMA FlushSendsFollows ==
  ASSUME NEW o \in Owns, Apart(o), o.job = None,
         NEW do \in Starts \cup {"Preview", "Commit", "Cancel"}, NEW with \in Payloads,
         do \in Starts => ~TintActive(o)
  PROVE  Follows(o, FlushSends(o, do, with))
<1> DEFINE tried == EnqueueMove(o, do, with)
           p == tried.own
           q == FlushSends(o, do, with)
<1>1. Follows(o, p) /\ p \in Owns /\ (tried.result # "done" => Alike(o, p))
  BY EnqueueMoveFollows DEF Follows
<1>2. o.next \in Names \cup {None} /\ None \in Payloads /\ Alike(o, o) /\ p.cancel \in BOOLEAN
  BY <1>1 DEF Owns, Payloads, Alike
<1> HIDE DEF tried, p
<1>3. CASE Alike(p, q)
  BY <1>1, <1>2, <1>3, FollowsAlike
<1>4. CASE tried.result \notin {"done", "busy"}
  <2>1. q = [p EXCEPT !.pending = None, !.cancel = FALSE, !.next = None, !.starting = FALSE]
    BY <1>4 DEF FlushSends, tried, p
  <2>2. q \in Owns
    BY <1>1, <1>2, <2>1 DEF Owns
  <2> QED
    BY <1>1, <1>4, <2>1, <2>2 DEF Alike, Follows, Waits, Owns
<1>5. CASE q = [p EXCEPT !.next = o.next]
  BY <1>1, <1>2, <1>5, <1>3 DEF Alike, Owns
<1>6. CASE q = [p EXCEPT !.next = o.next, !.pending = None, !.cancel = FALSE]
  BY <1>1, <1>2, <1>6, <1>3 DEF Alike, Owns
<1>7. CASE q = [p EXCEPT !.next = o.next, !.cancel = p.cancel \/ do = "Cancel"]
  BY <1>1, <1>2, <1>7, <1>3 DEF Alike, Owns
<1>8. \/ tried.result \notin {"done", "busy"}
      \/ q = [p EXCEPT !.next = o.next]
      \/ q = [[p EXCEPT !.next = o.next] EXCEPT !.pending = None, !.cancel = FALSE]
      \/ q = [[p EXCEPT !.next = o.next] EXCEPT !.cancel = @ \/ do = "Cancel"]
  BY DEF FlushSends, tried, p
<1>9. /\ [[p EXCEPT !.next = o.next] EXCEPT !.pending = None, !.cancel = FALSE]
           = [p EXCEPT !.next = o.next, !.pending = None, !.cancel = FALSE]
      /\ [[p EXCEPT !.next = o.next] EXCEPT !.cancel = @ \/ do = "Cancel"]
           = [p EXCEPT !.next = o.next, !.cancel = p.cancel \/ do = "Cancel"]
  BY <1>1 DEF Owns
<1> QED
  BY <1>4, <1>5, <1>6, <1>7, <1>8, <1>9

LEMMA FinishToolAlike ==
  ASSUME NEW o \in Owns
  PROVE  Alike(o, FinishTool(o))
<1>1. o.next \in Names \cup {None} /\ "Lasso" \in Names
  BY DEF Owns, Names
<1>2. FinishTool(o) \in Owns
  BY <1>1 DEF FinishTool, Owns
<1> QED
  BY <1>2 DEF FinishTool, Owns, Alike

LEMMA FlushMoveFollows ==
  ASSUME NEW o \in Owns, Apart(o)
  PROVE  Follows(o, FlushMove(o))
<1>1. None \in Payloads /\ o.pending \in Payloads
  BY DEF Owns, Payloads
<1>2. CASE FlushMove(o) = o
  BY <1>2, AlikeFollows DEF Alike
<1>3. CASE o.job = None /\ FlushMove(o) = FlushSends(o, "Cancel", None)
  BY <1>1, <1>3, FlushSendsFollows DEF Starts
<1>4. CASE o.job = None /\ o.starting /\ FlushMove(o) = FlushSends(o, "Begin", None)
  <2>1. ~TintActive(o)
    BY <1>4 DEF Apart, MoveActive
  <2> QED
    BY <1>1, <1>4, <2>1, FlushSendsFollows DEF Starts
<1>5. CASE o.job = None /\ FlushMove(o) = FlushSends(o, "Preview", o.pending)
  BY <1>1, <1>5, FlushSendsFollows DEF Starts
<1>6. CASE FlushMove(o) = FinishTool(o)
  BY <1>6, FinishToolAlike, AlikeFollows
<1>7. CASE /\ o.job = None /\ o.projection # None
           /\ FlushMove(o) = LET c == ToolSwitch(o)
                             IN  FlushSends([o EXCEPT !.revalidating = (c[1] = "Preview")],
                                            c[1], c[2])
  <2> DEFINE c == ToolSwitch(o)
             m == [o EXCEPT !.revalidating = (c[1] = "Preview")]
  <2>1. o.projection \in Projections
    BY <1>7 DEF Owns
  <2>2. c[1] \in {"Cancel", "Commit", "Preview"} /\ c[2] \in Payloads
    BY <1>1, <2>1 DEF ToolSwitch, Projections, Payloads
  <2>3. m \in Owns /\ Alike(o, m) /\ m.job = None
    <3> HIDE DEF c
    <3> QED
      BY <1>7 DEF Owns, Alike
  <2> HIDE DEF c, m
  <2>4. Follows(m, FlushSends(m, c[1], c[2]))
    BY <2>2, <2>3, AlikeActive, FlushSendsFollows DEF Starts
  <2>5. FlushMove(o) = FlushSends(m, c[1], c[2])
    BY <1>7 DEF c, m
  <2>6. Alike(FlushMove(o), FlushMove(o))
    BY <2>4, <2>5 DEF Follows, Alike
  <2> QED
    BY <2>3, <2>4, <2>5, <2>6, FollowsAlike
<1> QED
  BY <1>2, <1>3, <1>4, <1>5, <1>6, <1>7 DEF FlushMove

LEMMA SwitchToolFollows ==
  ASSUME NEW o \in Owns, Apart(o), NEW tool \in Tools
  PROVE  Follows(o, SwitchTool(o, tool))
<1> DEFINE m == [o EXCEPT !.next = tool, !.gesture = None]
<1>1. CASE SwitchTool(o, tool) = o
  BY <1>1, AlikeFollows DEF Alike
<1>2. CASE SwitchTool(o, tool) = FlushMove(m)
  <2>1. m \in Owns /\ Alike(o, m)
    BY DEF Owns, Alike, Names, Payloads
  <2>2. Follows(m, FlushMove(m))
    BY <2>1, AlikeActive, FlushMoveFollows
  <2>3. Alike(FlushMove(m), FlushMove(m))
    BY <2>2 DEF Follows, Alike
  <2> QED
    BY <1>2, <2>1, <2>2, <2>3, FollowsAlike
<1> QED
  BY <1>1, <1>2 DEF SwitchTool

LEMMA TintForgets ==
  ASSUME NEW o \in Owns, NEW tint \in Tints,
         tint.projection = o.tint.projection, tint.starting = o.tint.starting
  PROVE  Alike(o, [o EXCEPT !.tint = tint])
BY DEF Alike, Owns

LEMMA EnqueueTintFollows ==
  ASSUME NEW o \in Owns, Apart(o),
         NEW do \in {"Begin", "Preview", "Commit", "Cancel"}, NEW with \in Payloads
  PROVE  Follows(o, EnqueueTint(o, do, with).own)
<1> DEFINE e == EnqueueTint(o, do, with).own
           cleared == IF do = "Cancel" THEN [o EXCEPT !.tint.preview = None] ELSE o
<1>1. /\ None \in Payloads /\ o.tint \in Tints /\ Alike(o, o)
      /\ o.tint.cancel \in BOOLEAN /\ o.tint.preview \in Payloads
      /\ o.tint.tool \in Names \cup {None}
  BY DEF Owns, Tints, Payloads, Alike
<1> DEFINE Cleared == [o.tint EXCEPT !.preview = None]
           Cancelling == [o.tint EXCEPT !.preview = None, !.cancel = TRUE]
           Asking == [o.tint EXCEPT !.preview = with]
<1>2. /\ [o EXCEPT !.tint.preview = None] = [o EXCEPT !.tint = Cleared]
      /\ [o EXCEPT !.tint.preview = None, !.tint.cancel = TRUE] = [o EXCEPT !.tint = Cancelling]
      /\ [o EXCEPT !.tint.preview = with] = [o EXCEPT !.tint = Asking]
  BY <1>1 DEF Owns, Tints
<1>9. \A t \in {Cleared, Cancelling, Asking} :
        t \in Tints /\ t.projection = o.tint.projection /\ t.starting = o.tint.starting
  BY <1>1 DEF Tints
<1> HIDE DEF Cleared, Cancelling, Asking
<1>3. Alike(o, cleared) /\ cleared \in Owns
  <2>1. Alike(o, [o EXCEPT !.tint = Cleared])
    BY <1>9, TintForgets
  <2> QED
    BY <1>1, <1>2, <2>1 DEF Alike
<1>4. CASE e = o
  BY <1>1, <1>4, AlikeFollows
<1>5. CASE e = cleared
  BY <1>3, <1>5, AlikeFollows
<1>6. CASE e = [o EXCEPT !.tint.preview = with]
  <2>1. Alike(o, [o EXCEPT !.tint = Asking])
    BY <1>9, TintForgets
  <2> QED
    BY <1>2, <1>6, <2>1, AlikeFollows
<1>7. CASE e = [o EXCEPT !.tint.preview = None, !.tint.cancel = TRUE]
  <2>1. Alike(o, [o EXCEPT !.tint = Cancelling])
    BY <1>9, TintForgets
  <2> QED
    BY <1>2, <1>7, <2>1, AlikeFollows
<1>8. CASE /\ ~MoveActive(o) /\ Idle(o) /\ CanPause
           /\ e = [Sent(cleared, "tint", do, with) EXCEPT
                     !.paused = TRUE, !.tint.starting = @ \/ do = "Begin"]
  <2> DEFINE sent == Sent(cleared, "tint", do, with)
  <2>1. /\ sent \in Owns /\ sent.job \in Jobs /\ sent.job.on = "tint" /\ sent.job.do = do
        /\ sent = [cleared EXCEPT !.job = sent.job]
    <3> HIDE DEF cleared
    <3>1. do \in Starts \cup {"Preview", "Commit", "Cancel"} /\ "tint" \in {"move", "tint"}
      BY DEF Starts
    <3>2. /\ sent \in Owns /\ sent.job \in Jobs
          /\ sent = [cleared EXCEPT !.job = sent.job]
      BY <1>3, <3>1, SentIsOwn
    <3>3. sent.job.on = "tint" /\ sent.job.do = do
      BY <1>3 DEF Sent, Owns
    <3> QED
      BY <3>2, <3>3
  <2>2. /\ sent.projection = o.projection /\ sent.tint.projection = o.tint.projection
        /\ sent.starting = o.starting /\ sent.tint.starting = o.tint.starting
    BY <1>3, <2>1 DEF Owns, Alike
  <2> HIDE DEF sent
  <2> DEFINE tint == [sent.tint EXCEPT !.starting = @ \/ do = "Begin"]
  <2>3. /\ tint \in Tints /\ tint.projection = o.tint.projection
        /\ tint.starting = (o.tint.starting \/ do = "Begin")
    <3>1. sent.tint \in Tints
      BY <2>1 DEF Owns
    <3> QED
      BY <2>2, <3>1 DEF Tints
  <2>4. e = [sent EXCEPT !.paused = TRUE, !.tint = tint]
    BY <1>8, <2>1 DEF Owns, sent
  <2> HIDE DEF tint, e
  <2>5. /\ e \in Owns /\ e.job = sent.job /\ e.paused /\ e.projection = o.projection
        /\ e.tint.projection = o.tint.projection /\ e.starting = o.starting
        /\ e.tint.starting = (o.tint.starting \/ do = "Begin")
    BY <2>1, <2>2, <2>3, <2>4 DEF Owns
  <2>6. JobIs(e, "tint") /\ ~e.starting
    BY <1>8, <2>1, <2>5, DraftsAssumption DEF JobIs, MoveActive
  <2> QED
    BY <1>8, <2>1, <2>5, <2>6 DEF Follows, SendsTint, e
<1> QED
  <2> HIDE DEF cleared
  <2> QED
    BY <1>4, <1>5, <1>6, <1>7, <1>8 DEF EnqueueTint, Done, Fails, cleared

LEMMA FinishTintAlike ==
  ASSUME NEW o \in Owns
  PROVE  Alike(o, FinishTint(o))
<1>1. o.tint \in Tints /\ o.tint.tool \in Names \cup {None}
  BY DEF Owns, Tints
<1>2. CASE FinishTint(o) = o
  BY <1>2 DEF Alike
<1>3. CASE o.tint.tool # None /\ FinishTint(o) = [o EXCEPT !.tool = o.tint.tool, !.tint.tool = None]
  <2> DEFINE tint == [o.tint EXCEPT !.tool = None]
  <2>1. /\ tint \in Tints /\ tint.projection = o.tint.projection
        /\ tint.starting = o.tint.starting
    BY <1>1 DEF Tints
  <2>2. FinishTint(o) = [o EXCEPT !.tool = o.tint.tool, !.tint = tint]
    BY <1>3 DEF Owns
  <2>3. o.tint.tool \in Names
    BY <1>1, <1>3
  <2> HIDE DEF tint
  <2> QED
    BY <2>1, <2>2, <2>3 DEF Alike, Owns
<1> QED
  BY <1>2, <1>3 DEF FinishTint

LEMMA FlushTintFollows ==
  ASSUME NEW o \in Owns, Apart(o)
  PROVE  Follows(o, FlushTint(o))
<1> DEFINE Flushed(do, with) ==
             LET tried == EnqueueTint(o, do, with)
             IN  IF tried.result = "busy" THEN tried.own
                 ELSE [tried.own EXCEPT !.tint.preview = None, !.tint.cancel = FALSE]
<1>1. ASSUME NEW do \in {"Begin", "Preview", "Commit", "Cancel"}, NEW with \in Payloads
      PROVE  Follows(o, Flushed(do, with))
  <2> DEFINE p == EnqueueTint(o, do, with).own
             tint == [p.tint EXCEPT !.preview = None, !.cancel = FALSE]
  <2>1. Follows(o, p) /\ p \in Owns
    BY EnqueueTintFollows DEF Follows
  <2> HIDE DEF p
  <2>2. p.tint \in Tints
    BY <2>1 DEF Owns
  <2>3. /\ tint \in Tints /\ tint.projection = p.tint.projection
        /\ tint.starting = p.tint.starting
    BY <2>2 DEF Tints, Payloads
  <2>4. [p EXCEPT !.tint.preview = None, !.tint.cancel = FALSE] = [p EXCEPT !.tint = tint]
    BY <2>1 DEF Owns
  <2> HIDE DEF tint
  <2>5. Alike(o, o) /\ Alike(p, [p EXCEPT !.tint = tint])
    BY <2>1, <2>3, TintForgets DEF Alike
  <2>6. Follows(o, [p EXCEPT !.tint = tint])
    BY <2>1, <2>5, FollowsAlike
  <2> QED
    BY <2>1, <2>4, <2>6 DEF p
<1>2. o.tint.preview \in Payloads /\ None \in Payloads
  BY DEF Owns, Tints, Payloads
<1>3. Follows(o, o) /\ Follows(o, FinishTint(o))
  BY FinishTintAlike, AlikeFollows DEF Alike
<1>4. Follows(o, Flushed("Cancel", None)) /\ Follows(o, Flushed("Preview", o.tint.preview))
  BY <1>1, <1>2
<1> HIDE DEF Flushed
<1> QED
  BY <1>3, <1>4 DEF FlushTint, Flushed

LEMMA CancelForToolFollows ==
  ASSUME NEW o \in Owns, Apart(o), NEW tool \in Tools
  PROVE  Follows(o, CancelForTool(o, tool))
<1> DEFINE tint == [o.tint EXCEPT !.tool = tool]
           m == [o EXCEPT !.tint = tint]
<1>1. o.tint \in Tints
  BY DEF Owns
<1>2. tint \in Tints /\ tint.projection = o.tint.projection /\ tint.starting = o.tint.starting
  BY <1>1 DEF Tints, Names
<1>3. [o EXCEPT !.tint.tool = tool] = m
  BY DEF Owns
<1> HIDE DEF tint
<1>4. Alike(o, m) /\ m \in Owns
  BY <1>2, TintForgets DEF Alike
<1> HIDE DEF m
<1>5. Follows(m, EnqueueTint(m, "Cancel", None).own)
  <2>1. None \in Payloads /\ Apart(m)
    BY <1>4, AlikeActive DEF Payloads
  <2> QED
    BY <1>4, <2>1, EnqueueTintFollows
<1>6. Follows(o, EnqueueTint(m, "Cancel", None).own)
  BY <1>4, <1>5, FollowsAlike DEF Follows, Alike
<1>7. Follows(o, o)
  BY AlikeFollows DEF Alike
<1> QED
  BY <1>3, <1>6, <1>7 DEF CancelForTool

LEMMA CommandFollows ==
  ASSUME own \in Owns, Apart(own), NEW p \in Commanded
  PROVE  Follows(own, p)
<1>1. None \in Payloads /\ AnyValue \subseteq Payloads /\ Nat \subseteq Payloads
  BY DEF Payloads
<1>2. /\ own.projection \in Projections \cup {None}
      /\ own.tint.projection \in Projections \cup {None}
  BY DEF Owns, Tints
<1>3. Shows(own.projection) \in Nat /\ Shows(own.tint.projection) \in Nat
  BY <1>2 DEF Shows, Projections
<1>4. Follows(own, own)
  BY AlikeFollows DEF Alike
<1>5. ASSUME NEW do \in Starts \cup {"Preview", "Commit", "Cancel"}, NEW with \in Payloads
      PROVE  Follows(own, MoveAsked(own, do, with))
  BY <1>4, EnqueueMoveFollows DEF MoveAsked
<1>6. Follows(own, Cancelled(own))
  BY <1>1, <1>4, EnqueueMoveFollows, EnqueueTintFollows DEF Cancelled, Starts
<1>7. ASSUME NEW tool \in Tools
      PROVE  Follows(own, Selected(own, tool))
  <2>1. Follows(own, [own EXCEPT !.tool = tool])
    <3>1. Alike(own, [own EXCEPT !.tool = tool])
      BY DEF Alike, Owns, Names
    <3> QED
      BY <3>1, AlikeFollows
  <2> QED
    BY <1>4, <2>1, SwitchToolFollows, CancelForToolFollows DEF Selected
<1>8. /\ Follows(own, MoveAsked(own, "Begin", None))
      /\ Follows(own, MoveAsked(own, "Commit", Shows(own.projection)))
      /\ Follows(own, MoveAsked(own, "Paste", None))
      /\ \A v \in AnyValue : Follows(own, MoveAsked(own, "Preview", v))
  BY <1>1, <1>3, <1>5 DEF Starts
<1>9. /\ Follows(own, EnqueueTint(own, "Begin", None).own)
      /\ Follows(own, EnqueueTint(own, "Commit", Shows(own.tint.projection)).own)
      /\ \A v \in AnyValue : Follows(own, EnqueueTint(own, "Preview", v).own)
  BY <1>1, <1>3, EnqueueTintFollows
<1> QED
  BY <1>6, <1>7, <1>8, <1>9 DEF Commanded

-----------------------------------------------------------------------------
(* The steps.                                                               *)

LEMMA InitIInv == Init => IInv
<1> SUFFICES ASSUME Init PROVE IInv
  OBVIOUS
<1>1. own \in Owns
  BY DEF Init, Owns, Tints, NoTint, Names, Tools, Payloads, Base
<1>2. {Base} \in Rows
  BY DEF Rows, Base
<1>3. <<>> \in Pictures
  BY DEF Pictures
<1>4. TypeOK
  <2>1. samples \in Seq({"Begin", "Move", "End", "Cancel"})
    BY DEF Init
  <2>2. generations \in [move : Nat, tint : Nat]
    BY DEF Init
  <2> QED
    BY <1>1, <1>2, <1>3, <2>1, <2>2 DEF Init, TypeOK
<1>5. /\ own.job = None /\ own.projection = None /\ own.tint.projection = None
      /\ ~own.tint.starting /\ ~own.starting
  BY DEF Init, NoTint
<1>6. Apart(own) /\ Still
  BY <1>5 DEF Init, Apart, Still, TintActive, JobIs
<1>7. Agreed /\ NothingChangesUnderADraft
  BY <1>5, DraftsAssumption DEF Init, Agreed, Matches, Foreseen, ForeseenTiles, ForeseenTree,
     Told, NothingChangesUnderADraft
<1> QED
  BY <1>4, <1>6, <1>7 DEF IInv

(* What the canvas does of itself, while a written stroke may be taken in.  *)
LEMMA OwnStep ==
  ASSUME IInv, Follows(own, own'),
         ink' = ink \/ (ink = "written" /\ ink' = "none"),
         UNCHANGED <<answer, shown, tree, samples, contact, worker>>
  PROVE  IInv'
<1> USE DEF worker
<1>1. TypeOK'
  BY DEF IInv, TypeOK, Follows
<1>2. (own.job # None => ink = "none") /\ (answer # None => own.job # None)
  BY DEF IInv, Still
<1>3. CASE Waits(own, own')
  <2>1. Apart(own)'
    BY <1>3 DEF IInv, Apart, TintActive, MoveActive, JobIs, Waits, Follows
  <2>2. Still'
    BY <1>3 DEF IInv, Still, TintActive, JobIs, Waits, Follows
  <2> QED
    BY <1>1, <1>3, <2>1, <2>2 DEF IInv, Agreed, Matches, Foreseen, ForeseenTiles,
       ForeseenTree, Told, NothingChangesUnderADraft, Waits, Follows
<1>4. CASE SendsMove(own, own')
  <2>1. own.job = None /\ answer = None /\ ink = "none" /\ ink' = "none"
    BY <1>2, <1>4 DEF SendsMove, Idle
  <2>2. ~TintActive(own')
    BY <1>4 DEF SendsMove, TintActive, JobIs, Follows
  <2>3. Apart(own)' /\ Still'
    BY <1>4, <2>1, <2>2 DEF IInv, Still, Apart, TintActive, MoveActive, JobIs, SendsMove, Follows
  <2> QED
    BY <1>1, <2>1, <2>3 DEF IInv, Agreed, Matches, Foreseen, ForeseenTiles,
       ForeseenTree, Told, NothingChangesUnderADraft, Follows
<1>5. CASE SendsTint(own, own')
  <2>1. own.job = None /\ answer = None /\ ink = "none" /\ ink' = "none"
    BY <1>2, <1>5 DEF SendsTint, Idle
  <2>2. ~MoveActive(own') /\ samples = <<>> /\ ~contact
    BY <1>5 DEF SendsTint, MoveActive, JobIs, Follows, CanPause
  <2>3. Apart(own)' /\ Still'
    BY <1>5, <2>1, <2>2 DEF IInv, Still, Apart, TintActive, MoveActive, JobIs, SendsTint, Follows
  <2> QED
    BY <1>1, <2>1, <2>3 DEF IInv, Agreed, Matches, Foreseen, ForeseenTiles,
       ForeseenTree, Told, NothingChangesUnderADraft, Follows
<1> QED
  BY <1>3, <1>4, <1>5 DEF Follows

LEMMA FrameIsOwn ==
  ASSUME IInv, Command \/ Flush \/ Tint
  PROVE  IInv'
<1>1. own \in Owns /\ Apart(own)
  BY DEF IInv, TypeOK
<1>2. Follows(own, own')
  <2>1. CASE Command
    <3>1. own' = own \/ own' \in Commanded
      BY <2>1 DEF Command
    <3> QED
      BY <1>1, <3>1, CommandFollows, AlikeFollows DEF Alike
  <2>2. CASE Flush
    BY <1>1, <2>2, FlushMoveFollows DEF Flush
  <2>3. CASE Tint
    BY <1>1, <2>3, FlushTintFollows DEF Tint
  <2> QED
    BY <2>1, <2>2, <2>3
<1> QED
  BY <1>2, OwnStep DEF Command, Flush, Tint, canvas, pen, worker

(* The pen's side: contacts, and samples the canvas takes.                  *)
LEMMA PenSteps ==
  ASSUME IInv, Touch \/ Drag \/ Lift \/ Drained
  PROVE  IInv'
<1> USE DEF canvas, pen, worker
<1> DEFINE Kinds == {"Begin", "Move", "End", "Cancel"}
           Begins(lane) == \A i \in 1..Len(lane) : lane[i] = "Begin" => i = 1 /\ ink = "none"
<1>1. samples' \in Seq(Kinds) /\ contact' \in BOOLEAN /\ Begins(samples')
  <2>1. samples \in Seq(Kinds) /\ contact \in BOOLEAN /\ Begins(samples)
    BY DEF IInv, TypeOK, Still
  <2>2. ASSUME NEW kind \in {"Move", "End", "Cancel"}
        PROVE  Append(samples, kind) \in Seq(Kinds) /\ Begins(Append(samples, kind))
    <3>1. /\ Append(samples, kind) \in Seq(Kinds) /\ Len(samples) \in Nat
          /\ Len(Append(samples, kind)) = Len(samples) + 1
          /\ \A i \in 1..Len(samples) : Append(samples, kind)[i] = samples[i]
          /\ Append(samples, kind)[Len(samples) + 1] = kind
      BY <2>1
    <3>2. kind # "Begin"
      OBVIOUS
    <3>3. ASSUME NEW i \in 1..Len(samples) + 1 PROVE i \in 1..Len(samples) \/ i = Len(samples) + 1
      BY <3>1
    <3> QED
      BY <2>1, <3>1, <3>2, <3>3
  <2>3. CASE Touch
    <3>1. <<"Begin">> \in Seq(Kinds) /\ Len(<<"Begin">>) = 1
      OBVIOUS
    <3> QED
      BY <2>3, <3>1 DEF Touch
  <2>4. CASE Drag
    BY <2>1, <2>2, <2>4 DEF Drag
  <2>5. CASE Lift
    <3>1. PICK last \in {"End", "Cancel"} : samples' = Append(samples, last)
      BY <2>5 DEF Lift
    <3> QED
      BY <2>2, <2>5, <3>1 DEF Lift
  <2>6. CASE Drained
    BY <2>1, <2>6 DEF Drained
  <2> QED
    BY <2>3, <2>4, <2>5, <2>6
<1>2. /\ UNCHANGED <<own, answer, shown, tree, ink, art, layers, moving, tinting, generations>>
  BY DEF Touch, Drag, Lift, Drained
<1>3. TypeOK' /\ Apart(own)'
  BY <1>1, <1>2 DEF IInv, TypeOK
<1>4. Agreed' /\ NothingChangesUnderADraft'
  BY <1>2 DEF IInv, Agreed, Matches, Foreseen, ForeseenTiles, ForeseenTree, Told,
     NothingChangesUnderADraft
<1>5. \A i \in 1..Len(samples') : samples'[i] = "Begin" => i = 1 /\ ink' = "none"
  BY <1>1, <1>2
<1>6. TintActive(own) => samples' = <<>> /\ ~contact'
  BY DEF IInv, Still, Touch, Drag, Lift, Drained
<1>7. Still'
  BY <1>2, <1>5, <1>6 DEF IInv, Still
<1> QED
  BY <1>3, <1>4, <1>7 DEF IInv

LEMMA DrawnIsPicture ==
  ASSUME NEW picture \in Pictures, NEW kind \in {"ink", "move", "paste", "tint"},
         NEW value \in Payloads
  PROVE  Drawn(picture, kind, value) \in Pictures
BY DEF Drawn, Pictures

LEMMA DrainKeeps ==
  ASSUME IInv, Drain
  PROVE  IInv'
<1> USE DEF canvas, pen, worker
<1>1. ~TintActive(own) /\ own \in Owns /\ None \in Payloads /\ Same \in Payloads
      /\ AnyValue \subseteq Payloads /\ own.gesture \in Payloads
  BY DEF IInv, TypeOK, Still, Drain, Owns, Payloads, AnyValue
<1>2. /\ samples' = Tail(samples) /\ samples' \in Seq({"Begin", "Move", "End", "Cancel"})
      /\ Head(samples) \in {"Begin", "Move", "End", "Cancel"}
      /\ Head(samples) = "Begin" => ink = "none"
      /\ \A i \in 1..Len(samples') : samples'[i] # "Begin"
  BY DEF IInv, TypeOK, Still, Drain
<1>3. CASE UNCHANGED <<ink, shown>>
  <2>1. CASE own' = own
    <3>1. TypeOK' /\ Apart(own)' /\ Agreed' /\ NothingChangesUnderADraft'
      BY <1>3, <1>2, <2>1 DEF IInv, TypeOK, Drain, Agreed, Matches, Foreseen, ForeseenTiles,
         ForeseenTree, Told, NothingChangesUnderADraft
    <3>2. Still'
      BY <1>1, <1>3, <1>2, <2>1 DEF IInv, Still, Drain
    <3> QED
      BY <3>1, <3>2 DEF IInv
  <2>2. CASE \E gesture \in Payloads, pending \in Payloads, starting \in BOOLEAN :
               /\ own' = [own EXCEPT !.gesture = gesture, !.pending = pending, !.starting = starting]
               /\ own.starting => starting
    <3>1. /\ own' \in Owns /\ own'.projection = own.projection /\ own'.tint = own.tint
          /\ own'.job = own.job /\ own'.paused = own.paused /\ (own.starting => own'.starting)
      BY <1>1, <2>2 DEF Owns
    <3>2. ~TintActive(own')
      BY <1>1, <3>1 DEF TintActive, JobIs
    <3>3. TypeOK' /\ Apart(own)' /\ Agreed' /\ NothingChangesUnderADraft'
      BY <1>3, <1>2, <3>1, <3>2 DEF IInv, TypeOK, Apart, Drain, Agreed, Matches, Foreseen,
         ForeseenTiles, ForeseenTree, Told, NothingChangesUnderADraft
    <3>4. Still'
      BY <1>3, <1>2, <3>1, <3>2 DEF IInv, Still, JobIs, Drain
    <3> QED
      BY <3>3, <3>4 DEF IInv
  <2>3. ASSUME ObserveMove(Head(samples)), own' # own
        PROVE  \E gesture \in Payloads, pending \in Payloads, starting \in BOOLEAN :
                 /\ own' = [own EXCEPT !.gesture = gesture, !.pending = pending, !.starting = starting]
                 /\ own.starting => starting
    <3>1. own.pending \in Payloads /\ own.starting \in BOOLEAN
      BY <1>1 DEF Owns
    <3>2. own.projection # None => own.projection.transform \in Payloads
      BY <1>1 DEF Owns, Projections
    <3>3. \E gesture \in Payloads, pending \in Payloads :
            own' = [own EXCEPT !.gesture = gesture, !.pending = pending]
      <4>1. CASE \E held \in {None, own.projection.transform} :
                   own.projection # None /\ own' = [own EXCEPT !.gesture = held]
        <5>1. PICK held \in Payloads : own' = [own EXCEPT !.gesture = held]
          BY <1>1, <3>2, <4>1
        <5>2. own' = [own EXCEPT !.gesture = held, !.pending = own.pending]
          BY <1>1, <5>1 DEF Owns
        <5> QED
          BY <3>1, <5>2
      <4>2. CASE \E v \in AnyValue, last \in BOOLEAN :
                   own' = [own EXCEPT !.pending = v, !.gesture = IF last THEN None ELSE @]
        <5>1. PICK v \in Payloads, last \in BOOLEAN :
                own' = [own EXCEPT !.pending = v, !.gesture = IF last THEN None ELSE @]
          BY <1>1, <4>2
        <5>2. own' = [own EXCEPT !.gesture = IF last THEN None ELSE own.gesture, !.pending = v]
          BY <1>1, <5>1 DEF Owns
        <5>3. (IF last THEN None ELSE own.gesture) \in Payloads
          BY <1>1
        <5> QED
          BY <5>1, <5>2, <5>3
      <4>3. CASE own' = [own EXCEPT !.pending = own.gesture, !.gesture = None]
        <5>1. own' = [own EXCEPT !.gesture = None, !.pending = own.gesture]
          BY <1>1, <4>3 DEF Owns
        <5> QED
          BY <1>1, <5>1
      <4>4. \/ \E held \in {None, own.projection.transform} :
                   own.projection # None /\ own' = [own EXCEPT !.gesture = held]
            \/ \E v \in AnyValue :
                   own' = [own EXCEPT !.pending = v,
                             !.gesture = IF Head(samples) = "End" THEN None ELSE @]
            \/ own' = [own EXCEPT !.pending = own.gesture, !.gesture = None]
        BY <1>2, <2>3 DEF ObserveMove
      <4> QED
        BY <4>1, <4>2, <4>3, <4>4
    <3>4. PICK gesture \in Payloads, pending \in Payloads :
            own' = [own EXCEPT !.gesture = gesture, !.pending = pending]
      BY <3>3
    <3>5. own' = [own EXCEPT !.gesture = gesture, !.pending = pending, !.starting = own.starting]
      BY <1>1, <3>4 DEF Owns
    <3> QED
      BY <3>1, <3>5
  <2>4. ASSUME own' = [own EXCEPT !.gesture = Same, !.starting = TRUE]
        PROVE  \E gesture \in Payloads, pending \in Payloads, starting \in BOOLEAN :
                 /\ own' = [own EXCEPT !.gesture = gesture, !.pending = pending, !.starting = starting]
                 /\ own.starting => starting
    <3>1. own.pending \in Payloads
      BY <1>1 DEF Owns
    <3>2. own' = [own EXCEPT !.gesture = Same, !.pending = own.pending, !.starting = TRUE]
      BY <1>1, <2>4 DEF Owns
    <3> QED
      BY <1>1, <3>1, <3>2
  <2> QED
    BY <2>1, <2>2, <2>3, <2>4 DEF Drain, BeginNative, Ink
<1>4. CASE own' = own /\ own.projection = None /\ ~own.starting /\ Ink(Head(samples))
           /\ ~UNCHANGED <<ink, shown>>
  <2>1. /\ own.job = None /\ own.tint.projection = None /\ answer = None
        /\ moving = None /\ tinting = None
    <3>1. own.job = None \/ own.job.on \in {"move", "tint"}
      BY <1>1 DEF Owns, Jobs
    <3>2. own.job = None /\ own.tint.projection = None /\ answer = None
      BY <1>1, <1>4, <3>1 DEF IInv, Still, TintActive, JobIs
    <3> QED
      BY <1>4, <3>2, DraftsAssumption DEF IInv, Agreed, Matches, Foreseen, Told
  <2>2. \/ ink' \in {"drawing", "none"} /\ shown' = shown /\ ink # "queued"
        \/ ink' = "queued" /\ shown' = Drawn(shown, "ink", None) /\ ink = "drawing"
    BY <1>4, <1>2 DEF Ink
  <2>3. shown' \in Pictures /\ ink' \in {"none", "drawing", "queued", "written"}
    <3>1. Drawn(shown, "ink", None) \in Pictures
      BY DrawnIsPicture, <1>1 DEF IInv, TypeOK
    <3> QED
      BY <2>2, <3>1 DEF IInv, TypeOK
  <2>4. TypeOK'
    BY <1>4, <1>2, <2>3 DEF IInv, TypeOK, Drain
  <2>5. Agreed'
    BY <1>4, <2>1, <2>2 DEF IInv, Agreed, Matches, Foreseen, ForeseenTiles, ForeseenTree, Told, Drain
  <2>6. Still' /\ Apart(own)' /\ NothingChangesUnderADraft'
    BY <1>1, <1>4, <1>2, <2>1 DEF IInv, Still, Apart, JobIs, NothingChangesUnderADraft, Drain
  <2> QED
    BY <2>4, <2>5, <2>6 DEF IInv
<1> QED
  BY <1>3, <1>4 DEF Drain

-----------------------------------------------------------------------------
(* The answer: what the canvas makes of it, when it was refused and when it *)
(* was not.                                                                 *)
LEMMA UnreadyIsProjection ==
  ASSUME NEW projection \in Projections \cup {None}
  PROVE  /\ Unready(projection) \in Projections \cup {None}
         /\ (Unready(projection) = None) <=> (projection = None)
         /\ projection # None =>
              /\ Unready(projection).generation = projection.generation
              /\ Unready(projection).transform = projection.transform
              /\ ~Unready(projection).canCommit
<1>1. CASE projection = None
  BY <1>1 DEF Unready
<1>2. CASE projection # None
  <2>1. Unready(projection) \in Projections
    BY <1>2 DEF Unready, Projections
  <2> QED
    BY <1>2, <2>1, DraftsAssumption DEF Unready, Projections
<1> QED
  BY <1>1, <1>2

LEMMA ReleasedIsOver ==
  ASSUME NEW o \in Owns
  PROVE  /\ Released(o) \in Owns /\ Released(o).job = None
         /\ Released(o).projection = o.projection /\ Released(o).starting = o.starting
         /\ Released(o).tint.projection = o.tint.projection
         /\ Released(o).tint.starting = o.tint.starting
         /\ TintActive(Released(o)) = (o.tint.starting \/ o.tint.projection # None)
         /\ Released(o).paused = (o.paused /\ TintActive(Released(o)))
<1> DEFINE free == [o EXCEPT !.job = None]
           over == FinishTint(free)
<1>1. /\ free \in Owns /\ free.job = None /\ free.projection = o.projection
      /\ free.starting = o.starting /\ free.tint = o.tint /\ free.paused = o.paused
  BY DEF Owns
<1> HIDE DEF free
<1>2. Alike(free, over) /\ over \in Owns
  BY <1>1, FinishTintAlike DEF Alike
<1>3. Released(o) = [over EXCEPT !.paused = over.paused /\ TintActive(over)]
  BY DEF Released, free
<1> HIDE DEF over
<1>4. TintActive(over) = (o.tint.starting \/ o.tint.projection # None)
  BY <1>1, <1>2 DEF Alike, TintActive, JobIs
<1>5. PICK paused \in BOOLEAN :
        Released(o) = [over EXCEPT !.paused = paused] /\ paused = (over.paused /\ TintActive(over))
  <2>1. over.paused \in BOOLEAN /\ TintActive(over) \in BOOLEAN
    BY <1>2 DEF Owns, TintActive
  <2> QED
    BY <1>3, <2>1
<1>6. /\ Released(o) \in Owns /\ Released(o).paused = paused /\ Released(o).tint = over.tint
      /\ Released(o).projection = over.projection /\ Released(o).starting = over.starting
      /\ Released(o).job = over.job
  BY <1>2, <1>5 DEF Owns
<1>7. TintActive(Released(o)) = TintActive(over)
  BY <1>6 DEF TintActive, JobIs
<1> QED
  BY <1>1, <1>2, <1>4, <1>5, <1>6, <1>7 DEF Alike

LEMMA RejectTintKeeps ==
  ASSUME NEW o \in Owns, NEW do
  PROVE  \E tint \in Tints :
           /\ RejectTint(o, do) = [o EXCEPT !.tint = tint]
           /\ tint.projection = Unready(o.tint.projection)
           /\ tint.starting = (o.tint.starting /\ do # "Begin")
<1> DEFINE begun == IF do = "Begin"
                    THEN [o.tint EXCEPT !.starting = FALSE, !.preview = None, !.cancel = FALSE]
                    ELSE o.tint
           tint == [begun EXCEPT !.projection = Unready(@),
                                 !.tool = IF do \in {"Commit", "Cancel"} THEN None ELSE @]
<1>1. o.tint \in Tints
  BY DEF Owns
<1>2. /\ begun \in Tints /\ begun.projection = o.tint.projection
      /\ begun.starting = (o.tint.starting /\ do # "Begin")
  BY <1>1 DEF Tints, Payloads
<1>3. RejectTint(o, do) = [o EXCEPT !.tint = tint]
  <2>1. CASE do = "Begin"
    BY <1>1, <2>1 DEF RejectTint, Owns, Tints
  <2>2. CASE do # "Begin"
    BY <1>1, <2>2 DEF RejectTint, Owns, Tints
  <2> QED
    BY <2>1, <2>2
<1> HIDE DEF begun
<1>4. Unready(begun.projection) \in Projections \cup {None}
  BY <1>2, UnreadyIsProjection DEF Tints
<1>5. /\ tint \in Tints /\ tint.projection = Unready(begun.projection)
      /\ tint.starting = begun.starting
  BY <1>2, <1>4 DEF Tints
<1> HIDE DEF tint
<1> QED
  BY <1>2, <1>3, <1>5

LEMMA SettledKeeps ==
  ASSUME NEW o \in Owns
  PROVE  /\ Settled(o) \in Owns /\ ~Settled(o).starting
         /\ Settled(o).projection = o.projection /\ Settled(o).tint = o.tint
         /\ Settled(o).job = o.job /\ Settled(o).paused = o.paused
<1>1. None \in Payloads
  BY DEF Payloads
<1> QED
  BY <1>1 DEF Settled, Owns

LEMMA FinishToolKeeps ==
  ASSUME NEW o \in Owns
  PROVE  /\ FinishTool(o) \in Owns /\ FinishTool(o).starting = o.starting
         /\ FinishTool(o).projection = o.projection /\ FinishTool(o).tint = o.tint
         /\ FinishTool(o).job = o.job /\ FinishTool(o).paused = o.paused
<1>1. o.next \in Names \cup {None} /\ "Lasso" \in Names
  BY DEF Owns, Names
<1> QED
  BY <1>1 DEF FinishTool, Owns

LEMMA RejectMoveKeeps ==
  ASSUME NEW o \in Owns, NEW do
  PROVE  LET p == RejectMove(o, do)
         IN  /\ p \in Owns /\ p.projection = Unready(o.projection) /\ p.tint = o.tint
             /\ p.job = o.job /\ p.paused = o.paused /\ (p.starting => o.starting)
<1> DEFINE judged == IF do \in Starts
                     THEN IF o.next # None THEN FinishTool(Settled(o)) ELSE Settled(o)
                     ELSE IF o.revalidating \/ do \in {"Commit", "Cancel"}
                     THEN [o EXCEPT !.next = None]
                     ELSE o
<1>1. /\ judged \in Owns /\ judged.projection = o.projection /\ judged.tint = o.tint
      /\ judged.job = o.job /\ judged.paused = o.paused /\ (judged.starting => o.starting)
  <2>1. LET p == [o EXCEPT !.next = None]
        IN  /\ p \in Owns /\ p.projection = o.projection /\ p.tint = o.tint
            /\ p.job = o.job /\ p.paused = o.paused /\ p.starting = o.starting
    BY DEF Owns
  <2> QED
    BY <2>1, SettledKeeps, FinishToolKeeps
<1>2. RejectMove(o, do) = [judged EXCEPT !.revalidating = FALSE, !.projection = Unready(@)]
  BY DEF RejectMove
<1> HIDE DEF judged
<1>3. Unready(judged.projection) \in Projections \cup {None}
  BY <1>1, UnreadyIsProjection DEF Owns
<1> QED
  BY <1>1, <1>2, <1>3 DEF Owns

LEMMA RejectedKeeps ==
  ASSUME NEW o \in Owns, o.job # None
  PROVE  LET p == Rejected(o)
         IN  /\ p \in Owns /\ p.projection = Unready(o.projection)
             /\ p.tint.projection = Unready(o.tint.projection)
             /\ p.job = o.job /\ p.paused = o.paused /\ (p.starting => o.starting)
             /\ p.tint.starting =>
                  o.tint.starting /\ ~(o.job.on = "tint" /\ o.job.do = "Begin")
<1> DEFINE ended == IF o.job.on = "tint" THEN o.job.do ELSE None
           asked == IF o.job.on = "move" THEN o.job.do ELSE None
           r == RejectTint(o, ended)
<1>1. Rejected(o) = RejectMove(r, asked)
  BY DEF Rejected
<1>2. o.job.on = "tint" /\ o.job.do = "Begin" => ended = "Begin"
  OBVIOUS
<1> HIDE DEF ended, asked
<1>3. PICK tint \in Tints :
        /\ r = [o EXCEPT !.tint = tint]
        /\ tint.projection = Unready(o.tint.projection)
        /\ tint.starting = (o.tint.starting /\ ended # "Begin")
  BY RejectTintKeeps
<1> HIDE DEF r
<1>4. /\ r \in Owns /\ r.projection = o.projection /\ r.tint = tint /\ r.job = o.job
      /\ r.paused = o.paused /\ r.starting = o.starting
  BY <1>3 DEF Owns
<1>5. LET p == RejectMove(r, asked)
      IN  /\ p \in Owns /\ p.projection = Unready(r.projection) /\ p.tint = r.tint
          /\ p.job = r.job /\ p.paused = r.paused /\ (p.starting => r.starting)
  BY <1>4, RejectMoveKeeps
<1> QED
  BY <1>1, <1>2, <1>3, <1>4, <1>5

LEMMA InstallMoveKeeps ==
  ASSUME NEW o \in Owns, NEW outcome \in Answers
  PROVE  LET p == InstallMove(o, outcome)
         IN  /\ p \in Owns /\ p.projection = outcome.projection /\ p.tint = o.tint
             /\ p.job = o.job /\ p.paused = o.paused /\ ~p.starting
<1> DEFINE adopted == [o EXCEPT !.active = outcome.active, !.starting = FALSE,
                                !.revalidating = FALSE, !.projection = outcome.projection]
<1>1. outcome.active \in Nat /\ outcome.projection \in Projections \cup {None}
  BY DEF Answers
<1>2. /\ adopted \in Owns /\ adopted.projection = outcome.projection /\ adopted.tint = o.tint
      /\ adopted.job = o.job /\ adopted.paused = o.paused /\ ~adopted.starting
  BY <1>1 DEF Owns
<1>3. InstallMove(o, outcome) = IF outcome.projection # None
                                THEN [adopted EXCEPT !.tool = "MoveSelection"]
                                ELSE FinishTool(Settled(adopted))
  BY DEF InstallMove
<1> HIDE DEF adopted
<1>4. LET p == [adopted EXCEPT !.tool = "MoveSelection"]
      IN  /\ p \in Owns /\ p.projection = outcome.projection /\ p.tint = o.tint
          /\ p.job = o.job /\ p.paused = o.paused /\ ~p.starting
  <2>1. "MoveSelection" \in Names
    BY DEF Names, Tools
  <2> QED
    BY <1>2, <2>1 DEF Owns
<1> QED
  BY <1>2, <1>3, <1>4, SettledKeeps, FinishToolKeeps

LEMMA InstallTintKeeps ==
  ASSUME NEW o \in Owns, NEW outcome \in Answers
  PROVE  LET p == InstallTint(o, outcome)
         IN  /\ p \in Owns /\ p.projection = o.projection /\ p.starting = o.starting
             /\ p.tint.projection = outcome.projection /\ ~p.tint.starting
             /\ p.job = o.job /\ p.paused = o.paused
<1> DEFINE adopted == [o.tint EXCEPT !.starting = FALSE, !.projection = outcome.projection]
           tint == IF outcome.projection # None THEN adopted
                   ELSE [adopted EXCEPT !.preview = None, !.cancel = FALSE]
<1>1. outcome.projection \in Projections \cup {None} /\ o.tint \in Tints /\ None \in Payloads
  BY DEF Answers, Owns, Payloads
<1>2. InstallTint(o, outcome) = [o EXCEPT !.tint = tint]
  BY <1>1 DEF InstallTint, Owns, Tints
<1>3. adopted \in Tints /\ adopted.projection = outcome.projection /\ ~adopted.starting
  BY <1>1 DEF Tints
<1> HIDE DEF adopted
<1>4. tint \in Tints /\ tint.projection = outcome.projection /\ ~tint.starting
  BY <1>1, <1>3 DEF Tints
<1> HIDE DEF tint
<1> QED
  BY <1>2, <1>4 DEF Owns

LEMMA PollKeeps ==
  ASSUME IInv, Poll
  PROVE  IInv'
<1> USE DEF canvas, pen, worker
<1>1. /\ own \in Owns /\ answer' = None
      /\ UNCHANGED <<samples, contact, ink, art, layers, moving, tinting, generations>>
      /\ own.projection \in Projections \cup {None}
      /\ own.tint.projection \in Projections \cup {None}
  BY DraftsAssumption DEF IInv, TypeOK, Poll, Owns, Tints
<1>2. CASE answer = None
  <2>1. UNCHANGED <<own, answer, shown, tree>>
    BY <1>1, <1>2, DraftsAssumption DEF Poll
  <2> QED
    BY <1>1, <2>1 DEF IInv, TypeOK, Still, Agreed, Matches, Foreseen, ForeseenTiles,
       ForeseenTree, Told, NothingChangesUnderADraft
<1>3. ASSUME answer # None, own' \in Owns, own'.job = None, shown' \in Pictures,
             own'.projection = Foreseen("move", own.projection),
             own'.tint.projection = Foreseen("tint", own.tint.projection),
             shown' = ForeseenTiles, tree' = ForeseenTree,
             ~own'.tint.starting, own'.starting => own.starting,
             TintActive(own') => TintActive(own) /\ own'.paused /\ own'.projection = None
      PROVE  IInv'
  <2>1. TypeOK'
    BY <1>1, <1>3 DEF IInv, TypeOK
  <2>2. ink = "none"
    BY <1>3 DEF IInv, Still
  <2>3. Still'
    BY <1>1, <1>3, <2>2 DEF IInv, Still, JobIs
  <2>4. Apart(own)'
    BY <1>3 DEF IInv, Apart, MoveActive, JobIs
  <2>5. Agreed'
    BY <1>1, <1>3, <2>2, DraftsAssumption DEF IInv, Agreed, Matches, Foreseen, ForeseenTiles,
       ForeseenTree, Told
  <2>6. NothingChangesUnderADraft'
    BY <1>1 DEF IInv, NothingChangesUnderADraft
  <2> QED
    BY <2>1, <2>3, <2>4, <2>5, <2>6 DEF IInv
<1>4. (own.job \in Jobs /\ own.job.on \in {"move", "tint"}) \/ answer = None
  BY <1>1 DEF IInv, Still, Owns, Jobs
<1>5. CASE answer = Refused
  <2>1. own.job # None /\ own' = Released(Rejected(own)) /\ UNCHANGED <<shown, tree>>
    BY <1>1, <1>5, DraftsAssumption DEF IInv, Still, Poll
  <2> DEFINE p == Rejected(own)
  <2>2. /\ p \in Owns /\ p.projection = Unready(own.projection)
        /\ p.tint.projection = Unready(own.tint.projection)
        /\ p.job = own.job /\ p.paused = own.paused /\ (p.starting => own.starting)
        /\ ~p.tint.starting
    BY <1>1, <2>1, RejectedKeeps DEF IInv, Still, JobIs
  <2> HIDE DEF p
  <2>3. /\ own' \in Owns /\ own'.job = None /\ own'.projection = Unready(own.projection)
        /\ own'.tint.projection = Unready(own.tint.projection)
        /\ (own'.starting => own.starting) /\ ~own'.tint.starting
        /\ TintActive(own') = (Unready(own.tint.projection) # None)
        /\ own'.paused = (own.paused /\ TintActive(own'))
    BY <2>1, <2>2, ReleasedIsOver DEF p
  <2>4. TintActive(own') => TintActive(own) /\ own'.paused /\ own'.projection = None
    <3>1. TintActive(own') => TintActive(own)
      BY <1>1, <2>3, UnreadyIsProjection DEF TintActive
    <3>2. TintActive(own) => own.paused /\ own.projection = None
      BY DEF IInv, Still, Apart, MoveActive
    <3> QED
      BY <2>3, <3>1, <3>2, UnreadyIsProjection, <1>1
  <2>5. /\ Foreseen("move", own.projection) = Unready(own.projection)
        /\ Foreseen("tint", own.tint.projection) = Unready(own.tint.projection)
        /\ ForeseenTiles = shown /\ ForeseenTree = tree
    BY <1>5 DEF Foreseen, ForeseenTiles, ForeseenTree, Told
  <2>6. shown' \in Pictures /\ answer # None
    BY <1>5, <2>1, DraftsAssumption DEF IInv, TypeOK
  <2> QED
    BY <1>3, <2>1, <2>3, <2>4, <2>5, <2>6
<1>6. CASE answer \notin {None, Refused}
  <2>1. /\ answer \in Answers /\ own.job # None
        /\ own' = Released(IF own.job.on = "move" THEN InstallMove(own, answer)
                           ELSE InstallTint(own, answer))
        /\ shown' = answer.tiles
        /\ tree' = IF answer.committed THEN answer.layers ELSE tree
    BY <1>6 DEF IInv, TypeOK, Still, Poll
  <2>2. answer.tiles \in Pictures /\ answer.projection \in Projections \cup {None}
    BY <2>1 DEF Answers
  <2>3. ForeseenTiles = answer.tiles /\ tree' = ForeseenTree
    BY <1>6, <2>1 DEF ForeseenTiles, ForeseenTree, Told
  <2>4. CASE own.job.on = "move"
    <3> DEFINE p == InstallMove(own, answer)
    <3>1. /\ p \in Owns /\ p.projection = answer.projection /\ p.tint = own.tint /\ ~p.starting
      BY <1>1, <2>1, InstallMoveKeeps
    <3> HIDE DEF p
    <3>2. ~TintActive(own) /\ ~own.tint.starting /\ own.tint.projection = None
      BY <2>1, <2>4 DEF IInv, Apart, MoveActive, TintActive, JobIs
    <3>3. /\ own' \in Owns /\ own'.job = None /\ own'.projection = answer.projection
          /\ own'.tint.projection = own.tint.projection
          /\ ~own'.starting /\ ~own'.tint.starting /\ ~TintActive(own')
      BY <2>1, <2>4, <3>1, <3>2, ReleasedIsOver DEF p
    <3>4. /\ Foreseen("move", own.projection) = answer.projection
          /\ Foreseen("tint", own.tint.projection) = own.tint.projection
      BY <1>6, <2>4 DEF Foreseen, Told
    <3> QED
      BY <1>3, <1>6, <2>1, <2>2, <2>3, <3>3, <3>4
  <2>5. CASE own.job.on = "tint"
    <3> DEFINE p == InstallTint(own, answer)
    <3>1. /\ p \in Owns /\ p.projection = own.projection /\ p.starting = own.starting
          /\ p.tint.projection = answer.projection /\ ~p.tint.starting /\ p.paused = own.paused
      BY <1>1, <2>1, InstallTintKeeps
    <3> HIDE DEF p
    <3>2. TintActive(own) /\ own.paused /\ own.projection = None
      BY <2>1, <2>5 DEF IInv, Still, Apart, MoveActive, TintActive, JobIs
    <3>3. /\ own' \in Owns /\ own'.job = None /\ own'.projection = own.projection
          /\ own'.tint.projection = answer.projection
          /\ own'.starting = own.starting /\ ~own'.tint.starting
          /\ own'.paused = (own.paused /\ TintActive(own'))
      BY <2>1, <2>5, <3>1, ReleasedIsOver DEF p
    <3>4. /\ Foreseen("move", own.projection) = own.projection
          /\ Foreseen("tint", own.tint.projection) = answer.projection
      BY <1>6, <2>5 DEF Foreseen, Told
    <3> QED
      BY <1>3, <1>6, <2>1, <2>2, <2>3, <3>2, <3>3, <3>4
  <2> QED
    BY <1>4, <1>6, <2>4, <2>5
<1> QED
  BY <1>2, <1>5, <1>6

-----------------------------------------------------------------------------
(* The worker.                                                              *)
LEMMA StrokeWrittenKeeps ==
  ASSUME IInv, StrokeWritten
  PROVE  IInv' /\ art' = shown
<1> USE DEF canvas, pen
<1>1. /\ own.job = None /\ own.projection = None /\ own.tint.projection = None
      /\ answer = None /\ moving = None /\ tinting = None
  <2>1. /\ own.job = None /\ own.projection = None /\ own.tint.projection = None
        /\ answer = None
    BY DEF IInv, Still, StrokeWritten
  <2> QED
    BY <2>1, DraftsAssumption DEF IInv, Agreed, Matches, Foreseen, Told
<1>2. art' \in Pictures /\ None \in Payloads
  BY DrawnIsPicture DEF IInv, TypeOK, StrokeWritten, Payloads
<1>3. TypeOK' /\ Apart(own)'
  BY <1>2 DEF IInv, TypeOK, StrokeWritten
<1>4. Still'
  BY <1>1 DEF IInv, Still, StrokeWritten
<1>5. Agreed' /\ art' = shown
  BY <1>1 DEF IInv, Agreed, Matches, Foreseen, ForeseenTiles, ForeseenTree, Told, StrokeWritten
<1>6. NothingChangesUnderADraft'
  BY <1>1 DEF NothingChangesUnderADraft, StrokeWritten
<1> QED
  BY <1>3, <1>4, <1>5, <1>6 DEF IInv

LEMMA MaxOfRow ==
  ASSUME NEW S \in Rows
  PROVE  /\ Max(S) \in S /\ Max(S) \in Nat /\ S \cup {Max(S) + 1} \in Rows
         /\ S \in SUBSET Nat
<1>1. PICK n \in Nat \ {0} : S = 1..n
  BY DEF Rows
<1>2. n \in S /\ \A y \in S : n >= y
  BY <1>1
<1>3. Max(S) \in S /\ \A y \in S : Max(S) >= y
  BY <1>2 DEF Max
<1>4. Max(S) = n
  BY <1>1, <1>2, <1>3
<1>5. S \cup {n + 1} = 1..(n + 1)
  BY <1>1
<1>6. n + 1 \in Nat \ {0} /\ 1..(n + 1) \in SUBSET Nat /\ S \in SUBSET Nat
  BY <1>1
<1>7. S \cup {n + 1} \in Rows
  BY <1>5, <1>6 DEF Rows
<1> QED
  BY <1>1, <1>3, <1>4, <1>6, <1>7

(* What a request leaves of what the canvas shows and of the artwork.       *)
Executing ==
  /\ own.job # None /\ answer = None
  /\ UNCHANGED <<own, phase, canvas, pen, ink, asks>>

LEMMA ExecutingHas ==
  ASSUME IInv, Executing
  PROVE  /\ own.job \in Jobs /\ ink = "none" /\ own \in Owns
         /\ Matches(own.projection, moving) /\ Matches(own.tint.projection, tinting)
         /\ ForeseenTiles = shown /\ tree = layers
         /\ (moving = None /\ tinting = None => shown = art)
         /\ (own.job.on = "tint" => moving = None /\ own.projection = None)
<1>1. own.job \in Jobs /\ ink = "none" /\ own \in Owns
  BY DEF IInv, TypeOK, Still, Owns, Executing
<1>2. /\ ~Told /\ answer # Refused
  BY DraftsAssumption DEF Executing, Told
<1>3. /\ Matches(own.projection, moving) /\ Matches(own.tint.projection, tinting)
      /\ ForeseenTiles = shown /\ tree = layers
      /\ (moving = None /\ tinting = None => shown = art)
  BY <1>1, <1>2 DEF IInv, Agreed, Foreseen, ForeseenTiles, ForeseenTree
<1>4. own.job.on = "tint" => own.projection = None
  BY DEF IInv, Apart, TintActive, MoveActive, JobIs, Executing
<1> QED
  BY <1>1, <1>3, <1>4 DEF Matches

LEMMA ExecutedKeeps ==
  ASSUME IInv, Executing, answer' \in Answers \cup {Refused}, art' \in Pictures, layers' \in Rows,
         moving' \in MoveDrafts \cup {None}, moving' # None => moving'.layers \in Rows,
         tinting' \in TintDrafts \cup {None}, generations' \in [move : Nat, tint : Nat],
         Agreed', NothingChangesUnderADraft'
  PROVE  IInv'
<1> USE DEF canvas, pen
<1>1. TypeOK' /\ Apart(own)'
  BY DEF IInv, TypeOK, Executing
<1>2. Still'
  BY DEF IInv, Still, Executing
<1> QED
  BY <1>1, <1>2 DEF IInv

(* A refusal leaves the draft, at most no longer ready to be committed.     *)
Lowered(draft, now) ==
  now = draft \/ (draft # None /\ now = [draft EXCEPT !.projection = Unready(@)])

LEMMA RefusedKeeps ==
  ASSUME IInv, Executing, answer' = Refused, UNCHANGED <<art, layers>>,
         generations' \in [move : Nat, tint : Nat],
         Lowered(moving, moving'), Lowered(tinting, tinting')
  PROVE  IInv'
<1>1. /\ Matches(own.projection, moving) /\ Matches(own.tint.projection, tinting)
      /\ ForeseenTiles = shown /\ tree = layers /\ own \in Owns /\ ink = "none"
      /\ (moving = None /\ tinting = None => shown = art)
  BY ExecutingHas
<1>2. ASSUME NEW draft \in MoveDrafts \cup {None}, NEW now, Lowered(draft, now)
      PROVE  /\ now \in MoveDrafts \cup {None} /\ (now = None <=> draft = None)
             /\ draft # None =>
                  /\ now.projection.generation = draft.projection.generation
                  /\ now.projection.transform = draft.projection.transform
                  /\ now.displayed = draft.displayed /\ now.original = draft.original
                  /\ now.layers = draft.layers
  <2>1. CASE now = draft
    BY <2>1
  <2>2. CASE draft # None /\ now = [draft EXCEPT !.projection = Unready(@)]
    <3>1. draft.projection \in Projections
      BY <2>2 DEF MoveDrafts
    <3>2. Unready(draft.projection) \in Projections
      BY <3>1, UnreadyIsProjection, DraftsAssumption
    <3>3. now \in MoveDrafts
      BY <2>2, <3>2 DEF MoveDrafts
    <3>4. now.projection = Unready(draft.projection) /\ now.displayed = draft.displayed
          /\ now.original = draft.original /\ now.layers = draft.layers
      BY <2>2 DEF MoveDrafts
    <3> QED
      BY <2>2, <3>1, <3>3, <3>4, UnreadyIsProjection, DraftsAssumption
  <2> QED
    BY <1>2, <2>1, <2>2 DEF Lowered
<1>3. ASSUME NEW draft \in TintDrafts \cup {None}, NEW now, Lowered(draft, now)
      PROVE  /\ now \in TintDrafts \cup {None} /\ (now = None <=> draft = None)
             /\ draft # None =>
                  /\ now.projection.generation = draft.projection.generation
                  /\ now.projection.transform = draft.projection.transform
                  /\ now.displayed = draft.displayed /\ now.original = draft.original
  <2>1. CASE now = draft
    BY <2>1
  <2>2. CASE draft # None /\ now = [draft EXCEPT !.projection = Unready(@)]
    <3>1. draft.projection \in Projections
      BY <2>2 DEF TintDrafts
    <3>2. Unready(draft.projection) \in Projections
      BY <3>1, UnreadyIsProjection, DraftsAssumption
    <3>3. now \in TintDrafts
      BY <2>2, <3>2 DEF TintDrafts
    <3>4. now.projection = Unready(draft.projection) /\ now.displayed = draft.displayed
          /\ now.original = draft.original
      BY <2>2 DEF TintDrafts
    <3> QED
      BY <2>2, <3>1, <3>3, <3>4, UnreadyIsProjection, DraftsAssumption
  <2> QED
    BY <1>3, <2>1, <2>2 DEF Lowered
<1>4. /\ moving' \in MoveDrafts \cup {None} /\ (moving' = None <=> moving = None)
      /\ moving # None =>
           /\ moving'.projection.generation = moving.projection.generation
           /\ moving'.projection.transform = moving.projection.transform
           /\ moving'.displayed = moving.displayed /\ moving'.original = moving.original
           /\ moving'.layers = moving.layers
  BY <1>2 DEF IInv, TypeOK
<1>5. /\ tinting' \in TintDrafts \cup {None} /\ (tinting' = None <=> tinting = None)
      /\ tinting # None =>
           /\ tinting'.projection.generation = tinting.projection.generation
           /\ tinting'.projection.transform = tinting.projection.transform
           /\ tinting'.displayed = tinting.displayed /\ tinting'.original = tinting.original
  BY <1>3 DEF IInv, TypeOK
<1>6. own.projection \in Projections \cup {None} /\ own.tint.projection \in Projections \cup {None}
  BY <1>1 DEF Owns, Tints
<1>7. Agreed'
  <2>1. UNCHANGED <<own, shown, tree, ink>>
    BY DEF Executing, canvas
  <2>2. ~Told'
    BY DEF Told
  <2>3. /\ Foreseen("move", own.projection)' = Unready(own.projection)
        /\ Foreseen("tint", own.tint.projection)' = Unready(own.tint.projection)
        /\ ForeseenTiles' = shown /\ ForeseenTree' = tree
    BY <2>1, <2>2 DEF Foreseen, ForeseenTiles, ForeseenTree
  <2>4. Matches(Foreseen("move", own.projection), moving)'
    BY <1>1, <1>4, <1>6, <2>3, UnreadyIsProjection DEF Matches
  <2>5. Matches(Foreseen("tint", own.tint.projection), tinting)'
    BY <1>1, <1>5, <1>6, <2>3, UnreadyIsProjection DEF Matches
  <2> QED
    BY <1>1, <1>4, <1>5, <2>1, <2>3, <2>4, <2>5 DEF Agreed
<1>8. NothingChangesUnderADraft'
  BY <1>4, <1>5 DEF IInv, NothingChangesUnderADraft
<1>9. /\ art' \in Pictures /\ layers' \in Rows /\ (moving' # None => moving'.layers \in Rows)
  BY <1>4 DEF IInv, TypeOK
<1> QED
  BY <1>4, <1>5, <1>7, <1>8, <1>9, ExecutedKeeps

LEMMA PreviewIsAnswer ==
  ASSUME NEW draft \in MoveDrafts \cup TintDrafts
  PROVE  /\ Preview(draft) \in Answers /\ Preview(draft) \notin {None, Refused}
         /\ draft.projection \in Projections /\ draft.projection # None
<1>1. CASE draft \in MoveDrafts
  <2>1. Preview(draft) \in Answers /\ draft.projection \in Projections
    BY <1>1 DEF Preview, Answers, MoveDrafts
  <2> QED
    BY <2>1, DraftsAssumption
<1>2. CASE draft \in TintDrafts
  <2>1. Preview(draft) \in Answers /\ draft.projection \in Projections
    BY <1>2 DEF Preview, Answers, TintDrafts
  <2> QED
    BY <2>1, DraftsAssumption
<1> QED
  BY <1>1, <1>2

LEMMA MovePreviewedKeeps ==
  ASSUME IInv, Executing, own.job.on = "move", tinting = None, UNCHANGED <<tinting, art, layers>>,
         generations' \in [move : Nat, tint : Nat], moving' \in MoveDrafts, moving'.layers \in Rows,
         answer' = Preview(moving'),
         moving'.original.tiles = art, moving'.original.layers = layers
  PROVE  IInv'
<1>1. /\ Matches(own.tint.projection, tinting) /\ tree = layers
  BY ExecutingHas
<1>2. /\ answer' \in Answers /\ Told' /\ moving'.projection # None /\ moving' # None
  BY PreviewIsAnswer, DraftsAssumption DEF Told
<1>3. /\ UNCHANGED <<own, shown, tree, ink>> /\ answer'.projection = moving'.projection
      /\ answer'.tiles = moving'.displayed /\ answer'.committed = FALSE
  BY DEF Executing, canvas, Preview
<1>4. Agreed'
  BY <1>1, <1>2, <1>3 DEF Agreed, Matches, Foreseen, ForeseenTiles, ForeseenTree, Told
<1>5. NothingChangesUnderADraft' /\ art' \in Pictures /\ layers' \in Rows
  BY DEF IInv, TypeOK, NothingChangesUnderADraft
<1> QED
  BY <1>2, <1>4, <1>5, ExecutedKeeps

LEMMA TintPreviewedKeeps ==
  ASSUME IInv, Executing, own.job.on = "tint", UNCHANGED <<moving, art, layers>>,
         generations' \in [move : Nat, tint : Nat], tinting' \in TintDrafts,
         answer' = Preview(tinting'),
         tinting'.original.tiles = art, tinting'.original.layers = layers
  PROVE  IInv'
<1>1. /\ own.projection = None /\ moving = None /\ tree = layers
  BY ExecutingHas
<1>2. /\ answer' \in Answers /\ Told' /\ tinting'.projection # None /\ tinting' # None
  BY PreviewIsAnswer, DraftsAssumption DEF Told
<1>3. /\ UNCHANGED <<own, shown, tree, ink>> /\ answer'.projection = tinting'.projection
      /\ answer'.tiles = tinting'.displayed /\ answer'.committed = FALSE
  BY DEF Executing, canvas, Preview
<1>4. Agreed'
  BY <1>1, <1>2, <1>3 DEF Agreed, Matches, Foreseen, ForeseenTiles, ForeseenTree, Told
<1>5. NothingChangesUnderADraft' /\ art' \in Pictures /\ layers' \in Rows
  BY <1>1 DEF IInv, TypeOK, NothingChangesUnderADraft
<1> QED
  BY <1>1, <1>2, <1>4, <1>5, ExecutedKeeps

LEMMA EndedKeeps ==
  ASSUME IInv, Executing, moving' = None, tinting' = None, UNCHANGED generations,
         own.job.on = "move" => tinting = None,
         art' \in Pictures, layers' \in Rows, NEW layer \in Nat, NEW changed \in BOOLEAN,
         answer' = Ended(art', layers', layer, changed), ~changed => layers' = layers
  PROVE  IInv'
<1>1. /\ Matches(own.projection, moving) /\ Matches(own.tint.projection, tinting)
      /\ tree = layers /\ own.job \in Jobs /\ ink = "none"
      /\ (own.job.on = "tint" => own.projection = None)
  BY ExecutingHas
<1>2. answer' \in Answers
  BY MaxOfRow DEF Ended, Answers
<1>3. Told'
  BY <1>2, DraftsAssumption DEF Told
<1>4. /\ UNCHANGED <<own, shown, tree, ink>> /\ answer'.projection = None
      /\ answer'.tiles = art' /\ answer'.committed = changed /\ answer'.layers = layers'
  BY DEF Executing, canvas, Ended
<1>5. Agreed'
  <2>1. own.job.on \in {"move", "tint"}
    BY <1>1 DEF Jobs
  <2>2. /\ Foreseen("move", own.projection)' = None
        /\ Foreseen("tint", own.tint.projection)' = None
    BY <1>1, <1>3, <1>4, <2>1 DEF Foreseen, Matches, Told
  <2> QED
    BY <1>1, <1>3, <1>4, <2>2 DEF Agreed, Matches, ForeseenTiles, ForeseenTree
<1>6. NothingChangesUnderADraft' /\ generations' \in [move : Nat, tint : Nat]
  BY DEF IInv, TypeOK, NothingChangesUnderADraft
<1> QED
  BY <1>2, <1>5, <1>6, ExecutedKeeps

-----------------------------------------------------------------------------
(* The requests of a transform.                                             *)
LEMMA MoveBeginsKeeps ==
  ASSUME IInv, Executing, own.job.on = "move", own.job.target \in layers,
         tinting = None, UNCHANGED tinting, MoveBegins(own.job)
  PROVE  IInv' /\ art' = art
<1> DEFINE job == own.job
           pasted == job.do = "Paste"
           generation == generations.move + 1
           new == NewMove(job, pasted, generation)
<1>1. /\ art \in Pictures /\ layers \in Rows /\ generations \in [move : Nat, tint : Nat]
      /\ layers \in SUBSET Nat /\ Same \in Payloads
  BY MaxOfRow DEF IInv, TypeOK, Payloads, AnyValue
<1>2. UNCHANGED <<art, layers>> /\ generations' \in [move : Nat, tint : Nat]
  BY <1>1 DEF MoveBegins
<1>3. CASE answer' = Refused
  <2>1. moving' = moving \/ (moving' = new /\ answer' = Preview(moving'))
    BY <1>3 DEF MoveBegins
  <2>2. new \in MoveDrafts => new.projection # None /\ Preview(new) # Refused
    BY PreviewIsAnswer
  <2>3. new \in MoveDrafts
    <3>1. Drawn(art, IF pasted THEN "paste" ELSE "move", Same) \in Pictures
      BY <1>1, DrawnIsPicture
    <3>2. Projected(generation, Same) \in Projections
      BY <1>1 DEF Projected, Projections
    <3> DEFINE layer == IF pasted THEN Max(layers) + 1 ELSE job.target
    <3>3. layer \in Nat /\ layers \cup {layer} \in SUBSET Nat /\ job.target \in Nat
      BY <1>1, MaxOfRow
    <3> HIDE DEF layer, job
    <3> QED
      BY <1>1, <3>1, <3>2, <3>3 DEF NewMove, MoveDrafts, layer
  <2>4. Lowered(moving, moving') /\ Lowered(tinting, tinting')
    BY <1>3, <2>1, <2>2, <2>3 DEF Lowered
  <2> QED
    BY <1>2, <1>3, <2>4, RefusedKeeps
<1>4. CASE moving' = new /\ answer' = Preview(moving')
  <2>1. Drawn(art, IF pasted THEN "paste" ELSE "move", Same) \in Pictures
    BY <1>1, DrawnIsPicture
  <2>2. Projected(generation, Same) \in Projections
    BY <1>1 DEF Projected, Projections
  <2> DEFINE layer == IF pasted THEN Max(layers) + 1 ELSE job.target
  <2>3. layer \in Nat /\ layers \cup {layer} \in Rows /\ layers \cup {layer} \in SUBSET Nat
        /\ job.target \in Nat
    <3>1. CASE pasted
      BY <1>1, <3>1, MaxOfRow
    <3>2. CASE ~pasted
      <4>1. layers \cup {layer} = layers
        BY <3>2
      <4> QED
        BY <1>1, <3>2, <4>1
    <3> QED
      BY <3>1, <3>2, <1>1
  <2>4. /\ new \in MoveDrafts /\ new.layers \in Rows
        /\ new.original.tiles = art /\ new.original.layers = layers
    <3> HIDE DEF layer, job
    <3> QED
      BY <1>1, <2>1, <2>2, <2>3 DEF NewMove, MoveDrafts, layer
  <2> HIDE DEF new
  <2> QED
    BY <1>2, <1>4, <2>4, MovePreviewedKeeps
<1> QED
  BY <1>2, <1>3, <1>4 DEF MoveBegins

LEMMA MovePreviewsKeeps ==
  ASSUME IInv, Executing, own.job.on = "move", tinting = None, UNCHANGED tinting,
         MovePreviews(own.job)
  PROVE  IInv' /\ art' = art
<1> DEFINE job == own.job
           kind == IF moving.pasted THEN "paste" ELSE "move"
           seen == [moving EXCEPT !.displayed = Drawn(moving.original.tiles, kind, job.with),
                                  !.projection = Projected(generations.move + 1, job.with)]
<1>1. /\ generations \in [move : Nat, tint : Nat] /\ moving \in MoveDrafts \cup {None}
      /\ (moving # None => moving.layers \in Rows)
      /\ own.job \in Jobs
  BY ExecutingHas DEF IInv, TypeOK
<1>2. UNCHANGED <<art, layers>> /\ generations' \in [move : Nat, tint : Nat]
  BY <1>1 DEF MovePreviews
<1>3. CASE /\ answer' = Refused
           /\ \/ moving = None /\ moving' = None
              \/ moving # None /\ moving' = [moving EXCEPT !.projection = Unready(@)]
  <2>1. Lowered(moving, moving') /\ Lowered(tinting, tinting')
    BY <1>3 DEF Lowered
  <2> QED
    BY <1>2, <1>3, <2>1, RefusedKeeps
<1>4. CASE /\ moving # None /\ Unchanged(moving, job.target)
           /\ moving' = seen /\ answer' = Preview(seen)
  <2>1. moving \in MoveDrafts /\ moving.original.tiles \in Pictures /\ job.with \in Payloads
    BY <1>1, <1>4 DEF MoveDrafts, Jobs
  <2>2. Drawn(moving.original.tiles, kind, job.with) \in Pictures
    BY <2>1, DrawnIsPicture
  <2>3. Projected(generations.move + 1, job.with) \in Projections
    BY <1>1, <2>1 DEF Projected, Projections
  <2>4. /\ seen \in MoveDrafts /\ seen.layers = moving.layers /\ seen.original = moving.original
    <3> HIDE DEF kind, job
    <3> QED
      BY <2>1, <2>2, <2>3 DEF MoveDrafts
  <2> HIDE DEF seen
  <2>5. moving'.original.tiles = art /\ moving'.original.layers = layers
    BY <1>4, <2>4 DEF Unchanged
  <2> QED
    BY <1>1, <1>2, <1>4, <2>4, <2>5, MovePreviewedKeeps
<1>5. \/ /\ answer' = Refused
         /\ \/ moving = None /\ moving' = None
            \/ moving # None /\ moving' = [moving EXCEPT !.projection = Unready(@)]
      \/ /\ moving # None /\ Unchanged(moving, job.target)
         /\ moving' = seen /\ answer' = Preview(seen)
  BY Zenon DEF MovePreviews
<1> QED
  BY <1>2, <1>3, <1>4, <1>5

LEMMA MoveEndsKeeps ==
  ASSUME IInv, Executing, own.job.on = "move", own.job.target \in layers,
         tinting = None, UNCHANGED tinting, MoveCommits(own.job) \/ MoveCancels(own.job)
  PROVE  IInv' /\ (art' # art => art' = shown)
<1>1. /\ art \in Pictures /\ layers \in Rows /\ moving \in MoveDrafts \cup {None}
      /\ generations \in [move : Nat, tint : Nat]
      /\ (moving # None => moving.layers \in Rows)
      /\ Matches(own.projection, moving) /\ ForeseenTiles = shown
  BY ExecutingHas DEF IInv, TypeOK
<1>2. UNCHANGED generations
  BY DEF MoveCommits, MoveCancels
<1>3. CASE answer' = Refused /\ UNCHANGED <<art, layers, moving>>
  <2>1. Lowered(moving, moving') /\ Lowered(tinting, tinting')
    BY <1>3 DEF Lowered
  <2> QED
    BY <1>1, <1>2, <1>3, <2>1, RefusedKeeps
<1>4. CASE /\ moving # None /\ art' = moving.displayed /\ layers' = moving.layers /\ moving' = None
           /\ answer' = Ended(art', layers', moving.layer,
                              moving.displayed # art \/ moving.layers # layers)
  <2>1. moving.displayed \in Pictures /\ moving.layer \in Nat
    BY <1>1, <1>4 DEF MoveDrafts
  <2>2. IInv'
    BY <1>1, <1>2, <1>4, <2>1, EndedKeeps
  <2>3. moving.displayed = shown
    BY <1>1, <1>4 DEF Matches
  <2> QED
    BY <1>4, <2>2, <2>3
<1>5. CASE /\ moving # None /\ Unchanged(moving, own.job.target) /\ UNCHANGED <<art, layers>>
           /\ moving' = None
           /\ answer' = Ended(moving.original.tiles, moving.original.layers,
                              moving.original.layer, FALSE)
  <2>1. moving.original.layer \in Nat
    BY <1>1, <1>5 DEF MoveDrafts
  <2>2. answer' = Ended(art', layers', moving.original.layer, FALSE)
    BY <1>5 DEF Unchanged
  <2> QED
    BY <1>1, <1>2, <1>5, <2>1, <2>2, EndedKeeps
<1> QED
  BY <1>3, <1>4, <1>5 DEF MoveCommits, MoveCancels, Refuse

(* The requests of a colour correction.                                     *)
LEMMA TintBeginsKeeps ==
  ASSUME IInv, Executing, own.job.on = "tint", own.job.target \in layers,
         UNCHANGED moving, TintBegins(own.job)
  PROVE  IInv' /\ art' = art
<1>1. /\ art \in Pictures /\ layers \in Rows /\ generations \in [move : Nat, tint : Nat]
      /\ layers \in SUBSET Nat /\ Same \in Payloads /\ own.job.target \in Nat
  BY MaxOfRow DEF IInv, TypeOK, Payloads, AnyValue
<1>2. UNCHANGED <<art, layers>> /\ generations' \in [move : Nat, tint : Nat]
  BY <1>1 DEF TintBegins
<1>3. CASE answer' = Refused /\ UNCHANGED tinting
  <2>1. Lowered(moving, moving') /\ Lowered(tinting, tinting')
    BY <1>3 DEF Lowered
  <2> QED
    BY <1>2, <1>3, <2>1, RefusedKeeps
<1>4. CASE /\ tinting' = [layer |-> own.job.target, layers |-> layers, displayed |-> art,
                          original |-> [tiles |-> art, layers |-> layers],
                          projection |-> Projected(generations.tint + 1, Same)]
           /\ answer' = Preview(tinting')
  <2>1. Projected(generations.tint + 1, Same) \in Projections
    BY <1>1 DEF Projected, Projections
  <2>2. /\ tinting' \in TintDrafts
        /\ tinting'.original.tiles = art /\ tinting'.original.layers = layers
    BY <1>1, <1>4, <2>1 DEF TintDrafts
  <2> QED
    BY <1>2, <1>4, <2>2, TintPreviewedKeeps
<1> QED
  BY <1>2, <1>3, <1>4 DEF TintBegins

LEMMA TintPreviewsKeeps ==
  ASSUME IInv, Executing, own.job.on = "tint", UNCHANGED moving, TintPreviews(own.job)
  PROVE  IInv' /\ art' = art
<1> DEFINE seen == [tinting EXCEPT !.displayed = Drawn(art, "tint", own.job.with),
                                   !.projection = Projected(generations.tint + 1, own.job.with)]
<1>1. /\ generations \in [move : Nat, tint : Nat] /\ tinting \in TintDrafts \cup {None}
      /\ own.job \in Jobs /\ art \in Pictures
  BY ExecutingHas DEF IInv, TypeOK
<1>2. UNCHANGED <<art, layers>> /\ generations' \in [move : Nat, tint : Nat]
  BY <1>1 DEF TintPreviews
<1>3. CASE /\ answer' = Refused
           /\ \/ tinting' = tinting
              \/ tinting # None /\ tinting' = [tinting EXCEPT !.projection = Unready(@)]
  <2>1. Lowered(moving, moving') /\ Lowered(tinting, tinting')
    BY <1>3 DEF Lowered
  <2> QED
    BY <1>2, <1>3, <2>1, RefusedKeeps
<1>4. CASE /\ tinting # None /\ Unchanged(tinting, own.job.target)
           /\ tinting' = seen /\ answer' = Preview(seen)
  <2>1. tinting \in TintDrafts /\ own.job.with \in Payloads
    BY <1>1, <1>4 DEF Jobs
  <2>2. Drawn(art, "tint", own.job.with) \in Pictures
    BY <1>1, <2>1, DrawnIsPicture
  <2>3. Projected(generations.tint + 1, own.job.with) \in Projections
    BY <1>1, <2>1 DEF Projected, Projections
  <2>4. seen \in TintDrafts /\ seen.original = tinting.original
    BY <2>1, <2>2, <2>3 DEF TintDrafts
  <2> HIDE DEF seen
  <2>5. tinting'.original.tiles = art /\ tinting'.original.layers = layers
    BY <1>4, <2>4 DEF Unchanged
  <2> QED
    BY <1>2, <1>4, <2>4, <2>5, TintPreviewedKeeps
<1> QED
  BY <1>2, <1>3, <1>4 DEF TintPreviews

LEMMA TintEndsKeeps ==
  ASSUME IInv, Executing, own.job.on = "tint", own.job.target \in layers,
         UNCHANGED moving, TintEnds(own.job)
  PROVE  IInv' /\ (art' # art => art' = shown)
<1>1. /\ art \in Pictures /\ layers \in Rows /\ tinting \in TintDrafts \cup {None}
      /\ generations \in [move : Nat, tint : Nat] /\ moving = None /\ own.job.target \in Nat
      /\ Matches(own.tint.projection, tinting) /\ ForeseenTiles = shown
  BY ExecutingHas, MaxOfRow DEF IInv, TypeOK
<1>2. UNCHANGED <<generations, layers>>
  BY DEF TintEnds
<1>3. CASE answer' = Refused /\ UNCHANGED <<art, tinting>>
  <2>1. Lowered(moving, moving') /\ Lowered(tinting, tinting')
    BY <1>3 DEF Lowered
  <2> QED
    BY <1>1, <1>2, <1>3, <2>1, RefusedKeeps
<1>4. CASE /\ tinting # None /\ tinting' = None
           /\ art' = IF own.job.do = "Commit" THEN tinting.displayed ELSE art
           /\ answer' = Ended(art', layers, own.job.target, art' # art)
  <2>1. tinting.displayed \in Pictures /\ tinting.displayed = shown
    BY <1>1, <1>4 DEF TintDrafts, Matches
  <2>2. art' \in Pictures /\ (art' # art => art' = shown)
    BY <1>1, <1>4, <2>1
  <2>3. answer' = Ended(art', layers', own.job.target, art' # art)
    BY <1>2, <1>4
  <2>4. own.job.on # "move" /\ layers' \in Rows /\ moving' = None
    BY <1>1, <1>2
  <2> QED
    BY <1>1, <1>2, <1>4, <2>2, <2>3, <2>4, EndedKeeps
<1> QED
  BY <1>3, <1>4 DEF TintEnds

LEMMA ExecuteKeeps ==
  ASSUME IInv, Execute
  PROVE  IInv' /\ (art' # art => art' = shown)
<1>1. Executing
  BY DEF Execute, Executing
<1>2. CASE Refuse /\ UNCHANGED <<moving, tinting, generations>>
  <2>1. Lowered(moving, moving') /\ Lowered(tinting, tinting')
    BY <1>2 DEF Lowered
  <2>2. generations \in [move : Nat, tint : Nat]
    BY DEF IInv, TypeOK
  <2> QED
    BY <1>1, <1>2, <2>1, <2>2, RefusedKeeps DEF Refuse
<1>3. CASE /\ own.job.target \in layers /\ own.job.on = "tint" /\ UNCHANGED moving
           /\ TintBegins(own.job) \/ TintPreviews(own.job) \/ TintEnds(own.job)
  BY <1>1, <1>3, TintBeginsKeeps, TintPreviewsKeeps, TintEndsKeeps
<1>4. CASE /\ own.job.target \in layers /\ own.job.on = "move" /\ tinting = None
           /\ UNCHANGED tinting
           /\ \/ MoveBegins(own.job) \/ MovePreviews(own.job)
              \/ MoveCommits(own.job) \/ MoveCancels(own.job)
  BY <1>1, <1>4, MoveBeginsKeeps, MovePreviewsKeeps, MoveEndsKeeps
<1> QED
  BY <1>2, <1>3, <1>4 DEF Execute

-----------------------------------------------------------------------------
LEMMA StepKeeps ==
  ASSUME IInv, [Next]_vars
  PROVE  IInv' /\ (art' # art => art' = shown)
<1>1. CASE UNCHANGED vars
  BY <1>1 DEF vars, canvas, pen, worker, IInv, TypeOK, Still, Agreed, Matches, Foreseen,
     ForeseenTiles, ForeseenTree, Told, NothingChangesUnderADraft
<1>2. CASE Poll
  BY <1>2, PollKeeps DEF Poll, worker
<1>3. CASE Drain
  BY <1>3, DrainKeeps DEF Drain, worker
<1>4. CASE Touch \/ Drag \/ Lift \/ Drained
  BY <1>4, PenSteps DEF Touch, Drag, Lift, Drained, worker
<1>5. CASE Command \/ Flush \/ Tint
  BY <1>5, FrameIsOwn DEF Command, Flush, Tint, worker
<1>6. CASE StrokeWritten
  BY <1>6, StrokeWrittenKeeps
<1>7. CASE Execute
  BY <1>7, ExecuteKeeps
<1> QED
  BY <1>1, <1>2, <1>3, <1>4, <1>5, <1>6, <1>7 DEF Next, Frame, Work

LEMMA Inductive == Spec => []IInv
<1>1. Init => IInv
  BY InitIInv
<1>2. IInv /\ [Next]_vars => IInv'
  BY StepKeeps
<1> QED
  BY <1>1, <1>2, PTL DEF Spec

(* No stroke reaches the artwork under a draft, and there is never a draft *)
(* of each kind at once (native_canvas::pause_artwork_lane,                 *)
(* enqueue_color_adjustment, transform_worker::execute_transform).          *)
THEOREM DraftsAreUndisturbed == Spec => []NothingChangesUnderADraft
<1>1. IInv => NothingChangesUnderADraft
  BY DEF IInv
<1> QED
  BY <1>1, Inductive, PTL

(* With no request on its way the canvas holds the draft the worker holds,  *)
(* and shows it (native_canvas::poll_artwork).                              *)
THEOREM CanvasHoldsWhatTheWorkerHolds == Spec => []BothSidesAgree
<1>1. ASSUME IInv, own.job = None
      PROVE  /\ AgreesOn(own.projection, moving) /\ AgreesOn(own.tint.projection, tinting)
             /\ moving = None /\ tinting = None /\ ink # "queued" => shown = art /\ tree = layers
  <2>1. answer = None
    BY <1>1 DEF IInv, Still
  <2>2. ~Told /\ answer # Refused
    BY <2>1, DraftsAssumption DEF Told
  <2> QED
    BY <1>1, <2>2 DEF IInv, Agreed, Matches, AgreesOn, Foreseen, ForeseenTiles, ForeseenTree
<1>2. IInv => BothSidesAgree
  BY <1>1 DEF BothSidesAgree
<1> QED
  BY <1>2, Inductive, PTL

(* A stroke and a commit alike write what was on the screen when they were  *)
(* written (StrokePipeline, TransformSession::commit,                       *)
(* ColorAdjustmentSession::commit).                                         *)
THEOREM WhatIsSeenIsWritten == Spec => CommitIsWhatWasSeen
<1>1. IInv /\ [Next]_vars => [art' # art => art' = shown]_vars
  BY StepKeeps
<1> QED
  BY <1>1, Inductive, PTL DEF Spec, CommitIsWhatWasSeen

=============================================================================
