--------------------------------- MODULE Drafts ---------------------------------
(***************************************************************************)
(* Transform and colour drafts on the desktop (transform_runtime,          *)
(* native_canvas::color_adjustment, transform_worker, editor::transform,   *)
(* editor::color_adjustment).  A draft is a preview the project worker     *)
(* holds; the canvas shows it, sends the pen's and the panel's previews    *)
(* one at a time, and ends it by a commit or a cancel, its own or the one  *)
(* a change of tool asks for.                                              *)
(*   own       what the canvas (ActiveCanvas, StrokePipeline) remembers:   *)
(*             tool, next (pending_tool), the transform's projection,      *)
(*             starting, gesture, pending, cancel, paste and revalidating, *)
(*             the colour correction's Runtime, job (the ArtworkJob and    *)
(*             its request), active (active_layer) and paused (the lane)   *)
(*   phase     where the canvas is in its frame                            *)
(*   answer    the reply channel of the job                                *)
(*   shown, tiles, tree   the pixels on the screen, cpu_tiles and          *)
(*             authoritative_tree                                          *)
(*   samples, contact, ink   the pen's lane, whether it is down, and its   *)
(*             stroke: none, drawing, queued or written                    *)
(*   art, layers, moving, tinting, generations   the worker's artwork, its *)
(*             raster layers, its two drafts and their counters            *)
(* A picture is the sequence of the changes that made it.                  *)
(***************************************************************************)
EXTENDS Naturals, Sequences, SequencesExt, FiniteSetsExt

CONSTANTS
  None, Refused,   \* no value; the worker's EditFailure::Rejected
  Same,            \* AffineTransform::default(), ColorAdjustment::default()
  Values,          \* the other transforms and adjustments
  Limits,          \* TRUE when a preview may exceed EditLimits
  MaxAsks, MaxContacts, MaxMoves, MaxLayers   \* bounds: commands of the user,
                                              \* contacts and moves of the pen, layers

Base   == 1
Tools  == {"MoveSelection", "Pencil"}      \* tools a user selects; Lasso follows a draft
Starts == {"Begin", "Paste"}
AnyValue == Values \cup {Same}

(* TransformProjection and ColorAdjustmentProjection; a request and what it *)
(* carries; what is drawn; the drafts and the answers of the worker.        *)
Payloads    == AnyValue \cup Nat \cup {None}
Projections == [generation : Nat, transform : Payloads, canCommit : BOOLEAN]
Jobs        == [on : {"move", "tint"}, do : Starts \cup {"Preview", "Commit", "Cancel"},
                with : Payloads, target : Nat]
Pictures    == Seq({"ink", "move", "paste", "tint"} \X Payloads)
MoveDrafts  == [pasted : BOOLEAN, layer : Nat, layers : SUBSET Nat,
                original : [tiles : Pictures, layers : SUBSET Nat, layer : Nat],
                displayed : Pictures, projection : Projections]
TintDrafts  == [layer : Nat, layers : SUBSET Nat, displayed : Pictures,
                original : [tiles : Pictures, layers : SUBSET Nat], projection : Projections]
Answers     == [tiles : Pictures, layers : SUBSET Nat, active : Nat, committed : BOOLEAN,
                projection : Projections \cup {None}]

ASSUME DraftsAssumption ==
  /\ Same \notin Values /\ None \notin AnyValue /\ Refused # None
  /\ None \notin Projections \cup Jobs \cup MoveDrafts \cup TintDrafts
  /\ {None, Refused} \cap Answers = {}

VARIABLES
  own, phase, answer, shown, tiles, tree, samples, contact, ink,
  art, layers, moving, tinting, generations, asks, contacts, moves

canvas == <<shown, tiles, tree>>
pen    == <<samples, contact, contacts, moves>>
worker == <<art, layers, moving, tinting, generations>>
vars   == <<own, phase, answer, canvas, pen, ink, worker, asks>>

Drawn(picture, kind, value) ==
  IF value = Same /\ kind # "paste" THEN picture ELSE Append(picture, <<kind, value>>)

-----------------------------------------------------------------------------
(* What the canvas remembers.                                               *)
NoTint == [projection |-> None, starting |-> FALSE, preview |-> None, cancel |-> FALSE,
           tool |-> None]

JobIs(o, on) == o.job # None /\ o.job.on = on

MoveActive(o) == o.starting \/ o.projection # None \/ JobIs(o, "move")

TintActive(o) == o.tint.starting \/ o.tint.projection # None \/ JobIs(o, "tint")

Unready(projection) ==
  IF projection = None THEN None ELSE [projection EXCEPT !.canCommit = FALSE]

Settled(o) ==
  [o EXCEPT !.starting = FALSE, !.gesture = None, !.pending = None, !.cancel = FALSE,
            !.paste = FALSE]

(* The tool that was asked for, and Lasso when none was.                    *)
FinishTool(o) ==
  [o EXCEPT !.tool = IF o.next = None THEN "Lasso" ELSE o.next, !.next = None]

(* A tool asked for during a colour correction is selected once it is over. *)
FinishTint(o) ==
  IF TintActive(o) \/ o.tint.tool = None THEN o
  ELSE [o EXCEPT !.tool = o.tint.tool, !.tint.tool = None]

Sent(o, on, do, with) ==
  [o EXCEPT !.job = [on |-> on, do |-> do, with |-> with, target |-> o.active]]

(* Fault: a stroke on its way does not keep a command waiting. *)
IdleFault(o) == o.job = None

Idle(o) == o.job = None /\ ink = "none"

(* Fault: samples still in the lane do not keep an edit waiting. *)
CanPauseFault == ~contact

CanPause == ~contact /\ samples = <<>>

-----------------------------------------------------------------------------
(* enqueue_free_transform, in its two halves: what a Cancel forgets before  *)
(* anything is checked, and the checks.                                     *)
Done(o)           == [own |-> o, result |-> "done"]
Fails(o, reason)  == [own |-> o, result |-> reason]

AdmitMove(o, do, with) ==
  LET active == o.projection # None
      pauses == do = "Commit" \/ (~active /\ ~o.starting)
  IN  IF do = "Commit" /\ \/ o.gesture # None \/ o.pending # None \/ o.cancel
                          \/ ~active
                          \/ active /\ ~o.projection.canCommit
      THEN Fails(o, "busy")
      ELSE IF ~Idle(o) THEN Fails(o, "busy")
      ELSE IF do \in Starts /\ (active \/ (o.starting /\ do # "Begin")) THEN Fails(o, "busy")
      ELSE IF do \notin Starts /\ ~active THEN Fails(o, "unsupported")
      ELSE IF pauses /\ ~CanPause THEN Fails(o, "busy")
      ELSE LET sent == [Sent(o, "move", do, with) EXCEPT !.paused = o.paused \/ pauses]
           IN  Done(IF do \in Starts
                    THEN [sent EXCEPT !.starting = TRUE, !.paste = (do = "Paste"),
                                      !.tool = "MoveSelection"]
                    ELSE sent)

EnqueueMove(o, do, with) ==
  LET dropped == [o EXCEPT !.gesture = None, !.pending = None, !.next = None]
  IN  IF do # "Cancel" \/ ~MoveActive(o) THEN AdmitMove(o, do, with)
      ELSE IF JobIs(o, "move") /\ o.job.do \in {"Commit", "Cancel"} THEN Done(o)
      ELSE IF o.job # None THEN Done([dropped EXCEPT !.cancel = TRUE])
      ELSE IF o.starting /\ o.projection = None
      THEN Done([dropped EXCEPT !.starting = FALSE, !.cancel = FALSE])
      ELSE AdmitMove(dropped, do, with)

(* Fault: a draft that cannot be committed is not sent a preview first. *)
ToolSwitchFault(o) ==
  IF ~o.paste /\ o.projection.transform = Same THEN <<"Cancel", None>>
  ELSE <<"Commit", o.projection.generation>>

(* editor::transform::tool_switch_command.                                  *)
ToolSwitch(o) ==
  CASE ~o.paste /\ o.projection.transform = Same -> <<"Cancel", None>>
    [] o.projection.canCommit -> <<"Commit", o.projection.generation>>
    [] OTHER -> <<"Preview", o.projection.transform>>

(* flush_transform_preview: one thing a frame, a cancel before anything.    *)
FlushSends(o, do, with) ==
  LET tried == EnqueueMove(o, do, with)
      kept  == [tried.own EXCEPT !.next = o.next]
  IN  CASE tried.result = "done" ->
             IF do \in Starts THEN kept ELSE [kept EXCEPT !.pending = None, !.cancel = FALSE]
        [] tried.result = "busy" ->
             [kept EXCEPT !.cancel = @ \/ do = "Cancel"]
        [] OTHER ->
             [tried.own EXCEPT !.pending = None, !.cancel = FALSE, !.next = None,
                               !.starting = FALSE]

FlushMove(o) ==
  IF o.job # None THEN o
  ELSE IF o.cancel THEN FlushSends(o, "Cancel", None)
  ELSE IF o.starting THEN FlushSends(o, "Begin", None)
  ELSE IF o.pending # None THEN FlushSends(o, "Preview", o.pending)
  ELSE IF o.next = None THEN o
  ELSE IF o.projection = None THEN FinishTool(o)
  ELSE LET c == ToolSwitch(o)
       IN  FlushSends([o EXCEPT !.revalidating = (c[1] = "Preview")], c[1], c[2])

SwitchTool(o, tool) ==
  IF tool = o.tool /\ o.next = None THEN o
  ELSE FlushMove([o EXCEPT !.next = tool, !.gesture = None])

-----------------------------------------------------------------------------
(* enqueue_color_adjustment, flush_color_adjustment, cancel_color_for_tool. *)
EnqueueTint(o, do, with) ==
  LET ending  == JobIs(o, "tint") /\ o.job.do \in {"Commit", "Cancel"}
      current == o.tint.projection
      cleared == IF do = "Cancel" THEN [o EXCEPT !.tint.preview = None] ELSE o
  IN  IF MoveActive(o) THEN Fails(o, "busy")
      ELSE IF o.job # None
      THEN IF do = "Preview" /\ TintActive(o) /\ ~o.tint.cancel /\ ~ending
           THEN Done([o EXCEPT !.tint.preview = with])
           ELSE IF do = "Cancel" /\ TintActive(o) /\ ~(ending /\ o.job.do = "Commit")
           THEN Done([o EXCEPT !.tint.preview = None, !.tint.cancel = TRUE])
           ELSE Fails(o, "busy")
      ELSE IF do = "Begin" /\ TintActive(o) THEN Fails(o, "busy")
      ELSE IF do # "Begin" /\ ~TintActive(o) THEN Fails(o, "unsupported")
      ELSE IF do = "Commit" /\ \/ o.tint.preview # None \/ o.tint.cancel
                               \/ current = None
                               \/ current # None /\ (~current.canCommit \/ current.generation # with)
      THEN Fails(o, "busy")
      ELSE IF ~Idle(o) THEN Fails(o, "busy")
      ELSE IF ~CanPause THEN Fails(cleared, "busy")
      ELSE Done([Sent(cleared, "tint", do, with) EXCEPT
                   !.paused = TRUE, !.tint.starting = @ \/ do = "Begin"])

CancelForTool(o, tool) ==
  IF JobIs(o, "tint") /\ o.job.do = "Commit" THEN o
  ELSE EnqueueTint([o EXCEPT !.tint.tool = tool], "Cancel", None).own

FlushTint(o) ==
  LET Flushed(do, with) ==
        LET tried == EnqueueTint(o, do, with)
        IN  IF tried.result = "busy" THEN tried.own
            ELSE [tried.own EXCEPT !.tint.preview = None, !.tint.cancel = FALSE]
  IN  IF o.job # None THEN o
      ELSE IF o.tint.cancel THEN Flushed("Cancel", None)
      ELSE IF o.tint.preview # None THEN Flushed("Preview", o.tint.preview)
      ELSE FinishTint(o)

-----------------------------------------------------------------------------
(* The user's commands (apply_editor_command's gate): a draft admits its    *)
(* own commands, a cancel and a change of tool.                             *)
Cancelled(o) ==
  IF TintActive(o) THEN EnqueueTint(o, "Cancel", None).own
  ELSE IF MoveActive(o) THEN EnqueueMove(o, "Cancel", None).own ELSE o

Selected(o, tool) ==
  IF TintActive(o) THEN CancelForTool(o, tool)
  ELSE IF MoveActive(o) THEN SwitchTool(o, tool)
  ELSE IF ink = "drawing" \/ ~CanPause THEN o ELSE [o EXCEPT !.tool = tool]

MoveAsked(o, do, with) == IF TintActive(o) THEN o ELSE EnqueueMove(o, do, with).own

Shows(projection) == IF projection = None THEN 0 ELSE projection.generation

Commanded ==
  {Cancelled(own)} \cup {Selected(own, t) : t \in Tools}
  \cup {MoveAsked(own, "Begin", None), MoveAsked(own, "Commit", Shows(own.projection))}
  \cup {MoveAsked(own, "Paste", None) : x \in {l \in {Cardinality(tree)} : l < MaxLayers}}
  \cup {MoveAsked(own, "Preview", v) : v \in AnyValue}
  \cup {EnqueueTint(own, "Begin", None).own,
        EnqueueTint(own, "Commit", Shows(own.tint.projection)).own}
  \cup {EnqueueTint(own, "Preview", v).own : v \in AnyValue}

Command ==
  /\ phase = "commands" /\ phase' = "poll"
  /\ \/ own' = own /\ asks' = asks
     \/ asks < MaxAsks /\ asks' = asks + 1 /\ own' \in Commanded
  /\ UNCHANGED <<answer, canvas, pen, ink, worker>>

Flush ==
  /\ phase = "flush" /\ phase' = "tint"
  /\ ink' = IF ink = "written" THEN "none" ELSE ink
  /\ tiles' = IF ink = "written" THEN art ELSE tiles
  /\ own' = FlushMove(own)
  /\ UNCHANGED <<answer, shown, tree, pen, worker, asks>>

Tint ==
  /\ phase = "tint" /\ phase' = "commands"
  /\ own' = FlushTint(own)
  /\ UNCHANGED <<answer, canvas, pen, ink, worker, asks>>

-----------------------------------------------------------------------------
(* poll_artwork: the answer to the job.                                     *)
RejectTint(o, do) ==
  LET begun == IF do = "Begin"
               THEN [o EXCEPT !.tint.starting = FALSE, !.tint.preview = None, !.tint.cancel = FALSE]
               ELSE o
  IN  [begun EXCEPT !.tint.projection = Unready(@),
                    !.tint.tool = IF do \in {"Commit", "Cancel"} THEN None ELSE @]

(* Fault: a refused preview leaves the draft ready to commit. *)
RejectMoveFault(o, do) ==
  IF do \in Starts THEN IF o.next # None THEN FinishTool(Settled(o)) ELSE Settled(o)
  ELSE [o EXCEPT !.revalidating = FALSE,
                 !.next = IF o.revalidating \/ do \in {"Commit", "Cancel"} THEN None ELSE @]

(* reject_transform_outcome; do is None when the job was another one's.     *)
RejectMove(o, do) ==
  LET judged == IF do \in Starts
                THEN IF o.next # None THEN FinishTool(Settled(o)) ELSE Settled(o)
                ELSE IF o.revalidating \/ do \in {"Commit", "Cancel"}
                THEN [o EXCEPT !.next = None]
                ELSE o
  IN  [judged EXCEPT !.revalidating = FALSE, !.projection = Unready(@)]

Rejected(o) ==
  RejectMove(RejectTint(o, IF o.job.on = "tint" THEN o.job.do ELSE None),
             IF o.job.on = "move" THEN o.job.do ELSE None)

(* install_transform_outcome and install_color_adjustment.                  *)
InstallMove(o, outcome) ==
  LET adopted == [o EXCEPT !.active = outcome.active, !.starting = FALSE,
                           !.revalidating = FALSE, !.projection = outcome.projection]
  IN  IF outcome.projection # None THEN [adopted EXCEPT !.tool = "MoveSelection"]
      ELSE FinishTool(Settled(adopted))

InstallTint(o, outcome) ==
  LET adopted == [o EXCEPT !.tint.starting = FALSE, !.tint.projection = outcome.projection]
  IN  IF outcome.projection # None THEN adopted
      ELSE [adopted EXCEPT !.tint.preview = None, !.tint.cancel = FALSE]

(* The job is over: the tool a colour correction held back, and the lane,   *)
(* which a colour correction keeps paused.                                  *)
Released(o) ==
  LET over == FinishTint([o EXCEPT !.job = None])
  IN  [over EXCEPT !.paused = @ /\ TintActive(over)]

Poll ==
  /\ phase = "poll" /\ phase' = "drain"
  /\ answer' = None
  /\ \/ answer = None /\ UNCHANGED <<own, canvas>>
     \/ answer = Refused /\ own' = Released(Rejected(own)) /\ UNCHANGED canvas
     \/ /\ answer \notin {None, Refused}
        /\ own' = Released(IF own.job.on = "move" THEN InstallMove(own, answer)
                           ELSE InstallTint(own, answer))
        /\ shown' = answer.tiles
        /\ tiles' = IF answer.committed THEN answer.tiles ELSE tiles
        /\ tree' = IF answer.committed THEN answer.layers ELSE tree
  /\ UNCHANGED <<pen, ink, worker, asks>>

-----------------------------------------------------------------------------
(* The pen and its lane.                                                    *)
Touch ==
  /\ ~contact /\ ~own.paused /\ samples = <<>> /\ ink = "none" /\ contacts < MaxContacts
  /\ contact' = TRUE /\ contacts' = contacts + 1 /\ samples' = <<"Begin">>
  /\ UNCHANGED <<own, phase, answer, canvas, moves, ink, worker, asks>>

Drag ==
  /\ contact /\ moves < MaxMoves
  /\ moves' = moves + 1 /\ samples' = Append(samples, "Move")
  /\ UNCHANGED <<own, phase, answer, canvas, contact, contacts, ink, worker, asks>>

Lift ==
  /\ contact /\ contact' = FALSE
  /\ \E last \in {"End", "Cancel"} : samples' = Append(samples, last)
  /\ UNCHANGED <<own, phase, answer, canvas, contacts, moves, ink, worker, asks>>

(* observe_transform_sample.  A handle that no longer fits, or a view that  *)
(* moved, puts the transform of before the contact back.                    *)
ObserveMove(sample) ==
  IF own.next # None \/ own.cancel THEN own' = own
  ELSE CASE sample = "Begin" ->
              IF own.projection = None \/ own.pending # None \/ own.job # None THEN own' = own
              ELSE \E held \in {None, own.projection.transform} : own' = [own EXCEPT !.gesture = held]
         [] sample \in {"Move", "End"} ->
              IF own.gesture = None THEN own' = own
              ELSE \/ \E v \in AnyValue :
                        own' = [own EXCEPT !.pending = v,
                                           !.gesture = IF sample = "End" THEN None ELSE @]
                   \/ own' = [own EXCEPT !.pending = own.gesture, !.gesture = None]
         [] sample = "Cancel" ->
              own' = IF own.gesture = None THEN own
                     ELSE [own EXCEPT !.pending = own.gesture, !.gesture = None]

(* begin_native_transform, when the contact takes a handle.                 *)
BeginNative(sample) ==
  \/ own' = own
  \/ sample = "Begin" /\ own' = [own EXCEPT !.gesture = Same, !.starting = TRUE]

Ink(sample) ==
  CASE sample = "Begin" -> ink' = "drawing" /\ shown' = shown
    [] sample = "End" /\ ink = "drawing" ->
         ink' = "queued" /\ shown' = Drawn(shown, "ink", None)
    [] sample = "Cancel" /\ ink = "drawing" -> ink' = "none" /\ shown' = shown
    [] OTHER -> UNCHANGED <<ink, shown>>

Drain ==
  /\ phase = "drain" /\ samples # <<>>
  /\ samples' = Tail(samples)
  /\ \/ (own.projection # None \/ own.starting) /\ ObserveMove(Head(samples)) /\ UNCHANGED <<ink, shown>>
     \/ own.projection = None /\ ~own.starting /\ own.tool = "MoveSelection"
        /\ BeginNative(Head(samples)) /\ UNCHANGED <<ink, shown>>
     \/ own.projection = None /\ ~own.starting /\ own.tool = "Pencil"
        /\ Ink(Head(samples)) /\ UNCHANGED own
     \/ own.projection = None /\ ~own.starting /\ own.tool = "Lasso" /\ UNCHANGED <<own, ink, shown>>
  /\ UNCHANGED <<phase, answer, tiles, tree, contact, contacts, moves, worker, asks>>

Drained ==
  /\ phase = "drain" /\ samples = <<>> /\ phase' = "flush"
  /\ UNCHANGED <<own, answer, canvas, pen, ink, worker, asks>>

-----------------------------------------------------------------------------
(* The project worker (TransformSession and ColorAdjustmentSession).        *)
StrokeWritten ==
  /\ ink = "queued" /\ ink' = "written"
  /\ art' = Drawn(art, "ink", None)
  /\ UNCHANGED <<own, phase, answer, canvas, pen, layers, moving, tinting, generations, asks>>

Refuse == answer' = Refused /\ UNCHANGED <<art, layers>>

(* What a draft was made from is what the artwork still is (guard).         *)
Unchanged(draft, target) ==
  target = draft.layer /\ layers = draft.original.layers /\ art = draft.original.tiles

Preview(draft) ==
  [tiles |-> draft.displayed, layers |-> draft.layers, active |-> draft.layer,
   committed |-> FALSE, projection |-> draft.projection]

Ended(tilesNow, layersNow, layer, changed) ==
  [tiles |-> tilesNow, layers |-> layersNow, active |-> layer,
   committed |-> changed, projection |-> None]

Projected(generation, value) ==
  [generation |-> generation, transform |-> value, canCommit |-> TRUE]

NewMove(job, pasted, generation) ==
  LET layer == IF pasted THEN Max(layers) + 1 ELSE job.target
      base  == Drawn(art, IF pasted THEN "paste" ELSE "move", Same)
  IN  [pasted |-> pasted, layer |-> layer, layers |-> layers \cup {layer},
       original |-> [tiles |-> art, layers |-> layers, layer |-> job.target],
       displayed |-> base, projection |-> Projected(generation, Same)]

MoveBegins(job) ==
  /\ job.do \in Starts /\ UNCHANGED <<art, layers>>
  /\ \/ moving # None /\ answer' = Refused /\ UNCHANGED <<moving, generations>>
     \/ /\ moving = None
        /\ generations' = [generations EXCEPT !.move = @ + 1]
        /\ \/ moving' = NewMove(job, job.do = "Paste", generations.move + 1)
              /\ answer' = Preview(moving')
           \/ Limits /\ answer' = Refused /\ UNCHANGED moving

MovePreviews(job) ==
  /\ job.do = "Preview" /\ UNCHANGED <<art, layers>>
  /\ generations' = [generations EXCEPT !.move = @ + 1]
  /\ LET seen == [moving EXCEPT !.displayed =
                    Drawn(moving.original.tiles, IF moving.pasted THEN "paste" ELSE "move", job.with),
                    !.projection = Projected(generations.move + 1, job.with)]
     IN  \/ moving = None /\ answer' = Refused /\ moving' = None
         \/ /\ moving # None /\ (Limits \/ ~Unchanged(moving, job.target))
            /\ answer' = Refused /\ moving' = [moving EXCEPT !.projection = Unready(@)]
         \/ /\ moving # None /\ Unchanged(moving, job.target)
            /\ moving' = seen /\ answer' = Preview(seen)

MoveCommits(job) ==
  /\ job.do = "Commit" /\ UNCHANGED generations
  /\ IF moving = None THEN Refuse /\ UNCHANGED moving
     ELSE IF \/ ~moving.projection.canCommit \/ ~Unchanged(moving, job.target)
             \/ job.with # moving.projection.generation
     THEN Refuse /\ UNCHANGED moving
     ELSE LET changed == moving.displayed # art \/ moving.layers # layers
          IN  /\ art' = moving.displayed /\ layers' = moving.layers /\ moving' = None
              /\ answer' = Ended(art', layers', moving.layer, changed)

MoveCancels(job) ==
  /\ job.do = "Cancel" /\ UNCHANGED <<art, layers, generations>>
  /\ IF moving # None /\ Unchanged(moving, job.target)
     THEN /\ answer' = Ended(moving.original.tiles, moving.original.layers,
                             moving.original.layer, FALSE)
          /\ moving' = None
     ELSE answer' = Refused /\ UNCHANGED moving

TintBegins(job) ==
  /\ job.do = "Begin" /\ UNCHANGED <<art, layers>>
  /\ \/ (tinting # None \/ Limits) /\ answer' = Refused /\ UNCHANGED <<tinting, generations>>
     \/ /\ tinting = None
        /\ generations' = [generations EXCEPT !.tint = @ + 1]
        /\ tinting' = [layer |-> job.target, layers |-> layers, displayed |-> art,
                       original |-> [tiles |-> art, layers |-> layers],
                       projection |-> Projected(generations.tint + 1, Same)]
        /\ answer' = Preview(tinting')

TintPreviews(job) ==
  /\ job.do = "Preview" /\ UNCHANGED <<art, layers>>
  /\ LET seen == [tinting EXCEPT !.displayed = Drawn(art, "tint", job.with),
                                 !.projection = Projected(generations.tint + 1, job.with)]
     IN  \/ tinting = None /\ answer' = Refused /\ UNCHANGED <<tinting, generations>>
         \/ /\ tinting # None /\ (Limits \/ ~Unchanged(tinting, job.target))
            /\ answer' = Refused /\ tinting' = [tinting EXCEPT !.projection = Unready(@)]
            /\ UNCHANGED generations
         \/ /\ tinting # None /\ Unchanged(tinting, job.target)
            /\ generations' = [generations EXCEPT !.tint = @ + 1]
            /\ tinting' = seen /\ answer' = Preview(seen)

TintEnds(job) ==
  /\ job.do \in {"Commit", "Cancel"} /\ UNCHANGED <<layers, generations>>
  /\ IF \/ tinting = None
        \/ tinting # None /\ ~Unchanged(tinting, job.target)
        \/ tinting # None /\ job.do = "Commit"
           /\ (~tinting.projection.canCommit \/ tinting.projection.generation # job.with)
     THEN answer' = Refused /\ UNCHANGED <<art, tinting>>
     ELSE /\ art' = IF job.do = "Commit" THEN tinting.displayed ELSE art
          /\ tinting' = None
          /\ answer' = Ended(art', layers, job.target, art' # art)

(* A job whose target is outside the worker's tree is refused before any    *)
(* session sees it.                                                         *)
Execute ==
  /\ own.job # None /\ answer = None
  /\ LET job == own.job
     IN  \/ /\ job.target \notin layers
            /\ Refuse /\ UNCHANGED <<moving, tinting, generations>>
         \/ /\ job.target \in layers /\ job.on = "tint" /\ UNCHANGED moving
            /\ TintBegins(job) \/ TintPreviews(job) \/ TintEnds(job)
         \/ /\ job.target \in layers /\ job.on = "move" /\ tinting = None /\ UNCHANGED tinting
            /\ MoveBegins(job) \/ MovePreviews(job) \/ MoveCommits(job) \/ MoveCancels(job)
         \/ /\ job.target \in layers /\ job.on = "move" /\ tinting # None
            /\ Refuse /\ UNCHANGED <<moving, tinting, generations>>
  /\ UNCHANGED <<own, phase, canvas, pen, ink, asks>>

-----------------------------------------------------------------------------
Init ==
  /\ own = [tool |-> "Pencil", next |-> None, projection |-> None, starting |-> FALSE,
            gesture |-> None, pending |-> None, cancel |-> FALSE, paste |-> FALSE,
            revalidating |-> FALSE, tint |-> NoTint, job |-> None, active |-> Base,
            paused |-> FALSE]
  /\ phase = "poll" /\ answer = None
  /\ shown = <<>> /\ tiles = <<>> /\ tree = {Base}
  /\ samples = <<>> /\ contact = FALSE /\ ink = "none"
  /\ art = <<>> /\ layers = {Base} /\ moving = None /\ tinting = None
  /\ generations = [move |-> 0, tint |-> 0]
  /\ asks = 0 /\ contacts = 0 /\ moves = 0

Frame == Poll \/ Drain \/ Drained \/ Flush \/ Tint \/ Command
Work  == StrokeWritten \/ Execute
Next  == Frame \/ Work \/ Touch \/ Drag \/ Lift

Spec == Init /\ [][Next]_vars

(* Frames go on, the worker takes its requests, and a pen is lifted again.  *)
FairSpec == Spec /\ WF_vars(Frame) /\ WF_vars(Work) /\ WF_vars(Lift)

-----------------------------------------------------------------------------
(* Nothing reaches the artwork under a draft: the worker's guard, which     *)
(* would make the draft impossible to commit and to cancel, has nothing to  *)
(* refuse, whatever strokes were on their way when it was begun.            *)
NothingChangesUnderADraft ==
  /\ moving # None => art = moving.original.tiles /\ layers = moving.original.layers
  /\ tinting # None => art = tinting.original.tiles /\ layers = tinting.original.layers
  /\ ~(moving # None /\ tinting # None)

(* What a commit writes is what was on the screen when it was asked for.    *)
CommitIsWhatWasSeen == [][art' # art => art' = shown]_vars

(* With no job in flight the canvas and the worker agree on the draft: both *)
(* hold it or neither does, a draft the canvas would commit is one the      *)
(* worker would, and the screen shows it, or the artwork when there is none.*)
AgreesOn(projection, draft) ==
  /\ (projection = None) <=> (draft = None)
  /\ projection # None =>
       /\ projection.generation = draft.projection.generation
       /\ projection.transform = draft.projection.transform
       /\ projection.canCommit => draft.projection.canCommit
       /\ shown = draft.displayed

BothSidesAgree ==
  own.job = None =>
    /\ AgreesOn(own.projection, moving) /\ AgreesOn(own.tint.projection, tinting)
    /\ moving = None /\ tinting = None /\ ink # "queued" => shown = art /\ tree = layers

(* A cancel ends the draft, whatever preview, change of tool or contact it  *)
(* races with; a paste is the exception, see CancelIsNotRefused.  A change  *)
(* of tool asked for during a draft does not stay asked for, and the pen is *)
(* refused no longer than a job or a colour correction lasts.               *)
WaitsEnd ==
  /\ (own.cancel /\ ~own.paste) ~> (~MoveActive(own) \/ own.paste)
  /\ (own.next # None \/ own.tint.tool # None) ~> (own.next = None /\ own.tint.tool = None)
  /\ own.paused ~> (~own.paused \/ TintActive(own))

(* The worker never refuses the cancel of the draft it holds.               *)
CancelIsNotRefused == answer = Refused => own.job.do # "Cancel"
=============================================================================
