------------------------------- MODULE LiveInk --------------------------------
(***************************************************************************)
(* Native samples on their way to strokes (apps/desktop/live_ink and       *)
(* crates/input-queue): one pen pushes samples through the admission gates *)
(* into a bounded lane while the canvas owner drains it frame by frame and *)
(* assembles strokes and colour picks from what it took.                   *)
(*                                                                         *)
(* A gesture is numbered when the pen goes down; a temporary picker        *)
(* gesture (its modifier held at Begin) reads a colour instead of drawing. *)
(* Lane, under the raw input lock:                                         *)
(*   queue, retry  InputQueue and the transition-only retry lane           *)
(*   admitted, picks   admitted_active, admitted_temporary_picker          *)
(*   barrier       temporary_read_pending: the pick whose answer every     *)
(*                 later gesture waits for, 0 when there is none           *)
(*   paused, skipped, latched   edit_paused, skipped_edit_gesture and the  *)
(*                 discontinuity                                           *)
(* Gates: closing, saving                                                  *)
(* Pen: down, pen (its latest gesture), moves                              *)
(* Owner:                                                                  *)
(*   pc, retiring  the step of the frame; this drain is the canvas's last  *)
(*   batch, lost   samples taken by the drain, and its discontinuity       *)
(*   active        the stroke being drawn                                  *)
(*   awaiting      awaiting_clean_begin                                    *)
(*   reading, picker, picked   temporary_picker_active, the pick being     *)
(*                 drawn, and the one that ended (completed_temporary_...) *)
(*   job           artwork_job                                             *)
(*   unsettled     strokes the writer has not settled                      *)
(* History:                                                                *)
(*   accepted   drawing gestures whose Begin and End were both let in      *)
(*   begun      the Begin of the pen's gesture was let in, to draw         *)
(*   cut        gestures that ended while a Save As shut the lane          *)
(*   spoiled    gestures the owner cancelled for a reason of its own       *)
(*   closed     the strokes closed: whose Begin, and whose End             *)
(*   stranded   the lane's pick, in progress or ended, is of a canvas that *)
(*              is gone                                                    *)
(***************************************************************************)
EXTENDS Naturals, Sequences, SequencesExt

CONSTANTS
  Capacity,     \* of the queue, and of the retry lane
  MaxGestures,  \* bound: pen-down to pen-up
  MaxMoves      \* bound: moves of one gesture

ASSUME LaneAssumption ==
  /\ Capacity \in Nat \ {0}
  /\ {MaxGestures, MaxMoves} \subseteq Nat

VARIABLES
  queue, retry, admitted, picks, barrier, paused, skipped, latched,
  closing, saving,
  down, pen, moves,
  pc, retiring, batch, lost, active, awaiting, reading, picker, picked, job, unsettled,
  accepted, begun, cut, spoiled, closed, stranded

lane   == <<queue, retry, admitted, picks, barrier, paused, skipped, latched>>
gates  == <<closing, saving>>
hand   == <<down, pen, moves>>
owner  == <<retiring, batch, lost, active, awaiting, reading, picker, picked, job, unsettled>>
record == <<accepted, begun, cut, spoiled, closed, stranded>>
vars   == <<lane, gates, hand, pc, owner, record>>

Phases == {"begin", "move", "end", "cancel"}
Sample(phase, gesture, temporary) ==
  [phase |-> phase, gesture |-> gesture, temporary |-> temporary]

NoJob == [kind |-> "none", answered |-> FALSE, pick |-> 0]
Job(kind, pick) == [kind |-> kind, answered |-> FALSE, pick |-> pick]

Init ==
  /\ queue = <<>> /\ retry = <<>> /\ admitted = FALSE /\ picks = FALSE /\ barrier = 0
  /\ paused = FALSE /\ skipped = FALSE /\ latched = FALSE
  /\ closing = FALSE /\ saving = FALSE
  /\ down = FALSE /\ pen = 0 /\ moves = 0
  /\ pc = "poll" /\ retiring = FALSE /\ batch = <<>> /\ lost = FALSE
  /\ active = 0 /\ awaiting = FALSE /\ reading = FALSE /\ picker = 0 /\ picked = 0
  /\ job = NoJob /\ unsettled = 0
  /\ accepted = <<>> /\ begun = FALSE /\ cut = {} /\ spoiled = {} /\ closed = <<>>
  /\ stranded = FALSE

-----------------------------------------------------------------------------
(* The bounded queue: under saturation some move is evicted, and a queue of *)
(* transitions refuses.                                                     *)

(* Fault: any entry may be evicted. *)
EvictableFault == DOMAIN queue

Evictable == {i \in DOMAIN queue : queue[i].phase = "move"}

Fits(sample) ==
  IF Len(queue) < Capacity THEN queue' = Append(queue, sample)
  ELSE \E i \in Evictable : queue' = Append(RemoveAt(queue, i), sample)
Saturated == Len(queue) >= Capacity /\ Evictable = {}

-----------------------------------------------------------------------------
(* push_with_temporary_picker, gate after gate, for the pen's next sample   *)

Shut == closing \/ saving \/ latched
Held == paused \/ barrier # 0

Refuse(sample) ==
  /\ \/ Shut /\ skipped' = skipped
     \/ ~Shut /\ Held /\ skipped' = (skipped \/ sample.phase = "begin")
     \/ ~Shut /\ ~Held /\ skipped /\ sample.phase # "begin" /\ skipped' = skipped
  /\ UNCHANGED <<queue, retry, admitted, picks, barrier, paused, latched, accepted>>
  /\ begun' = (begun /\ sample.phase # "begin") /\ stranded' = stranded
  /\ cut' = IF saving /\ sample.phase \in {"end", "cancel"} THEN cut \cup {sample.gesture} ELSE cut

Open(sample) == ~Shut /\ ~Held /\ (skipped => sample.phase = "begin")

(* Neither lane has room: a transition lost latches the discontinuity, and a *)
(* move is dropped.                                                          *)
Lose(sample) ==
  /\ Open(sample) /\ Saturated
  /\ sample.phase # "move" => Len(retry) >= Capacity
  /\ skipped' = FALSE
  /\ latched' = (sample.phase # "move")
  /\ begun' = (begun /\ sample.phase # "begin")
  /\ UNCHANGED <<queue, retry, admitted, picks, barrier, paused, accepted, cut, stranded>>

Store(sample) ==
  \/ Fits(sample) /\ retry' = retry
  \/ /\ Saturated /\ sample.phase # "move" /\ Len(retry) < Capacity
     /\ retry' = Append(retry, sample)
     /\ queue' = queue

Admit(sample) ==
  /\ Open(sample) /\ Store(sample)
  /\ skipped' = FALSE
  /\ admitted' = CASE sample.phase = "begin" -> TRUE
                   [] sample.phase = "move" -> admitted
                   [] OTHER -> FALSE
  /\ picks' = CASE sample.phase = "begin" -> sample.temporary
                [] sample.phase = "move" -> picks
                [] OTHER -> FALSE
  /\ barrier' = IF sample.phase = "end" /\ picks THEN sample.gesture ELSE barrier
  /\ begun' = IF sample.phase = "begin" THEN ~sample.temporary ELSE begun
  /\ stranded' = (stranded /\ sample.phase # "begin")
  /\ accepted' = IF sample.phase = "end" /\ begun THEN Append(accepted, sample.gesture)
                                                  ELSE accepted
  /\ UNCHANGED <<paused, latched, cut>>

Push(sample) ==
  /\ Refuse(sample) \/ Lose(sample) \/ Admit(sample)
  /\ UNCHANGED <<gates, pc, owner, spoiled, closed>>

PenDown ==
  /\ ~down /\ pen < MaxGestures
  /\ down' = TRUE /\ pen' = pen + 1 /\ moves' = 0
  /\ \E temporary \in BOOLEAN : Push(Sample("begin", pen + 1, temporary))

PenMoves ==
  /\ down /\ moves < MaxMoves
  /\ moves' = moves + 1
  /\ Push(Sample("move", pen, FALSE))
  /\ UNCHANGED <<down, pen>>

PenUp ==
  /\ down
  /\ down' = FALSE
  /\ \E phase \in {"end", "cancel"} : Push(Sample(phase, pen, FALSE))
  /\ UNCHANGED <<pen, moves>>

-----------------------------------------------------------------------------
(* The gates, moved by the user interface under the same lock *)

(* queue_save_as, for Save As and for the opening of another project *)
QueueSaveAs ==
  /\ ~closing /\ ~saving
  /\ saving' = TRUE
  /\ UNCHANGED <<lane, closing, hand, pc, owner, record>>

(* begin_close *)
BeginClose ==
  /\ ~closing /\ ~saving
  /\ closing' = TRUE
  /\ UNCHANGED <<lane, saving, hand, pc, owner, record>>

-----------------------------------------------------------------------------
(* The frame of the owner *)

(* A closing canvas, or one that Save As replaces, drains once more. *)
Retire ==
  /\ pc = "poll" /\ ~retiring
  /\ closing \/ saving
  /\ retiring' = TRUE
  /\ pc' = "drain"
  /\ UNCHANGED <<lane, gates, hand, batch, lost, active, awaiting, reading, picker, picked, job,
                 unsettled, record>>

(* A Save As the canvas declines ends its hold and leaves the lane as it is. *)
DeclineSaveAs ==
  /\ pc = "poll" /\ saving
  /\ saving' = FALSE
  /\ UNCHANGED <<lane, closing, hand, pc, owner, record>>

(* poll_artwork, for an edit before the drain *)
Poll ==
  /\ pc = "poll"
  /\ pc' = "drain"
  /\ IF job.kind = "edit" /\ job.answered
     THEN job' = NoJob /\ paused' = FALSE
     ELSE UNCHANGED <<job, paused>>
  /\ UNCHANGED <<queue, retry, admitted, picks, barrier, skipped, latched, gates, hand, retiring,
                 batch, lost, active, awaiting, reading, picker, picked, unsettled, record>>

Taken == queue \o retry

(* drain_into: both lanes and the latch, under one lock *)
Drain ==
  /\ pc = "drain"
  /\ pc' = "samples"
  /\ batch' = Taken
  /\ queue' = <<>> /\ retry' = <<>>
  /\ lost' = latched
  /\ latched' = FALSE
  /\ admitted' = (admitted /\ ~latched)
  /\ picks' = (picks /\ ~latched)
  /\ UNCHANGED <<barrier, paused, skipped, gates, hand, retiring, active, awaiting, reading,
                 picker, picked, job, unsettled, record>>

(* complete_temporary_pick *)
Released(pick) == IF barrier = pick THEN 0 ELSE barrier

(* The sample at the head of the batch, and whether its gesture reads *)
First == batch[1]
Taking(phase, temporary) ==
  /\ pc = "samples" /\ batch # <<>>
  /\ First.phase = phase
  /\ temporary = IF phase = "begin" THEN First.temporary ELSE reading
  /\ batch' = Tail(batch)
  /\ reading' = (phase \in {"begin", "move"} /\ temporary)
  /\ UNCHANGED <<queue, retry, admitted, picks, paused, skipped, latched, gates, hand, pc, retiring,
                 lost, job, accepted, begun, cut, stranded>>

(* A Begin of either kind first cancels the pick before it (cancel_picker). *)
CancelPicker == picker' = 0 /\ picked' = 0 /\ barrier' = Released(picked)

(* Until a clean Begin everything is discarded; a pick that ends has read. *)
Discard ==
  /\ awaiting
  /\ \E phase \in Phases \ {"begin"}, temporary \in BOOLEAN :
       /\ Taking(phase, temporary)
       /\ barrier' = IF phase = "end" /\ temporary THEN Released(First.gesture) ELSE barrier
  /\ UNCHANGED <<active, awaiting, picker, picked, unsettled, spoiled, closed>>

(* A pick whose layer changed before it was drained is not begun. *)
BeginPick ==
  /\ Taking("begin", TRUE)
  /\ awaiting' = FALSE /\ active' = 0
  /\ picker' \in {First.gesture, 0} /\ picked' = 0 /\ barrier' = Released(picked)
  /\ UNCHANGED <<unsettled, spoiled, closed>>

(* The pen that leaves the canvas cancels its pick. *)
MovePick ==
  /\ ~awaiting /\ Taking("move", TRUE)
  /\ \/ UNCHANGED <<picker, picked, barrier>>
     \/ CancelPicker
  /\ UNCHANGED <<active, awaiting, unsettled, spoiled, closed>>

(* Fault: a pick that was cancelled before its End keeps the barrier. *)
EndPickFault ==
  /\ ~awaiting /\ Taking("end", TRUE)
  /\ picker' = 0
  /\ picked' = IF picker # 0 THEN First.gesture ELSE picked
  /\ UNCHANGED <<barrier, active, awaiting, unsettled, spoiled, closed>>

EndPick ==
  /\ ~awaiting /\ Taking("end", TRUE)
  /\ picker' = 0
  /\ picked' = IF picker # 0 THEN First.gesture ELSE picked
  /\ barrier' = IF picker # 0 THEN barrier ELSE Released(First.gesture)
  /\ UNCHANGED <<active, awaiting, unsettled, spoiled, closed>>

CancelPick ==
  /\ ~awaiting /\ Taking("cancel", TRUE)
  /\ CancelPicker
  /\ UNCHANGED <<active, awaiting, unsettled, spoiled, closed>>

(* A Begin replaces the stroke that never ended. *)
BeginStroke ==
  /\ Taking("begin", FALSE) /\ CancelPicker
  /\ awaiting' = FALSE /\ active' = First.gesture
  /\ UNCHANGED <<unsettled, spoiled, closed>>

(* A locked layer takes no stroke, and a transparency lock no eraser. *)
RefuseStroke ==
  /\ Taking("begin", FALSE) /\ CancelPicker
  /\ awaiting' \in {awaiting, TRUE} /\ active' = 0
  /\ spoiled' = spoiled \cup {First.gesture}
  /\ UNCHANGED <<unsettled, closed>>

MoveStroke ==
  /\ ~awaiting /\ Taking("move", FALSE)
  /\ UNCHANGED <<active, awaiting, picker, picked, barrier, unsettled, spoiled, closed>>

(* Past the limits of samples or dabs the whole stroke is cancelled. *)
SpoilStroke ==
  /\ ~awaiting /\ active # 0
  /\ Taking("move", FALSE) \/ Taking("end", FALSE)
  /\ active' = 0 /\ awaiting' = TRUE
  /\ spoiled' = spoiled \cup {active}
  /\ UNCHANGED <<picker, picked, barrier, unsettled, closed>>

Closes(end) == closed' = Append(closed, [from |-> active, to |-> end])

EndStroke ==
  /\ ~awaiting /\ Taking("end", FALSE)
  /\ active' = 0
  /\ IF active # 0 THEN Closes(First.gesture) /\ unsettled' = unsettled + 1
     ELSE UNCHANGED <<closed, unsettled>>
  /\ UNCHANGED <<awaiting, picker, picked, barrier, spoiled>>

CancelStroke ==
  /\ ~awaiting /\ Taking("cancel", FALSE)
  /\ active' = 0
  /\ UNCHANGED <<awaiting, picker, picked, barrier, unsettled, spoiled, closed>>

TakeSample ==
  Discard \/ BeginPick \/ MovePick \/ EndPick \/ CancelPick
  \/ BeginStroke \/ RefuseStroke \/ MoveStroke \/ SpoilStroke \/ EndStroke \/ CancelStroke

(* consume_discontinuity, after the samples taken before the loss. Fault:   *)
(* what follows the loss continues the gesture.                             *)
AcknowledgeFault ==
  /\ pc = "samples" /\ batch = <<>>
  /\ pc' = IF retiring THEN "seal" ELSE "adopt"
  /\ lost' = FALSE
  /\ IF lost THEN CancelPicker /\ reading' = FALSE
     ELSE UNCHANGED <<picker, picked, barrier, reading>>
  /\ UNCHANGED <<queue, retry, admitted, picks, paused, skipped, latched, gates, hand, retiring,
                 batch, active, awaiting, job, unsettled, record>>

Acknowledge ==
  /\ pc = "samples" /\ batch = <<>>
  /\ pc' = IF retiring THEN "seal" ELSE "adopt"
  /\ lost' = FALSE
  /\ IF lost THEN CancelPicker /\ reading' = FALSE /\ active' = 0 /\ awaiting' = TRUE
     ELSE UNCHANGED <<picker, picked, barrier, reading, active, awaiting>>
  /\ UNCHANGED <<queue, retry, admitted, picks, paused, skipped, latched, gates, hand, retiring,
                 batch, job, unsettled, record>>

-----------------------------------------------------------------------------
(* Edits between strokes *)

(* try_pause_for_edit. Fault: only the pen in hand is asked about. *)
CanPauseFault == ~closing /\ ~admitted

CanPause == ~closing /\ ~admitted /\ queue = <<>> /\ retry = <<>> /\ ~latched
Idle == job = NoJob /\ active = 0 /\ picker = 0 /\ unsettled = 0

(* adopt_native_edit: the ended pick is read, dropped when its token is     *)
(* stale, or kept for the next frame while the canvas is busy.              *)
AdoptPick ==
  /\ pc = "adopt"
  /\ pc' = "commands"
  /\ \/ picked # 0 /\ Idle /\ CanPause
        /\ job' = Job("pick", picked) /\ paused' = TRUE /\ picked' = 0 /\ barrier' = barrier
     \/ picked # 0
        /\ barrier' = Released(picked) /\ picked' = 0 /\ UNCHANGED <<job, paused>>
     \/ (picked # 0 => ~closing /\ ~(Idle /\ CanPause))
        /\ UNCHANGED <<job, paused, picked, barrier>>
  /\ UNCHANGED <<queue, retry, admitted, picks, skipped, latched, gates, hand, retiring, batch,
                 lost, active, awaiting, reading, picker, unsettled, record>>

(* apply_commands: an edit of the user, which a pick that has ended keeps    *)
(* waiting; Cancel; or nothing                                              *)
RequestEdit ==
  /\ Idle /\ picked = 0 /\ CanPause
  /\ job' = Job("edit", 0) /\ paused' = TRUE
  /\ UNCHANGED <<barrier, active, awaiting, picker, picked, spoiled>>

CancelGesture ==
  /\ active # 0 \/ picker # 0 \/ picked # 0 \/ job.kind = "pick"
  /\ active' = 0 /\ CancelPicker
  /\ awaiting' = TRUE
  /\ spoiled' = spoiled \cup ({active} \ {0})
  /\ UNCHANGED <<job, paused>>

Commands ==
  /\ pc = "commands"
  /\ pc' = "picks"
  /\ \/ RequestEdit
     \/ CancelGesture
     \/ UNCHANGED <<job, paused, barrier, active, awaiting, picker, picked, spoiled>>
  /\ UNCHANGED <<queue, retry, admitted, picks, skipped, latched, gates, hand, retiring, batch,
                 lost, reading, unsettled, accepted, begun, cut, closed, stranded>>

(* poll_artwork again at the end of the frame, for a pick *)
FinishPick ==
  /\ pc = "picks"
  /\ pc' = "poll"
  /\ IF job.kind = "pick" /\ job.answered
     THEN job' = NoJob /\ paused' = FALSE /\ barrier' = Released(job.pick)
     ELSE UNCHANGED <<job, paused, barrier>>
  /\ UNCHANGED <<queue, retry, admitted, picks, skipped, latched, gates, hand, retiring, batch,
                 lost, active, awaiting, reading, picker, picked, unsettled, record>>

-----------------------------------------------------------------------------
(* seal_active_for_shutdown, after the last drain *)
SealStroke ==
  /\ active' = 0
  /\ IF active # 0 /\ ~awaiting THEN Closes(active) ELSE UNCHANGED closed

(* reset_for_project_activation, for the project that opens next *)
Reset ==
  /\ queue' = <<>> /\ retry' = <<>> /\ admitted' = FALSE /\ picks' = FALSE /\ barrier' = 0
  /\ paused' = FALSE /\ skipped' = FALSE /\ latched' = FALSE
  /\ stranded' = FALSE

(* activate_project when the picture of the old project could not be saved:  *)
(* that project opens again on the lane as it was left, but for the pause.   *)
Resumed ==
  /\ barrier' = Released(picked) /\ paused' = FALSE
  /\ stranded' = (picks \/ barrier' # 0)
  /\ UNCHANGED <<queue, retry, admitted, picks, skipped, latched>>

(* A closing canvas is gone; its project, or the one that takes its place,   *)
(* opens with an owner that knows of nothing before.                         *)
Seal ==
  /\ pc = "seal"
  /\ SealStroke
  /\ picker' = 0 /\ picked' = 0 /\ reading' = FALSE
  /\ \/ closing /\ pc' = "closed" /\ barrier' = Released(picked)
        /\ UNCHANGED <<queue, retry, admitted, picks, paused, skipped, latched, saving, retiring,
                       awaiting, job, unsettled, stranded>>
     \/ ~closing /\ pc' = "poll"
        /\ (Reset \/ Resumed)
        /\ saving' = FALSE /\ retiring' = FALSE
        /\ awaiting' = FALSE /\ job' = NoJob /\ unsettled' = 0
  /\ UNCHANGED <<closing, hand, batch, lost, accepted, begun, cut, spoiled>>

-----------------------------------------------------------------------------
(* The project writer answers the job, and settles the strokes handed to it *)

Answer ==
  /\ job # NoJob /\ ~job.answered
  /\ job' = [job EXCEPT !.answered = TRUE]
  /\ UNCHANGED <<lane, gates, hand, pc, retiring, batch, lost, active, awaiting, reading, picker,
                 picked, unsettled, record>>

Settle ==
  /\ unsettled > 0
  /\ unsettled' = unsettled - 1
  /\ UNCHANGED <<lane, gates, hand, pc, retiring, batch, lost, active, awaiting, reading, picker,
                 picked, job, record>>

-----------------------------------------------------------------------------
Pen == PenDown \/ PenMoves \/ PenUp
Interface == QueueSaveAs \/ BeginClose \/ DeclineSaveAs
Frame == Poll \/ Retire \/ Drain \/ TakeSample \/ Acknowledge \/ AdoptPick \/ Commands
         \/ FinishPick \/ Seal

(* A canvas that has closed takes no further step. *)
Closed == pc = "closed" /\ UNCHANGED vars

Next == Pen \/ Interface \/ Frame \/ Answer \/ Settle \/ Closed
Spec == Init /\ [][Next]_vars

(* The host keeps rendering frames, and the writer's thread keeps running.  *)
(* Nothing is promised of the pen or of the user.                           *)
FairSpec == Spec /\ WF_vars(Frame) /\ WF_vars(Answer) /\ WF_vars(Settle)

-----------------------------------------------------------------------------
(* No drawing gesture whose Begin and End the lane let in is lost: once the *)
(* owner has caught up, exactly those it did not itself cancel have closed, *)
(* whatever was evicted, retried, latched, paused for an edit or closed     *)
(* over on the way.  A gesture closes once at most, and in its turn.        *)
CaughtUp == pc = "closed" \/ (pc = "poll" /\ queue = <<>> /\ retry = <<>>)
Drew(gesture) == \E i \in DOMAIN closed : closed[i].from = gesture
AcceptedGesturesClose ==
  /\ \A i, j \in DOMAIN closed : i < j => closed[i].from < closed[j].from
  /\ CaughtUp => \A gesture \in ToSet(accepted) : Drew(gesture) <=> gesture \notin spoiled

(* A stroke never joins two gestures: when the End of one or the Begin of   *)
(* the next is lost, or refused while an edit runs, nothing that follows is *)
(* drawn onto the first.  A gesture whose End was refused by a Save As that *)
(* was then declined is exempt: nothing closes it but the next gesture.     *)
StrokesAreWholeGestures ==
  \A i \in DOMAIN closed : closed[i].from = closed[i].to \/ closed[i].from \in cut

(* Edits and picks wait for the ink, and the ink for them: while the lane   *)
(* is paused for an edit no sample is on its way and no stroke is being     *)
(* drawn (try_pause_for_edit), and until a pick has been answered no        *)
(* gesture begun after it is in the lane, in the owner's hands or drawn.    *)
Outstanding == {picked, job.pick} \ {0}
Underway == {s.gesture : s \in ToSet(queue) \cup ToSet(retry) \cup ToSet(batch)} \cup {active}
PausedBetweenStrokes ==
  /\ paused => queue = <<>> /\ retry = <<>> /\ batch = <<>> /\ active = 0
  /\ \A pick \in Outstanding : \A gesture \in Underway : gesture <= pick

(* The pen is heard again: whatever holds the lane, an edit, a pick or      *)
(* both, in the end lets go, unless the canvas closes first.  A pick in     *)
(* progress when the old project had to be opened again, its picture        *)
(* unsaved, is exempt by name: the lane goes on waiting for it.             *)
PenIsHeardAgain == Held ~> (~Held \/ pc = "closed" \/ (stranded /\ barrier # 0))
=============================================================================
