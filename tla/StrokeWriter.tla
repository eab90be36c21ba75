---------------------------- MODULE StrokeWriter -----------------------------
(***************************************************************************)
(* The canvas owner and the project writer (apps/desktop/native_canvas):   *)
(* the render thread closes strokes, requests edits and saves, and shows   *)
(* what the writer reports back; the writer thread takes one request at a  *)
(* time from a bounded FIFO, makes it durable and reports.  They share the *)
(* FIFO, a bounded lane of completions, a counter, an export status and a  *)
(* workspace error.  Closing hands the canvas to a thread that drains it   *)
(* all and joins the writer.                                               *)
(*                                                                         *)
(* Strokes are numbered as they close; an edit is the operation 0.         *)
(* Owner:                                                                  *)
(*   pc       the step of the frame, or of the close, that comes next      *)
(*   active   a stroke is being drawn                                      *)
(*   closed   closed_strokes                                               *)
(*   backlog  pending_materializations                                     *)
(*   fatal    input is quarantined                                         *)
(*   newly    this drain closed a stroke (artwork_closed)                  *)
(*   taken    samples of this drain consumed so far                        *)
(*   dirty    the projection's dirty flag                                  *)
(*   saving   pending_save, 0 when there is none                           *)
(*   job      artwork_job and the answer waiting for it                    *)
(*   shown    the operations in cpu_tiles                                  *)
(*   fill     completed_edit: a gesture ended in the closing drain         *)
(*   closing  retirement is Close                                          *)
(* Shared:                                                                 *)
(*   channel, lane, pending, retired   the FIFO, the completions, the      *)
(*            strokes not yet settled, display_retired                     *)
(*   latest, export, error             ExportGenerationGate, the export    *)
(*            status, the workspace error                                  *)
(* Writer:                                                                 *)
(*   at, on   its step and the request in hand                             *)
(*   exit     WorkerExit                                                   *)
(*   durable  the operations of the project file                           *)
(*   png      how many of them the exported image shows                    *)
(*   receipt  last_export, as the number of operations it covers           *)
(* History:                                                                *)
(*   healthy  nothing has failed and retirement found no error             *)
(***************************************************************************)
EXTENDS Naturals, Sequences, FiniteSets, SequencesExt

CONSTANTS
  Backlog,      \* maximum_drain_len: samples of one drain, and the deferred strokes
  Queue,        \* MATERIALIZATION_QUEUE_CAPACITY
  Completions,  \* CLOSED_STROKE_COMPLETION_QUEUE_CAPACITY
  Fails,        \* whether storage and export may fail
  MaxStrokes,   \* bound: strokes drawn
  MaxEdits,     \* bound: edits made durable
  MaxSaves      \* bound: export generations

ASSUME WriterAssumption ==
  /\ {Backlog, Queue, Completions} \subseteq Nat \ {0}
  /\ {MaxStrokes, MaxEdits, MaxSaves} \subseteq Nat
  /\ Fails \in BOOLEAN

VARIABLES
  pc, active, closed, backlog, fatal, newly, taken, dirty, saving, job, shown, fill, closing,
  channel, lane, pending, retired, latest, export, error,
  at, on, exit, durable, png, receipt,
  healthy

input   == <<active, closed, backlog, fatal, newly, taken, fill>>
desk    == <<dirty, saving, job, shown, closing>>
traffic == <<channel, lane, pending, retired>>
report  == <<latest, export, error>>
writer  == <<at, on, exit>>
disk    == <<durable, png, receipt>>
vars == <<pc, input, desk, traffic, report, writer, disk, healthy>>

Edit == 0
NoRequest == [kind |-> "none", n |-> 0]

Request(kind, n) == [kind |-> kind, n |-> n]

(* ArtworkJob and its reply channel *)
NoJob == [state |-> "none", seen |-> <<>>]
Job(state, seen) == [state |-> state, seen |-> seen]

Frame   == {"adopt", "poll", "drain", "flush", "input", "sync", "retry", "settle",
            "commands", "save", "saved"}
Closing == {"last_commands", "retire", "close_flush", "close_drain", "close_input",
            "close_reflush", "seal", "fill", "filled", "reserve", "check", "send",
            "sent", "drop", "join"}

(* A blocking send waits for room or for the receiver to go. *)
Room == Len(channel) < Queue /\ at # "gone"
ReceiverGone == at = "gone"
SenderGone == pc \in {"join", "joined"}

(* The stroke a request carries *)
Number(r) == IF r.kind = "stroke" THEN r.n ELSE Edit

-----------------------------------------------------------------------------
(* Export status *)

Rank(stage) ==
  CASE stage = "idle" -> 0 [] stage = "waiting" -> 1 [] stage = "queued" -> 2
    [] stage = "running" -> 3 [] OTHER -> 4
Status(stage, generation) == [stage |-> stage, generation |-> generation]

(* publish_export_status: progress of one generation, or a newer one *)
Published(incoming) ==
  IF \/ incoming.generation > export.generation
     \/ /\ incoming.generation = export.generation
        /\ Rank(incoming.stage) >= Rank(export.stage)
  THEN incoming ELSE export

(* fail_incomplete_export *)
Abandoned ==
  IF export.stage \in {"waiting", "queued", "running"}
  THEN Status("failed", export.generation) ELSE export

-----------------------------------------------------------------------------
(* Initial state: StrokePipeline::new over a project just opened *)
Init ==
  /\ pc = "adopt"
  /\ active = FALSE /\ closed = 0 /\ backlog = <<>>
  /\ fatal = FALSE /\ newly = FALSE /\ taken = 0 /\ fill = FALSE
  /\ dirty = FALSE /\ saving = 0 /\ job = NoJob /\ shown = <<>> /\ closing = FALSE
  /\ channel = <<>> /\ lane = <<>> /\ pending = 0 /\ retired = FALSE
  /\ latest = 0 /\ export = Status("idle", 0) /\ error = FALSE
  /\ at = "idle" /\ on = NoRequest /\ exit = "running"
  /\ durable = <<>> /\ png = 0 /\ receipt = 0
  /\ healthy = TRUE

-----------------------------------------------------------------------------
(* A frame: adopt, poll, drain, settle, commands, save *)

(* apply_materialized_tiles *)
Adopt ==
  /\ pc = "adopt"
  /\ pc' = "poll"
  /\ shown' = shown \o lane
  /\ lane' = <<>>
  /\ UNCHANGED <<input, dirty, saving, job, closing, channel, pending, retired, report,
                 writer, disk, healthy>>

(* poll_artwork: a reply, none yet, or a worker that is gone *)
PollDone ==
  /\ job.state = "done"
  /\ job' = NoJob
  /\ shown' = job.seen
  /\ dirty' = TRUE
  /\ error' = error

PollRejected ==
  /\ job.state = "rejected"
  /\ job' = NoJob
  /\ UNCHANGED <<shown, dirty, error>>

PollFatal ==
  /\ job.state = "fatal" \/ (job.state = "queued" /\ ReceiverGone)
  /\ error' = TRUE
  /\ UNCHANGED <<job, shown, dirty>>

PollNothing ==
  /\ job.state = "none" \/ (job.state = "queued" /\ ~ReceiverGone)
  /\ UNCHANGED <<job, shown, dirty, error>>

Poll ==
  /\ pc = "poll"
  /\ pc' = "drain"
  /\ PollDone \/ PollRejected \/ PollFatal \/ PollNothing
  /\ UNCHANGED <<input, saving, closing, traffic, latest, export, writer, disk, healthy>>

(* The head of drain: a latched error quarantines input and cancels the stroke. *)
StartDrain ==
  /\ \/ pc = "drain" /\ pc' = "flush"
     \/ pc = "close_drain" /\ pc' = "close_input"
  /\ fatal' = (fatal \/ error)
  /\ active' = (active /\ ~error)
  /\ newly' = FALSE
  /\ taken' = 0
  /\ UNCHANGED <<closed, backlog, fill, desk, traffic, report, writer, disk, healthy>>

(* flush_pending_materializations, at the head of drain and again after it *)
FlushOne ==
  /\ pc \in {"flush", "retry"}
  /\ backlog # <<>> /\ Room
  /\ channel' = Append(channel, Request("stroke", Head(backlog)))
  /\ pending' = pending + 1
  /\ backlog' = Tail(backlog)
  /\ UNCHANGED <<pc, active, closed, fatal, newly, taken, fill, desk, lane, retired, report,
                 writer, disk, healthy>>

FlushDone ==
  /\ backlog = <<>> \/ ~Room
  /\ \/ pc = "flush" /\ pc' = "input"
     \/ pc = "retry" /\ pc' = "settle"
  /\ UNCHANGED <<input, desk, traffic, report, writer, disk, healthy>>

-----------------------------------------------------------------------------
(* The samples of a drain, in a frame and in the close.  Input is paused    *)
(* while a job is out, so none begins then.                                 *)

Draining ==
  /\ pc \in {"input", "close_input"} /\ ~fatal
  /\ taken < Backlog
  /\ taken' = taken + 1

(* A Begin replaces a stroke that never ended. *)
BeginStroke ==
  /\ Draining /\ job = NoJob
  /\ closed < MaxStrokes
  /\ Len(backlog) < Backlog
  /\ active' = TRUE
  /\ UNCHANGED <<pc, closed, backlog, fatal, newly, fill, desk, traffic, report, writer,
                 disk, healthy>>

(* A Begin on a full backlog stops drawing: fail_closed. *)
BeginRefused ==
  /\ Draining /\ job = NoJob
  /\ closed < MaxStrokes
  /\ Len(backlog) >= Backlog
  /\ error' = TRUE
  /\ fatal' = TRUE
  /\ active' = FALSE
  /\ UNCHANGED <<pc, closed, backlog, newly, fill, desk, traffic, latest, export, writer,
                 disk, healthy>>

(* Fault: a writer slot is taken although older strokes wait. *)
EndStrokeFault ==
  /\ Draining /\ active
  /\ active' = FALSE
  /\ closed' = closed + 1
  /\ newly' = TRUE
  /\ IF Room
     THEN /\ channel' = Append(channel, Request("stroke", closed + 1))
          /\ pending' = pending + 1
          /\ backlog' = backlog
     ELSE /\ backlog' = Append(backlog, closed + 1)
          /\ UNCHANGED <<channel, pending>>
  /\ UNCHANGED <<pc, fatal, fill, desk, lane, retired, report, writer, disk, healthy>>

(* queue_closed_stroke: into the FIFO if no older stroke waits and it has   *)
(* room, deferred otherwise.  A stroke past its own limits is cancelled.    *)
EndStroke ==
  /\ Draining /\ active
  /\ active' = FALSE
  /\ closed' = closed + 1
  /\ newly' = TRUE
  /\ IF backlog = <<>> /\ Room
     THEN /\ channel' = Append(channel, Request("stroke", closed + 1))
          /\ pending' = pending + 1
          /\ backlog' = backlog
     ELSE /\ backlog' = Append(backlog, closed + 1)
          /\ UNCHANGED <<channel, pending>>
  /\ UNCHANGED <<pc, fatal, fill, desk, lane, retired, report, writer, disk, healthy>>

(* Cancel, a discontinuity or a stroke past its limits *)
CancelStroke ==
  /\ Draining /\ active
  /\ active' = FALSE
  /\ UNCHANGED <<pc, closed, backlog, fatal, newly, fill, desk, traffic, report, writer,
                 disk, healthy>>

(* The End of an editing gesture that only the close drains *)
EndGesture ==
  /\ Draining /\ pc = "close_input" /\ job = NoJob
  /\ fill' = TRUE
  /\ active' = FALSE
  /\ UNCHANGED <<pc, closed, backlog, fatal, newly, desk, traffic, report, writer, disk,
                 healthy>>

StopInput ==
  /\ \/ pc = "input" /\ pc' = "sync"
     \/ pc = "close_input" /\ pc' = "close_reflush"
  /\ taken' = 0
  /\ UNCHANGED <<active, closed, backlog, fatal, newly, fill, desk, traffic, report, writer,
                 disk, healthy>>

(* synchronize_workspace_failure *)
Synchronize ==
  /\ fatal' = TRUE
  /\ active' = FALSE
  /\ dirty' = TRUE
  /\ export' = Abandoned

(* After the drain a failure ends the frame, or the retry follows. *)
Sync ==
  /\ pc = "sync"
  /\ IF error THEN pc' = "adopt" /\ Synchronize
     ELSE pc' = "retry" /\ UNCHANGED <<fatal, active, dirty, export>>
  /\ UNCHANGED <<closed, backlog, newly, taken, fill, saving, job, shown, closing, traffic, latest,
                 error, writer, disk, healthy>>

(* publish_closed_stroke_dirty and the second apply_materialized_tiles *)
Settle ==
  /\ pc = "settle"
  /\ pc' = "commands"
  /\ dirty' = (dirty \/ newly)
  /\ shown' = shown \o lane
  /\ lane' = <<>>
  /\ UNCHANGED <<input, saving, job, closing, channel, pending, retired, report, writer,
                 disk, healthy>>

-----------------------------------------------------------------------------
(* Commands, in a frame and once more in begin_close.  Each is rejected     *)
(* after a workspace error.                                                 *)

Commanding == pc \in {"commands", "last_commands"} /\ ~error

(* Fault: strokes the writer has not settled are not waited for. *)
IdleFault ==
  /\ export.stage \notin {"queued", "running"}
  /\ job = NoJob /\ ~active /\ backlog = <<>>

(* ensure_artwork_command_idle and ensure_pixel_state_idle *)
Idle ==
  /\ export.stage \notin {"queued", "running"}
  /\ job = NoJob /\ ~active /\ backlog = <<>>
  /\ pending = 0

(* enqueue_edit: what has completed is shown first; then the edit is        *)
(* rejected as stale if that changed the projection, or enqueued.           *)
RequestEdit ==
  /\ Commanding /\ Idle
  /\ Cardinality({i \in DOMAIN durable : durable[i] = Edit}) < MaxEdits
  /\ shown' = shown \o lane
  /\ lane' = <<>>
  /\ \/ lane # <<>> /\ UNCHANGED <<job, channel>>
     \/ /\ Room
        /\ channel' = Append(channel, Request("edit", Edit))
        /\ job' = Job("queued", <<>>)
  /\ UNCHANGED <<pc, input, dirty, saving, closing, pending, retired, report, writer,
                 disk, healthy>>

(* reserve_export: an accepted generation supersedes every older one. *)
Reserve ==
  /\ latest' = latest + 1
  /\ saving' = latest + 1
  /\ export' = Published(Status("waiting", latest + 1))

(* ProjectCommand::Save *)
Save ==
  /\ Commanding /\ Reserve
  /\ latest + 1 < MaxSaves            \* bound: one generation is left for the close
  /\ UNCHANGED <<pc, input, dirty, job, shown, closing, traffic, error, writer, disk,
                 healthy>>

EndCommands ==
  /\ pc = "commands"
  /\ IF error THEN pc' = "adopt" /\ Synchronize
     ELSE pc' = "save" /\ UNCHANGED <<fatal, active, dirty, export>>
  /\ UNCHANGED <<closed, backlog, newly, taken, fill, saving, job, shown, closing, traffic, latest,
                 error, writer, disk, healthy>>

(* Fault: a save does not wait for the strokes that wait. *)
CanFlushSaveFault == saving # 0 /\ job = NoJob /\ ~active

CanFlushSave == saving # 0 /\ job = NoJob /\ ~active /\ backlog = <<>>

(* flush_pending_save: the FIFO now holds every stroke this image shows. *)
FlushSave ==
  /\ pc = "save" /\ CanFlushSave
  /\ IF ReceiverGone
     THEN /\ pc' = "adopt"
          /\ saving' = 0
          /\ export' = Published(Status("failed", saving))
          /\ UNCHANGED <<dirty, channel>>
     ELSE /\ Room
          /\ pc' = "saved"
          /\ channel' = Append(channel, Request("export", saving))
          /\ dirty' = FALSE
          /\ UNCHANGED <<saving, export>>
  /\ UNCHANGED <<input, job, shown, closing, lane, pending, retired, latest, error, writer,
                 disk, healthy>>

(* The status follows the send, so it may come after the worker's own. *)
SaveQueued ==
  /\ \/ pc = "saved" /\ pc' = "adopt"
     \/ pc = "sent" /\ pc' = "drop"
  /\ saving' = 0
  /\ export' = Published(Status("queued", saving))
  /\ UNCHANGED <<input, dirty, job, shown, closing, traffic, latest, error, writer, disk,
                 healthy>>

SaveWaits ==
  /\ pc = "save"
  /\ ~CanFlushSave \/ (~ReceiverGone /\ ~Room)
  /\ pc' = "adopt"
  /\ UNCHANGED <<input, desk, traffic, report, writer, disk, healthy>>

-----------------------------------------------------------------------------
(* Retirement of the canvas *)

(* begin_close runs the commands admitted before it and then drops the      *)
(* canvas on a thread of its own; a suspension only drops it.               *)
BeginClose ==
  /\ pc = "adopt"
  /\ \/ closing' = TRUE /\ pc' = "last_commands"
     \/ closing' = FALSE /\ pc' = "retire"
  /\ UNCHANGED <<input, dirty, saving, job, shown, traffic, report, writer, disk, healthy>>

EndLastCommands ==
  /\ pc = "last_commands"
  /\ pc' = "retire"
  /\ UNCHANGED <<input, desk, traffic, report, writer, disk, healthy>>

(* prepare_shutdown first waives display delivery. *)
Retire ==
  /\ pc = "retire"
  /\ pc' = "close_flush"
  /\ retired' = TRUE
  /\ healthy' = (healthy /\ ~error)
  /\ UNCHANGED <<input, desk, channel, lane, pending, report, writer, disk>>

(* Fault: a send that found no receiver is tried again. *)
CloseFlushFault ==
  /\ pc \in {"close_flush", "close_reflush"}
  /\ backlog # <<>>
  /\ \/ /\ Room
        /\ backlog' = Tail(backlog)
        /\ channel' = Append(channel, Request("stroke", Head(backlog)))
        /\ pending' = pending + 1
     \/ ReceiverGone /\ UNCHANGED <<backlog, channel, pending>>
  /\ UNCHANGED <<pc, active, closed, fatal, newly, taken, fill, desk, lane, retired, report,
                 writer, disk, healthy>>

(* Blocking sends of the backlog, before the last drain and after it; one   *)
(* that finds no receiver ends them.                                        *)
CloseFlush ==
  /\ pc \in {"close_flush", "close_reflush"}
  /\ backlog # <<>>
  /\ backlog' = Tail(backlog)
  /\ \/ /\ Room
        /\ channel' = Append(channel, Request("stroke", Head(backlog)))
        /\ pending' = pending + 1
        /\ pc' = pc
     \/ /\ ReceiverGone
        /\ pc' = IF pc = "close_flush" THEN "close_drain" ELSE "seal"
        /\ UNCHANGED <<channel, pending>>
  /\ UNCHANGED <<active, closed, fatal, newly, taken, fill, desk, lane, retired, report, writer,
                 disk, healthy>>

CloseFlushed ==
  /\ backlog = <<>>
  /\ \/ pc = "close_flush" /\ pc' = "close_drain"
     \/ pc = "close_reflush" /\ pc' = "seal"
  /\ UNCHANGED <<input, desk, traffic, report, writer, disk, healthy>>

(* seal_active_for_shutdown: a synthetic End at the last sample, sent       *)
(* blocking.  One past the recording limits is an error.                    *)
SealActive ==
  /\ ~fatal
  /\ closed' = closed + 1
  /\ \/ /\ Room
        /\ channel' = Append(channel, Request("stroke", closed + 1))
        /\ pending' = pending + 1
        /\ UNCHANGED error
     \/ /\ ReceiverGone
        /\ error' = TRUE
        /\ UNCHANGED <<channel, pending>>

SealRefused ==
  /\ ~fatal /\ Fails
  /\ error' = TRUE
  /\ UNCHANGED <<closed, channel, pending>>

(* Fault: the stroke being drawn is dropped with the canvas. *)
SealFault ==
  /\ pc = "seal" /\ active
  /\ pc' = "fill"
  /\ UNCHANGED <<input, desk, traffic, report, writer, disk, healthy>>

Seal ==
  /\ pc = "seal" /\ active
  /\ pc' = "fill"
  /\ active' = FALSE
  /\ \/ SealActive /\ healthy' = healthy
     \/ SealRefused /\ healthy' = FALSE
     \/ fatal /\ UNCHANGED <<closed, channel, pending, error, healthy>>
  /\ UNCHANGED <<backlog, fatal, newly, taken, fill, desk, lane, retired, latest, export, writer,
                 disk>>

NothingToSeal ==
  /\ pc = "seal" /\ ~active
  /\ pc' = "fill"
  /\ UNCHANGED <<input, desk, traffic, report, writer, disk, healthy>>

(* The closing edit goes out behind every stroke, and its answer is awaited. *)
SendFill ==
  /\ pc = "fill" /\ fill
  /\ fill' = FALSE
  /\ \/ /\ Room
        /\ channel' = Append(channel, Request("edit", Edit))
        /\ job' = Job("queued", <<>>)
        /\ pc' = "filled"
        /\ error' = error
     \/ /\ ReceiverGone
        /\ pc' = "reserve"
        /\ error' = TRUE
        /\ UNCHANGED <<job, channel>>
  /\ UNCHANGED <<active, closed, backlog, fatal, newly, taken, dirty, saving, shown, closing, lane,
                 pending, retired, latest, export, writer, disk, healthy>>

NothingToFill ==
  /\ pc = "fill" /\ ~fill
  /\ pc' = "reserve"
  /\ UNCHANGED <<input, desk, traffic, report, writer, disk, healthy>>

Filled ==
  /\ pc = "filled"
  /\ job.state # "queued" \/ ReceiverGone
  /\ pc' = "reserve"
  /\ job' = NoJob
  /\ error' = (error \/ job.state # "done")
  /\ healthy' = (healthy /\ job.state # "rejected")
  /\ UNCHANGED <<input, dirty, saving, shown, closing, traffic, latest, export, writer, disk>>

(* The export of the close: the save still waiting, or a new one *)
ReserveClosing ==
  /\ pc = "reserve" /\ saving = 0 /\ closing
  /\ Reserve
  /\ pc' = "check"
  /\ UNCHANGED <<input, dirty, job, shown, closing, traffic, error, writer, disk, healthy>>

NothingToReserve ==
  /\ pc = "reserve"
  /\ saving # 0 \/ ~closing
  /\ pc' = IF saving # 0 THEN "check" ELSE "drop"
  /\ UNCHANGED <<input, desk, traffic, report, writer, disk, healthy>>

CheckClosing ==
  /\ pc = "check"
  /\ IF error THEN pc' = "drop" /\ export' = Abandoned
     ELSE pc' = "send" /\ UNCHANGED export
  /\ UNCHANGED <<input, desk, traffic, latest, error, writer, disk, healthy>>

SendClosing ==
  /\ pc = "send"
  /\ \/ /\ Room
        /\ channel' = Append(channel, Request("closing_export", saving))
        /\ pc' = "sent"
        /\ UNCHANGED export
     \/ /\ ReceiverGone
        /\ export' = Published(Status("failed", saving))
        /\ pc' = "drop"
        /\ UNCHANGED channel
  /\ UNCHANGED <<input, desk, lane, pending, retired, latest, error, writer, disk, healthy>>

(* Drop of MaterializationWorker: the sender goes, then the thread is joined. *)
DropSender ==
  /\ pc = "drop"
  /\ pc' = "join"
  /\ UNCHANGED <<input, desk, traffic, report, writer, disk, healthy>>

Join ==
  /\ pc = "join" /\ at = "gone"
  /\ pc' = "joined"
  /\ error' = (error \/ exit # "drained" \/ pending # 0)
  /\ UNCHANGED <<input, desk, traffic, latest, export, writer, disk, healthy>>

Joined == pc = "joined" /\ UNCHANGED vars

-----------------------------------------------------------------------------
(* The writer: materialization_loop *)

Receive ==
  /\ at = "idle" /\ channel # <<>>
  /\ on' = Head(channel)
  /\ channel' = Tail(channel)
  /\ at' = IF on'.kind = "closing_export" THEN "export" ELSE on'.kind
  /\ UNCHANGED <<pc, input, desk, lane, pending, retired, report, exit, disk, healthy>>

HangUp ==
  /\ at = "idle" /\ channel = <<>> /\ SenderGone
  /\ at' = "stopped"
  /\ exit' = "drained"
  /\ UNCHANGED <<pc, input, desk, traffic, report, on, disk, healthy>>

(* Its transaction and the session; a stroke that touched no tile settles   *)
(* without one.                                                             *)
CommitStroke ==
  /\ at = "stroke"
  /\ durable' = Append(durable, on.n)
  /\ at' = "publish"
  /\ UNCHANGED <<pc, input, desk, traffic, report, on, exit, png, receipt, healthy>>

(* The drawing fails, or the transaction, or the session after it. *)
StrokeFails ==
  /\ at = "stroke" /\ Fails
  /\ error' = TRUE
  /\ pending' = pending - 1
  /\ at' = "stopped" /\ exit' = "failstop" /\ on' = NoRequest
  /\ durable' \in {durable, Append(durable, on.n)}
  /\ healthy' = FALSE
  /\ UNCHANGED <<pc, input, desk, channel, lane, retired, latest, export, png, receipt>>

(* publish_closed_completion never waits: a retired display needs nothing,  *)
(* and the lane has room or was full at the attempt.                        *)
Publish ==
  /\ at = "publish"
  /\ IF retired \/ Len(lane) >= Completions
     THEN /\ at' = IF retired THEN "settle" ELSE "full"
          /\ UNCHANGED lane
     ELSE /\ at' = "settle"
          /\ lane' = Append(lane, on.n)
  /\ UNCHANGED <<pc, input, desk, channel, pending, retired, report, on, exit, disk, healthy>>

(* A full lane fail-stops the writer unless the display retired meanwhile. *)
PublishFull ==
  /\ at = "full"
  /\ IF retired
     THEN at' = "settle" /\ UNCHANGED <<exit, on, error, pending>>
     ELSE /\ error' = TRUE
          /\ pending' = pending - 1
          /\ at' = "stopped" /\ exit' = "failstop" /\ on' = NoRequest
  /\ UNCHANGED <<pc, input, desk, channel, lane, retired, latest, export, disk, healthy>>

(* Only now is the stroke no longer pending. *)
SettleStroke ==
  /\ at = "settle"
  /\ pending' = pending - 1
  /\ at' = "idle" /\ on' = NoRequest
  /\ UNCHANGED <<pc, input, desk, channel, lane, retired, report, exit, disk, healthy>>

EditCommits ==
  /\ at = "edit"
  /\ durable' = Append(durable, Edit)
  /\ job' = Job("done", durable')
  /\ at' = "idle" /\ on' = NoRequest
  /\ UNCHANGED <<pc, input, dirty, saving, shown, closing, traffic, report, exit, png,
                 receipt, healthy>>

EditRejected ==
  /\ at = "edit"
  /\ job' = Job("rejected", <<>>)
  /\ at' = "idle" /\ on' = NoRequest
  /\ UNCHANGED <<pc, input, dirty, saving, shown, closing, traffic, report, exit, disk,
                 healthy>>

(* A fatal answer.  Pixel edits publish the error themselves; mask,         *)
(* animation and layer requests leave it to the owner that reads the answer.*)
EditFails ==
  /\ at = "edit" /\ Fails
  /\ job' = Job("fatal", <<>>)
  /\ error' \in {error, TRUE}
  /\ durable' \in {durable, Append(durable, Edit)}
  /\ at' = "stopped" /\ exit' = "failstop" /\ on' = NoRequest
  /\ healthy' = FALSE
  /\ UNCHANGED <<pc, input, dirty, saving, shown, closing, traffic, latest, export, png,
                 receipt>>

(* A superseded export is skipped; the close reuses an image that is current. *)
StartExport ==
  /\ at = "export"
  /\ IF on.n # latest
     THEN at' = "idle" /\ on' = NoRequest /\ UNCHANGED export
     ELSE IF on.kind = "closing_export" /\ receipt = Len(durable) /\ receipt # 0
     THEN /\ at' = "idle" /\ on' = NoRequest
          /\ export' = Published(Status("current", on.n))
     ELSE /\ at' = "encoding" /\ on' = on
          /\ export' = Published(Status("running", on.n))
  /\ UNCHANGED <<pc, input, desk, traffic, latest, error, exit, disk, healthy>>

(* The generation is asked for again under the lock that replaces the file. *)
ReplaceImage ==
  /\ at = "encoding"
  /\ IF on.n = latest
     THEN at' = "replaced" /\ png' = Len(durable) /\ on' = on
     ELSE at' = "idle" /\ on' = NoRequest /\ UNCHANGED png
  /\ UNCHANGED <<pc, input, desk, traffic, report, exit, durable, receipt, healthy>>

ExportFails ==
  /\ at = "encoding" /\ Fails
  /\ export' = Published(Status("failed", on.n))
  /\ at' = "idle" /\ on' = NoRequest
  /\ healthy' = FALSE
  /\ UNCHANGED <<pc, input, desk, traffic, latest, error, exit, disk>>

ReportImage ==
  /\ at = "replaced"
  /\ receipt' = Len(durable)
  /\ export' = Published(Status("current", on.n))
  /\ at' = "idle" /\ on' = NoRequest
  /\ UNCHANGED <<pc, input, desk, traffic, latest, error, exit, durable, png, healthy>>

(* finish_materialization_worker; the receiver goes with the thread after it. *)
Finish ==
  /\ at = "stopped"
  /\ at' = "finished"
  /\ export' = IF exit = "failstop" THEN Abandoned ELSE export
  /\ UNCHANGED <<pc, input, desk, traffic, latest, error, on, exit, disk, healthy>>

Vanish ==
  /\ at = "finished"
  /\ at' = "gone"
  /\ channel' = <<>>
  /\ UNCHANGED <<pc, input, desk, lane, pending, retired, report, on, exit, disk, healthy>>

-----------------------------------------------------------------------------
Drain == BeginStroke \/ BeginRefused \/ EndStroke \/ CancelStroke \/ EndGesture

Rendering ==
  \/ Adopt \/ Poll \/ StartDrain \/ FlushOne \/ FlushDone \/ Drain \/ StopInput \/ Sync
  \/ Settle \/ RequestEdit \/ Save \/ EndCommands \/ FlushSave \/ SaveQueued \/ SaveWaits

Retiring ==
  \/ BeginClose \/ EndLastCommands \/ Retire \/ CloseFlush \/ CloseFlushed \/ Seal
  \/ NothingToSeal \/ SendFill \/ NothingToFill \/ Filled \/ ReserveClosing
  \/ NothingToReserve \/ CheckClosing \/ SendClosing \/ DropSender \/ Join \/ Joined

Writing ==
  \/ Receive \/ HangUp \/ CommitStroke \/ StrokeFails \/ Publish \/ PublishFull
  \/ SettleStroke \/ EditCommits \/ EditRejected \/ EditFails \/ StartExport
  \/ ReplaceImage \/ ExportFails \/ ReportImage \/ Finish \/ Vanish

Next == Rendering \/ Retiring \/ Writing
Spec == Init /\ [][Next]_vars

(* The close thread runs on, and so does the writer; the raw samples of the *)
(* last drain are finitely many.                                            *)
CloseStep ==
  /\ pc \in Closing
  /\ StartDrain \/ StopInput \/ SaveQueued \/ Retiring
FairSpec == Spec /\ WF_vars(CloseStep) /\ WF_vars(Writing)

-----------------------------------------------------------------------------
(* Properties *)

Lost == exit = "failstop"

(* The strokes of a line are those after first up to last, in this order;   *)
(* what stands between them is no stroke.                                   *)
Carries(line, first, last) ==
  /\ {line[i] : i \in DOMAIN line} \ {Edit} = first + 1 .. last
  /\ \A i, j \in DOMAIN line :
       i < j /\ Edit \notin {line[i], line[j]} => line[i] < line[j]

(* What the owner has closed, in the order it will be made durable *)
Line ==
  durable \o (IF at = "stroke" THEN <<on.n>> ELSE <<>>)
    \o [i \in DOMAIN channel |-> Number(channel[i])] \o backlog

(* Every closed stroke is in the project, in the writer's hands or waiting,  *)
(* in the order the strokes closed, whatever slot frees while a drain runs;  *)
(* and a writer that stops leaves no gap in the project.  A stroke being     *)
(* drawn has a place to wait when it ends (defer_materialization asserts it). *)
StrokesSettleInOrder ==
  /\ \E n \in 0..closed : Carries(durable, 0, n)
  /\ ~Lost => Carries(Line, 0, closed)
  /\ active => Len(backlog) < Backlog

(* The canvas shows the project as it was at some earlier moment, never a    *)
(* completion on top of an edit that came after it; and the writer applies   *)
(* an edit to exactly the artwork the owner showed when it was asked for: no *)
(* stroke is settled in between.                                             *)
ShownIsDurable ==
  /\ IsPrefix(shown \o lane, durable)
  /\ (at = "edit" /\ pc \in Frame) => shown = durable

(* An artwork that is not dirty, and whose latest save is reported current,  *)
(* is the one in the image.                                                  *)
CleanMeansExported ==
  (/\ pc = "adopt" /\ ~dirty /\ ~error /\ job = NoJob
   /\ export = Status("current", latest))
    => Carries(durable, 0, closed) /\ png = Len(durable)

(* A close without an error has made every stroke durable, the one being     *)
(* drawn included, and its image is the last; and a close that finds a       *)
(* healthy project, with no failure after that, reports no error: a lane the *)
(* owner no longer reads cannot stop the writer.                             *)
CloseLosesNothing ==
  /\ (pc = "joined" /\ ~error)
    => /\ ~active
       /\ Carries(durable, 0, closed)
       /\ (closing /\ export.stage = "current") => png = Len(durable)
  /\ (pc = "joined" /\ healthy)
    => ~error /\ (closing => export = Status("current", latest))

(* Once retirement has begun it ends, with a writer joined, however full the *)
(* lane and the FIFO are and whether or not the writer still runs.           *)
CloseCompletes == pc = "retire" ~> pc = "joined"
=============================================================================
