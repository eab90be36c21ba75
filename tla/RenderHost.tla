------------------------------- MODULE RenderHost -------------------------------
(***************************************************************************)
(* The desktop window and its render actor (desktop_canvas, render_host,   *)
(* native_canvas::SharedGpuCanvas, save_as).  The window's thread admits   *)
(* work and asks; the actor owns the canvas and opens, closes, copies and  *)
(* retires it, in batches; a close and a Save As drain the canvas on       *)
(* threads of their own while the window goes on.                          *)
(*   ink       LiveInkBridge: closing, retiring, saving (saving_as), path, *)
(*             status (CloseStatus), broken (the fatal quarantine), export *)
(*             (the PNG failed), shown (the project of the last frame)     *)
(*   posted    window messages not handled yet                             *)
(*   inbox     ActivationInbox                                             *)
(*   window    open or gone; restart: an update waits for the close;       *)
(*             confirming: confirm_failed_close saw a failure              *)
(*   pend      RenderHost's Pending; batch what the actor took of it       *)
(*   actor     off, waiting, its place in a batch, dying, told, finished   *)
(*   closing   the actor's own flag                                        *)
(*   canvas    active, suspended or failed, for the project at location    *)
(*   closer, saver   the close worker and the Save As worker               *)
(*   lanes, drawn    work admitted, and taken by the canvas                *)
(*   disk      what each path's project and image hold                     *)
(* History: made, asked (how much was done so far), answered (requests     *)
(* opened or told refused), reported (work lost by a failure that was      *)
(* shown), died (the actor ended by itself).                               *)
(* A piece of work is [project, n]; a file holds a set of work, None or    *)
(* Foreign, what another process put there.                                *)
(***************************************************************************)
EXTENDS Naturals, Sequences

CONSTANTS
  Paths,           \* project paths
  Start,           \* the project opened at start
  Existing,        \* the paths that hold a project at the beginning
  Openable,        \* the paths the user opens
  Capacity,        \* ACTIVATION_CAPACITY and MAX_PENDING_ACTIVATIONS
  None, Foreign,
  Faults,          \* what may go wrong: "drain", "export", "open", "copy",
                   \* "panic", "start", "update", "foreign"
  MaxWork, MaxAsks, MaxReopens   \* bounds: work, requests of any kind, reopenings

(* A piece of work, and what a project or an image may hold. *)
Works == [project : Paths, n : 1..MaxWork]

ASSUME HostAssumption ==
  /\ Start \in Existing /\ Existing \subseteq Paths /\ Openable \subseteq Paths
  /\ Capacity \in Nat \ {0} /\ MaxWork \in Nat
  /\ None # Foreign /\ None \notin Paths /\ \A W \in SUBSET Works : W # None /\ W # Foreign

VARIABLES
  ink, posted, inbox, window, restart, confirming, pend, batch, actor, closing,
  canvas, location, closer, saver, lanes, drawn, disk,
  made, asked, answered, reported, died

user    == <<made, asked>>
inputs  == <<posted, inbox, window, restart, confirming>>
work    == <<lanes, drawn, reported>>
scene   == <<canvas, location>>
workers == <<closer, saver>>
vars    == <<ink, inputs, pend, batch, actor, closing, scene, workers, work, disk, user,
             answered, died>>

-----------------------------------------------------------------------------
(* LiveInkBridge.                                                           *)
IsClosing == ink.closing \/ ink.retiring

(* Nothing of the former document crosses this boundary but work that was   *)
(* drained; what the lanes still hold is gone.                              *)
Reset(bridge) == [bridge EXCEPT !.broken = FALSE, !.export = FALSE, !.shown = None]

Broken(bridge) == [bridge EXCEPT !.broken = TRUE]

BeginClose(bridge) ==
  IF bridge.saving \/ bridge.closing THEN bridge
  ELSE [bridge EXCEPT !.closing = TRUE, !.status = "saving"]

(* publish_close_result *)
CloseResult(bridge) ==
  [bridge EXCEPT !.status = IF bridge.broken \/ bridge.export THEN "failed" ELSE "ready"]

Finish(bridge) == [bridge EXCEPT !.saving = FALSE]

NoWork == [wake |-> FALSE, close |-> FALSE, reopen |-> FALSE, saveAs |-> FALSE,
           retire |-> FALSE, activations |-> <<>>]

NoSave == [step |-> "none", source |-> None, target |-> None]

Wake(pending) == [pending EXCEPT !.wake = TRUE]

Retiring(bridge) == [bridge EXCEPT !.retiring = TRUE, !.closing = TRUE]

-----------------------------------------------------------------------------
(* The window's thread, which confirm_failed_close keeps busy.              *)
Attends == window = "open" /\ ~confirming

(* Bound: nothing new is asked for after the actor ended by itself.         *)
MayAsk == made.asks < MaxAsks /\ ~died

Ask == MayAsk /\ made' = [made EXCEPT !.asks = @ + 1]

Admit ==
  /\ Attends /\ made.work < MaxWork
  /\ ~IsClosing /\ ~ink.saving /\ ~ink.broken /\ ink.shown # None
  /\ lanes' = lanes \cup {[project |-> ink.shown, n |-> made.work + 1]}
  /\ made' = [made EXCEPT !.work = @ + 1]
  /\ pend' = Wake(pend)
  /\ UNCHANGED <<ink, inputs, batch, actor, closing, scene, workers, drawn, reported, disk,
                 asked, answered, died>>

(* The file dialog refuses while closing or full; the pipe's listener drops  *)
(* what does not fit.                                                        *)
Request(path) ==
  /\ Attends /\ Ask
  /\ ~IsClosing /\ Len(inbox) < Capacity
  /\ asked' = Append(asked, path) /\ inbox' = Append(inbox, Len(asked'))
  /\ posted' = posted \cup {"activation"}
  /\ UNCHANGED <<ink, window, restart, confirming, pend, batch, actor, closing, scene,
                 workers, work, disk, answered, died>>

ActivationClosed == pend.retire \/ pend.close \/ Len(pend.activations) >= Capacity

ProcessActivation ==
  /\ "activation" \in posted /\ Attends
  /\ IF inbox = <<>> THEN posted' = posted \ {"activation"} /\ UNCHANGED <<inbox, pend, answered>>
     ELSE /\ inbox' = Tail(inbox) /\ UNCHANGED posted
          /\ IF IsClosing \/ ink.saving \/ ActivationClosed
             THEN answered' = answered \cup {Head(inbox)} /\ UNCHANGED pend
             ELSE /\ pend' = [Wake(pend) EXCEPT !.activations = Append(@, Head(inbox))]
                  /\ UNCHANGED answered
  /\ UNCHANGED <<ink, window, restart, confirming, batch, actor, closing, scene, workers,
                 work, disk, user, died>>

SaveAs(path) ==
  /\ Attends /\ Ask
  /\ disk[path] = [project |-> None, image |-> None]
  /\ ~IsClosing /\ ~ink.broken /\ ~ink.saving
  /\ ink' = [ink EXCEPT !.saving = TRUE, !.path = path]
  /\ posted' = posted \cup {"saveAs"}
  /\ UNCHANGED <<inbox, window, restart, confirming, pend, batch, actor, closing, scene,
                 workers, work, disk, asked, answered, died>>

(* The title bar's close button, or the update button, which no dialog       *)
(* covers while the status is open and whose Save must be admitted.  An      *)
(* update may fail and reopen the project: it counts as a reopening.         *)
AskClose ==
  /\ Attends
  /\ posted' = posted \cup {"wmClose"}
  /\ \/ Ask /\ UNCHANGED restart
     \/ /\ "update" \in Faults /\ ink.status = "open"
        /\ ~IsClosing /\ ~ink.saving /\ ~ink.broken
        /\ MayAsk /\ made.reopens < MaxReopens
        /\ made' = [made EXCEPT !.asks = @ + 1, !.reopens = @ + 1]
        /\ restart' = TRUE
  /\ UNCHANGED <<ink, inbox, window, confirming, pend, batch, actor, closing, scene,
                 workers, work, disk, asked, answered, died>>

(* The dialog a failed close shows is answered after the next redraw, whose  *)
(* poll_close has cancelled the update.                                      *)
AskReopen ==
  /\ Attends /\ ink.status = "failed" /\ ~restart
  /\ MayAsk /\ made.reopens < MaxReopens
  /\ made' = [made EXCEPT !.asks = @ + 1, !.reopens = @ + 1]
  /\ posted' = posted \cup {"reopen"}
  /\ UNCHANGED <<ink, inbox, window, restart, confirming, pend, batch, actor, closing,
                 scene, workers, work, disk, asked, answered, died>>

(* confirm_failed_close looks at the status, then replaces it. *)
Confirm ==
  /\ window = "open"
  /\ \/ ~confirming /\ ~restart /\ ink.status = "failed" /\ confirming' = TRUE /\ UNCHANGED <<ink, posted>>
     \/ /\ confirming /\ confirming' = FALSE
        /\ ink' = [ink EXCEPT !.status = "ready"] /\ posted' = posted \cup {"wmClose"}
  /\ UNCHANGED <<inbox, window, restart, pend, batch, actor, closing, scene, workers, work,
                 disk, user, answered, died>>

Handles(message) == Attends /\ message \in posted

(* close_wnd_proc *)
WmClose ==
  /\ Handles("wmClose")
  /\ LET rest == posted \ {"wmClose"} IN
     \/ /\ ink.status # "ready"
        /\ ink' = BeginClose(ink)
        /\ posted' = IF ink' = ink THEN rest ELSE rest \cup {"close"}
        /\ UNCHANGED <<window, restart, pend>>
     \/ /\ ink.status = "ready" /\ restart
        /\ restart' = FALSE /\ ink' = [ink EXCEPT !.status = "failed"]
        /\ posted' = rest \cup {"reopen"}
        /\ UNCHANGED <<window, pend>>
     \/ /\ ink.status = "ready" /\ (restart => ~ink.broken /\ ~ink.export)
        /\ restart' = FALSE /\ posted' = rest
        /\ IF actor \in {"off", "finished"} THEN window' = "gone" /\ UNCHANGED <<ink, pend>>
           ELSE /\ ink' = Retiring(ink) /\ pend' = [Wake(pend) EXCEPT !.retire = TRUE]
                /\ UNCHANGED window
  /\ UNCHANGED <<inbox, confirming, batch, actor, closing, scene, workers, work, disk, user,
                 answered, died>>

(* WM_NAYATI_CLOSE, WM_NAYATI_REOPEN and WM_NAYATI_SAVE_AS of the canvas. *)
ChildClose ==
  /\ Handles("close") /\ posted' = posted \ {"close"}
  /\ IF actor = "finished" THEN ink' = [ink EXCEPT !.status = "failed"] /\ UNCHANGED pend
     ELSE pend' = [Wake(pend) EXCEPT !.close = TRUE] /\ UNCHANGED ink
  /\ UNCHANGED <<inbox, window, restart, confirming, batch, actor, closing, scene, workers,
                 work, disk, user, answered, died>>

ChildReopen ==
  /\ Handles("reopen") /\ posted' = posted \ {"reopen"}
  /\ pend' = IF actor \in {"off", "finished"} THEN pend ELSE [Wake(pend) EXCEPT !.reopen = TRUE]
  /\ UNCHANGED <<ink, inbox, window, restart, confirming, batch, actor, closing, scene,
                 workers, work, disk, user, answered, died>>

ChildSaveAs ==
  /\ Handles("saveAs") /\ posted' = posted \ {"saveAs"}
  /\ pend' = [Wake(pend) EXCEPT !.saveAs = TRUE]
  /\ UNCHANGED <<ink, inbox, window, restart, confirming, batch, actor, closing, scene,
                 workers, work, disk, user, answered, died>>

(* The close timer: an update whose close failed does not happen. *)
Timer ==
  /\ Attends
  /\ \/ ink.status = "ready" /\ posted' = posted \cup {"wmClose"} /\ UNCHANGED restart
     \/ ink.status = "failed" /\ restart' = FALSE /\ UNCHANGED posted
  /\ UNCHANGED <<ink, inbox, window, confirming, pend, batch, actor, closing, scene, workers,
                 work, disk, user, answered, died>>

(* The framework tears the window down: RenderLifetime's drop and the exit   *)
(* guard, which waits for the actor.                                         *)
Teardown ==
  /\ Attends /\ Ask
  /\ ink' = Retiring(ink) /\ pend' = [Wake(pend) EXCEPT !.retire = TRUE]
  /\ window' = "leaving"
  /\ UNCHANGED <<posted, inbox, restart, confirming, batch, actor, closing, scene, workers,
                 work, disk, asked, answered, died>>

ExitGuard ==
  /\ window = "leaving" /\ actor \in {"off", "finished"}
  /\ window' = "gone"
  /\ UNCHANGED <<ink, posted, inbox, restart, confirming, pend, batch, actor, closing, scene,
                 workers, work, disk, user, answered, died>>

-----------------------------------------------------------------------------
(* Draining a canvas makes all the work admitted durable, or breaks the      *)
(* workspace, which is shown; its image may fail on its own.                 *)
Drain(bridge) ==
  /\ lanes' = {} /\ drawn' = {}
  /\ \/ /\ disk' = [disk EXCEPT ![location].project = @ \cup drawn \cup lanes]
        /\ \/ ink' = bridge
           \/ "export" \in Faults /\ ink' = [bridge EXCEPT !.export = TRUE]
        /\ UNCHANGED reported
     \/ /\ "drain" \in Faults
        /\ ink' = Broken(bridge) /\ reported' = reported \cup drawn \cup lanes
        /\ UNCHANGED disk

(* Opening creates a project where there is none. *)
Opened(path) ==
  IF disk[path].project = None THEN [disk EXCEPT ![path].project = {}] ELSE disk

Opens(path, bridge) ==
  /\ disk[path].project # Foreign
  /\ canvas' = "active" /\ location' = path /\ disk' = Opened(path) /\ ink' = bridge

OpenFails(path) == "open" \in Faults \/ disk[path].project = Foreign

FailsToOpen(bridge) ==
  /\ OpenFails(location)
  /\ canvas' = "failed" /\ ink' = Broken(bridge) /\ UNCHANGED <<location, disk>>

Reopens(bridge) == Opens(location, bridge) \/ FailsToOpen(bridge)

(* One turn of the loop: what a batch asks for, in this order, then a frame. *)
Stages == <<"saveAs", "activate", "retire", "reopen", "close", "frame">>

Wanted(stage, b) ==
  CASE stage = "saveAs" -> b.saveAs        [] stage = "activate" -> b.activations # <<>>
    [] stage = "retire" -> b.retire        [] stage = "reopen" -> b.reopen
    [] stage = "close" -> b.close          [] stage = "frame" -> TRUE

From(k, b) ==
  Stages[CHOOSE i \in k..6 : Wanted(Stages[i], b) /\ \A j \in k..(i - 1) : ~Wanted(Stages[j], b)]

Busy == actor \notin {"off", "waiting", "dying", "told", "finished"}

(* RenderHost::start: the surface or the first project may fail to open. *)
StartActor ==
  /\ actor = "off" /\ window = "open" /\ ~pend.retire
  /\ \/ actor' = "waiting" /\ Reopens(ink) /\ UNCHANGED <<lanes, died>>
     \/ /\ "start" \in Faults /\ actor' = "told" /\ died' = TRUE
        /\ ink' = [Broken(ink) EXCEPT !.status = "failed"]
        /\ UNCHANGED <<scene, lanes, disk>>
  /\ UNCHANGED <<inputs, pend, batch, closing, workers, drawn, reported, user, answered>>

(* Fault: what is taken along with a retirement is forgotten. *)
TakeBatchFault ==
  /\ actor = "waiting" /\ (pend.wake \/ closing \/ ink.saving)
  /\ batch' = IF pend.retire THEN [NoWork EXCEPT !.retire = TRUE] ELSE [pend EXCEPT !.wake = FALSE]
  /\ pend' = [NoWork EXCEPT !.retire = pend.retire]
  /\ actor' = From(1, batch')
  /\ UNCHANGED <<ink, inputs, closing, scene, workers, work, disk, user, answered, died>>

TakeBatch ==
  /\ actor = "waiting" /\ (pend.wake \/ closing \/ ink.saving)
  /\ batch' = [pend EXCEPT !.wake = FALSE] /\ pend' = [NoWork EXCEPT !.retire = pend.retire]
  /\ actor' = From(1, batch')
  /\ UNCHANGED <<ink, inputs, closing, scene, workers, work, disk, user, answered, died>>

Taken == [ink EXCEPT !.path = None]

(* SharedGpuCanvas::save_as draws what was admitted and hands the canvas to  *)
(* its worker, or refuses: a target taken in the meantime, a draft open.     *)
BeginSaveAs ==
  /\ actor = "saveAs" /\ actor' = From(2, batch)
  /\ IF ink.path = None THEN UNCHANGED <<ink, canvas, saver, lanes, drawn>>
     ELSE \/ /\ canvas = "active" /\ ~ink.broken /\ saver.step = "none"
             /\ disk[ink.path] = [project |-> None, image |-> None]
             /\ saver' = [step |-> "draining", source |-> location, target |-> ink.path]
             /\ canvas' = "suspended" /\ ink' = Taken
             /\ drawn' = drawn \cup lanes /\ lanes' = {}
          \/ ink' = Finish(Taken) /\ UNCHANGED <<canvas, saver, lanes, drawn>>
  /\ UNCHANGED <<inputs, pend, batch, closing, location, closer, reported, disk, user,
                 answered, died>>

Request1 == Head(batch.activations)
Target == asked[Request1]

(* The first request of the batch is dealt with. *)
Settled ==
  /\ answered' = answered \cup {Request1}
  /\ batch' = [batch EXCEPT !.activations = Tail(@)]
  /\ actor' = From(2, batch')

(* Fault: the canvas is replaced with admission open. *)
HeldFault(bridge) == bridge

Held(bridge) == [bridge EXCEPT !.saving = TRUE]

(* activate_project: refused, or already open, or invalid; otherwise         *)
(* admission stops as for a Save As and the old canvas is drained.           *)
Activate ==
  /\ actor = "activate"
  /\ \/ /\ Settled
        /\ ink.saving \/ ink.broken \/ Target = location \/ OpenFails(Target) \/ IsClosing
        /\ UNCHANGED <<scene, work, ink, disk>>
     \/ /\ ~ink.saving /\ ~ink.broken /\ ~IsClosing /\ Target # location
        /\ disk[Target].project # Foreign
        /\ IF canvas = "active" THEN Drain(Held(ink))
           ELSE ink' = Held(ink) /\ UNCHANGED <<work, disk>>
        /\ canvas' = "suspended" /\ actor' = "switch"
        /\ UNCHANGED <<batch, answered, location>>
  /\ UNCHANGED <<inputs, pend, closing, workers, user, died>>

(* Then the target is opened, or what was open before. *)
Switch ==
  /\ actor = "switch" /\ Settled
  /\ CASE ink.broken -> canvas' = "failed" /\ ink' = Finish(ink) /\ UNCHANGED <<location, disk>>
       [] ~ink.broken /\ ink.export -> Reopens(Finish(ink))
       [] OTHER -> \/ Opens(Target, Finish(Reset(ink)))
                   \/ OpenFails(Target) /\ Reopens(Finish(Reset(ink)))
  /\ lanes' = IF ink.broken \/ ink.export THEN lanes ELSE {}
  /\ UNCHANGED <<inputs, pend, closing, workers, drawn, reported, user, died>>

(* Fault: closing a canvas that is not active reports nothing. *)
StartClosingFault ==
  /\ canvas' = "suspended" /\ UNCHANGED ink
  /\ closer' = IF canvas = "active" /\ closer = "none" THEN "draining" ELSE closer

(* SharedGpuCanvas::begin_close *)
StartClosing ==
  IF closer # "none" THEN UNCHANGED <<canvas, closer, ink>>
  ELSE /\ canvas' = "suspended"
       /\ IF canvas = "active" THEN closer' = "draining" /\ UNCHANGED ink
          ELSE ink' = CloseResult(ink) /\ UNCHANGED closer

(* A retirement drains what no close has drained, then waits for the workers *)
(* and ends the actor.                                                       *)
Retire ==
  /\ actor = "retire"
  /\ actor' = "joining"
  /\ IF closing THEN UNCHANGED <<canvas, closer, ink>> ELSE StartClosing
  /\ UNCHANGED <<inputs, pend, batch, closing, location, saver, work, disk, user, answered,
                 died>>

Join ==
  /\ actor = "joining" /\ closer # "draining" /\ saver.step \in {"none", "done", "refused"}
  /\ closer' = "none" /\ saver' = NoSave
  /\ ink' = [(IF saver.step = "none" THEN ink ELSE Finish(ink)) EXCEPT !.shown = None]
  /\ canvas' = "suspended" /\ actor' = "finished" /\ batch' = NoWork
  /\ UNCHANGED <<inputs, pend, closing, location, work, disk, user, answered, died>>

(* reopen_after_close_failure: admission is open again before the project is. *)
Reopen ==
  /\ actor = "reopen"
  /\ IF ink.status = "failed" /\ closer = "none"
     THEN /\ ink' = [Reset(ink) EXCEPT !.closing = FALSE, !.status = "open"]
          /\ lanes' = {} /\ actor' = "reopening"
     ELSE /\ actor' = From(5, batch) /\ UNCHANGED <<ink, lanes>>
  /\ UNCHANGED <<inputs, pend, batch, closing, scene, workers, drawn, reported, disk, user,
                 answered, died>>

Reopening ==
  /\ actor = "reopening" /\ actor' = From(5, batch)
  /\ \/ Opens(location, ink)
     \/ /\ OpenFails(location)
        /\ ink' = CloseResult(BeginClose(Broken(ink)))
        /\ canvas' = canvas /\ UNCHANGED <<location, disk>>
  /\ closing' = (ink'.closing \/ ink'.retiring)
  /\ UNCHANGED <<inputs, pend, batch, workers, work, user, answered, died>>

Close ==
  /\ actor = "close" /\ actor' = "frame"
  /\ closing' = TRUE /\ StartClosing
  /\ UNCHANGED <<inputs, pend, batch, location, saver, work, disk, user, answered, died>>

(* While closing only the worker is looked at. *)
PollClose ==
  /\ actor = "frame" /\ closing /\ actor' = "waiting" /\ batch' = NoWork
  /\ IF closer = "done" THEN closer' = "none" /\ ink' = CloseResult(ink)
     ELSE UNCHANGED <<closer, ink>>
  /\ UNCHANGED <<inputs, pend, closing, scene, saver, work, disk, user, answered,
                 died>>

(* poll_save_as opens the copy, or the source again. *)
FinishSaveAs ==
  /\ actor = "frame" /\ ~closing /\ saver.step \in {"done", "refused"}
  /\ actor' = "drawing" /\ saver' = NoSave
  /\ IF ink.broken THEN canvas' = "failed" /\ ink' = Finish(ink) /\ UNCHANGED <<location, disk, lanes>>
     ELSE /\ lanes' = {}
          /\ \/ /\ saver.step = "done"
                /\ Opens(saver.target, Finish(Reset(ink)))
             \/ /\ saver.step = "refused" \/ OpenFails(saver.target)
                /\ Reopens([Finish(Reset(ink)) EXCEPT !.export = ink.export])
  /\ UNCHANGED <<inputs, pend, batch, closing, closer, drawn, reported, user, answered,
                 died>>

(* A frame takes what was admitted, and shows the project. *)
Draw ==
  /\ \/ actor = "drawing"
     \/ actor = "frame" /\ ~closing /\ saver.step \notin {"done", "refused"}
  /\ actor' = "waiting" /\ batch' = NoWork
  /\ IF canvas = "active"
     THEN /\ drawn' = drawn \cup lanes /\ lanes' = {}
          /\ ink' = [ink EXCEPT !.shown = location]
     ELSE UNCHANGED <<drawn, lanes, ink>>
  /\ UNCHANGED <<inputs, pend, closing, scene, workers, reported, disk, user,
                 answered, died>>

(* Bound: the last request is not followed by a panic. *)
MayPanic == "panic" \in Faults /\ made.asks < MaxAsks

(* A panic unwinds the renderer, which still drains the canvas, lets go of   *)
(* admission when it held it itself, and leaves its workers to themselves;   *)
(* then it is told, and the thread ends.                                     *)
Panic ==
  /\ MayPanic /\ Busy /\ actor # "joining"
  /\ LET bridge == IF actor = "switch" THEN Finish(ink) ELSE ink IN
     IF canvas = "active" THEN Drain(bridge) ELSE ink' = bridge /\ UNCHANGED <<work, disk>>
  /\ canvas' = "suspended" /\ actor' = "dying" /\ died' = TRUE /\ batch' = NoWork
  /\ UNCHANGED <<inputs, pend, closing, location, workers, user, answered>>

Tell ==
  /\ actor = "dying" /\ actor' = "told"
  /\ ink' = [Broken(ink) EXCEPT !.status = "failed"]
  /\ UNCHANGED <<inputs, pend, batch, closing, scene, workers, work, disk, user, answered,
                 died>>

EndActor ==
  /\ actor = "told" /\ actor' = "finished"
  /\ UNCHANGED <<ink, inputs, pend, batch, closing, scene, workers, work, disk, user,
                 answered, died>>

-----------------------------------------------------------------------------
(* The workers: the close's, and the Save As's, which copies the closed      *)
(* project beside its target and then publishes image and project.           *)
CloserDrains ==
  /\ closer = "draining" /\ closer' = "done"
  /\ Drain(ink)
  /\ UNCHANGED <<inputs, pend, batch, actor, closing, scene, saver, user, answered, died>>

Copying == [saver EXCEPT !.step = "copying"]
Refused == [saver EXCEPT !.step = "refused"]

SaverDrains ==
  /\ saver.step = "draining"
  /\ Drain(ink)
  /\ saver' = IF ink'.broken THEN Refused ELSE Copying
  /\ UNCHANGED <<inputs, pend, batch, actor, closing, scene, closer, user, answered, died>>

Copy ==
  /\ saver.step = "copying"
  /\ \/ /\ disk[saver.target] = [project |-> None, image |-> None]
        /\ saver' = [saver EXCEPT !.step = "staged"]
     \/ saver' = Refused
  /\ UNCHANGED <<ink, inputs, pend, batch, actor, closing, scene, closer, work, disk, user,
                 answered, died>>

(* A hard link never replaces what is there. *)
Linked(kind) == [disk EXCEPT ![saver.target][kind] = disk[saver.source].project]

(* Fault: the project is published before its image. *)
FirstFault == "project"

First == "image"

Second == IF First = "image" THEN "project" ELSE "image"

Publish(kind, from, to) ==
  /\ saver.step = from
  /\ \/ /\ disk[saver.target][kind] = None
        /\ disk' = Linked(kind) /\ saver' = [saver EXCEPT !.step = to]
     \/ /\ disk[saver.target][kind] # None \/ "copy" \in Faults
        /\ saver' = Refused /\ UNCHANGED disk
  /\ UNCHANGED <<ink, inputs, pend, batch, actor, closing, scene, closer, work, user,
                 answered, died>>

SaverPanics ==
  /\ MayPanic /\ saver.step \in {"copying", "staged", "linked"}
  /\ ink' = Broken(ink) /\ saver' = Refused
  /\ UNCHANGED <<inputs, pend, batch, actor, closing, scene, closer, work, disk, user,
                 answered, died>>

(* Another process writes, once (a bound), where the copy goes. *)
Intrude(kind) ==
  /\ "foreign" \in Faults /\ saver.step \in {"copying", "staged", "linked"}
  /\ disk[saver.target][kind] = None
  /\ \A p \in Paths : Foreign \notin {disk[p].project, disk[p].image}
  /\ disk' = [disk EXCEPT ![saver.target][kind] = Foreign]
  /\ UNCHANGED <<ink, inputs, pend, batch, actor, closing, scene, workers, work, user,
                 answered, died>>

-----------------------------------------------------------------------------
Init ==
  /\ ink = [closing |-> FALSE, retiring |-> FALSE, saving |-> FALSE, path |-> None,
            status |-> "open", broken |-> FALSE, export |-> FALSE, shown |-> None]
  /\ posted = {} /\ inbox = <<>> /\ window = "open" /\ restart = FALSE /\ confirming = FALSE
  /\ pend = NoWork /\ batch = NoWork /\ actor = "off" /\ closing = FALSE
  /\ canvas = "suspended" /\ location = Start
  /\ closer = "none" /\ saver = NoSave
  /\ lanes = {} /\ drawn = {} /\ reported = {}
  /\ disk = [p \in Paths |-> [project |-> IF p \in Existing THEN {} ELSE None,
                              image   |-> None]]
  /\ made = [work |-> 0, asks |-> 0, reopens |-> 0] /\ asked = <<>>
  /\ answered = {} /\ died = FALSE

Messages == ProcessActivation \/ WmClose \/ ChildClose \/ ChildReopen \/ ChildSaveAs

Actor ==
  \/ StartActor \/ TakeBatch \/ BeginSaveAs \/ Activate \/ Switch \/ Retire \/ Join
  \/ Reopen \/ Reopening \/ Close \/ PollClose \/ FinishSaveAs \/ Draw \/ Tell \/ EndActor

Workers ==
  \/ CloserDrains \/ SaverDrains \/ Copy
  \/ Publish(First, "staged", "linked") \/ Publish(Second, "linked", "done")

User ==
  \/ Admit \/ AskClose \/ AskReopen \/ Teardown
  \/ \E path \in Openable : Request(path)
  \/ \E path \in Paths : SaveAs(path)

Next ==
  \/ User \/ Confirm \/ Messages \/ Timer \/ ExitGuard \/ Actor \/ Workers
  \/ Panic \/ SaverPanics
  \/ \E kind \in {"project", "image"} : Intrude(kind)

Spec == Init /\ [][Next]_vars

(* The window's messages and timer are handled, the actor's thread and its   *)
(* workers run; the user, other processes and failures owe nothing, except   *)
(* that confirm_failed_close ends.                                           *)
Fairness ==
  /\ WF_vars(ProcessActivation) /\ WF_vars(WmClose) /\ WF_vars(ChildClose)
  /\ WF_vars(ChildSaveAs) /\ WF_vars(Timer) /\ WF_vars(confirming /\ Confirm)
  /\ WF_vars(ExitGuard) /\ WF_vars(Actor) /\ WF_vars(CloserDrains)
  /\ WF_vars(SaverDrains \/ Copy \/ Publish(First, "staged", "linked")
             \/ Publish(Second, "linked", "done"))

FairSpec == Spec /\ Fairness

-----------------------------------------------------------------------------
(* Properties. *)

(* Work the user drew is in the lanes or the canvas of the project it was    *)
(* drawn on, or in that project's file, or lost to a failure that was shown: *)
(* opening, copying, closing and reopening projects drops none and moves     *)
(* none to another project.  Nothing goes on behind a window that is gone:   *)
(* its actor ended by itself, or no worker runs and nothing is left outside  *)
(* the file.                                                                 *)
WorkIsKept ==
  /\ \A w \in lanes \cup drawn : w.project = location
  /\ \A n \in 1..made.work : \E w \in lanes \cup drawn \cup reported
                                     \cup UNION {disk[p].project : p \in {q \in Paths : disk[q].project \notin {None, Foreign}}} :
        w.n = n /\ (w \in lanes \cup drawn \cup reported \/ w \in disk[w.project].project)
  /\ window = "gone" =>
       died \/ (closer # "draining" /\ saver.step = "none" /\ lanes \cup drawn = {})

(* A published project always has its image; neither replaces what another   *)
(* process put there, whatever is created while copying and wherever the     *)
(* process ends.                                                             *)
CopiesAreWhole ==
  [][\A p \in Paths : disk'[p] # disk[p] =>
       /\ \A kind \in {"project", "image"} : disk[p][kind] = Foreign => disk'[p][kind] = Foreign
       /\ (disk[p].project = None /\ disk'[p].project \notin {None, Foreign, {}})
            => disk[p].image = disk'[p].project]_vars

(* A close that was accepted ends: the window goes, or a failure is shown    *)
(* from which the user can go back or go on, or drawing goes on.  A request  *)
(* to open a file that was accepted is opened or refused with a notice, or   *)
(* the window went, or the actor ended by itself; and what holds admission   *)
(* for a Save As or an opening lets go of it, unless the canvas is retired   *)
(* first.                                                                    *)
EverythingIsAnswered ==
  /\ ink.status \in {"saving", "ready"}
       ~> (window = "gone" \/ ink.status \in {"failed", "open"} \/ died)
  /\ \A r \in 1..MaxAsks :
       r <= Len(asked) ~> (r \in answered \/ window # "open" \/ died)
  /\ ink.saving ~> (~ink.saving \/ ink.retiring \/ window # "open" \/ died)

(* "An existing close already drained admission", says the retirement that   *)
(* therefore closes nothing (render_host.rs:331).  Not so for a close that   *)
(* was queued before the canvas it meets was opened again.                   *)
AnExistingCloseHasDrained ==
  actor = "retire" /\ closing /\ closer # "draining" => lanes = {}
=============================================================================
