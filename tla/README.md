# NyatiDraw: specifications, model checking and proofs

NyatiDraw is a drawing program written in Rust. A pen produces samples on the window's thread; the
canvas owner assembles strokes from them and shows them at once on the GPU; a writer thread paints
them again into exact tiles, makes them durable in one redb project file, keeps a branching
undo history of the last 128 operations, and exports the picture as a PNG beside the project. The
same artwork can be edited in a browser, where a worker keeps a recovery copy in IndexedDB.
This directory holds TLA+ modules for the parts of it where order, failure and bounds decide
whether artwork survives, TLC configurations for small instances, and TLAPS proofs of the
results that matter most for every instance.

`PROJECT.json` maps every definition to the lines it models and lists the runs, the faults each
property is shown to catch, the hazards and the theorems. Below, `N` is
`apps/desktop/src/native_canvas.rs`, `LI` is `live_ink.rs`, `RH` is `render_host.rs` and `DC` is
`desktop_canvas.rs`, all beside it.

## 1. Inventory

| Component | State | Operations | Talks to |
|---|---|---|---|
| **history** `crates/history` | nodes (parent, before, after), head, redo preferences, limit, bottom root | append, undo, redo, redo to a branch, enforce the limit, load | owned by the session; loaded by the project file |
| **project file** `crates/project-redb` | tables: history, snapshots, strokes, cursors, roots, objects, reference counts; layers, page and timeline per snapshot; schema mark | commit a batch, persist a cursor, settle a blank file, retention, open | one process, from the writer's thread only |
| **editing session and writer** `crates/editor`, `N` | snapshot, tiles, history, cursors; next id; layer tree, page, timeline of the worker | prepare, commit, accept; reopen; fail-stop | history, project file; requests from the owner |
| **input devices** `DC`, `crates/input-platform` | which device draws, drags, touches; capture; two adapters' gestures; palm and button rules | one window message | the lane |
| **live input** `LI`, `crates/input-queue`, `N` | queue and retry lane, admission gates, barrier of a pick, discontinuity; the owner's gesture | push, drain, pause, resume, complete a pick, close, Save As | window thread pushes, owner drains, under one lock |
| **stroke writer** `N`, `LI` | owner: active stroke, backlog, dirty flag, pending save, artwork job; shared: request lane, completion lane, pending counter, export status, error; writer: request in hand | one frame of the owner; one request of the writer; close | channels, atomics and a mutex between two threads and a closing third |
| **export and save** `N`, `save_as.rs` | generation gate, export status; staging directory | reserve, queue, replace, report; copy a closed project | the writer; files |
| **render host** `RH`, `DC` | pending controls, activation, closing and exit flags, the canvas it owns | coalesce, activate, reopen, close, Save As, retire | window thread, actor thread, two helper threads |
| **transform and pixel edits** `transform_*.rs`, `crates/editor` | a draft beside the artwork on the canvas, another on the worker | begin, preview, commit, cancel, change of tool | the writer, one request at a time |
| **layers** `crates/document`, `crates/editor/layer_edit.rs` | the tree, the active layer, ids | every structural command | pure; prepared by the worker, shown by the renderer |
| **canvas display** `crates/paint-gpu`, `N` | page textures, sparse atlas, previews, composite caches; late payloads | paint a batch, upload, evict, compose, install an edit | the owner; the writer's completions |
| **web document and recovery** `crates/web-core`, `crates/project-web`, `apps/web`, `apps/web-worker` | undo of whole artworks, save scheduler, checkpoint; accepted and staged save, stored file | edit, persist, capture, stage, store, accept, download, replace, reload | a page, a web worker and browser storage |
| **single instance** `single_instance.rs` | mutex, pipe, inbox, shutdown flag | elect, route, listen, dispatch | other processes |
| **opening and old formats** `project-redb/migration.rs`, `open_inner` | files, names, locks, private copies, backups | open, create, check, upgrade | other processes |
| **preferences; painting; user interface; tools** | | small files replaced whole; image arithmetic; views; adapters | |

What is hard, and what makes each part correct:

* *history*: the limit retires a node in the middle of a branching graph. The graph must stay one
  the loader accepts, every preference must name a child, and the undo path from the head may lose
  only what the limit takes.
* *project file*: many tables change in one transaction while tiles are shared between branches
  and metadata is recorded only from its first use on. Every durable state must open, hold all that
  any branch needs and nothing else, and show on undo what was on screen when the operation was made.
* *editing session*: prepare, commit and accept are three steps and anything may fail between them.
  The session must stay what reopening the file would give, and what is on screen must be durable.
* *input devices*: pen, mouse, raw mouse and fingers speak on one window thread through adapters that
  do not know of each other, and captures and releases get lost. A gesture must not be broken into or
  joined to another, and nothing may stay held once the hands are gone.
* *live input*: the pen pushes at any moment through gates that edits, picks, Save As and Close open
  and shut under a lock, into a lane that overflows. Accepted gestures become strokes exactly once
  and whole, edits fall between strokes, a pick reads before later paint, and the gates open again.
* *stroke writer*: two threads, two bounded lanes, a backlog, a counter read without a lock, and a
  third thread that closes it all while the writer may be stopping. Strokes settle in order, an edit
  is applied to what the owner saw, a clean saved canvas is the exported one, and closing loses
  nothing, reports nothing false and ends.
* *render host*: an actor that may die at any step, requests that are coalesced, and a close, a Save As
  and an activation that compete for one canvas. No admitted work is lost unreported, a copy is whole, and
  every request is answered.
* *drafts*: the same draft exists on two threads, and the answers of one arrive after the user of the other has
  gone on. The artwork must not change under a draft, a commit is what was on the screen, and every wait ends.
* *display*: a stroke is on the screen before its pixels exist, and late pixels meet later edits in a bounded
  atlas with caches on two levels. The frame must be the artwork.
* *web*: a difference is only as good as the two sides' agreement on what it was taken from; the tab may close
  at any moment and warns only if asked to.
* *processes*: whoever holds the mutex is the only one to open the file; upgrading a file replaces it under
  others' feet.

The hazards in `PROJECT.json` name the lines where these go wrong and the properties that watch them.

## 2. Modules

```
History ── HistoryCursor                    the graph, and its undo cursor          MCHistory
   └─ ProjectDb ── EditorSession            the file, and the worker over it
                      ├─ UndoWitness        what was on screen when it was made     MCSession
                      └─ DurableArtwork     what this promises (by refinement)
CanvasInput                                 devices and adapters                    MCCanvasInput
LiveInk                                     pen, lane, the owner's drain            MCLiveInk
StrokeWriter                                owner and writer over their lanes       MCStrokeWriter
RenderHost                                  window, actor, closer, Save As          MCRenderHost
Drafts                                      a draft on both threads                 MCDrafts
LayerTree ── GpuScene ── CanvasDisplay      layers, renderer, and its host          MCCanvasDisplay
WebDocument ── WebRecovery                  the page's undo, its saves, the worker  MCWebRecovery
SingleInstance ┐
OpenProject    ┴─ Startup                   election, opening, both together        MCStartup

ProjectFile_proofs (history, file, session) LiveInk_proofs   StrokeWriter_proofs   Drafts_proofs
RenderHost_proofs   CanvasInput_proofs      WebRecovery_proofs   Startup_proofs
```

A component that only calculates is a module of operators (History, ProjectDb, LayerTree, GpuScene): an
operation with an error path is a guard `CanX` and a result `X`. A component with a life of its own is a
state machine with one action per handler or per step another thread can come between.

**History** has the graph as pure operators (`Append`, `Retained`, `RetainedNodes`, `EnforceLimit`,
`RetainedInitial`): one value `[nodes, head, current, initial, preferred]`. `Retained` is the closed
form of the loop of `enforce_limit`; `RetentionIsTheLoop` checks one against the other. **HistoryCursor** makes it a
machine of its own (`graph`, `nextNode`): append, undo, redo, redo to a chosen branch, and the limit.

**ProjectDb** is the file as one record of tables, the last durable transaction. `Commit`,
`PersistHistoryCursor` and `Opens` follow the transaction bodies: capture of layers, page and
timeline, insertion of the batch, storage of roots and objects with counts, retention, reclamation,
the schema mark. A root stands for its pixels, since its identifier is a hash of them.

**EditorSession** is the worker: `OpenEmpty`, `OpenExisting`, `StartBlank`, `ImportPng`; one
`Prepare...` action for strokes, fills, layers, page, animation, and for undo, redo and redo to a
branch; `CommitBatch` and `PersistMove`; `AcceptBatch` and `AcceptCursorMove`; `TransactionFails`,
`FailsAfterCommit` and `Stop` for what may fail between. **DurableArtwork** says what this promises a user: one
artwork is saved, one is shown, every change is saved first and shown second. **UndoWitness** adds
what was on screen when each operation was made, which the file does not keep.

**CanvasInput** is the message procedure of the canvas window: one action per kind of message of pen, mouse, raw
mouse and touch, of view drags, focus and capture, with the two adapters' gestures, the palm and button rules
and the strokes the owner makes of the samples. A message runs to its end before the next, so `w` is one record
that each handler transforms; the mode of touch, which the editor sets at any moment, is read anew by each.
Any message may come without its data, and the pen's without even its controls or the type of the pointer. It composes with LiveInk through the samples it lets in.

**LiveInk** has the lane and the gates, the pen that pushes, and the owner's frame: the drain takes
both lanes and the latch under one lock, then the samples are consumed one by one while the pen goes on.
A gesture is drawn or, with the modifier held, reads a colour. `accepted` and `closed` record what was
let in and what became a stroke. In the code a Move is evicted by curvature; the model evicts any. A canvas that
is dropped to open another project is followed by that project on a lane made empty (`Reset`) or, when its picture
could not be saved, by the old one on the lane as it was (`Resumed`).

**StrokeWriter** cuts one frame of the canvas owner into its steps (adopt completions, poll the job, flush
the backlog, drain, synchronise the error, commands, deferred save) and interleaves them with the
writer's (receive, commit, publish, settle; edit; export and its generation checks; stop). The
closing canvas has its own steps down to the join. Strokes are numbers in the order they close; an edit
is an operation of its own. What a commit does to the file is left to EditorSession; here it appends
to `durable`, or fails.

**RenderHost** has four threads: the window's (its messages, the activation timer, the close dialog, the update
restart), the actor's (take a batch, then a step for each control in it, in the code's order), and those of
a close and of a Save As that drain the canvas while the window goes on. `disk` is what each path's project and picture hold;
a piece of work is named by the project it was made in, so that no work can stand in for another.

**Drafts** has the canvas with its tool, its pending tool, its draft projection and its one artwork job, and the worker with
its own two drafts and their generations. A picture is the sequence of changes that made it, so that two ways to one picture differ.

**LayerTree**, **GpuScene** and **CanvasDisplay**: the tree with every structural command and the composition
order; the renderer's scene and its operations, with an atlas of a few slots, least recently used first; the owner that feeds it
strokes at once, their pixels late, and edits between, with the artwork itself (`art`, `cover`, `tree`) beside it to compare the frame with.

**WebDocument** and **WebRecovery**: the document with its undo, a stroke painted in place and a preview beside it;
the page's scheduler, its packet of changed tiles, the worker that rebuilds the artwork and stores the file, and the
ways in which any of it fails. A file is what its operations up to the one it shows left, oldest first; it is encoded by a commit of project-redb, whose retention drops the oldest operation of a
file that has more than `MaxOperations` (128 in the code, as for the desktop). The branches beside those operations are History's subject.

**SingleInstance**, **OpenProject** and **Startup**: the mutex, the pipe and its one listener, the inbox and the window; opening,
creating and upgrading files that are told from their names, with a lock per file; and both in processes that may be killed at any step, with the single
instance (Windows) and without it.

## 3. Runs

| Run | Specification and bounds | What it shows |
|---|---|---|
| `history` | limit 3, five nodes, two roots | The graph reloads as itself, preferences are children, retention takes only what the limit demands, and the loop of the code and the closed form agree. |
| `session` | limit 2, ids to 4; three roots sharing two tiles; one tree, page, timeline beside the defaults, selections | The file opens always, holds exactly the content its branches need, forgets only what the limit evicts; the session is the project; undo shows what was made; ids are fresh; the schema mark only rises; the worker implements DurableArtwork. |
| `input` | a pen, a mouse, one finger, one faulty message; gestures without end | Gestures stay whole across devices, and nothing is held once every device has let go, but for what an unread message of the pen leaves behind (section 3, Disagreements). Deadlock is checked. |
| `lane` | lanes of 1, three gestures with one move each, Save As, fair | Gestures close, whole; edits and picks fall between strokes; whatever holds the pen lets go, but for a pick that meets the reopening of the old project (section 3, Disagreements). Deadlock is checked. |
| `writer` | both lanes of 1, backlog 2, three strokes, one edit, two saves, failures, fair | All safety of the two threads and of closing, and that closing ends. Deadlock is checked. |
| `host` | paths a, b, c; one piece of work, three requests, one reopening; eight kinds of failure; fair | No work is lost unreported, copies are whole, everything asked is answered. |
| `reopened` | one path, one piece of work, four requests, two reopenings; only openings fail | A violation: see Findings. |
| `drafts` | one value, three requests, two contacts with one move, two layers, previews refused at will, fair | Nothing changes under a draft, both sides agree, a commit is what was seen, every wait ends. Deadlock is checked. |
| `pasted` | the same with one contact, no refusals | A violation: see Findings. |
| `composite` | depth 3, one tile that the page's edge crosses (a page tile and a sparse one), five slots, three pieces of work | The frame is the artwork and the caches are current, through late uploads, layer edits, undo and eviction; the tree stays whole. |
| `recovery` | one tile of three values, undo of 1, two saves, two projects, files that keep 3 operations and one of 2 to open, fair | Closing without a warning loses nothing, differences add up, a file goes on from the one before but for the oldest of a full one, and what is dirty gets saved. Deadlock is checked. |
| `startup` | three processes, two tries, an inbox of 1, two pieces of work, one kill; one or two of the processes also without the single instance; fair | One primary, no file routed twice, no committed work without a name, everybody ends. |

*Why the bounds are enough.* Retention acts when the limit is passed: with limit 2 the third
operation evicts, and ids up to 4 give an eviction after an eviction, with a branch below the
evicted node. Three roots over two shared objects let two branches need one tile. Content and metadata
are stored by separate code, so `session` takes each to the full bound and both together only while ids are at most 2 (`WithinBounds`, an
action constraint); the theorems about the file have no such bound. Lanes of one are
full after one request, so every `try_send` is met both free and full. Three strokes fill the request
lane and the completion lane with one in the backlog, and with the edit a fourth request waits. Two saves let one
supersede the other in the writer's hand. In `lane`, one place in the queue and one for retries make every
gesture overflow, and three gestures are what it takes to lose an End, acknowledge it and recover. In `host`, each
kind of failure may happen at every step that can have it; three requests let a second be coalesced with or refused
for a first while a third waits. In `drafts`, three requests are a Begin, a change and an end, and a second contact is one
that meets the wait for the first. In `composite`, five slots hold two rasters, a group, the root and one preview, so
that one more evicts; the tile is in the page's texture, which is never evicted, and in the atlas. In `recovery`, two saves make a difference of a
difference, a file of 2 operations is full after one save and drops its oldest at the second, and two projects make an answer arrive for one already replaced. In `startup`, two tries suffice to retry, an inbox of
one to be full, three processes to have one that routes, one that is routed to and one that comes when that one leaves.

The deadlock check is off where the bounds end behaviours or the program does: `history`, `session`, `composite`
(identifiers or work run out), `host`, `reopened` and `startup` (everybody has ended).

*Fairness.* The runs with a liveness property use `FairSpec`; the others assume nothing.
In `writer`, the thread that drops the canvas and the
writer's thread run on: no user, window or render thread is involved any more, and the samples of the
last drain are finitely many. In `lane`, the host keeps rendering frames (the bridge requests a redraw with
every sample and with every answer of the writer) and the writer answers and settles. In `recovery`, the page's and the worker's
promises resolve or reject, as browsers do. In `host`, the window's queue is handled, its timer fires, and the
threads run; the modal confirmation of a failed close is answered. In `drafts`, frames go on, the worker takes its
requests, and a pen that is down is lifted again. In `startup`, the threads of a living process run. Nothing
is assumed anywhere of storage, of the operating system's failures, or of what a user does beyond that. A pick that finds the writer's lane full of
previews is tried again next frame; the model does not have those previews.

*Every property can fail.* Each is paired in `PROJECT.json` with a plausible fault of a mapped
definition (the `...Fault` operators) under which TLC violates it: retention that forgets a shared root, a
metadata record dropped with its snapshot, a stroke that overtakes a deferred one, a pause that asks only about the
pen in hand, a difference against the wrong save, a backup made before the lock, and so on.

### Findings

`pasted`: *"A failed recovery leaves the original draft available for Cancel; never loop forever or switch tools after an
unsuccessful commit"* (`transform_runtime.rs:329-330`). A pasted or imported draft stands on a provisional layer. The canvas makes that layer
the active one and sends it as the target of each later request; the editor's guard insists on it; but the worker
refuses every edit whose target is not in its committed tree (N:6463), where the layer stands only after the
commit. The draft can be neither committed nor cancelled, and every other command is refused while it lives.

`reopened`: *"An existing close already drained admission"* (RH:331), for which reason a retirement begins no close when the actor's own flag says there is one. The flag may be a stale
close's. A project cannot be opened, its close fails, and Reopen is clicked twice, the second time after the actor took the first. `reopen_after_close_failure` opens the gate before it
opens the project (N:786-803, LI:1336). The window is closed in between: the gate shuts and a close is posted, but the opening fails again. The second reopening opens the gate again and
succeeds, and then the posted close is carried out (RH:345) with the gate open: the pen draws into a canvas that has been drained, the close reports Ready, the window goes, and the retirement, which
would have drained that work, does not. `host` reopens once, where this cannot happen: `AllWorkIsKept` proves it.

### Disagreements with comments that no run states

These were met while modelling. Each is reachable in a model, or was in a larger instance of one, and the property that would have claimed the
contrary is not stated.

* *An export reported for ever as queued.* "A writer that stops unexpectedly cannot leave the UI reporting an export that will never
  finish" (LI:972). The closing canvas checks the workspace error, which a failed mask, animation or layer request leaves to the reader
  of its reply, then sends its export into a channel whose writer has already marked incomplete exports as failed and is about to drop the
  receiver. The close still reports the project as unsaved.
* *Previews that are never retired.* `end_live` keeps a pinned preview for every tile a stroke touched. It leaves the atlas only when pixels for that tile are uploaded
  (`compositor.rs:1514`) or the whole artwork is replaced. None come (a) for an off-page tile touched without a change
  (`stroke/src/lib.rs:327-336`), and (b) for one that a later stroke covered, so that the earlier upload was dropped (N:3717-3723), when the later
  stroke is then given up. Enough of them exhaust the atlas and fail the workspace (`compositor.rs:2095`). The comment at N:6208 says "Publishes the CPU payload which
  retires a committed live GPU preview", and a test (N:9386) that a closed stroke's exact retirement payload must never be silently lost.
* *Three processes upgrading one file.* Without the single instance: p1, p2 and p3 see an old file f and decide to upgrade it. p2 opens f as its
  source. p1 upgrades f to g and is about to open it. p3 opens and locks g as its source; p2 locks f, backs up the path's g, publishes h.
  p1 opens h and commits to it. p3, whose backup is already made (of g), publishes its own file over h: the commit has neither the path's name nor a backup's.
  The comments ("the exclusive byte-range lock below serializes cooperating DB openers/converters", "hold the source lock through publication") are about
  the file; the names are not locked. With the single instance `WorkStaysNamed` proves that this cannot happen.
* *A stroke of two gestures after Save As.* A Save As declined in mid-gesture (N:816): an End refused during the hold leaves the stroke active; if the next Begin is refused as well, that gesture's
  End closes the first stroke. `StrokesAreWholeGestures` exempts a gesture that a Save As cut.
* *A cancelled stroke takes its guard along.* N:6181-6183 says a tile the writer still has is guarded against older uploads; cancelling a stroke (N:3934-3938) removes
  the guard also where an earlier stroke put it. `Guarded` exempts those states from the display's invariants.
* *Initialising a project.* Two processes without the single instance: one finds the path missing, the other creates and marks the project, and the first creates and marks it again. A
  crash between `Database::create` and `write_marker` leaves a file that is never accepted as a project.
* *A routed file may be lost* with the secondary reporting it routed: full inbox, shutdown, `ERROR_NO_DATA` (`single_instance.rs:71-73`). `RoutedOnce` claims at most once. A
  secondary's temporary handle of the mutex can make a third process take itself for a secondary of nobody, which then fails.
* *A pen message that cannot be read.* `observe` changes `active_pointer` first (DC:2526-2536) and returns when the pen's data is not there (2545-2554). After an unread Up the recorder's contact, the policy and the
  owner's stroke stay open: the stroke is held although the pen has left, a later contact that begins off the page goes on with it, and the End of such a contact closes whatever is being drawn by then. An unread Down of a
  pen that drags the view with its button leaves `active_pointer` set, and a Leave of which not even the pointer's type is known (DC:923, 1460-1473) leaves the drag: both keep the fingers out until the pen comes again.
  "end/cancel transitions always pass so an active stroke cannot be left open by a resize or zoom" (`input/src/lib.rs:208-209`) is about the view only; nothing promises more. `GesturesStayWhole` excepts a
  stroke with samples of such a contact by name (`Stray`). `NothingIsHeldBack` claims the mouse, the capture, the fingers and the pen's contact after any fault, and the drag, `active_pointer` and the stroke unless a
  message of the pen was not read and no contact has begun in order since (`missed`).
* *Other devices.* An adapter whose Move is refused forgets its gesture without a Cancel (`dropped`); mouse and pen drawing at once without smoothing mix devices in one
  stroke, which `stroke/src/lib.rs:425` refuses, and the writer stops; cancelling the raw mouse cancels the pen's stroke (`crossed`).
* *A pick that outlives its canvas.* The End of a temporary pick is handed to the writer (N:3222-3235) and holds the pen until the answer. Another project is opened meanwhile and the old one's picture cannot be saved:
  `activate_project` reopens the old project (N:1009-1026) without `reset_for_project_activation`. Dropping the canvas lowered the barrier only for a pick not handed over yet (N:5339-5342), and the
  new one only lifts the pause of an edit (1278). `temporary_read_pending` stays, every sample is refused (LI:525), and the pen is dead until another project opens. The same reopening keeps an open pick and what is
  in the lanes. "No raw sample, queued command, preview, or export state from the previous document can cross this boundary" (LI:816-817) holds for the reset, which this path does not take.
  `PenIsHeardAgain` exempts it by name (`stranded`). That the reopening itself fails, which leaves no canvas, is in `host`.
* *Clipping.* `layers.rs:169` gives "an insertion point above the source's clipping run so an independent new layer cannot change the base of existing clipped
  siblings". `AddRaster`, `AddGroup` and `PasteSelection` insert right above the active layer, inside its run. The order is the user's to change, and nothing else depends on it.

## 4. Proofs

The theorems hold for every value of the constants under the modules' named assumptions, which are about the constants only: a limit is at least 1, "no value"
is none of the values, blank pixels are pixels. `PROJECT.json` lists those a reader should know of.

| Theorem | Module | For every |
|---|---|---|
| `Typed`, `Invariance`, `SessionIsAlwaysTheProject`, `SchemaNeverDecreases` | ProjectFile_proofs | content, limit, number of operations |
| `EditorIsDurable`: `Spec => ImplementsDurableArtwork` | ProjectFile_proofs | the same |
| `IdsAreFresh`, `FileAlwaysOpens`, `NothingLeaksOrIsLost`, `UndoBringsBackWhatWas`, `ForgetsOnlyWhenFull` | ProjectFile_proofs | the same |
| `GraphAlwaysLoads`, `UndoIsKept` | ProjectFile_proofs | roots, limit, number of operations |
| `WholeGestures`, `InkAndEditsAlternate`, `EveryGestureCloses` | LiveInk_proofs | capacity, gestures, moves |
| `StrokesAreGestures`, `EverythingIsLetGo` | CanvasInput_proofs | fingers, unread messages, refused moves |
| `SettledInOrder`, `ShownWasDurable`, `CleanIsExported`, `NothingLostByClosing` | StrokeWriter_proofs | lanes, backlog, strokes, edits, saves, failures |
| `SavedIsStored`, `DifferencesAddUp`, `NothingSavedIsDropped` | WebRecovery_proofs | tiles, hashes, files, operations a file keeps, bounds |
| `DraftsAreUndisturbed`, `CanvasHoldsWhatTheWorkerHolds`, `WhatIsSeenIsWritten` | Drafts_proofs | values, requests, contacts, moves, limits |
| `PublishedCopiesAreWhole` | RenderHost_proofs | paths, work, requests, reopenings, failures |
| `AllWorkIsKept`: `Spec => [](made.reopens <= 1 => WorkIsKept)` | RenderHost_proofs | the same, up to a second reopening |
| `PrimaryIsAlone`, `RoutesOnce`, `WorkStaysNamed` | Startup_proofs | processes, tries, inbox, kills |

### The editing session (`ProjectFile_proofs`)

`SessionIsTheProject` is not inductive: it says nothing while a transaction is
durable and the session has not moved, which is where the next state comes from. `IInv` adds
what the request promises meanwhile: a *prepared* batch fits the session (its parent is the head, its
base is the current root, its id the next id); a *durable* batch is one whose acceptance would give exactly what is in
the file (`Agrees(AcceptCommit(session, job), db, ...)`); a durable move is one whose target the file already has as its
cursor. It also carries `TablesAgree`: one snapshot per operation with the same result, and a current cursor only
beside an initial one. The step that matters is `AcceptFollowsCommit`: the file's retention and the
session's, two independent pieces of code, applied to equal histories give equal histories, cursors and bottoms. Under it are
lemmas on what each part of a transaction leaves alone (`...Changes`) and what it types (`...Typed`).

### The refinement (`ProjectFile_proofs`)

`saved` is read off the file and `shown` off the view. From `IInv`, each action is a step of DurableArtwork or changes neither: opening adopts what is saved
(`OpenIsOpen`, `ImportAdopts`), a transaction saves and leaves what is shown (`TransactionSaves`, for batches and cursor moves alike), an acceptance
shows what is saved (`AcceptShows`), a stop forgets what is shown (`StopIsStop`), all else stutters. Two small invariants are needed beside `IInv`: a project nobody
has drawn on has the layers it was created with and no animation (`Untouched`).

### The file (`ProjectFile_proofs`)

The next id is recomputed on reopening from the operations that are left. That it names nothing in the file follows from `Numbered`: every record belongs to an operation
or to the bottom (`Recorded`; retention drops the records of what it evicts and keeps the new bottom's), and every operation and the bottom are
below the next id (`Below`), or, between a commit and its acceptance, below the one after it.

`EveryDurableStateOpens` and `ContentIsExactlyReferenced` come from one invariant of the file, `Sound`: before the first operation nothing of a history is there
(`Undrawn`); afterwards (`Drawn`) the rows of operations and snapshots agree, the graph descends and joins, the cursor stands on a retained operation or the bottom,
a record family that is kept has a record for exactly the operations and the bottom, and the current values are those of the cursor's record; and
always (`Kept`) the roots are those the history reaches and the objects and their counts those of the roots. A batch preserves it in two halves: what is
written before retention (`WrittenRows`, `WrittenMetadata`, `WrittenContent`: the first record of a family is made for every earlier snapshot, a new root counts each of
its objects once) and what retention takes away (`RetentionKeeps`, `RetentionDraws`: the limited history still descends and joins, the new bottom keeps its record and its root). `PositionsLoad` then says that
every persisted cursor finds its records, and `SoundOpens` that nothing else is asked on opening. `Fitting` carries what the session promises of a batch (`CommitIsAccepted`), so no branch of a commit that would
leave the file half written is ever taken. One assumption the model had left open was needed: "no record" is not one of the values a record can have (`SessionAssumption`).

`UndoRestoresWhatWasMade` is about UndoWitness, whose every step is one of the session's (`WitnessWatches`). `Witnessed` says that the file restores at each position what was remembered of it, and that an empty project
shows what its bottom will be. A batch leaves every earlier position as it was although it may give it its first record (`WrittenRestores`: the record repeats the value that position had through the file's own);
retention leaves what it keeps, and its new bottom restores what the operation below had left (`RetentionRestores`); a cursor move changes only which record is current (`MoveRestores`).

### The history (`ProjectFile_proofs`)

`Ancestor` is a recursive function on an arbitrary finite graph, and whether it exists at all is the first thing to show: `Descending`, the graph has
finitely many operations and each follows a smaller id or nothing, lets a function defined for the operations below a bound be extended by one (`SetInduction` gives the
induction without an operator parameter, as a set of naturals that contains 0 and is closed under successor). From it come what an ancestor is, that walking it descends, that it
ends at the bottom, and the depth of an operation. `RetainedClosed`, `RetainedDescends` and `RetainedJoins` then say that retention, which drops the lowest ids off the undo path, keeps a graph that
descends and joins; a graph that descends and joins is one `from_persisted` accepts (`JoinedLoads`). For `UndoSurvivesRetention`, `PathShape` shows that the path's last operations are among
the retained, and `RetainedUndo` that undoing in the limited history follows the same operations and stops only where the limit does.

`ForgetsOnlyWhenFull` is about how much is kept beside the undo path. The order in which the code walks the graph (`MetBefore`) is a strict total order: two walks from the
cursor that meet go on together (`AncestorsMeet`), so the last place where they differ decides. Under a strict total order `Rank` maps a finite set one-to-one onto the numbers below its size
(`Foremost`), so that exactly as many others are kept as there is room for, and a full graph is cut to the limit exactly (`RetainedFull`). Of the file's steps only a batch removes operations (`CommitForgets`).

### The input lane (`LiveInk_proofs`)

The samples on their way are in three sequences and a pen's hand. What makes the proof short is that they are always sorted by `Rank` (three ranks to a gesture: begin, moves, end),
so that order can be read off sets and the lemmas about sequences are few. On the way stand at most two losses: the one the owner has been told of and
the one latched behind everything; `Live` is what follows the last. `Unbroken` says that between losses each gesture that begins before a later one also ends before it; `Following` that a gesture let in will be
closed by the pen; `Barriers` that every End the owner will take for a pick's holds the barrier; `Gates` that nothing is let in behind a barrier or a pause. Each handler is treated by what it does to
those sets (takes one sample, adds one, evicts a move, cuts at a loss).

`EveryGestureCloses` adds a second invariant, `Accounted`: a gesture let in has finished or stands in the stream from its Begin, or the stroke drawn, to its End without a loss between (`Owed`); the one in the pen's hand
likewise, but for its End (`InHand`); what has finished or is drawn comes before every Begin still to come, and nothing finishes twice (`Once`); a canvas that retires lets nothing in, so that its last drain is the last
(`Retiring`). The step that matters is taking a sample (`TakeComing`): a Begin or Cancel met while the End of the stroke drawn is still to come would be out of order.

### The devices (`CanvasInput_proofs`)

One message runs through some twenty functions, each of which turns one record into the next. The invariant is in two halves so that each function can be treated once, whoever calls it.

`Ink` relates the stroke the lane holds to the gestures that still write to it (`Writing`: the adapters' and, where the policy let it begin, the pen's). Touch draws alone (`Apart`); stray samples, which the policy takes for a contact that is over, come only while it is open for it (`Strayed`); what the lane refuses leaves no stroke (`Quiet`);
a device has one gesture in the stroke, the one that writes (`Same`); a gesture that writes has the stroke to itself, or all of it but stray samples was crossed (`Joined`); one that was let in and is still running draws its own stroke (`Begun`); somebody draws
the stroke, unless one of its moves found no room or the pen's end was not read (`Owned`). With `Whole` this is kept by every function of the message procedure. They do one of three things: a gesture ends, is cancelled or is forgotten, which leaves the stroke empty (`Leaves`, `Cancels`, `Ends`);
a sample is added (`Moves`); or a gesture begins (`LetsIn`), which is the only place where two meet. A touch finds the others gone, and mouse and pen are crossed from then on.

`Touched`, `Held` and `Penned` compare what the window remembers with the hands: the pointer it follows is on the screen, a mouse gesture or drag has its button down, and the pen's contact, policy and drags need a pen that is there. A message that is lost leaves a
memory behind, so these cannot be equalities; they are the direction that `NothingIsHeldBack` needs. For the pen they are in two parts: `Placed` holds whatever was not read, and `Sharp` unless `missed`; a contact that begins in order makes it true again. `Keeps` says of a function that it leaves that memory alone, and `ObserveDragIs` and `SettleIs` what drag and capture become, so that each action only argues about the few fields it sets.
Proving it made two definitions of the model unambiguous (`Move` and `Close` had overlapping cases; their values did not depend on it).

### The stroke writer (`StrokeWriter_proofs`)

Four places hold a closed stroke: the project, the writer's hand, the request lane and the backlog. `Lines` says that their numbers follow one another: for some `a` and `b` the project holds the strokes up to `a`, the
hand the next, the lane those up to `b` and the backlog the rest up to the last one closed, and the pending counter counts those from `a` to `b` and the one not settled yet. The lemmas `Carries...` say
what appending, taking and joining do to such a range, so that no step needs an induction over a sequence. `Waits` keeps a place in the backlog free for the stroke being drawn, which `defer_materialization` asserts.

`Alone` is what adopting an edit relies on: while one is under way no stroke is drawn, deferred, on the lane or in the writer's hand and no completion waits, because the counter falls only after the completion is out
(`NothingPending`). From it comes `Displayed`: what is shown, followed by the completions not adopted, is what is durable, or its beginning once one side has stopped. `Generations` and `Covered` are about the export: of an artwork that is clean
the request for its latest image was sent with no stroke deferred, only what changes no image may stand behind it, and "current" at that number means an image of everything durable. `Closed` follows the steps of a close, whose drain defers no more than
it reads, and `Healthy` says that a healthy close meets no error (`CloseMeetsNoError`): its sends find the writer, its edit is answered, and the writer it joins has settled everything.

### The browser's saves (`WebRecovery_proofs`)

The page and the worker each keep their idea of the last accepted save. `Agreement` says they are the same except while the answer that makes them so is on its way, and once the
worker is gone for good. A packet is right against the checkpoint it was captured with (`Sent`), so what the worker rebuilds is what was captured, and what it stages goes on from the accepted file (`Staged`). `GoesOn(file, old, lost)` allows a full file to have dropped at most `lost` of the oldest entries; it is carried from the file opened over any number of saves, each of which drops
at most one (`RetainedFile`), by comparing the sequences entry by entry (`GoesOnByEntry`).
`Timely`, that until something asks for another save the artwork captured is the one shown, is what `SavedMeansStored` needs at the end.

### Processes (`Startup_proofs`)

`Holders`: whoever got the mutex first keeps it open and is alone. `Listening` and `Clients` tie the pipe to the two processes at its ends, `Deliveries` says that a client is in one inbox or in what was taken,
once, and in none while its frame may still be read. With the single instance `Guard` ties what the primary is doing to the file the path names (`Works`, `Knows`) and says that all the work is there
(`WorkIsThere`); the upgrade is followed from copy to rename.

### Drafts on two threads (`Drafts_proofs`)

Neither side sees the other's draft, and an answer may be on its way. `Agreed` therefore speaks of what the canvas *will* hold, show and have as its tree once it has taken the answer
(`Foreseen`, `ForeseenTiles`, `ForeseenTree`), and says that the worker holds the same; a refusal leaves both with a draft that is not ready. `Still` is what keeps strokes out: a request is only sent while no stroke is on its way
(`Idle`), a colour correction only with the lane empty, and a sample that begins a stroke is the first one in the lane. `Apart` is needed because the worker refuses a transform while it corrects colours but not the reverse: that the two never meet is the canvas's doing alone.
All that the canvas does by itself is one relation, `Follows`: it keeps the drafts it holds and sends at most one request, which the long chain from a command to `Sent` is shown to satisfy operator by operator (`AdmitMoveFollows` up to `CommandFollows`); one lemma, `OwnStep`, then covers commands,
flush and tint. `CommitIsWhatWasSeen` is read off the same invariant. The attempt found a place where the model was too free: a tool selected with no draft open waits for the pen as every other tool command does (`native_canvas.rs:2676`), and `Selected` now says so.

### The window and its actor (`RenderHost_proofs`)

There are two invariants. `Base` holds whatever happens: an actor is only at a step its batch sends it to (`Staged`); a Save As asked for, a Save As under way and an opening are one hold of admission between them
(`SavesAreExclusive`); and a project that is being copied exists, with nothing left outside its file and its linked image equal to it (`Copied`). `CopyStands`, `WhoWrites` and `ProjectsGrow` say that the steps that write
files do not disturb this, and `CopiesAreWhole` follows.

`WorkIsKept` needs to know when a canvas admits work. `Shut` is the core: a canvas that is not open, or is closing, admits nothing, and unless a worker is about to drain it nothing is left in it. A reopening breaks this for
a moment, since the gate is open and the project is not. What makes it harmless is that no accepted close is queued then that could meet a canvas opened afterwards: an accepted close is in one place and has shut
the gate (`OneClose`), before the reopening none is queued behind one under way, and a failure from which one may reopen is that of a close carried out (`BeforeReopening`). A request to reopen is in one place as well (`OneReopening`,
`Fresh`). `Gates` ties the actor's flag to the bridge's and `Over` says that without an actor there is no work, unless it ended by itself. These together (`Once`) hold until a second reopening is asked for, and not beyond: the
attempt to prove them without that limit is what led to `reopened`. That nothing is lost is then `AllKept`: each step moves a piece of work on to the next place or into the file of its own project (`Stays`), because what is outside the files is always the open project's (`Here`).

### What is only model-checked

* Liveness and `ENABLED`: `CloseCompletes`, `PenIsHeardAgain`, `EventuallySaved`, `EverythingIsAnswered`, `WaitsEnd`, `EveryoneEnds`.
* `RetentionIsTheLoop`, which compares the results of two recursions for any input.
* `FrameIsTheArtwork`, `CachesAreCurrent`, `LayersAreWhole`: what is shown is composed by a recursion over the tree, so that they compare what recursive definitions compute for any tree.
* `WorkIsKept` after a second reopening, where it is false.

## 5. Plan

1. *Done*: the models and runs above; the theorems above, `Drafts`, `RenderHost` and `CanvasInput` last.
2. The renderer's invariants stay with TLC.

## 6. What is abstracted and what is left out

Everywhere: pixels, brushes, smoothing, pressure, colour and blending are numerical code and present only as the
root or ink a request produces; encodings, hashes, compression and the inside of redb are a transaction that is atomic and durable.

* **Project file, session**: masks and capability bits of old schemas; preview, thumbnail, clipboard and scaled export requests, which change nothing durable; tool state.
* **Live input, devices**: positions, pressure, coalesced history, keys and the wheel; the WebView router, which runs only with `NAYATI_COMPOSITION_HOST=1`; promoted messages and the `is_closing` guard; the palm timer's 700 ms is any
  time; the other editing tools.
* **Render host**: panels and layout; threads that cannot be started; the update's timer. A killed process is a behaviour cut short. Work is excused under `died` only when the actor itself ended.
* **Drafts**: selections and mask targets, alpha lock, exports, the pixel edits' gestures, a full channel and fatal commits; one raster and a provisional layer. A preview may be refused at any time.
* **Layers**: masks, names, effects, references and the timeline's commands.
* **Display**: the workspace's end after a failure; an edit of the artwork is one step; the page budget never refuses; batches of more than one coordinate; the GPU paints what the CPU paints; blend modes, masks being painted, onion skins, animation and
  transform displays; `set_visibility`, `set_opacity`, `reorder`, which only examples call; redundant invalidations.
* **Web**: failures of the GPU, the hosted mode, the modal of a replacement, the quiet-time timers, the draft of an artwork move.
* **Processes**: invocations without a path and paths from a dialog; rename and link have the semantics of Unix, opening a database is atomic with its lock, a read-only check shares the lock; `migrate-copy` to a new file and the embedded project.
* Preferences, updater, file associations, user interface and command line.

The map covers about 15 % of the implementation's lines. Most of the rest of the largest mapped files are their own tests (more than half of
`project-redb/src/lib.rs` and of `native_canvas.rs`) and the drawing of pixels and panels.
