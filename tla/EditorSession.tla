---------------------------- MODULE EditorSession ----------------------------
(***************************************************************************)
(* The materialization worker: the single thread that owns an open project *)
(* file and the editing session over it (crates/editor and the worker loop *)
(* of apps/desktop/native_canvas).  Every operation is prepared against    *)
(* the session, made durable, and only then accepted by the session; a     *)
(* crash, a failed transaction or a failure after the transaction may fall *)
(* between any two of these.                                               *)
(*                                                                         *)
(* Variables:                                                              *)
(*   db       the project file                                             *)
(*   session  HeadlessStrokeSession: snapshot, root (its tiles), history,  *)
(*            cursor and the cursors of every operation it can reach       *)
(*   view     preview_tree, preview_canvas and the timeline of the worker  *)
(*   nextId   next_id: the id of the next snapshot and of its operation    *)
(*   worker   "closed"    no process has the file open                     *)
(*            "opening"   an empty project is open, import not decided     *)
(*            "idle"      waiting for a request                            *)
(*            "prepared"  a request prepared, its transaction not run      *)
(*            "durable"   transaction committed, session not yet moved     *)
(*            "failed"    fail-stop: the worker takes no further request   *)
(*   job      the prepared request, NoJob otherwise                        *)
(***************************************************************************)
EXTENDS ProjectDb

CONSTANTS
  Selections,  \* whether a stroke may be clipped by a selection: SUBSET BOOLEAN
  MaxId        \* bound: the largest id a behaviour hands out

Ids == 1..MaxId
Heads == Ids \cup {None}
Nodes == [parent : Heads, before : Roots, after : Roots]
Cursors == [snapshot : Heads, head : Heads, root : Roots]
Strokes == [parent : Heads, before : Roots, after : Roots]
Snapshots == [head : Ids, before : Roots, after : Roots, stroke : Strokes \cup {Absent}]

AllTrees == Trees \cup {DefaultTree, Absent}
AllPages == Pages \cup {DefaultPage}
AllTimelines == Timelines \cup {NoTimeline}

ASSUME SessionAssumption ==
  /\ MaxId \in Nat \ {0}
  /\ Selections \subseteq BOOLEAN
  /\ Absent \notin Cursors \cup Strokes \cup {NoTimeline}   \* Option: None is not Some

VARIABLES db, session, view, nextId, worker, job
vars == <<db, session, view, nextId, worker, job>>

NoJob == Absent

-----------------------------------------------------------------------------
(* HeadlessStrokeSession *)

(* HeadlessStrokeSession::new on empty tiles *)
Bottom == Cursor(InitialSnapshot, None, EmptyRoot)

NewSession ==
  [snapshot |-> InitialSnapshot, root |-> EmptyRoot,
   history |-> NewHistory(EmptyRoot), cursor |-> Bottom,
   cursors |-> With(EmptyMap, None, Bottom)]

(* load_reopened followed by from_reopened *)
ReopenedSession(d) ==
  IF ~HasArtwork(d) THEN NewSession
  ELSE LET at == CurrentCursor(d)
       IN [snapshot |-> at.snapshot, root |-> at.root,
           history  |-> FromPersisted(StoredInitialRoot(d), at.head, d.history),
           cursor   |-> at,
           cursors  |-> PersistedCursors(d)]

(* The worker tells no animation record from a record of static artwork. *)
ShownTimeline(record) == IF record = Absent THEN NoTimeline ELSE record

View(tree, page, record) ==
  [tree |-> tree, page |-> page, timeline |-> ShownTimeline(record)]

StoredView(d) == View(d.tree, d.page, d.timeline)

ViewAt(d, cursor) == View(TreeAt(d, cursor), PageAt(d, cursor), TimelineAt(d, cursor))

(* Fault: counting resumes at the cursor. *)
NextProjectIdFault(s) == s.snapshot + 1

(* next_project_id *)
NextProjectId(s) ==
  LET known == {s.snapshot} \cup {s.cursors[n].snapshot : n \in DOMAIN s.cursors}
                 \cup DOMAIN s.cursors
  IN 1 + CHOOSE m \in known : \A k \in known : k <= m

(* Fault: the bottom keeps the cursor it had before the limit moved it. *)
LimitHistoryFault(s) ==
  LET limited == EnforceLimit(s.history)
  IN [s EXCEPT !.history = limited,
               !.cursors = Keeping(s.cursors, DOMAIN limited.nodes \cup {None})]

(* limit_history: the baseline's cursor becomes the bottom's. *)
LimitHistory(s) ==
  LET base    == Baseline(s.history.nodes, s.history.head)
      limited == EnforceLimit(s.history)
      rebased == IF base = None THEN s.cursors
                 ELSE With(s.cursors, None, [s.cursors[base] EXCEPT !.head = None])
  IN [s EXCEPT !.history = limited,
               !.cursors = Keeping(rebased, DOMAIN limited.nodes \cup {None})]

(* accept_materialized and accept_structural_change *)
CanAcceptCommit(s, batch) ==
  /\ CanAppendNode(s.history, batch.id, batch.node)
  /\ batch.node.before = s.root
  /\ IF batch.stroke # Absent THEN batch.stroke.parent = s.snapshot
     ELSE batch.id > s.snapshot

AcceptCommit(s, batch) ==
  LET at == Cursor(batch.id, batch.id, batch.node.after)
  IN LimitHistory(
       [s EXCEPT !.history  = AppendNode(@, batch.id, batch.node),
                 !.snapshot = batch.id,
                 !.root     = batch.node.after,
                 !.cursor   = at,
                 !.cursors  = With(@, batch.id, at)])

(* A prepared cursor move: PreparedHistoryCursorMove.  `to` is the child   *)
(* redone, None for an undo.                                               *)
Move(s, to, target) == [to |-> to, source |-> s.cursor, target |-> target]

MovedHistory(s, move) ==
  IF move.to = None THEN Undo(s.history) ELSE RedoTo(s.history, move.to)

CanAcceptMove(s, move) ==
  /\ move.source = s.cursor
  /\ IF move.to = None THEN CanUndo(s.history) ELSE CanRedoTo(s.history, move.to)
  /\ MovedHistory(s, move).current = move.target.root
  /\ MovedHistory(s, move).head = move.target.head

(* accept_history_cursor_move *)
AcceptMove(s, move) ==
  [s EXCEPT !.history  = MovedHistory(s, move),
            !.snapshot = move.target.snapshot,
            !.cursor   = move.target,
            !.root     = move.target.root]

-----------------------------------------------------------------------------
(* Opening and closing *)

(* The process is gone, by crash, by kill or by an orderly exit; what it   *)
(* held in memory goes with it.                                            *)
Stop ==
  /\ worker # "closed"
  /\ worker' = "closed"
  /\ session' = NewSession
  /\ view' = StoredView(NewProject)
  /\ nextId' = 1
  /\ job' = NoJob
  /\ UNCHANGED db

(* open_materialization_session on a project without artwork persists the  *)
(* initial layer tree before the first operation.                          *)
OpenEmpty ==
  /\ worker = "closed" /\ Opens(db) /\ ~HasArtwork(db)
  /\ db' = IF db.tree = Absent THEN PersistLayerTree(db, DefaultTree) ELSE db
  /\ session' = NewSession
  /\ view' = StoredView(db')
  /\ nextId' = 1
  /\ worker' = "opening"
  /\ UNCHANGED job

OpenExisting ==
  /\ worker = "closed" /\ Opens(db) /\ HasArtwork(db)
  /\ session' = ReopenedSession(db)
  /\ view' = StoredView(db)
  /\ nextId' = NextProjectId(ReopenedSession(db))
  /\ worker' = "idle"
  /\ UNCHANGED <<db, job>>

StartBlank ==
  /\ worker = "opening"
  /\ worker' = "idle"
  /\ UNCHANGED <<db, session, view, nextId, job>>

(* A PNG opened as a new project: its size and the layer tree are          *)
(* persisted, then its pixels are committed as operation 1.                *)
ImportPng(root, page) ==
  /\ worker = "opening"
  /\ db' = PersistLayerTree(PersistCanvasSpec(db, page), view.tree)
  /\ view' = [view EXCEPT !.page = page]
  /\ job' = StructuralBatch(nextId, None, EmptyRoot, root, Keep, Keep, Keep)
  /\ worker' = "prepared"
  /\ UNCHANGED <<session, nextId>>

-----------------------------------------------------------------------------
(* Preparing a request *)

Prepare(request) ==
  /\ worker = "idle" /\ nextId <= MaxId
  /\ job' = request
  /\ worker' = "prepared"
  /\ UNCHANGED <<db, session, view, nextId>>

(* prepare_round_stroke_with_options *)
PrepareStroke(after, selected) ==
  Prepare(StrokeBatch(nextId, session.snapshot, session.history.head,
                      session.root, after, selected))

(* prepare_structural_change, with the metadata its commit call passes *)
Structural(after, tree, page, timeline) ==
  StructuralBatch(nextId, session.history.head, session.root, after,
                  tree, page, timeline)

PrepareEdit(after) == Prepare(Structural(after, Keep, Keep, Keep))

PrepareLayers(after, tree) == Prepare(Structural(after, tree, Keep, Keep))

PreparePage(after, page) == Prepare(Structural(after, Keep, page, Keep))

PrepareAnimation(after, tree, timeline) ==
  Prepare(Structural(after, tree, view.page, timeline))

(* prepare_undo_cursor, prepare_redo_cursor and prepare_redo_to_cursor: a  *)
(* position without a cursor is refused (CursorUnavailable).               *)
PrepareMove(to, head) ==
  /\ worker = "idle"
  /\ head \in DOMAIN session.cursors
  /\ job' = Move(session, to, session.cursors[head])
  /\ worker' = "prepared"
  /\ UNCHANGED <<db, session, view, nextId>>

PrepareUndo ==
  CanUndo(session.history) /\ PrepareMove(None, Undo(session.history).head)

PrepareRedoTo(n) == CanRedoTo(session.history, n) /\ PrepareMove(n, n)

PrepareRedo ==
  \E n \in RedoChoice(session.history) :
    CanRedoTo(session.history, n) /\ PrepareMove(n, n)

-----------------------------------------------------------------------------
(* Making it durable *)

IsMove(request) == "target" \in DOMAIN request

CommitBatch ==
  /\ worker = "prepared" /\ ~IsMove(job)
  /\ CommitAccepted(db, job)
  /\ db' = Commit(db, job)
  /\ worker' = "durable"
  /\ UNCHANGED <<session, view, nextId, job>>

PersistMove ==
  /\ worker = "prepared" /\ IsMove(job)
  /\ CursorLoads(db, job.target)
  /\ db' = PersistHistoryCursor(db, job.target)
  /\ worker' = "durable"
  /\ UNCHANGED <<session, view, nextId, job>>

(* The file refuses, or storage fails before the commit point: nothing is  *)
(* durable and the worker stops.                                           *)
TransactionFails ==
  /\ worker = "prepared"
  /\ worker' = "failed"
  /\ job' = NoJob
  /\ UNCHANGED <<db, session, view, nextId>>

(* Fault: the worker goes on as if the commit had not happened. *)
FailsAfterCommitFault ==
  /\ worker = "durable"
  /\ worker' = "idle"
  /\ job' = NoJob
  /\ UNCHANGED <<db, session, view, nextId>>

(* The commit became durable and still reported an error. *)
FailsAfterCommit ==
  /\ worker = "durable"
  /\ worker' = "failed"
  /\ job' = NoJob
  /\ UNCHANGED <<db, session, view, nextId>>

-----------------------------------------------------------------------------
(* Accepting it *)

AcceptBatch ==
  /\ worker = "durable" /\ ~IsMove(job)
  /\ CanAcceptCommit(session, job)
  /\ session' = AcceptCommit(session, job)
  /\ view' = [tree     |-> IF job.tree = Keep THEN view.tree ELSE job.tree,
              page     |-> IF job.page = Keep THEN view.page ELSE job.page,
              timeline |-> IF job.timeline = Keep THEN view.timeline ELSE job.timeline]
  /\ nextId' = nextId + 1
  /\ worker' = "idle"
  /\ job' = NoJob
  /\ UNCHANGED db

AcceptCursorMove ==
  /\ worker = "durable" /\ IsMove(job)
  /\ CanAcceptMove(session, job)
  /\ session' = AcceptMove(session, job)
  /\ view' = ViewAt(db, job.target)
  /\ worker' = "idle"
  /\ job' = NoJob
  /\ UNCHANGED <<db, nextId>>

-----------------------------------------------------------------------------
Init ==
  /\ db = NewProject
  /\ session = NewSession
  /\ view = StoredView(NewProject)
  /\ nextId = 1
  /\ worker = "closed"
  /\ job = NoJob

Open == OpenEmpty \/ OpenExisting \/ StartBlank
          \/ \E r \in Roots, p \in AllPages : ImportPng(r, p)

Request ==
  \/ \E r \in Roots, selected \in Selections : PrepareStroke(r, selected)
  \/ \E r \in Roots : PrepareEdit(r)
  \/ \E r \in Roots, t \in Trees : PrepareLayers(r, t)
  \/ \E r \in Roots, p \in Pages : PreparePage(r, p)
  \/ \E r \in Roots, t \in Trees, l \in AllTimelines :
       PrepareAnimation(r, t, l)
  \/ PrepareUndo
  \/ PrepareRedo
  \/ \E n \in 1..MaxId : PrepareRedoTo(n)

Work == CommitBatch \/ PersistMove \/ AcceptBatch \/ AcceptCursorMove

Fail == TransactionFails \/ FailsAfterCommit

Next == Open \/ Request \/ Work \/ Fail \/ Stop

Spec == Init /\ [][Next]_vars

-----------------------------------------------------------------------------
(* Properties *)

Batches ==
  [stroke : Strokes \cup {Absent}, id : Ids, node : Nodes, selected : BOOLEAN,
   tree : Trees \cup {Keep}, page : AllPages \cup {Keep},
   timeline : AllTimelines \cup {Keep}]
Moves == [to : Heads, source : Cursors, target : Cursors]

DbTypeOK(d) ==
  /\ DOMAIN d = DOMAIN NewProject
  /\ d.schema \in BaseSchema..CanvasHistorySchema
  /\ MapsInto(d.history, Ids, Nodes)
  /\ MapsInto(d.snapshots, Ids, Snapshots)
  /\ d.strokes \subseteq Strokes
  /\ d.cursor \in Cursors \cup {NoCursor}
  /\ d.initial \in Cursors \cup {NoCursor}
  /\ d.roots \subseteq Roots /\ d.objects \subseteq Objects
  /\ DOMAIN d.refs \subseteq Objects
  /\ d.tree \in AllTrees /\ MapsInto(d.treeOf, Heads, AllTrees)
  /\ d.page \in AllPages /\ MapsInto(d.pageOf, Heads, AllPages)
  /\ d.timeline \in AllTimelines \cup {Absent}
  /\ MapsInto(d.timelineOf, Heads, AllTimelines)

SessionTypeOK(s) ==
  /\ DOMAIN s = DOMAIN NewSession
  /\ DOMAIN s.history = DOMAIN NewHistory(EmptyRoot)
  /\ s.snapshot \in Heads /\ s.root \in Roots
  /\ s.history.head \in Heads
  /\ MapsInto(s.history.nodes, Ids, Nodes)
  /\ s.cursor \in Cursors
  /\ MapsInto(s.cursors, Heads, Cursors)

(* The tables, the session and the worker's state have their types.        *)
TypeOK ==
  /\ DbTypeOK(db) /\ SessionTypeOK(session)
  /\ view \in [tree : AllTrees, page : AllPages, timeline : AllTimelines]
  /\ nextId \in 1..MaxId + 1
  /\ worker \in {"closed", "opening", "idle", "prepared", "durable", "failed"}
  /\ IF worker \in {"prepared", "durable"} THEN job \in Batches \cup Moves
     ELSE job = NoJob

(* Wherever a crash, a failed transaction or a failure after the           *)
(* transaction leaves the file, ProjectDb::open accepts it: the tables of  *)
(* one commit agree with each other in every durable state.  What the      *)
(* session prepared the file accepts, and what the file made durable the   *)
(* session accepts: the worker stops only because storage failed.          *)
EveryDurableStateOpens ==
  /\ Opens(db)
  /\ worker = "prepared" =>
       IF IsMove(job) THEN CursorLoads(db, job.target) ELSE CommitAccepted(db, job)
  /\ worker = "durable" =>
       IF IsMove(job) THEN CanAcceptMove(session, job) ELSE CanAcceptCommit(session, job)

(* Between requests the session is what reopening the file would give,     *)
(* apart from the redo preferences, which are not stored: the two halves   *)
(* of the program limit, re-parent and rebase the history each on its own  *)
(* and may not drift apart.                                                *)
SameHistory(s, d) ==
  /\ s.history.nodes = d.history
  /\ s.history.initial = IF HasArtwork(d) THEN d.initial.root ELSE EmptyRoot
  /\ s.history.head = s.cursor.head
  /\ s.history.current = s.root

SameCursors(s, d) ==
  /\ s.snapshot = s.cursor.snapshot /\ s.root = s.cursor.root
  /\ s.cursor = IF HasArtwork(d) THEN CurrentCursor(d) ELSE Bottom
  /\ s.cursors = IF HasArtwork(d) THEN PersistedCursors(d) ELSE With(EmptyMap, None, Bottom)

SessionIsTheProject ==
  worker \in {"opening", "idle", "prepared"} =>
    SameHistory(session, db) /\ SameCursors(session, db) /\ view = StoredView(db)

(* The file holds the manifests, objects, counts and strokes of the        *)
(* retained history and not one more: retention leaks no storage and       *)
(* drops nothing that is shared with a surviving operation, so that every  *)
(* position undo and redo can be asked for has a cursor and still loads.   *)
ContentIsExactlyReferenced ==
  /\ db.roots = RootsOf(db.snapshots)
                  \cup (IF db.initial = NoCursor THEN {} ELSE {db.initial.root})
  /\ db.objects = UNION {ObjectsOf[r] : r \in db.roots}
  /\ db.refs = [o \in db.objects |-> RefCount(db.roots, o)]
  /\ db.strokes = {db.snapshots[s].stroke : s \in DOMAIN db.snapshots} \ {Absent}
  /\ worker \in {"idle", "prepared"} /\ HasArtwork(db) =>
       \A n \in DOMAIN session.history.nodes \cup {None} :
         n \in DOMAIN session.cursors /\ CursorLoads(db, session.cursors[n])

(* The next id names nothing in the file, also after a restart that        *)
(* forgot how far the last process had counted: only metadata tables would *)
(* notice a reused snapshot id, the others overwrite.                      *)
NextIdIsFresh ==
  worker \in {"opening", "idle", "prepared"} =>
    \A id \in DOMAIN db.history \cup DOMAIN db.snapshots \cup DOMAIN db.treeOf
              \cup DOMAIN db.pageOf \cup DOMAIN db.timelineOf :
      id < nextId

(* A reader capability, once a project needs it, is never withdrawn: an    *)
(* older program must keep refusing the file.                              *)
SchemaNeverGoesBack == [][db'.schema >= db.schema]_vars

(* An operation disappears from the file only when the file is full, and   *)
(* the limit is then used up: no commit forgets more than it must.         *)
OnlyAFullHistoryForgets ==
  [][~(DOMAIN db.history \subseteq DOMAIN db'.history) =>
       Cardinality(DOMAIN db'.history) = HistoryLimit]_vars

(* The editor implements DurableArtwork.  An empty file shows the default  *)
(* layer tree, which the first opening stores; while no process runs, what *)
(* is shown is what opening would show.                                    *)
Shown(root, v) ==
  [root |-> root, view |-> [v EXCEPT !.tree = IF @ = Absent THEN DefaultTree ELSE @]]

SavedArtwork ==
  Shown(IF HasArtwork(db) THEN CurrentCursor(db).root ELSE EmptyRoot, StoredView(db))

ShownArtwork ==
  IF worker = "closed" THEN SavedArtwork ELSE Shown(session.root, view)

AllViews ==
  [tree : Trees \cup {DefaultTree}, page : AllPages, timeline : Timelines \cup {NoTimeline}]

Artwork == INSTANCE DurableArtwork WITH
  Artworks <- [root : Roots, view : AllViews],
  Blanks   <- [root : {EmptyRoot},
               view : {v \in AllViews : v.tree = DefaultTree /\ v.timeline = NoTimeline}],
  saved    <- SavedArtwork,
  shown    <- ShownArtwork,
  running  <- worker # "closed"

(* Every step of the worker is a step DurableArtwork allows: nothing is on *)
(* screen that is not durable, whatever fails or crashes and whenever.     *)
ImplementsDurableArtwork == Artwork!Spec
=============================================================================
