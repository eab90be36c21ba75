------------------------------ MODULE ProjectDb ------------------------------
(***************************************************************************)
(* The project file of crates/project-redb, as operators on one record     *)
(* `db`, the tables of the last durable transaction:                       *)
(*                                                                         *)
(*   schema     META "schema_version" without its reader-capability bits   *)
(*   history    HISTORY: node id |-> [parent, before, after]               *)
(*   snapshots  SNAPSHOTS: snapshot id |-> [head, before, after, stroke]   *)
(*   strokes    STROKES: the stroke commits stored                         *)
(*   cursor     CURRENT_HISTORY_CURSOR and CURRENT_SNAPSHOT, which every   *)
(*              transaction writes or removes together; NoCursor if absent *)
(*   initial    INITIAL_HISTORY_CURSOR, NoCursor if absent                 *)
(*   roots      ROOTS: the content roots with a manifest                   *)
(*   objects    OBJECTS: the pixel objects stored                          *)
(*   refs       TILE_ROOT_REFS: object |-> manifests that name it          *)
(*   tree, treeOf          CURRENT_LAYER_TREE and SNAPSHOT_LAYERS          *)
(*   page, pageOf          the canvas metadata and SNAPSHOT_CANVAS         *)
(*   timeline, timelineOf  CURRENT_ANIMATION and SNAPSHOT_ANIMATION        *)
(*                                                                         *)
(* A root's id and its hash are both derived from the pixels, so a root is *)
(* one value; a tile snapshot is its root.  A stroke commit's id hashes    *)
(* its parent snapshot, its base and its samples, and replaying it yields  *)
(* the after root, so a stroke is [parent, before, after].                 *)
(* redb makes a write transaction atomic and durable; it is external.      *)
(***************************************************************************)
EXTENDS History

CONSTANTS
  Roots,          \* content roots
  EmptyRoot,      \* the root of an artwork without pixels
  Objects,        \* hashes of pixel objects
  ObjectsOf,      \* [Roots -> SUBSET Objects]: what a root's manifest names
  Trees,          \* layer hierarchies a request may set
  DefaultTree,    \* default_layer_tree()
  Pages,          \* canvas sizes a request may set
  DefaultPage,    \* CanvasSpec::DEFAULT
  Timelines,      \* animation timelines a request may set
  Absent          \* Option::None of a value that is not an id

ASSUME ProjectAssumption ==
  /\ EmptyRoot \in Roots
  /\ ObjectsOf \in [Roots -> SUBSET Objects]
  /\ Absent \notin Roots \cup Trees \cup {DefaultTree} \cup Pages \cup Timelines

InitialSnapshot == 0                       \* SnapshotId(0)
NoCursor == Absent
Cursor(snapshot, head, root) == [snapshot |-> snapshot, head |-> head, root |-> root]

(* Schema markers, in the order a project may move through them. *)
BaseSchema == 1
LayerHistorySchema == 2
SelectionSchema == 3
CanvasHistorySchema == 4

(* write_marker: the file a new project starts as. *)
NewProject ==
  [schema |-> BaseSchema,
   history |-> EmptyMap, snapshots |-> EmptyMap, strokes |-> {},
   cursor |-> NoCursor, initial |-> NoCursor,
   roots |-> {}, objects |-> {}, refs |-> EmptyMap,
   tree |-> Absent, treeOf |-> EmptyMap,
   page |-> DefaultPage, pageOf |-> EmptyMap,
   timeline |-> Absent, timelineOf |-> EmptyMap]

LayerHistoryEnabled(db) == db.schema >= LayerHistorySchema
CanvasHistoryEnabled(db) == db.schema = CanvasHistorySchema
AnimationEnabled(db) == db.timeline # Absent

(* The cursor a project is at: the stored one, or the bottom. *)
CurrentCursor(db) == IF db.cursor # NoCursor THEN db.cursor ELSE db.initial

-----------------------------------------------------------------------------
(* Batches: a prepared operation.  Keep in `tree`, `page` or `timeline`    *)
(* stands for the None argument, "leave it as it is".                      *)

Keep == "keep"

StrokeBatch(id, parentSnapshot, parent, before, after, selected) ==
  [stroke |-> [parent |-> parentSnapshot, before |-> before, after |-> after],
   id |-> id, node |-> [parent |-> parent, before |-> before, after |-> after],
   selected |-> selected, tree |-> Keep, page |-> Keep, timeline |-> Keep]

StructuralBatch(id, parent, before, after, tree, page, timeline) ==
  [stroke |-> Absent,
   id |-> id, node |-> [parent |-> parent, before |-> before, after |-> after],
   selected |-> FALSE, tree |-> tree, page |-> page, timeline |-> timeline]

(* validate_commit_lineage and validate_structural_lineage *)
CursorMatchesSnapshot(db, cursor) ==
  /\ cursor.snapshot \in DOMAIN db.snapshots
  /\ db.snapshots[cursor.snapshot].head = cursor.head
  /\ db.snapshots[cursor.snapshot].after = cursor.root

LineageHolds(db, batch) ==
  IF CurrentCursor(db) = NoCursor
  THEN DOMAIN db.history = {} /\ batch.node.parent = None
  ELSE /\ db.cursor # NoCursor => CursorMatchesSnapshot(db, db.cursor)
       /\ batch.node.parent = CurrentCursor(db).head
       /\ batch.node.before = CurrentCursor(db).root
       /\ IF batch.stroke # Absent
          THEN batch.stroke.parent = CurrentCursor(db).snapshot
          ELSE batch.id > CurrentCursor(db).snapshot

(* Where the bottom lies if this batch is the project's first.             *)
FirstSnapshot(batch) ==
  IF batch.stroke # Absent THEN batch.stroke.parent ELSE InitialSnapshot

(* The snapshots whose metadata is frozen when a record family starts.     *)
KnownSnapshots(db, batch) ==
  DOMAIN db.snapshots \cup
  {IF db.initial # NoCursor THEN db.initial.snapshot ELSE FirstSnapshot(batch)}

Freeze(known, value) == [s \in known |-> value]

-----------------------------------------------------------------------------
(* Per-snapshot metadata, captured by the transaction of every commit.  A  *)
(* family's first record freezes the value that all older snapshots shared *)
(* (LEGACY_REFERENCE resolves to the LEGACY_LAYERS frozen at that moment,  *)
(* so the reference is modelled by the value it resolves to).              *)

LayersCaptured(db, batch) ==
  LayerHistoryEnabled(db) \/ batch.tree # Keep \/ batch.selected \/ batch.page # Keep

(* Fault: the older snapshots are given the new tree.                      *)
CaptureLayersFault(db, batch) ==
  LET next == IF batch.tree = Keep THEN db.tree ELSE batch.tree
      older == IF LayerHistoryEnabled(db) THEN db.treeOf
               ELSE Freeze(KnownSnapshots(db, batch), next)
  IN IF ~LayersCaptured(db, batch) THEN db
     ELSE [db EXCEPT
             !.schema = IF @ < LayerHistorySchema THEN LayerHistorySchema ELSE @,
             !.treeOf = With(older, batch.id, next),
             !.tree   = next]

CaptureLayers(db, batch) ==
  LET next == IF batch.tree = Keep THEN db.tree ELSE batch.tree
      older == IF LayerHistoryEnabled(db) THEN db.treeOf
               ELSE Freeze(KnownSnapshots(db, batch), db.tree)
  IN IF ~LayersCaptured(db, batch) THEN db
     ELSE [db EXCEPT
             !.schema = IF @ < LayerHistorySchema THEN LayerHistorySchema ELSE @,
             !.treeOf = With(older, batch.id, next),
             !.tree   = next]

(* Fault: the argument is stored, not the page it stands for.              *)
CaptureCanvasFault(db, batch) ==
  LET older == IF CanvasHistoryEnabled(db) THEN db.pageOf
               ELSE Freeze(KnownSnapshots(db, batch), db.page)
  IN IF ~CanvasHistoryEnabled(db) /\ batch.page = Keep THEN db
     ELSE [db EXCEPT !.schema = CanvasHistorySchema,
                     !.pageOf = With(older, batch.id, batch.page),
                     !.page   = batch.page]

CaptureCanvas(db, batch) ==
  LET next == IF batch.page = Keep THEN db.page ELSE batch.page
      older == IF CanvasHistoryEnabled(db) THEN db.pageOf
               ELSE Freeze(KnownSnapshots(db, batch), db.page)
  IN IF ~CanvasHistoryEnabled(db) /\ batch.page = Keep THEN db
     ELSE [db EXCEPT !.schema = CanvasHistorySchema,
                     !.pageOf = With(older, batch.id, next),
                     !.page   = next]

(* A timeline record is NoTimeline for static artwork; a project that has  *)
(* never been animated has no record at all.                               *)
NoTimeline == "static"

CaptureAnimation(db, batch) ==
  LET next == IF batch.timeline = Keep THEN db.timeline ELSE batch.timeline
      older == IF AnimationEnabled(db) THEN db.timelineOf
               ELSE Freeze(KnownSnapshots(db, batch), NoTimeline)
  IN IF ~AnimationEnabled(db) /\ batch.timeline \in {Keep, NoTimeline} THEN db
     ELSE [db EXCEPT !.timelineOf = With(older, batch.id, next),
                     !.timeline   = next]

(* Not "immutable snapshot record already exists".  Only metadata records  *)
(* are protected so: the other tables overwrite a reused snapshot id.      *)
RecordIsFree(db, batch) ==
  /\ batch.id \notin DOMAIN db.treeOf \cup DOMAIN db.pageOf \cup DOMAIN db.timelineOf
  /\ LayersCaptured(db, batch) => batch.id \notin KnownSnapshots(db, batch)

-----------------------------------------------------------------------------
(* Content: objects, manifests and the reference counts between them *)

RefCount(roots, object) == Cardinality({r \in roots : object \in ObjectsOf[r]})

(* store_tile_objects *)
StoreObjects(db, stored) ==
  [db EXCEPT !.objects = @ \cup UNION {ObjectsOf[r] : r \in stored}]

(* Fault: a root that already has a manifest is counted again.             *)
StoreRootsFault(db, stored) ==
  LET named == UNION {ObjectsOf[r] : r \in stored}
      count(o) == IF o \in DOMAIN db.refs THEN db.refs[o] ELSE 0
  IN [db EXCEPT
        !.roots = @ \cup stored,
        !.refs  = [o \in DOMAIN db.refs \cup named |->
                     count(o) + RefCount(stored, o)]]

(* store_roots: a new manifest counts each object it names once.           *)
StoreRoots(db, stored) ==
  LET new   == stored \ db.roots
      named == UNION {ObjectsOf[r] : r \in new}
      count(o) == IF o \in DOMAIN db.refs THEN db.refs[o] ELSE 0
  IN [db EXCEPT
        !.roots = @ \cup stored,
        !.refs  = [o \in DOMAIN db.refs \cup named |->
                     count(o) + RefCount(new, o)]]

(* reclaim_roots: an evicted manifest releases its objects, and an object  *)
(* goes when the last manifest that names it does.                         *)
ReclaimRoots(db, candidates, live) ==
  LET evicted == candidates \ live
      left(o) == db.refs[o] - RefCount(evicted, o)
  IN [db EXCEPT
        !.roots   = @ \ evicted,
        !.refs    = [o \in {x \in DOMAIN db.refs : left(x) > 0} |-> left(o)],
        !.objects = @ \ {o \in DOMAIN db.refs : left(o) = 0}]

(* "evicted root missing", "tile reference missing" and underflow do not   *)
(* occur.                                                                  *)
CanReclaim(db, candidates, live) ==
  LET evicted == candidates \ live
  IN /\ evicted \subseteq db.roots
     /\ \A o \in UNION {ObjectsOf[r] : r \in evicted} :
          o \in DOMAIN db.refs /\ db.refs[o] >= RefCount(evicted, o)

-----------------------------------------------------------------------------
(* Retention, in the transaction of every commit *)

SnapshotOf(db, node) ==
  CHOOSE s \in DOMAIN db.snapshots : db.snapshots[s].head = node

RootsOf(heads) == {heads[s].before : s \in DOMAIN heads}
                    \cup {heads[s].after : s \in DOMAIN heads}

KeptNodes(db) == Retained(db.history, CurrentCursor(db).head)

(* The snapshot of the operation that drops off the path becomes the       *)
(* bottom.                                                                 *)
KeptInitial(db) ==
  LET base == Baseline(db.history, CurrentCursor(db).head)
      s    == SnapshotOf(db, base)
  IN IF base = None THEN db.initial
     ELSE Cursor(s, None, db.snapshots[s].after)

KeptSnapshots(db) ==
  {s \in DOMAIN db.snapshots : db.snapshots[s].head \in KeptNodes(db)}

LiveRoots(db) ==
  {KeptInitial(db).root, CurrentCursor(db).root}
    \cup RootsOf(Keeping(db.snapshots, KeptSnapshots(db)))

EvictedRoots(db) ==
  RootsOf(Keeping(db.snapshots, DOMAIN db.snapshots \ KeptSnapshots(db)))

(* Fault: metadata goes with its snapshot even when that is the bottom.    *)
RetainedRecordsFault(db) == KeptSnapshots(db)

RetainedRecords(db) == KeptSnapshots(db) \cup {KeptInitial(db).snapshot}

RetainHistory(db) ==
  LET head  == CurrentCursor(db).head
      heads == Keeping(db.snapshots, KeptSnapshots(db))
      kept  == [db EXCEPT
                  !.initial    = KeptInitial(db),
                  !.history    = RetainedNodes(db.history, head),
                  !.snapshots  = heads,
                  !.strokes    = @ \cap {heads[s].stroke : s \in DOMAIN heads},
                  !.treeOf     = Keeping(@, RetainedRecords(db)),
                  !.pageOf     = Keeping(@, RetainedRecords(db)),
                  !.timelineOf = Keeping(@, RetainedRecords(db))]
  IN IF ~Overfull(db.history) THEN db
     ELSE ReclaimRoots(kept, EvictedRoots(db), LiveRoots(db))

(* The checks retain_history makes of its own tables. *)
CanRetain(db) ==
  Overfull(db.history) =>
    /\ db.initial # NoCursor
    /\ GraphLoads(db.initial.root, CurrentCursor(db).head, db.history)
    /\ FromPersisted(db.initial.root, CurrentCursor(db).head, db.history).current
         = CurrentCursor(db).root
    /\ LET base == Baseline(db.history, CurrentCursor(db).head)
       IN base # None =>
            /\ \E s \in DOMAIN db.snapshots : db.snapshots[s].head = base
            /\ KeptInitial(db).root = RetainedInitial(db.history,
                                        CurrentCursor(db).head, db.initial.root)
    /\ CanReclaim(db, EvictedRoots(db), LiveRoots(db))

-----------------------------------------------------------------------------
(* Transactions *)

CaptureMetadata(db, batch) ==
  CaptureAnimation(CaptureCanvas(CaptureLayers(db, batch), batch), batch)

(* Fault: the marker is set without looking at the one already there.      *)
MarkSelectionFault(db, batch) ==
  IF batch.selected THEN [db EXCEPT !.schema = SelectionSchema] ELSE db

(* A stroke replayed under a selection needs a reader that knows of them.  *)
MarkSelection(db, batch) ==
  IF batch.selected /\ db.schema < SelectionSchema
  THEN [db EXCEPT !.schema = SelectionSchema] ELSE db

(* The rows of the batch itself and the cursor that moves onto it. *)
InsertBatch(db, batch) ==
  LET node == batch.node
  IN [db EXCEPT
        !.strokes   = IF batch.stroke = Absent THEN @ ELSE @ \cup {batch.stroke},
        !.history   = With(@, batch.id, node),
        !.snapshots = With(@, batch.id,
                        [head |-> batch.id, before |-> node.before,
                         after |-> node.after, stroke |-> batch.stroke]),
        !.cursor    = Cursor(batch.id, batch.id, node.after),
        !.initial   = IF node.parent = None /\ @ = NoCursor
                      THEN Cursor(FirstSnapshot(batch), None, node.before)
                      ELSE @]

Written(db, batch) ==
  LET stored == {batch.node.before, batch.node.after}
  IN InsertBatch(
       StoreRoots(
         StoreObjects(MarkSelection(CaptureMetadata(db, batch), batch), stored),
         stored),
       batch)

(* commit and commit_structural: refused before anything is written, or    *)
(* one transaction that ends with retention.                               *)
CommitAccepted(db, batch) ==
  LineageHolds(db, batch) /\ RecordIsFree(db, batch) /\ CanRetain(Written(db, batch))

Commit(db, batch) == RetainHistory(Written(db, batch))

(* validate_cursor_snapshot and validate_initial_cursor *)
CursorValid(db, cursor) ==
  IF cursor.head = None THEN db.initial = cursor ELSE CursorMatchesSnapshot(db, cursor)

RootLoads(db, root) == root \in db.roots /\ ObjectsOf[root] \subseteq db.objects

(* load_cursor_tiles and the metadata a cursor has of its own *)
CursorLoads(db, cursor) ==
  /\ CursorValid(db, cursor)
  /\ RootLoads(db, cursor.root)
  /\ LayerHistoryEnabled(db) => cursor.snapshot \in DOMAIN db.treeOf
  /\ CanvasHistoryEnabled(db) => cursor.snapshot \in DOMAIN db.pageOf
  /\ AnimationEnabled(db) => cursor.snapshot \in DOMAIN db.timelineOf

TreeAt(db, cursor) ==
  IF LayerHistoryEnabled(db) THEN db.treeOf[cursor.snapshot] ELSE db.tree
PageAt(db, cursor) ==
  IF CanvasHistoryEnabled(db) THEN db.pageOf[cursor.snapshot] ELSE db.page
TimelineAt(db, cursor) ==
  IF AnimationEnabled(db) THEN db.timelineOf[cursor.snapshot] ELSE db.timeline

(* persist_history_cursor: the bottom is stored as "no cursor". *)
PersistHistoryCursor(db, cursor) ==
  [db EXCEPT !.cursor   = IF cursor.head = None THEN NoCursor ELSE cursor,
             !.tree     = TreeAt(db, cursor),
             !.page     = PageAt(db, cursor),
             !.timeline = TimelineAt(db, cursor)]

(* persist_layer_tree and persist_canvas_spec, used while a project has no *)
(* history of them.                                                        *)
PersistLayerTree(db, tree) == [db EXCEPT !.tree = tree]
PersistCanvasSpec(db, page) == [db EXCEPT !.page = page]

-----------------------------------------------------------------------------
(* Opening *)

(* load_current: the stored cursor's snapshot, its two roots and, for a    *)
(* stroke, the commit whose replay gives the after root.                   *)
CurrentLoads(db) ==
  db.cursor # NoCursor =>
    /\ CursorMatchesSnapshot(db, db.cursor)
    /\ LET head == db.snapshots[db.cursor.snapshot]
       IN /\ RootLoads(db, head.before) /\ RootLoads(db, head.after)
          /\ head.stroke # Absent =>
               /\ head.stroke \in db.strokes
               /\ head.stroke.before = head.before /\ head.stroke.after = head.after
               /\ head.head \in DOMAIN db.history

(* initial_root_for: the before root of an operation at the bottom. *)
StoredInitialRoot(db) ==
  IF DOMAIN db.history = {} THEN db.initial.root
  ELSE db.history[CHOOSE n \in Children(db.history, None) : TRUE].before

(* load_persisted_cursors *)
CursorsLoad(db) ==
  LET heads == {s \in DOMAIN db.snapshots : db.snapshots[s].head \in DOMAIN db.history}
  IN /\ \A s \in heads :
          LET node == db.history[db.snapshots[s].head]
          IN node.before = db.snapshots[s].before /\ node.after = db.snapshots[s].after
     /\ \A s, t \in heads : db.snapshots[s].head = db.snapshots[t].head => s = t
     /\ \A n \in DOMAIN db.history : \E s \in heads : db.snapshots[s].head = n

PersistedCursors(db) ==
  [n \in DOMAIN db.history \cup {None} |->
     IF n = None THEN db.initial
     ELSE LET s == SnapshotOf(db, n) IN Cursor(s, n, db.snapshots[s].after)]

(* validate_layer_history, validate_canvas_history and                     *)
(* validate_animation_history: one record for every snapshot and for the   *)
(* bottom, no other, and the current value is the cursor's record.         *)
MetadataLoads(db) ==
  LET covered == DOMAIN db.snapshots \cup {db.initial.snapshot}
      at == CurrentCursor(db).snapshot
  IN /\ IF LayerHistoryEnabled(db)
        THEN DOMAIN db.treeOf = covered /\ db.tree = db.treeOf[at]
        ELSE DOMAIN db.treeOf = {}
     /\ IF CanvasHistoryEnabled(db)
        THEN DOMAIN db.pageOf = covered /\ db.page = db.pageOf[at]
        ELSE DOMAIN db.pageOf = {}
     /\ IF AnimationEnabled(db)
        THEN DOMAIN db.timelineOf = covered /\ db.timeline = db.timelineOf[at]
        ELSE DOMAIN db.timelineOf = {}

HasArtwork(db) == CurrentCursor(db) # NoCursor

(* validate_existing: what opening demands of the file. *)
Opens(db) ==
  IF ~HasArtwork(db)
  THEN DOMAIN db.history = {} /\ ~LayerHistoryEnabled(db) /\ ~AnimationEnabled(db)
  ELSE LET at == CurrentCursor(db)
       IN /\ CurrentLoads(db)
          /\ CursorLoads(db, at)
          /\ DOMAIN db.history = {} => at.head = None
          /\ DOMAIN db.history # {} =>
               /\ Children(db.history, None) # {}
               /\ GraphLoads(StoredInitialRoot(db), at.head, db.history)
               /\ db.initial # NoCursor => db.initial.root = StoredInitialRoot(db)
               /\ FromPersisted(StoredInitialRoot(db), at.head, db.history).current = at.root
          /\ CursorsLoad(db)
          /\ PersistedCursors(db)[at.head] = at
          /\ MetadataLoads(db)
=============================================================================
