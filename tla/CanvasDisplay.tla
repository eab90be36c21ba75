----------------------------- MODULE CanvasDisplay -----------------------------
(***************************************************************************)
(* What the desktop canvas shows while strokes, their durable pixels and   *)
(* edits of the artwork reach the renderer's scene                         *)
(* (native_canvas.rs: execute_gpu_ops, apply_materialized_tiles,           *)
(* install_history_move, apply_layer_command, render).                     *)
(*                                                                         *)
(* A stroke is painted on the renderer's textures at once; its closed form *)
(* goes to the writer, whose pixels come back later and replace the        *)
(* preview.  Every stroke and pixel edit leaves a new ink; ink 0 is        *)
(* transparent.                                                            *)
(*   scene     the renderer                                                *)
(*   tree      authoritative_tree                                          *)
(*   jobs      closed strokes the writer has: [gen, layer, ink, tiles],    *)
(*             tiles being those whose pixels the stroke changed           *)
(*   cpuTiles  cpu_tiles: <<raster, tile>> -> ink, erased tiles included    *)
(*   deferred  deferred_uploads                                            *)
(*   latest    latest_preview_generation: <<raster, tile>> -> generation   *)
(*   stroke    the live stroke: [gen, layer, ink, painted] or None         *)
(*   activeLayer, nextId    active_layer and next_layer_node_id            *)
(*   done      strokes and commands so far; a stroke's generation          *)
(*   failed    the workspace failed: nothing follows                       *)
(* History: art and cover, the artwork as it was committed so far (the     *)
(* inks and the mask coverage), and past, the artwork Undo goes back to.   *)
(***************************************************************************)
EXTENDS GpuScene

CONSTANTS
  FirstTree, FirstArt,   \* the project opened: its tree, the inks of its keys
  FirstLayer,            \* its active raster
  Commands,              \* the structural commands tried
  Batches,               \* the tiles a batch of dabs reaches
  Looks,                 \* the views: [tiles, minify]
  Selected, Soloed,      \* the rasters selected and the nodes soloed
  MaxId,                 \* bound on node identifiers
  MaxWork                \* bound: strokes, edits, undos and solos

ASSUME DisplayAssumption ==
  /\ IsTree(FirstTree) /\ FirstLayer \in Rasters(FirstTree)
  /\ \A k \in DOMAIN FirstArt : FirstArt[k] < 0

VARIABLES scene, tree, jobs, cpuTiles, deferred, latest, stroke, activeLayer, nextId,
          failed, art, cover, past, done

artwork == <<tree, art, cover>>
layers  == <<activeLayer, nextId>>
vars    == <<scene, artwork, jobs, cpuTiles, deferred, latest, stroke, layers, failed, past, done>>

Tiles == PageTiles \cup SparseTiles
Keys == (1..MaxId) \X Tiles

Inks(partial) == [k \in Keys |-> IF k \in DOMAIN partial THEN partial[k] ELSE 0]

UploadAll(s, keys, inks) ==
  FoldSet(LAMBDA k, acc : Upload(acc, k[1], k[2], Paint(inks[k])), s, keys)

(* NativeCanvas::new uploads every tile before the first frame. *)
Init ==
  /\ tree = FirstTree
  /\ art = Inks(FirstArt)
  /\ cover = [r \in 1..MaxId |-> [t \in Tiles |-> 0]]
  /\ scene = UploadAll(EmptyScene(FirstTree), DOMAIN FirstArt, Inks(FirstArt))
  /\ cpuTiles = FirstArt
  /\ jobs = <<>> /\ deferred = <<>> /\ latest = <<>>
  /\ stroke = None
  /\ activeLayer = FirstLayer
  /\ nextId = NextLayerNodeId(FirstTree)
  /\ failed = FALSE
  /\ past = None
  /\ done = 0

-----------------------------------------------------------------------------
(* execute_gpu_ops.  A Begin that finds a stroke cancels it first, so a     *)
(* Replace meets none.                                                      *)

Begin(erases) ==
  /\ stroke = None /\ done < MaxWork
  /\ activeLayer \in Rasters(tree) \ tree.locked
  /\ scene' = ReplaceLive(scene, activeLayer)
  /\ stroke' = [gen |-> done + 1, layer |-> activeLayer, ink |-> IF erases THEN 0 ELSE done + 1,
                painted |-> {}]
  /\ done' = done + 1
  /\ UNCHANGED <<artwork, jobs, cpuTiles, deferred, latest, layers, failed, past>>

(* The ink of a key with the live stroke on it *)
Displayed(r, t) ==
  IF stroke # None /\ stroke.layer = r /\ t \in stroke.painted THEN stroke.ink ELSE art[<<r, t>>]

Stamp(keys, gen) ==
  [k \in DOMAIN latest \cup keys |-> IF k \in keys THEN gen ELSE latest[k]]

Dabs(batch, painted) ==
  /\ stroke # None
  /\ painted \subseteq {t \in batch : Displayed(stroke.layer, t) # stroke.ink}
  /\ scene' = ApplyDabs(scene, batch, painted, Paint(stroke.ink))
  /\ failed' = scene'.full
  /\ latest' = Stamp({stroke.layer} \X batch, stroke.gen)
  /\ stroke' = [stroke EXCEPT !.painted = @ \cup painted]
  /\ UNCHANGED <<artwork, jobs, cpuTiles, deferred, layers, past, done>>

Forget(gen) ==
  Without(latest, {k \in DOMAIN latest : latest[k] = gen})

Cancel ==
  /\ stroke # None
  /\ scene' = CancelLive(scene)
  /\ latest' = Forget(stroke.gen)
  /\ stroke' = None
  /\ UNCHANGED <<artwork, jobs, cpuTiles, deferred, layers, failed, past, done>>

(* The stroke is queued for the writer, which sends back the tiles it       *)
(* changed.                                                                 *)
Commit ==
  /\ stroke # None
  /\ scene' = CommitLive(scene)
  /\ jobs' = Append(jobs, [gen |-> stroke.gen, layer |-> stroke.layer, ink |-> stroke.ink,
                           tiles |-> stroke.painted])
  /\ art' = [k \in Keys |-> Displayed(k[1], k[2])]
  /\ past' = IF stroke.painted = {} THEN past ELSE [tree |-> tree, art |-> art, cover |-> cover]
  /\ stroke' = None
  /\ UNCHANGED <<tree, cover, cpuTiles, deferred, latest, layers, failed, done>>

-----------------------------------------------------------------------------
(* apply_materialized_tiles: one tile of a stroke's durable pixels is       *)
(* dropped, put off while its layer is painted on, or uploaded.             *)

Newer(shown, job, k) == k \in DOMAIN shown /\ shown[k] > job.gen

(* Fault: a late upload does not look for a newer preview. *)
UploadTileFault(at, job, t) ==
  LET k == <<job.layer, t>> IN
  IF ~CanUpload(at.scene, job.layer) THEN [at EXCEPT !.waiting = @ \cup {t}]
  ELSE IF job.layer \notin Rasters(at.scene.tree) THEN at
  ELSE [at EXCEPT !.scene = Upload(@, job.layer, t, Paint(job.ink)),
                  !.latest = IF k \in DOMAIN @ /\ @[k] = job.gen
                             THEN Without(@, {k}) ELSE @]

UploadTile(at, job, t) ==
  LET k == <<job.layer, t>> IN
  IF Newer(at.latest, job, k) THEN at
  ELSE IF ~CanUpload(at.scene, job.layer) THEN [at EXCEPT !.waiting = @ \cup {t}]
  ELSE IF job.layer \notin Rasters(at.scene.tree) THEN at
  ELSE [at EXCEPT !.scene = Upload(@, job.layer, t, Paint(job.ink)),
                  !.latest = IF k \in DOMAIN @ /\ @[k] = job.gen
                             THEN Without(@, {k}) ELSE @]

UploadJob(at, job) ==
  LET put == FoldLeft(LAMBDA acc, t : UploadTile(acc, job, t), at,
                      SetToSortSeq(job.tiles, <))
  IN [put EXCEPT !.waiting = {},
                 !.deferred = IF put.waiting = {} THEN @
                              ELSE Append(@, [job EXCEPT !.tiles = put.waiting])]

(* Fault: an erased tile leaves the host's copy. *)
AdoptTilesFault(held, job) ==
  LET keys == {job.layer} \X job.tiles
  IN IF job.ink = 0 THEN Without(held, keys)
     ELSE [k \in DOMAIN held \cup keys |-> IF k \in keys THEN job.ink ELSE held[k]]

(* adopt_materialized_completions: an erased tile stays, transparent *)
AdoptTiles(held, job) ==
  LET keys == {job.layer} \X job.tiles
  IN [k \in DOMAIN held \cup keys |-> IF k \in keys THEN job.ink ELSE held[k]]

Materialized(n) ==
  FoldLeft(UploadJob,
           [scene |-> scene, latest |-> latest, deferred |-> <<>>, waiting |-> {}],
           deferred \o SubSeq(jobs, 1, n))

ApplyMaterialized(n) ==
  /\ n + Len(deferred) > 0
  /\ \E put \in {Materialized(n)} :
       scene' = put.scene /\ latest' = put.latest /\ deferred' = put.deferred
  /\ jobs' = SubSeq(jobs, n + 1, Len(jobs))
  /\ cpuTiles' = FoldLeft(AdoptTiles, cpuTiles, SubSeq(jobs, 1, n))
  /\ UNCHANGED <<artwork, stroke, layers, failed, past, done>>

-----------------------------------------------------------------------------
(* Edits of the artwork.  The writer commits one when nothing else is under *)
(* way, then the canvas adopts the outcome.                                 *)

(* ensure_pixel_state_idle *)
Idle == stroke = None /\ jobs = <<>> /\ deferred = <<>>

Snapshot(inks) == [k \in {key \in Keys : inks[key] # 0} |-> inks[k]]

(* CpuSnapshotAdoption: the tiles of either copy whose pixels differ *)
Differing(snapshot) ==
  {k \in DOMAIN cpuTiles \cup DOMAIN snapshot :
     k \notin DOMAIN cpuTiles \cap DOMAIN snapshot \/ cpuTiles[k] # snapshot[k]}

(* install_history_move: when the tree shown changes every surviving tile   *)
(* is uploaded again, else those that differ from the host's copy.          *)
Install(newTree, newArt, newCover) ==
  LET rebuilds == newTree # scene.tree
      rebuilt == IF rebuilds THEN ReplaceTree(scene, newTree) ELSE scene
      snapshot == Snapshot(newArt)
      keys == IF rebuilds THEN DOMAIN cpuTiles \cup DOMAIN snapshot ELSE Differing(snapshot)
      kept == Rasters(newTree)
  IN UploadAll(ReplaceMasks(rebuilt, newCover), {k \in keys : k[1] \in kept}, newArt)

Larger(a, b) == IF a < b THEN b ELSE a

Adopt(newTree, newArt, newCover, newActive) ==
  /\ scene' = Install(newTree, newArt, newCover)
  /\ tree' = newTree /\ art' = newArt /\ cover' = newCover
  /\ activeLayer' = newActive
  /\ nextId' = Larger(nextId, NextLayerNodeId(newTree))
  /\ cpuTiles' = Snapshot(newArt)
  /\ latest' = <<>>
  /\ past' = [tree |-> tree, art |-> art, cover |-> cover]
  /\ done' = done + 1
  /\ UNCHANGED <<jobs, deferred, stroke, failed>>

(* LayerPixelChange::apply_to_tree, and the tiles of removed rasters        *)
Copied(pairs, r) == {p[1] : p \in {q \in pairs : q[2] = r}}
SourceOf(pairs, r) == IF Copied(pairs, r) = {} THEN r ELSE CHOOSE s \in Copied(pairs, r) : TRUE

White == MaxWork + 1  \* the ink of a white background, within the page

EditedInk(outcome, k) ==
  CASE k[1] \in outcome.white -> IF k[2] \in PageTiles THEN White ELSE 0
    [] k[1] \notin Rasters(outcome.tree) -> 0
    [] OTHER -> art[<<SourceOf(outcome.copied, k[1]), k[2]>>]

(* apply_layer_command and the writer's CommitLayerTree *)
LayerEdit(command) ==
  /\ Accepts(tree, command)
  /\ \E outcome \in {PrepareLayerEdit(tree, activeLayer, nextId, command)} :
       LET kept == Rasters(outcome.tree)
       IN /\ outcome.tree # tree /\ Nodes(outcome.tree) \subseteq 0..MaxId
          /\ IsTree(outcome.tree)
          /\ Adopt(outcome.tree,
                   [k \in Keys |-> EditedInk(outcome, k)],
                   [r \in 1..MaxId |-> IF r \in kept THEN cover[SourceOf(outcome.copied, r)]
                                       ELSE [t \in Tiles |-> 0]],
                   outcome.active)

(* A fill or a clear of the active raster *)
PixelEdit(t, erases) ==
  LET ink == IF erases THEN 0 ELSE done + 1
      k == <<activeLayer, t>> IN
  /\ activeLayer \notin tree.locked /\ art[k] # ink
  /\ Adopt(tree, [art EXCEPT ![k] = ink], cover, activeLayer)

MaskEdit(t) ==
  /\ activeLayer \notin tree.locked
  /\ Adopt(tree, art, [cover EXCEPT ![activeLayer][t] = 1 - @], activeLayer)

(* Undo, and Redo after it *)
Undo ==
  /\ past # None
  /\ Adopt(past.tree, past.art, past.cover, ValidActiveLayer(past.tree, activeLayer))

SelectLayer(r) ==
  /\ r \in Rasters(tree) \ {activeLayer}
  /\ activeLayer' = r
  /\ UNCHANGED <<scene, artwork, jobs, cpuTiles, deferred, latest, stroke, nextId, failed,
                 past, done>>

ToggleSolo(n) ==
  /\ n \in Nodes(tree) /\ done < MaxWork
  /\ done' = done + 1
  /\ scene' = SetSoloNode(scene, IF scene.solo = {n} THEN {} ELSE {n})
  /\ UNCHANGED <<artwork, jobs, cpuTiles, deferred, latest, stroke, layers, failed, past>>

Render(view, minify) ==
  /\ scene' = RenderViewport(scene, view, minify).scene
  /\ failed' = scene'.full
  /\ UNCHANGED <<artwork, jobs, cpuTiles, deferred, latest, stroke, layers, past, done>>

Stroke ==
  \/ \E erases \in BOOLEAN : Begin(erases)
  \/ \E batch \in Batches, painted \in SUBSET Tiles : Dabs(batch, painted)
  \/ Cancel \/ Commit

Edit ==
  /\ Idle /\ done < MaxWork
  /\ \/ \E command \in Commands : LayerEdit(command)
     \/ \E t \in Tiles, erases \in BOOLEAN : PixelEdit(t, erases)
     \/ \E t \in Tiles : MaskEdit(t)
     \/ Undo

View ==
  \/ \E r \in Selected : SelectLayer(r)
  \/ \E n \in Soloed : ToggleSolo(n)
  \/ \E look \in Looks : Render(look.tiles, look.minify)

Next ==
  /\ ~failed
  /\ \/ Stroke
     \/ \E n \in 0..Len(jobs) : ApplyMaterialized(n)
     \/ Edit
     \/ View

Spec == Init /\ [][Next]_vars

-----------------------------------------------------------------------------
(* What the artwork looks like at a tile: every group composed afresh. *)
Picture(t) ==
  LET truth == [scene EXCEPT !.tree = tree, !.cover = cover]
      image[n \in Nodes(tree)] ==
        IF n \in Groups(tree) THEN Composite(truth, n, t, [m \in Nodes(tree) \ {Root} |-> image[m]])
        ELSE Paint(Displayed(n, t))
  IN image

(* A tile the writer still has is guarded: an older upload is not put over   *)
(* it.  A stroke that is cancelled takes the guard of what it touched along. *)
Guarded ==
  \A job \in ToSet(deferred \o jobs) : {job.layer} \X job.tiles \subseteq DOMAIN latest

(* Whatever the renderer still has cached, whatever its atlas evicted and    *)
(* however late the writer's pixels arrived, the next frame is the artwork   *)
(* as committed, with the live stroke on it, unless a cancelled stroke left  *)
(* tiles of the writer unguarded (render_viewport after                      *)
(* apply_materialized_tiles and install_history_move), at any zoom.          *)
FrameIsTheArtwork ==
  ~failed /\ Guarded =>
    LET picture == [t \in Tiles |-> Picture(t)[Root]]
        right(frame) == /\ \A t \in PageTiles : frame.page[t] = picture[t]
                        /\ \A t \in SparseTiles : frame.sparse[t] = picture[t]
    IN \A look \in Looks, minify \in BOOLEAN :
         LET frame == RenderViewport(scene, look.tiles, minify)
         IN frame.scene.full \/ right(frame)

(* A composite that the caches call valid is what its group looks like, the  *)
(* nested groups included (invalidate_raster_tile, handle_sparse_eviction),  *)
(* and a raster's pixels can always be shown again: they are on its page     *)
(* texture and, outside the page, in the atlas or in the closed tiles it     *)
(* would be filled from (ensure_sparse_raster, sparse_preview_tiles).        *)
CachesAreCurrent ==
  ~failed /\ Guarded =>
    LET picture == [t \in Tiles |-> Picture(t)]
    IN /\ \A e \in DOMAIN scene.pageCache : scene.pageCache[e] = picture[e[2]][e[1]]
       /\ \A e \in scene.cache :
            /\ Resident(scene, GroupKey(e[1], e[2]))
            /\ ImageAt(scene, GroupKey(e[1], e[2])) = picture[e[2]][e[1]]
       /\ \A r \in Rasters(tree) :
            /\ \A t \in PageTiles : scene.page[r][t] = Paint(Displayed(r, t))
            /\ \A t \in SparseTiles :
                 Paint(Displayed(r, t)) =
                   IF Resident(scene, RasterKey(r, t)) THEN ImageAt(scene, RasterKey(r, t))
                   ELSE ClosedImage(scene, r, t)

(* After any edit or undo the tree is well formed and is the one shown, a    *)
(* stroke would go to an existing raster, and the next identifier is above   *)
(* all that the artwork and its undo have (prepare_layer_edit,               *)
(* valid_active_layer, next_layer_node_id); duplicating a node never changes *)
(* what an existing node is clipped to (insertion_above_clipping_run).       *)
LayersAreWhole ==
  [][/\ done' # done =>
          /\ IsTree(tree') /\ tree' = scene'.tree
          /\ activeLayer' \in Rasters(tree')
          /\ \A n \in Nodes(tree') \cup Nodes(tree) : n < nextId'
     /\ tree' # tree =>
          \A c \in {d \in Commands : d.op = "Duplicate" /\ Accepts(tree, d)} :
            tree' = PrepareLayerEdit(tree, activeLayer, nextId, c).tree =>
              \A n \in Nodes(tree) \ {Root} : BaseOf(tree', n) = BaseOf(tree, n)]_vars
=============================================================================
