------------------------------- MODULE GpuScene -------------------------------
(***************************************************************************)
(* The renderer's scene (crates/paint-gpu/src/compositor.rs): the textures *)
(* of the rasters and groups, the bounded atlas that holds the tiles       *)
(* outside the page, the two composite caches, and the operations a host   *)
(* calls.  An operation is an operator from scene to scene; one that       *)
(* returns SparseAtlasExhausted leaves full set.                           *)
(*                                                                         *)
(* A tile is a number: PageTiles reach into the page, SparseTiles reach    *)
(* out of it, and a tile at the edge does both.  An image is a sequence:   *)
(* <<>> is transparent, a raster's is <<[ink |-> i]>>, a group's lists its *)
(* stacks bottom to top as [base, clips], each layer as [image, cover],    *)
(* leaving out what contributes nothing.                                   *)
(*   tree, solo    the tree shown and the node soloed, {} or {n}           *)
(*   above, drawn  of those: the groups over each node, and the stacks of  *)
(*                 each group with a visible base (solo_scope)             *)
(*   page          page textures of rasters, tile by tile                  *)
(*   pageCache     page_cache: <<group, tile>> -> what the group's page    *)
(*                 texture holds there; no other part of it is read        *)
(*   cache         sparse_cache: <<group, tile>>                           *)
(*   mips          the minified root page, None when it is to be rebuilt   *)
(*   cover         coverage of the rasters' masks                          *)
(*   atlas         its slots, the least recently used first: [key, image]  *)
(*   closed        sparse_closed_tiles: <<raster, tile>> -> image          *)
(*   previews      sparse_preview_tiles: <<raster, tile>>                  *)
(*   coords        sparse_coordinates                                      *)
(*   live          the live stroke: [layer, dirty, backup]; live_backup is *)
(*                 a texture of its own, read only while the stroke lasts  *)
(***************************************************************************)
EXTENDS LayerTree

CONSTANTS PageTiles, SparseTiles, Slots, None

ASSUME SceneAssumption ==
  /\ PageTiles \cup SparseTiles \subseteq Int
  /\ Slots \in Nat

Blank == <<>>
Paint(ink) == IF ink = 0 THEN Blank ELSE <<[ink |-> ink]>>

RasterKey(r, t) == <<"raster", r, t>>
GroupKey(g, t)  == <<"group", g, t>>
BackupKey(r, t) == <<"backup", r, t>>

AboveEach(tree) == [n \in Nodes(tree) |-> Above(tree, n)]

(* The visible stacks of each group: a hidden or transparent base takes its *)
(* clips with it, a hidden clip is left out.                                *)
DrawnEach(tree, solo) ==
  LET shown == Shown(tree, solo)
      drawn(g) == SelectSeq(LayerStacks(tree, g),
                            LAMBDA st : st.base \in shown /\ st.base \notin tree.clear)
  IN [g \in Groups(tree) |->
        [i \in DOMAIN drawn(g) |->
           [drawn(g)[i] EXCEPT !.clips = SelectSeq(@, LAMBDA n : n \in shown)]]]

EmptyScene(tree) ==
  [tree |-> tree, solo |-> {},
   above |-> AboveEach(tree), drawn |-> DrawnEach(tree, {}),
   page |-> [r \in Rasters(tree) |-> [t \in PageTiles |-> Blank]],
   mips |-> None,
   cover |-> [r \in Rasters(tree) |-> [t \in PageTiles \cup SparseTiles |-> 0]],
   pageCache |-> <<>>, cache |-> {}, atlas |-> <<>>,
   closed |-> <<>>, previews |-> {}, coords |-> {},
   live |-> None, full |-> FALSE]

-----------------------------------------------------------------------------
(* The atlas *)

Resident(s, key) == \E i \in DOMAIN s.atlas : s.atlas[i].key = key
SlotOf(s, key) == CHOOSE i \in DOMAIN s.atlas : s.atlas[i].key = key
ImageAt(s, key) == s.atlas[SlotOf(s, key)].image

(* surface_mut: a use *)
Touch(s, key) ==
  [s EXCEPT !.atlas = Append(RemoveAt(@, SlotOf(s, key)), @[SlotOf(s, key)])]

(* a write to the texture of a slot is not a use *)
Put(s, key, image) == [s EXCEPT !.atlas[SlotOf(s, key)].image = image]

Without(f, keys) == [k \in DOMAIN f \ keys |-> f[k]]

TilesAbove(s, r, t) == s.above[r] \X {t}

(* handle_sparse_eviction *)
Evicted(s, key) ==
  CASE key[1] = "group"  -> [s EXCEPT !.cache = @ \ {<<key[2], key[3]>>}]
    [] key[1] = "raster" -> [s EXCEPT !.cache = @ \ TilesAbove(s, key[2], key[3])]
    [] OTHER             -> s

(* A slot that is taken over keeps its former pixels until it is written. *)
TakeOver(s, i, key) ==
  Evicted([s EXCEPT !.atlas = Append(RemoveAt(@, i), [key |-> key, image |-> @[i].image])],
          s.atlas[i].key)

Allocate(s, key, pinned) ==
  LET free == {i \in DOMAIN s.atlas : s.atlas[i].key \notin pinned} IN
  IF Resident(s, key) THEN Touch(s, key)
  ELSE IF Len(s.atlas) < Slots
  THEN [s EXCEPT !.atlas = Append(@, [key |-> key, image |-> Blank])]
  ELSE IF free = {} THEN [s EXCEPT !.full = TRUE]
  ELSE TakeOver(s, CHOOSE i \in free : \A j \in free : i <= j, key)

(* protected_sparse_surfaces *)
Pinned(s) ==
  {RasterKey(k[1], k[2]) : k \in s.previews} \cup
  IF s.live = None THEN {}
  ELSE UNION {{RasterKey(s.live.layer, t), BackupKey(s.live.layer, t)} :
               t \in s.live.dirty \cap SparseTiles}

ClosedImage(s, r, t) == IF <<r, t>> \in DOMAIN s.closed THEN s.closed[<<r, t>>] ELSE Blank

EnsureRaster(s, r, t, pinned) ==
  LET room == Allocate(s, RasterKey(r, t), pinned) IN
  IF s.full \/ room.full THEN [s EXCEPT !.full = TRUE]
  ELSE IF Resident(s, RasterKey(r, t)) THEN room
  ELSE Put(room, RasterKey(r, t), ClosedImage(s, r, t))

Invalidate(s, r, t) ==
  [s EXCEPT !.pageCache = Without(@, TilesAbove(s, r, t)), !.cache = @ \ TilesAbove(s, r, t)]

-----------------------------------------------------------------------------
(* Live strokes *)

BeginLive(s, r) ==
  [s EXCEPT !.live = [layer |-> r, dirty |-> {}, backup |-> [t \in PageTiles |-> Blank]]]

(* One off-page tile of a batch: made resident, copied when this stroke has *)
(* not touched it yet, painted.                                             *)
PaintSparse(s, t, new, painted, image, pinned) ==
  LET r == s.live.layer
      ready == EnsureRaster(s, r, t, pinned)
      kept == IF t \in new /\ ~ready.full THEN Allocate(ready, BackupKey(r, t), pinned) ELSE ready
      copied == IF t \in new THEN Put(kept, BackupKey(r, t), ImageAt(kept, RasterKey(r, t)))
                ELSE kept
  IN IF kept.full THEN kept
     ELSE IF t \in painted THEN Put(copied, RasterKey(r, t), image)
     ELSE copied

(* apply_live_dabs: batch are the tiles under the dabs' bounds, painted the *)
(* ones whose pixels change.                                                *)
ApplyDabs(s, batch, painted, image) ==
  LET r == s.live.layer
      new == batch \ s.live.dirty
      begun == [s EXCEPT
        !.live.backup = [t \in PageTiles |-> IF t \in new THEN s.page[r][t] ELSE @[t]],
        !.live.dirty = @ \cup batch,
        !.page[r] = [t \in PageTiles |-> IF t \in painted THEN image ELSE @[t]]]
      done == FoldLeft(LAMBDA acc, t : PaintSparse(acc, t, new, painted, image, Pinned(begun)),
                       begun, SetToSortSeq(batch \cap SparseTiles, <))
  IN FoldLeft(LAMBDA acc, t : Invalidate(acc, r, t),
              [done EXCEPT !.coords = @ \cup (batch \cap SparseTiles)],
              SetToSortSeq(batch, <))

(* Something closed or previewed at the coordinate *)
Occupied(s, t) == \E k \in DOMAIN s.closed \cup s.previews : k[2] = t

RestoreTile(s, r, t) ==
  LET back == IF t \in SparseTiles
              THEN Put(s, RasterKey(r, t), ImageAt(s, BackupKey(r, t))) ELSE s
      left == IF t \in SparseTiles /\ ~Occupied(s, t) THEN [back EXCEPT !.coords = @ \ {t}]
              ELSE back
  IN Invalidate(left, r, t)

(* finish_live_stroke *)
CancelLive(s) ==
  LET r == s.live.layer
      ended == [s EXCEPT !.live = None, !.page[r] = [t \in PageTiles |->
                          IF t \in s.live.dirty THEN s.live.backup[t] ELSE @[t]]]
  IN FoldLeft(LAMBDA acc, t : RestoreTile(acc, r, t), ended, SetToSortSeq(s.live.dirty, <))

CommitLive(s) ==
  [s EXCEPT !.live = None,
            !.previews = @ \cup ({s.live.layer} \X (s.live.dirty \cap SparseTiles))]

(* replace_live_stroke *)
ReplaceLive(s, r) == BeginLive(IF s.live = None THEN s ELSE CancelLive(s), r)

-----------------------------------------------------------------------------
(* Authoritative pixels, coverage and trees *)

LiveAt(s, t) == s.live # None /\ t \in s.live.dirty

(* The off-page side of upload_closed_tile *)
UploadSparse(s, r, t, image) ==
  LET key == RasterKey(r, t)
      retired == [s EXCEPT !.previews = @ \ {<<r, t>>},
                           !.closed = Without(@, {<<r, t>>})]
      stored == IF image = Blank
                THEN [retired EXCEPT !.coords =
                        IF Occupied(retired, t) \/ LiveAt(s, t) THEN @ ELSE @ \ {t}]
                ELSE [retired EXCEPT !.coords = @ \cup {t},
                                     !.closed = (<<r, t>> :> image) @@ @]
  IN IF Resident(s, key) THEN Put(stored, key, image) ELSE stored

UploadPage(s, r, t, image) == [s EXCEPT !.page[r][t] = image]

(* upload_closed_tile, which refuses the layer of a live stroke *)
CanUpload(s, r) == s.live = None \/ s.live.layer # r

Upload(s, r, t, image) ==
  LET paged == IF t \in PageTiles THEN UploadPage(s, r, t, image) ELSE s
  IN Invalidate(IF t \in SparseTiles THEN UploadSparse(paged, r, t, image) ELSE paged, r, t)

(* replace_mask_tiles *)
ReplaceMasks(s, cover) ==
  [s EXCEPT !.cover = [r \in Rasters(s.tree) |-> cover[r]],
            !.pageCache = <<>>, !.cache = {}, !.mips = None]

ReplaceTree(s, tree) ==
  LET kept == {k \in DOMAIN s.closed : k[1] \in Rasters(tree)} IN
  [s EXCEPT !.tree = tree, !.solo = @ \cap Nodes(tree),
            !.above = AboveEach(tree), !.drawn = DrawnEach(tree, s.solo \cap Nodes(tree)),
            !.page = [r \in Rasters(tree) |-> IF r \in DOMAIN @ THEN @[r]
                                              ELSE [t \in PageTiles |-> Blank]],
            !.cover = [r \in Rasters(tree) |-> IF r \in DOMAIN @ THEN @[r]
                                               ELSE [t \in PageTiles \cup SparseTiles |-> 0]],
            !.mips = None, !.pageCache = <<>>, !.cache = {}, !.atlas = <<>>, !.previews = {},
            !.closed = [k \in kept |-> @[k]], !.coords = {k[2] : k \in kept}]

SetSoloNode(s, solo) ==
  IF solo = s.solo THEN s
  ELSE [s EXCEPT !.solo = solo, !.drawn = DrawnEach(s.tree, solo),
                 !.pageCache = <<>>, !.cache = {}]

-----------------------------------------------------------------------------
(* Composition *)

(* sparse_node_has_content *)
Contents(s, t) ==
  LET tiles == DOMAIN s.closed \cup s.previews \cup
               (IF s.live = None THEN {} ELSE {s.live.layer} \X s.live.dirty)
      has[n \in Nodes(s.tree)] ==
        IF n \in Groups(s.tree) THEN \E i \in DOMAIN s.drawn[n] : has[s.drawn[n][i].base]
        ELSE <<n, t>> \in tiles
  IN {n \in Nodes(s.tree) : has[n]}

(* composite_stack_tile.  What a layer contributes is its input, stack_input; *)
(* a base that contributes nothing takes its clips with it.                   *)
Composite(s, g, t, input) ==
  LET layer(n) == [image |-> input[n], cover |-> IF n \in Groups(s.tree) THEN 0 ELSE s.cover[n][t]]
      stacks == SelectSeq(s.drawn[g], LAMBDA st : input[st.base] # Blank)
      clips(st) == SelectSeq(st.clips, LAMBDA n : n \notin s.tree.clear /\ input[n] # Blank)
      layers(ns) == [i \in DOMAIN ns |-> layer(ns[i])]
  IN [k \in DOMAIN stacks |-> [base |-> layer(stacks[k].base), clips |-> layers(clips(stacks[k]))]]

Flat(stacks) == FlattenSeq([i \in DOMAIN stacks |-> <<stacks[i].base>> \o stacks[i].clips])

PageInput(s, n, t) == IF n \in Groups(s.tree) THEN s.pageCache[<<n, t>>] ELSE s.page[n][t]

SparseInput(s, content, n, t) ==
  LET key == IF n \in Groups(s.tree) THEN GroupKey(n, t) ELSE RasterKey(n, t)
  IN IF n \in content /\ Resident(s, key) THEN ImageAt(s, key) ELSE Blank

(* ensure_group_tile *)
RECURSIVE EnsureGroup(_, _, _)
EnsureGroup(s, g, t) ==
  LET below == SelectSeq(Flat(s.drawn[g]), LAMBDA n : n \in Groups(s.tree))
      ready == FoldLeft(LAMBDA acc, n : EnsureGroup(acc, n, t), s, below)
      image == Composite(ready, g, t, [n \in ToSet(Flat(s.drawn[g])) |-> PageInput(ready, n, t)])
  IN IF <<g, t>> \in DOMAIN s.pageCache THEN s
     ELSE [ready EXCEPT !.pageCache = (<<g, t>> :> image) @@ @,
                        !.mips = IF g = Root THEN None ELSE @]

(* The children of a group that are composed at a coordinate *)
SparseParts(s, g, t) ==
  LET content == Contents(s, t)
  IN SelectSeq(Flat(SelectSeq(s.drawn[g], LAMBDA st : st.base \in content)),
               LAMBDA n : n \in content)

(* ensure_sparse_group_tile *)
RECURSIVE EnsureSparseGroup(_, _, _, _)
EnsureSparseGroup(s, g, t, pinned) ==
  LET ready == FoldLeft(LAMBDA acc, n :
                          IF acc.full THEN acc
                          ELSE IF n \in Groups(s.tree) THEN EnsureSparseGroup(acc, n, t, pinned)
                          ELSE EnsureRaster(acc, n, t, pinned),
                        s, SparseParts(s, g, t))
      room == Allocate(ready, GroupKey(g, t), pinned)
      content == Contents(s, t)
      input == [n \in ToSet(Flat(s.drawn[g])) |-> SparseInput(room, content, n, t)]
  IN IF <<g, t>> \in s.cache /\ Resident(s, GroupKey(g, t)) THEN Touch(s, GroupKey(g, t))
     ELSE IF ready.full \/ room.full THEN [ready EXCEPT !.full = TRUE]
     ELSE [Put(room, GroupKey(g, t), Composite(room, g, t, input))
             EXCEPT !.cache = @ \cup {<<g, t>>}]

(* sparse_composite_dependencies: what must be resident at once *)
RECURSIVE Required(_, _, _)
Required(s, g, t) ==
  {GroupKey(g, t)} \cup
  UNION {IF n \in Groups(s.tree) THEN Required(s, n, t) ELSE {RasterKey(n, t)} :
          n \in ToSet(SparseParts(s, g, t))}

(* render_sparse_workspace: as many coordinates at a time as the atlas can  *)
(* hold; out is what the display shows outside the page.                    *)
RECURSIVE RenderSparse(_, _, _)
RenderSparse(s, tiles, out) ==
  LET pins(k) == Pinned(s) \cup UNION {Required(s, Root, tiles[i]) : i \in 1..k}
      fits == {k \in DOMAIN tiles : Cardinality(pins(k)) <= Slots}
      k == CHOOSE m \in fits : \A j \in fits : j <= m
      done == FoldLeft(LAMBDA acc, t : EnsureSparseGroup(acc, Root, t, pins(k)),
                       s, SubSeq(tiles, 1, k))
      drawn == [t \in DOMAIN out |->
                  IF \E i \in 1..k : tiles[i] = t THEN ImageAt(done, GroupKey(Root, t)) ELSE out[t]]
  IN IF tiles = <<>> THEN [scene |-> s, sparse |-> out]
     ELSE IF fits = {} THEN [scene |-> [s EXCEPT !.full = TRUE], sparse |-> out]
     ELSE IF done.full THEN [scene |-> done, sparse |-> out]
     ELSE RenderSparse(done, SubSeq(tiles, k + 1, Len(tiles)), drawn)

(* render_viewport: the tiles in view, and whether the page is shown        *)
(* smaller than its pixels.                                                 *)
RenderViewport(s, view, minify) ==
  LET wanted == IF minify THEN PageTiles ELSE view \cap PageTiles
      paged == FoldLeft(LAMBDA acc, t : EnsureGroup(acc, Root, t), s, SetToSortSeq(wanted, <))
      root == [t \in wanted |-> paged.pageCache[<<Root, t>>]]
      ready == IF minify /\ paged.mips = None THEN [paged EXCEPT !.mips = root] ELSE paged
      rest == RenderSparse(ready, SetToSortSeq(view \cap s.coords, <),
                           [t \in view \cap SparseTiles |-> Blank])
  IN [scene |-> rest.scene, sparse |-> rest.sparse,
      page |-> [t \in view \cap PageTiles |-> IF minify THEN ready.mips[t] ELSE root[t]]]
=============================================================================
