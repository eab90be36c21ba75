------------------------------ MODULE LayerTree ------------------------------
(***************************************************************************)
(* The layer tree (crates/document/src/layers.rs), its clipping stacks and *)
(* composition scopes (compositing.rs) and the structural commands on it   *)
(* (crates/editor/src/layer_edit.rs).                                      *)
(*                                                                         *)
(* A node is a number; the groups are the domain of kids, Root among them, *)
(* and every other placed number is a raster.  kids[g] lists the children  *)
(* of g bottom to top.  Of the metadata a node carries, a tree keeps what  *)
(* structure and composition depend on: which nodes are hidden, fully      *)
(* transparent (clear) or clipped to the sibling below, and which rasters  *)
(* are locked.  An operation with an error path is a guard CanX and a      *)
(* result X.                                                               *)
(***************************************************************************)
EXTENDS Integers, Sequences, FiniteSets, SequencesExt

CONSTANT MaxDepth  \* MAX_LAYER_TREE_DEPTH

Root == 0

Groups(tree) == DOMAIN tree.kids
Nodes(tree) == Groups(tree) \cup UNION {ToSet(tree.kids[g]) : g \in Groups(tree)}
Rasters(tree) == Nodes(tree) \ Groups(tree)

ParentOf(tree, n) == CHOOSE g \in Groups(tree) : Contains(tree.kids[g], n)

(* counted from one *)
IndexOf(tree, n) ==
  LET siblings == tree.kids[ParentOf(tree, n)]
  IN CHOOSE i \in DOMAIN siblings : siblings[i] = n

(* Group ancestors from the immediate parent through the root. *)
Ancestors(tree, n) ==
  LET up[m \in Nodes(tree)] ==
        IF m = Root THEN <<>>
        ELSE <<ParentOf(tree, m)>> \o up[ParentOf(tree, m)]
  IN up[n]

Above(tree, n) == ToSet(Ancestors(tree, n))
Subtree(tree, n) == {m \in Nodes(tree) : m = n \/ n \in Above(tree, m)}

(* What LayerTree::new accepts: every node placed once, the root above all  *)
(* of them with untouched properties, and groups no deeper than MaxDepth.   *)
IsTree(tree) ==
  /\ Root \in Groups(tree)
  /\ Root \notin tree.hidden \cup tree.clear \cup tree.clipped
  /\ \A g \in Groups(tree) : IsInjective(tree.kids[g])
  /\ \A g, h \in Groups(tree) : g # h => ToSet(tree.kids[g]) \cap ToSet(tree.kids[h]) = {}
  /\ Root \notin UNION {ToSet(tree.kids[g]) : g \in Groups(tree)}
  /\ \A g \in Groups(tree) : Root \in Above(tree, g) \cup {g}
  /\ \A g \in Groups(tree) : Len(Ancestors(tree, g)) <= MaxDepth

-----------------------------------------------------------------------------
(* Clipping stacks and what is shown *)

Bases(tree, g) ==
  SelectSeq([i \in DOMAIN tree.kids[g] |-> i], LAMBDA i : tree.kids[g][i] \notin tree.clipped)

(* A base and the run of clipped siblings above it; clips that lead their  *)
(* parent have no base and belong to no stack.                             *)
StackAt(tree, g, i) ==
  LET kids == tree.kids[g]
      run == {j \in (i + 1)..Len(kids) : \A k \in (i + 1)..j : kids[k] \in tree.clipped}
  IN [base |-> kids[i], clips |-> SubSeq(kids, i + 1, i + Cardinality(run))]

LayerStacks(tree, g) ==
  LET bases == Bases(tree, g)
  IN [k \in DOMAIN bases |-> StackAt(tree, g, bases[k])]

(* The node a clipped node is painted onto; a node of no stack has none. *)
BaseOf(tree, n) ==
  {s.base : s \in {t \in ToSet(LayerStacks(tree, ParentOf(tree, n))) : Contains(t.clips, n)}}

(* A node and what is visible below it: include_subtree *)
IncludeSubtree(tree, n) ==
  {m \in Subtree(tree, n) :
     ({m} \cup Above(tree, m)) \cap (Subtree(tree, n) \ {n}) \cap tree.hidden = {}}

(* One pass of dependencies: a chosen clip brings its base, which is       *)
(* revealed only for the sake of a node on the path to the solo target.    *)
WithBases(tree, revealed, chosen) ==
  chosen \cup UNION {IncludeSubtree(tree, s.base) :
    s \in {t \in UNION {ToSet(LayerStacks(tree, g)) : g \in (chosen \cap Groups(tree)) \cup {Root}} :
             /\ ToSet(t.clips) \cap chosen # {}
             /\ t.base \notin tree.hidden \/ ToSet(t.clips) \cap revealed # {}}}

(* CompositionScope::Solo: the target with its visible contents, the path  *)
(* of groups to it, and the bases these are clipped to.                    *)
SoloScope(tree, target) ==
  LET path == ({target} \cup Above(tree, target)) \ {Root}
      seeds == path \cup (IncludeSubtree(tree, target) \ {Root})
      grown[i \in 0..Cardinality(Nodes(tree))] ==
        IF i = 0 THEN seeds ELSE WithBases(tree, path, grown[i - 1])
  IN grown[Cardinality(Nodes(tree))]

(* display_child_visible: which nodes a view shows, solo or not *)
Shown(tree, solo) ==
  IF solo = {} THEN Nodes(tree) \ tree.hidden
  ELSE UNION {SoloScope(tree, n) : n \in solo}

-----------------------------------------------------------------------------
(* Structural edits *)

PlaceAt(tree, parent, index, n) ==
  [tree EXCEPT !.kids[parent] = InsertAt(@, index, n)]

InsertRaster(tree, parent, index, n) == PlaceAt(tree, parent, index, n)
InsertGroup(tree, parent, index, n) ==
  [PlaceAt(tree, parent, index, n) EXCEPT !.kids = @ @@ (n :> <<>>)]

(* insertion_above_clipping_run: past the clipped siblings above the node *)
AboveClippingRun(tree, n) ==
  LET kids == tree.kids[ParentOf(tree, n)]
      i == IndexOf(tree, n)
      run == {j \in (i + 1)..Len(kids) : \A k \in (i + 1)..j : kids[k] \in tree.clipped}
  IN i + 1 + Cardinality(run)

(* remove: the subtree and what was recorded of its nodes.  A locked raster *)
(* anywhere in it refuses the removal.                                      *)
CanRemove(tree, n) ==
  /\ n \in Nodes(tree) \ {Root}
  /\ Subtree(tree, n) \cap tree.locked = {}

RemoveNode(tree, n) ==
  LET gone == Subtree(tree, n)
      left == [tree EXCEPT !.kids[ParentOf(tree, n)] = Remove(@, n)]
  IN [kids |-> [g \in Groups(tree) \ gone |-> left.kids[g]],
      hidden |-> tree.hidden \ gone, clear |-> tree.clear \ gone,
      clipped |-> tree.clipped \ gone, locked |-> tree.locked]

(* reorder: the index counts from one after the node has left its parent *)
CanReorder(tree, n, parent, index) ==
  /\ n \in Nodes(tree) \ {Root}
  /\ parent \in Groups(tree) \ Subtree(tree, n)
  /\ index \in 1..(Len(Remove(tree.kids[parent], n)) + 1)

Reorder(tree, n, parent, index) ==
  LET without == [tree EXCEPT !.kids[ParentOf(tree, n)] = Remove(@, n)]
  IN PlaceAt(without, parent, index, n)

(* Rasters bottom to top in drawing order; raster_layer_ids lists them      *)
(* from the top.                                                            *)
RasterOrder(tree) ==
  LET walk[n \in Nodes(tree)] ==
        IF n \notin Groups(tree) THEN <<n>>
        ELSE FlattenSeq([i \in DOMAIN tree.kids[n] |-> walk[tree.kids[n][i]]])
  IN walk[Root]

(* Fault: a raster that is gone stays active. *)
ValidActiveLayerFault(tree, preferred) == preferred

ValidActiveLayer(tree, preferred) ==
  IF preferred \in Rasters(tree) \/ Rasters(tree) = {} THEN preferred
  ELSE Last(RasterOrder(tree))

NextLayerNodeId(tree) ==
  1 + (CHOOSE n \in Nodes(tree) : \A m \in Nodes(tree) : m <= n)

(* remap_group_ids numbers the copy of a subtree depth first, the copied    *)
(* group before its children: source -> copy, for the group source.         *)
CopyIds(tree, source, first) ==
  LET walk[n \in Subtree(tree, source)] ==
        IF n \notin Groups(tree) THEN <<n>>
        ELSE <<n>> \o FlattenSeq([i \in DOMAIN tree.kids[n] |-> walk[tree.kids[n][i]]])
  IN [n \in Subtree(tree, source) |->
        first - 1 + (CHOOSE i \in DOMAIN walk[source] : walk[source][i] = n)]

(* duplicate_raster and duplicate_group: the copy of a subtree, with its    *)
(* metadata, above the clipping run of its source.                          *)
Duplicate(tree, source, first) ==
  LET ids == CopyIds(tree, source, first)
      copies(S) == S \cup {ids[n] : n \in S \cap DOMAIN ids}
      placed == PlaceAt(tree, ParentOf(tree, source), AboveClippingRun(tree, source), ids[source])
      copied(g) == [i \in DOMAIN tree.kids[g] |-> ids[tree.kids[g][i]]]
  IN [kids |-> FoldSet(LAMBDA g, kids : kids @@ (ids[g] :> copied(g)),
                       placed.kids, DOMAIN ids \cap Groups(tree)),
      hidden |-> copies(tree.hidden), clear |-> copies(tree.clear),
      clipped |-> copies(tree.clipped), locked |-> copies(tree.locked)]

(* The raster an edit leaves active: in a copied group the copy of the      *)
(* active raster, else its first one.                                       *)
ActiveCopy(tree, source, first, preferred) ==
  LET ids == CopyIds(tree, source, first)
      copied == SelectSeq(RasterOrder(tree), LAMBDA n : n \in DOMAIN ids)
  IN IF preferred \in DOMAIN ids THEN ids[preferred]
     ELSE IF copied = <<>> THEN preferred
     ELSE ids[Head(copied)]

Toggle(S, n) == IF n \in S THEN S \ {n} ELSE S \cup {n}

-----------------------------------------------------------------------------
(* prepare_layer_edit.  A command is [op, node, parent, index]; the outcome *)
(* is the tree, the active raster, the pairs of rasters whose tiles are     *)
(* copied and the rasters filled with white.                                *)

Outcome(tree, active, copied) ==
  [tree |-> tree, active |-> active, copied |-> copied, white |-> {}]

Command(op, n) == [op |-> op, node |-> n, parent |-> Root, index |-> 1]

PlaceOfNew(tree, active) ==
  IF active \in Rasters(tree)
  THEN [parent |-> ParentOf(tree, active), index |-> IndexOf(tree, active) + 1]
  ELSE [parent |-> Root, index |-> Len(tree.kids[Root]) + 1]

AddRaster(tree, active, id) ==
  LET place == PlaceOfNew(tree, active)
  IN Outcome(InsertRaster(tree, place.parent, place.index, id), id, {})

AddGroup(tree, active, id) ==
  LET place == PlaceOfNew(tree, active)
  IN Outcome(InsertGroup(tree, place.parent, place.index, id), active, {})

AddWhiteBackground(tree, active, id) ==
  [Outcome(InsertRaster(tree, Root, 1, id), active, {}) EXCEPT !.white = {id}]

DuplicateNode(tree, active, id, source) ==
  LET ids == CopyIds(tree, source, id)
  IN Outcome(Duplicate(tree, source, id), ActiveCopy(tree, source, id, active),
             {<<n, ids[n]>> : n \in DOMAIN ids \ Groups(tree)})

(* The last raster is never removed without an empty one in its place. *)
Delete(tree, active, id, n) ==
  LET left == RemoveNode(tree, n)
      filled == IF Rasters(left) = {} THEN InsertRaster(left, Root, Len(left.kids[Root]) + 1, id)
                ELSE left
  IN Outcome(filled, ValidActiveLayer(filled, IF Rasters(left) = {} THEN id ELSE active), {})

Accepts(tree, command) ==
  CASE command.op = "Delete" -> CanRemove(tree, command.node)
    [] command.op = "Reorder" -> CanReorder(tree, command.node, command.parent, command.index)
    [] command.op = "SetLocked" -> command.node \in Rasters(tree)
    [] command.op \in {"AddRaster", "AddGroup", "AddWhiteBackground"} -> TRUE
    [] OTHER -> command.node \in Nodes(tree) \ {Root}

PrepareLayerEdit(tree, active, id, command) ==
  LET n == command.node IN
  CASE command.op = "AddRaster" -> AddRaster(tree, active, id)
    [] command.op = "AddGroup" -> AddGroup(tree, active, id)
    [] command.op = "AddWhiteBackground" -> AddWhiteBackground(tree, active, id)
    [] command.op = "Duplicate" -> DuplicateNode(tree, active, id, n)
    [] command.op = "Delete" -> Delete(tree, active, id, n)
    [] command.op = "Reorder" ->
         Outcome(Reorder(tree, n, command.parent, command.index), active, {})
    [] command.op = "SetLocked" ->
         Outcome([tree EXCEPT !.locked = Toggle(@, n)], active, {})
    [] command.op = "SetClipToBelow" ->
         Outcome([tree EXCEPT !.clipped = Toggle(@, n)], active, {})
    [] command.op = "SetVisibility" ->
         Outcome([tree EXCEPT !.hidden = Toggle(@, n)], active, {})
    [] command.op = "SetOpacity" ->
         Outcome([tree EXCEPT !.clear = Toggle(@, n)], active, {})
=============================================================================
