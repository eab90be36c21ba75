------------------------------- MODULE History -------------------------------
(***************************************************************************)
(* The undo graph of crates/history: operations that each replace one      *)
(* content root by another, arranged as a tree of branches with a cursor.  *)
(*                                                                         *)
(* A history is the record                                                 *)
(*   initial    the root below the oldest operation,                       *)
(*   current    the root at the cursor,                                    *)
(*   head       the operation the cursor stands on, None at the bottom,    *)
(*   nodes      the operations: id |-> [parent, before, after],            *)
(*   preferred  the child each cursor position last moved to.              *)
(*                                                                         *)
(* This module is a library: the operators below are the methods of        *)
(* History, and EditorSession and ProjectDb both use them, as the session  *)
(* crate and the project file both call the same struct.                   *)
(***************************************************************************)
EXTENDS Integers, FiniteSets

CONSTANT HistoryLimit            \* HISTORY_LIMIT, 128 in the program

ASSUME HistoryLimitAssumption == HistoryLimit \in Nat \ {0}

(* Node ids are handed out from 1, so 0 is free to stand for Option::None. *)
None == 0

EmptyMap == [x \in {} |-> x]

(* A map with one entry inserted or replaced. *)
With(map, key, value) ==
  [x \in DOMAIN map \cup {key} |-> IF x = key THEN value ELSE map[x]]

Keeping(map, keys) == [x \in DOMAIN map \cap keys |-> map[x]]

MapsInto(map, keys, values) ==
  DOMAIN map \subseteq keys /\ map \in [DOMAIN map -> values]

NewHistory(root) ==
  [initial |-> root, current |-> root, head |-> None,
   nodes |-> EmptyMap, preferred |-> EmptyMap]

Children(nodes, parent) == {n \in DOMAIN nodes : nodes[n].parent = parent}

(* Walking up: Ancestor(nodes, n)[k] is the k-th operation above n, n      *)
(* itself for k = 0, None once the bottom is reached.                      *)
Ancestor(nodes, n) ==
  LET up[k \in 0..Cardinality(DOMAIN nodes)] ==
        IF k = 0 THEN n
        ELSE IF up[k - 1] = None THEN None ELSE nodes[up[k - 1]].parent
  IN up

Depth(nodes, n) ==
  Cardinality({k \in 0..Cardinality(DOMAIN nodes) : Ancestor(nodes, n)[k] # None})

-----------------------------------------------------------------------------
(* Retention *)

Overfull(nodes) == Cardinality(DOMAIN nodes) > HistoryLimit

(* The operation that drops off the far end of the cursor's own path and   *)
(* becomes the new bottom; None when the path still fits.                  *)
Baseline(nodes, head) ==
  IF Overfull(nodes) THEN Ancestor(nodes, head)[HistoryLimit] ELSE None

(* The order in which a breadth-first walk from the bottom, taking the     *)
(* newest child first, meets m and n.                                      *)
MetBefore(nodes, m, n) ==
  \/ Depth(nodes, m) < Depth(nodes, n)
  \/ /\ Depth(nodes, m) = Depth(nodes, n)
     /\ \E k \in 0..Depth(nodes, m) - 1 :
          /\ Ancestor(nodes, m)[k] > Ancestor(nodes, n)[k]
          /\ Ancestor(nodes, m)[k + 1] = Ancestor(nodes, n)[k + 1]

(* Fault: the branches beside the cursor's path are dropped at once. *)
RetainedFault(nodes, head) ==
  IF ~Overfull(nodes) THEN DOMAIN nodes
  ELSE {n \in DOMAIN nodes :
          \E k \in 0..HistoryLimit - 1 : Ancestor(nodes, head)[k] = n}

(* The nodes that survive: the cursor's path up to the limit, and, when    *)
(* the whole path fits, the first others of that walk for which there is   *)
(* room.                                                                   *)
Retained(nodes, head) ==
  LET path   == {n \in DOMAIN nodes :
                   \E k \in 0..HistoryLimit - 1 : Ancestor(nodes, head)[k] = n}
      others == DOMAIN nodes \ path
      room   == HistoryLimit - Cardinality(path)
  IN IF ~Overfull(nodes) THEN DOMAIN nodes
     ELSE IF Baseline(nodes, head) # None THEN path
     ELSE path \cup
          {n \in others :
             Cardinality({m \in others : MetBefore(nodes, m, n)}) < room}

(* Fault: the survivor above the baseline keeps its parent. *)
RetainedNodesFault(nodes, head) == Keeping(nodes, Retained(nodes, head))

(* The survivors, the one above the baseline re-parented to the bottom.    *)
RetainedNodes(nodes, head) ==
  [n \in Retained(nodes, head) |->
     IF Baseline(nodes, head) # None /\ nodes[n].parent = Baseline(nodes, head)
     THEN [nodes[n] EXCEPT !.parent = None]
     ELSE nodes[n]]

(* Fault: the bottom's root stays where it was. *)
RetainedInitialFault(nodes, head, initial) == initial

(* The root below the oldest survivor. *)
RetainedInitial(nodes, head, initial) ==
  IF Baseline(nodes, head) = None THEN initial
  ELSE nodes[Ancestor(nodes, head)[HistoryLimit - 1]].before

EnforceLimit(h) ==
  LET nodes == RetainedNodes(h.nodes, h.head)
  IN [h EXCEPT
        !.initial   = RetainedInitial(h.nodes, h.head, h.initial),
        !.nodes     = nodes,
        !.preferred = Keeping(h.preferred,
                        {p \in DOMAIN h.preferred :
                           h.preferred[p] \in Children(nodes, p)})]

-----------------------------------------------------------------------------
(* Moves.  Each has the condition under which the method returns Ok.       *)

CanAppendNode(h, id, node) ==
  /\ id \notin DOMAIN h.nodes
  /\ node.parent = h.head
  /\ node.before = h.current

AppendNode(h, id, node) ==
  [h EXCEPT !.current   = node.after,
            !.head      = id,
            !.nodes     = With(h.nodes, id, node),
            !.preferred = With(h.preferred, node.parent, id)]

CanUndo(h) == h.head # None

Undo(h) ==
  LET node == h.nodes[h.head]
  IN [h EXCEPT !.current   = node.before,
               !.head      = node.parent,
               !.preferred = With(h.preferred, node.parent, h.head)]

CanRedoTo(h, n) ==
  /\ n \in Children(h.nodes, h.head)
  /\ h.nodes[n].before = h.current

RedoTo(h, n) ==
  [h EXCEPT !.current   = h.nodes[n].after,
            !.head      = n,
            !.preferred = With(h.preferred, h.head, n)]

(* redo() follows the preference, or the only child: the set it would      *)
(* follow is empty when there is nothing to redo or the choice is          *)
(* ambiguous.                                                              *)
RedoChoice(h) ==
  IF h.head \in DOMAIN h.preferred THEN {h.preferred[h.head]}
  ELSE {n \in Children(h.nodes, h.head) :
          Children(h.nodes, h.head) = {n}}

-----------------------------------------------------------------------------
(* Rebuilding a history from stored nodes *)

(* The checks of from_persisted. *)
GraphLoads(initial, head, nodes) ==
  /\ \A n \in DOMAIN nodes :
       LET parent == nodes[n].parent
       IN IF parent = None THEN nodes[n].before = initial
          ELSE parent \in DOMAIN nodes /\ nodes[parent].after = nodes[n].before
  /\ \A n \in DOMAIN nodes :                                \* no cycle
       Ancestor(nodes, n)[Cardinality(DOMAIN nodes)] = None
  /\ head \in DOMAIN nodes \cup {None}

FromPersisted(initial, head, nodes) ==
  [initial |-> initial,
   current |-> IF head = None THEN initial ELSE nodes[head].after,
   head |-> head, nodes |-> nodes, preferred |-> EmptyMap]
=============================================================================
