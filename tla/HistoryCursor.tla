---------------------------- MODULE HistoryCursor ----------------------------
(***************************************************************************)
(* The History struct as a machine of its own: any sequence of append,     *)
(* undo, redo, redo_to and enforce_limit.  The session limits after every  *)
(* append, but enforce_limit is a method a caller may also apply to a      *)
(* graph that has grown far beyond the limit (opening a project written    *)
(* before the limit existed does so), hence it is an action here.          *)
(***************************************************************************)
EXTENDS History

CONSTANTS GraphRoots,  \* content roots an operation may produce
          GraphStart,  \* the root of a new artwork
          MaxNode      \* bound: ids handed out by one behaviour

ASSUME RootsAssumption == GraphStart \in GraphRoots
ASSUME MaxNodeAssumption == MaxNode \in Nat \ {0}

VARIABLES graph, nextNode
graphVars == <<graph, nextNode>>

NodeIds == 1..MaxNode
GraphInit == graph = NewHistory(GraphStart) /\ nextNode = 1

AppendOperation(after) ==
  LET node == [parent |-> graph.head, before |-> graph.current, after |-> after]
  IN /\ nextNode \in NodeIds
     /\ CanAppendNode(graph, nextNode, node)
     /\ graph' = AppendNode(graph, nextNode, node)
     /\ nextNode' = nextNode + 1

UndoOperation == CanUndo(graph) /\ graph' = Undo(graph) /\ UNCHANGED nextNode

RedoBranch(n) == CanRedoTo(graph, n) /\ graph' = RedoTo(graph, n) /\ UNCHANGED nextNode

RedoPreferred ==
  \E n \in RedoChoice(graph) :
    CanRedoTo(graph, n) /\ graph' = RedoTo(graph, n) /\ UNCHANGED nextNode

LimitOperations ==
  Overfull(graph.nodes) /\ graph' = EnforceLimit(graph) /\ UNCHANGED nextNode

GraphNext ==
  \/ \E r \in GraphRoots : AppendOperation(r)
  \/ UndoOperation
  \/ \E n \in NodeIds : RedoBranch(n)
  \/ RedoPreferred
  \/ LimitOperations

GraphSpec == GraphInit /\ [][GraphNext]_graphVars

-----------------------------------------------------------------------------
(* Whatever was appended, walked and dropped, the graph is one that        *)
(* History::from_persisted would accept and the current root is the one at *)
(* the cursor: retention never leaves a dangling parent, a root transition *)
(* that does not join or a bottom that is not where the oldest began, and  *)
(* never a remembered redo choice that is no child any more.               *)
GraphStaysLoadable ==
  /\ GraphLoads(graph.initial, graph.head, graph.nodes)
  /\ graph.current = IF graph.head = None THEN graph.initial ELSE graph.nodes[graph.head].after
  /\ \A p \in DOMAIN graph.preferred : graph.preferred[p] \in Children(graph.nodes, p)

(* Limiting a history, wherever its cursor stands, changes neither the     *)
(* artwork on screen nor what undo reaches within the limit: the same      *)
(* operations in the same order, ending at the root the dropped operation  *)
(* had produced.                                                           *)
UndoSurvivesRetention ==
  Overfull(graph.nodes) =>
  LET kept  == EnforceLimit(graph)
      depth == Depth(graph.nodes, graph.head)
      reach == IF depth > HistoryLimit THEN HistoryLimit ELSE depth
  IN /\ kept.current = graph.current /\ kept.head = graph.head
     /\ Depth(kept.nodes, graph.head) = reach
     /\ \A k \in 0..reach - 1 :
          Ancestor(kept.nodes, graph.head)[k] = Ancestor(graph.nodes, graph.head)[k]
     /\ reach < depth =>
          kept.initial = graph.nodes[Ancestor(graph.nodes, graph.head)[reach]].after
=============================================================================
