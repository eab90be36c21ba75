------------------------------- MODULE MCHistory -----------------------------
(* A small history for TLC, and the queue loop of enforce_limit spelled    *)
(* out so that the declarative Retained can be compared with it.           *)
EXTENDS HistoryCursor, Sequences

(* One popped parent: its children newest first, each that is kept already *)
(* or for which there is room is kept and queued.                          *)
RECURSIVE VisitChildren(_, _, _)
VisitChildren(left, pending, keep) ==
  IF left = {} THEN [pending |-> pending, keep |-> keep]
  ELSE LET id == CHOOSE n \in left : \A m \in left : m <= n
       IN IF id \in keep \/ Cardinality(keep) < HistoryLimit
          THEN VisitChildren(left \ {id}, Append(pending, id), keep \cup {id})
          ELSE VisitChildren(left \ {id}, pending, keep)

RECURSIVE Walk(_, _, _)
Walk(nodes, pending, keep) ==
  IF pending = <<>> THEN keep
  ELSE LET visited == VisitChildren(Children(nodes, Head(pending)), Tail(pending), keep)
       IN Walk(nodes, visited.pending, visited.keep)

RECURSIVE PathUpTo(_, _, _)
PathUpTo(nodes, n, keep) ==
  IF n = None \/ Cardinality(keep) = HistoryLimit THEN [keep |-> keep, baseline |-> n]
  ELSE PathUpTo(nodes, nodes[n].parent, keep \cup {n})

LoopRetained(nodes, head) ==
  LET path == PathUpTo(nodes, head, {})
  IN IF ~Overfull(nodes) THEN DOMAIN nodes
     ELSE IF path.baseline # None THEN path.keep
     ELSE Walk(nodes, <<None>>, path.keep)

(* For every reachable graph and cursor the nodes that survive are exactly *)
(* those the loop of enforce_limit keeps.                                  *)
RetentionIsTheLoop ==
  Retained(graph.nodes, graph.head) = LoopRetained(graph.nodes, graph.head)
=============================================================================
