------------------------------- MODULE MCSession -----------------------------
(* Values of the constants for TLC. *)
EXTENDS UndoWitness

(* Two inked roots that share one object, beside the empty one. *)
SharedObjects ==
  [r \in {"blank", "ink", "wash"} |->
     CASE r = "blank" -> {}
       [] r = "ink"   -> {"t1"}
       [] r = "wash"  -> {"t1", "t2"}]

(* What the file holds and what is being asked of it: content, or metadata. *)
Asked == job # NoJob /\ ~IsMove(job)
Inked == db.roots \ {EmptyRoot} # {} \/ (Asked /\ job.node.after # EmptyRoot)
Recorded ==
  \/ db.schema > BaseSchema \/ db.page # DefaultPage
  \/ Asked /\ (job.selected \/ {job.tree, job.page, job.timeline} # {Keep})

(* Bound: where both meet, nothing is asked once so many ids are handed out. *)
MaxMixed == 2

WithinBounds == (Inked /\ Recorded => nextId <= MaxMixed)'
=============================================================================
