----------------------------- MODULE UndoWitness -----------------------------
(***************************************************************************)
(* EditorSession with a witness: what every retained operation left on the *)
(* screen when it was made.  The metadata of a snapshot (layers, page,     *)
(* timeline) is recorded only from the first operation that changes it,    *)
(* and older snapshots are then given the value they are believed to have  *)
(* had; the witness knows the value they really had.                       *)
(***************************************************************************)
EXTENDS EditorSession

VARIABLE made     \* operation, or None for the bottom |-> [root, view]
witnessVars == <<vars, made>>

Shows(root, shown) == [root |-> root, view |-> shown]

(* What the screen shows once the batch is accepted. *)
BatchResult(batch) ==
  Shows(batch.node.after,
    [tree     |-> IF batch.tree = Keep THEN view.tree ELSE batch.tree,
     page     |-> IF batch.page = Keep THEN view.page ELSE batch.page,
     timeline |-> IF batch.timeline = Keep THEN view.timeline ELSE batch.timeline])

(* The operation below the oldest retained one becomes the bottom. *)
WitnessCommit ==
  LET all  == With(made, job.id, BatchResult(job))
      base == Baseline(Written(db, job).history, job.id)
      kept == IF base = None THEN all ELSE With(all, None, all[base])
  IN made' = Keeping(kept, DOMAIN db'.history \cup {None})

WitnessInit == Init /\ made = With(EmptyMap, None, Shows(EmptyRoot, view))

WitnessNext ==
  \/ /\ CommitBatch
     /\ WitnessCommit
  \/ /\ OpenEmpty \/ (\E r \in Roots, p \in AllPages : ImportPng(r, p))
     /\ made' = With(EmptyMap, None, Shows(EmptyRoot, view'))
  \/ /\ OpenExisting \/ StartBlank \/ Request \/ Fail \/ Stop
          \/ PersistMove \/ AcceptBatch \/ AcceptCursorMove
     /\ UNCHANGED made

WitnessSpec == WitnessInit /\ [][WitnessNext]_witnessVars

(* Undo and redo restore, at every position still reachable, exactly the   *)
(* pixels, layers, page and timeline that were on screen when that         *)
(* operation was made, however much later its metadata was first recorded. *)
UndoRestoresWhatWasMade ==
  HasArtwork(db) =>
    \A n \in DOMAIN db.history \cup {None} :
      LET at == PersistedCursors(db)[n]
      IN Shows(at.root, ViewAt(db, at)) = made[n]
=============================================================================
