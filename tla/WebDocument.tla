------------------------------ MODULE WebDocument ------------------------------
(***************************************************************************)
(* The browser's document (crates/web-core): the artwork strokes paint     *)
(* into in place, a transform or colour preview held beside it, and the    *)
(* session's Undo and Redo.  An artwork is what each tile holds: 0 where   *)
(* there is no tile, a content hash where there is one; layers, page and   *)
(* timeline travel with it.                                                *)
(*   art        the artwork, with the paint of the stroke in progress      *)
(*   stroke     what the artwork was before that stroke (ActiveStroke)     *)
(*   preview    the transform or colour adjustment being adjusted          *)
(*   undo, redo earlier and undone artworks                                *)
(*   finished   history: the artworks the user completed or opened         *)
(***************************************************************************)
EXTENDS Naturals, Sequences, SequencesExt

CONSTANTS
  Tiles,       \* the tiles an artwork may have
  Hashes,      \* what a tile may hold, and 0 for no tile
  MaxHistory,  \* undo and redo entries kept: 128 in the code
  None         \* no stroke, preview, request or file

Artworks == [Tiles -> Hashes]

ASSUME DocumentAssumption ==
  /\ 0 \in Hashes
  /\ MaxHistory \in Nat \ {0}
  /\ None \notin Hashes \cup Artworks

VARIABLES art, stroke, preview, undo, redo, finished

document == <<art, stroke, preview, undo, redo, finished>>

Blank == [t \in Tiles |-> 0]

Drawing == stroke # None
Adjusting == preview # None

(* Stroke, transform and colour preview exclude each other and every edit. *)
Idle == ~Drawing /\ ~Adjusting

(* A document just opened or created has no history. *)
New ==
  /\ art = Blank /\ stroke = None /\ preview = None
  /\ undo = <<>> /\ redo = <<>> /\ finished = {Blank}

Open(artwork, history) ==
  /\ art' = artwork /\ stroke' = None /\ preview' = None
  /\ undo' = <<>> /\ redo' = <<>>
  /\ finished' = finished \cup {artwork} \cup history

(* The oldest undo entries go first when there are too many or they hold too *)
(* many bytes, which an artwork here does not tell.                          *)
Trimmed(entries) ==
  {kept \in {SubSeq(entries, k, Len(entries)) : k \in 1..(Len(entries) + 1)} :
     Len(kept) <= MaxHistory}

(* The artwork becomes the next one and the former can be undone. *)
Commit(former, next) ==
  /\ art' = next
  /\ IF next = former THEN UNCHANGED <<undo, redo>>
     ELSE undo' \in Trimmed(Append(undo, former)) /\ redo' = <<>>
  /\ finished' = finished \cup {next}

-----------------------------------------------------------------------------
Painted(tile, hash) == [art EXCEPT ![tile] = hash]

BeginStroke(tile, hash) ==
  /\ Idle
  /\ stroke' = art /\ art' = Painted(tile, hash)
  /\ UNCHANGED <<preview, undo, redo, finished>>

MoveStroke(tile, hash) ==
  /\ Drawing
  /\ art' = Painted(tile, hash)
  /\ UNCHANGED <<stroke, preview, undo, redo, finished>>

EndStroke ==
  /\ Drawing
  /\ Commit(stroke, art)
  /\ stroke' = None
  /\ UNCHANGED preview

CancelStroke ==
  /\ Drawing
  /\ art' = stroke /\ stroke' = None
  /\ UNCHANGED <<preview, undo, redo, finished>>

Edit(artwork) == Idle /\ Commit(art, artwork) /\ UNCHANGED <<stroke, preview>>

Undo ==
  /\ Idle /\ undo # <<>>
  /\ art' = Last(undo) /\ undo' = Front(undo) /\ redo' = Append(redo, art)
  /\ UNCHANGED <<stroke, preview, finished>>

Redo ==
  /\ Idle /\ redo # <<>>
  /\ art' = Last(redo) /\ redo' = Front(redo) /\ undo' = Append(undo, art)
  /\ UNCHANGED <<stroke, preview, finished>>

Adjust(candidate) ==
  /\ ~Drawing
  /\ preview' = candidate
  /\ UNCHANGED <<art, stroke, undo, redo, finished>>

CommitPreview ==
  /\ Adjusting
  /\ Commit(art, preview) /\ preview' = None /\ UNCHANGED stroke

CancelPreview ==
  /\ Adjusting
  /\ preview' = None /\ UNCHANGED <<art, stroke, undo, redo, finished>>
=============================================================================
