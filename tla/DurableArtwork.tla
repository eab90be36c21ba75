--------------------------- MODULE DurableArtwork ----------------------------
(***************************************************************************)
(* What the editor promises its user about one project: there is a saved   *)
(* artwork and the one on screen.  Every change is saved first and shown   *)
(* second, one at a time, so the screen never shows what a crash would     *)
(* take away, and at most one saved change is not yet on screen.           *)
(***************************************************************************)
CONSTANTS Artworks,   \* everything that can be on screen
          Blanks      \* the ones nobody has drawn on yet

VARIABLES saved, shown, running
vars == <<saved, shown, running>>

Init == saved \in Blanks /\ shown = saved /\ running = FALSE

Open == ~running /\ running' = TRUE /\ UNCHANGED <<saved, shown>>

(* A new project takes its page from the picture it is created for. *)
Adopt(blank) ==
  /\ running /\ saved \in Blanks /\ shown = saved
  /\ saved' = blank /\ shown' = blank
  /\ UNCHANGED running

Save(artwork) ==
  /\ running /\ shown = saved
  /\ saved' = artwork
  /\ UNCHANGED <<shown, running>>

Show ==
  /\ running
  /\ shown' = saved
  /\ UNCHANGED <<saved, running>>

(* By choice or by crash; the next Open starts from what was saved. *)
Stop ==
  /\ running
  /\ running' = FALSE /\ shown' = saved
  /\ UNCHANGED saved

Next ==
  \/ Open \/ Show \/ Stop
  \/ \E a \in Artworks : Save(a)
  \/ \E b \in Blanks : Adopt(b)

Spec == Init /\ [][Next]_vars
=============================================================================
