--------------------------- MODULE MCStrokeWriter ---------------------------
(* The writer and the canvas owner for TLC, with every capacity at its least. *)
EXTENDS StrokeWriter
=============================================================================
