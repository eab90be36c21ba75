------------------------------ MODULE MCRenderHost ------------------------------
(* The project open, another one, and the target of a Save As. *)
EXTENDS RenderHost

CONSTANTS a, b, c
=============================================================================
