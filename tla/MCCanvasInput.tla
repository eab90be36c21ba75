---------------------------- MODULE MCCanvasInput -----------------------------
(* One finger, a pen and a mouse. *)
EXTENDS CanvasInput
=============================================================================
