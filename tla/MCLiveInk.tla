------------------------------ MODULE MCLiveInk -------------------------------
(* One pen, with lanes small enough to overflow within a few samples. *)
EXTENDS LiveInk
=============================================================================
