---------------------------- MODULE MCWebRecovery ------------------------------
(* One tile, and a file with an earlier artwork to open instead. *)
EXTENDS WebRecovery

CONSTANT tile

MCFiles == {<<tile :> 1, tile :> 2>>}
=============================================================================
