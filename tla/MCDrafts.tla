-------------------------------- MODULE MCDrafts --------------------------------
(* Instances of Drafts for TLC.                                              *)
EXTENDS Drafts
=============================================================================
