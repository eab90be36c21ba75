------------------------------- MODULE MCStartup -------------------------------
(* Three invocations on a machine with the single instance, or two without,  *)
(* over every kind of file the path can name.                                *)
EXTENDS Startup
=============================================================================
