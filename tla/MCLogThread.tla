---------------------------- MODULE MCLogThread ----------------------------
(* LogThread on small instances. *)
EXTENDS LogThread
=============================================================================
