------------------------------ MODULE MCHookIO ------------------------------
(* HookIO on small instances. *)
EXTENDS HookIO
=============================================================================
