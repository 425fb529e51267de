---------------------------- MODULE MCByteArray ----------------------------
(* ByteArray on small instances. *)
EXTENDS ByteArray
=============================================================================
