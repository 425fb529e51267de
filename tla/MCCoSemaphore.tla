--------------------------- MODULE MCCoSemaphore ---------------------------
(* CoSemaphore on small instances. *)
EXTENDS CoSemaphore
=============================================================================
