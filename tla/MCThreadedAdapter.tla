-------------------------- MODULE MCThreadedAdapter --------------------------
(* Small instances of ThreadedAdapter. *)
EXTENDS ThreadedAdapter
=============================================================================
