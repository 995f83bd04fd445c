---------------------------- MODULE MCDatumFeed ----------------------------
(* Small instances of DatumFeed: the values come from the .cfg files. *)
EXTENDS DatumFeed
=============================================================================
