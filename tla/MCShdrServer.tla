---------------------------- MODULE MCShdrServer ----------------------------
(* Small instances of ShdrServer: two connections, of which each may be    *)
(* seen to fail by any of the three threads, and one for the replay alone. *)
EXTENDS ShdrServer
=============================================================================
