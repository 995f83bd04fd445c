--------------------------- MODULE MCFanucAdapter ---------------------------
(* A small instance of FanucAdapter: two clients, two connections, and of  *)
(* the items of the machine the macros, whose reads depend on each other.  *)
EXTENDS FanucAdapter
CONSTANTS c1, c2
=============================================================================
