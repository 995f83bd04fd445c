--------------------------- MODULE MCSiemensAdapter ---------------------------
(* A small instance of SiemensAdapter: one remote end, a controller with   *)
(* two values in each part, one fault, one change of both.                      *)
EXTENDS SiemensAdapter

StartSample == {[window |-> "auto", alarm |-> "normal"]}
=============================================================================
