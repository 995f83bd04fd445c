------------------------------ MODULE AlarmFeed ------------------------------
(***************************************************************************)
(* What a condition promises to an agent that is connected: the agent      *)
(* shows either what it showed before or the whole current state of the    *)
(* device's alarms, never a mixture, and it catches up.                    *)
(***************************************************************************)
CONSTANTS Views, Unknown

VARIABLES device, shown, linked

vars == <<device, shown, linked>>

Init ==
  /\ device = Unknown
  /\ shown = Unknown
  /\ linked \in BOOLEAN

\* The adapter learns about the device; the agent may be told at once.
Learn ==
  /\ device' \in Views
  /\ shown' \in {shown} \cup (IF linked THEN {device'} ELSE {})
  /\ UNCHANGED linked

Publish ==
  /\ linked
  /\ shown' = device
  /\ UNCHANGED <<device, linked>>

\* A new connection starts from nothing.
Link ==
  /\ ~linked
  /\ linked' = TRUE
  /\ shown' = Unknown
  /\ UNCHANGED device

Unlink ==
  /\ linked
  /\ linked' = FALSE
  /\ UNCHANGED <<device, shown>>

Next == Learn \/ Publish \/ Link \/ Unlink

Spec == Init /\ [][Next]_vars /\ WF_vars(Publish)
=============================================================================
