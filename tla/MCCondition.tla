----------------------------- MODULE MCCondition -----------------------------
(* Small instances of Condition: the codes, details and the report levels   *)
(* come from the .cfg files.                                                *)
EXTENDS Condition
=============================================================================
