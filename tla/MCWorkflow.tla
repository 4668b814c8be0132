----------------------------- MODULE MCWorkflow -----------------------------
(* Workflow for TLC.                                                       *)
EXTENDS Workflow, TLC
MCLongMonths == {2}
=============================================================================
