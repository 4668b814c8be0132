------------------------------ MODULE MCBackup ------------------------------
(* Backup for TLC: two jobs of two apis, one auto-sync and one operator.   *)
EXTENDS Backup, TLC
CONSTANTS j1, j2, api1, api2
MCApiOf == (j1 :> api1) @@ (j2 :> api2)
=============================================================================
