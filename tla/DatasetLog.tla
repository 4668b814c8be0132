----------------------------- MODULE DatasetLog -----------------------------
(***************************************************************************)
(* What the file lake promises of one api, without runs, rows, snapshots   *)
(* or temporary files: a table that only grows, one fetch at a time, whose *)
(* cursor moves with it, and jobs that are acknowledged only once their    *)
(* data is in the table and are not appended again while acknowledged.     *)
(***************************************************************************)
CONSTANTS Jobs, Fetches

VARIABLES
    table,   \* pairs <<job, fetch>> a reader of the latest snapshot sees
    cursor,  \* jobs with a committed cursor
    acked    \* jobs reported done

logVars == <<table, cursor, acked>>

Init == table = {} /\ cursor = {} /\ acked = {}

Covered(j) == \E f \in Fetches : <<j, f>> \in table

Append(j, f) ==
    /\ j \notin acked
    /\ \A k \in Jobs : <<k, f>> \notin table
    /\ table' = table \union {<<j, f>>}
    /\ cursor' = cursor \union {j}
    /\ UNCHANGED acked

Acknowledge(j) ==
    /\ Covered(j)
    /\ acked' = acked \union {j}
    /\ UNCHANGED <<table, cursor>>

(* A failure reported after the append takes the acknowledgement back.     *)
Retract(j) ==
    /\ acked' = acked \ {j}
    /\ UNCHANGED <<table, cursor>>

Next == \E j \in Jobs : \/ \E f \in Fetches : Append(j, f)
                        \/ Acknowledge(j)
                        \/ Retract(j)

Spec == Init /\ [][Next]_logVars
=============================================================================
