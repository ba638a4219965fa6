----------------------------- MODULE MCEventLog -----------------------------
(* Model values for EventLog: two keys that hash to different partitions.   *)
EXTENDS EventLog

MCKeyHash == [k \in Key |-> IF k = "chain" THEN 3 ELSE 4]
MCKey == {"chain", "other"}
=============================================================================
