------------------------------ MODULE MCLabRun ------------------------------
(* A Percona lab run with a plain phase, an indexed one and a plain one, and *)
(* a second job on the same database: a plain lab run of two passes, or an   *)
(* experiment with a baseline and the same candidate.                        *)
EXTENDS LabRun

CONSTANTS percona, repeated, experiment, lab, idx

MCDatabaseOf == [j \in Jobs |-> lab]
MCPlan   == [j \in Jobs |-> IF j = percona THEN <<idx, None>>
                            ELSE IF j = repeated THEN <<idx>> ELSE <<None, idx>>]
MCPasses == [j \in Jobs |-> IF j = repeated THEN 2 ELSE 1]
=============================================================================
