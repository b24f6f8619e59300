--------------------------- MODULE MCSpendLedger ---------------------------
(* Two review jobs of the web app, whose settings page lowered the total, *)
(* the second of a scenario with a lower budget, and one evaluation       *)
(* command, which works with the environment's total.                     *)
EXTENDS SpendLedger

CONSTANTS web, cli, first, second, evaluate

MCProcOf == [j \in {first, second, evaluate} |-> IF j = evaluate THEN cli ELSE web]
MCPerRunCap == [j \in {first, second, evaluate} |-> IF j = second THEN 1 ELSE 2]
MCTotalCap == [p \in {web, cli} |-> IF p = cli THEN 3 ELSE 2]
=============================================================================
