----------------------------- MODULE MCWebJobs -----------------------------
(* One review and two imports; models of two kinds of provider.             *)
EXTENDS WebJobs, TLC

CONSTANTS local, claude, review, first, other

MCKindOf == [m \in {local, claude} |-> IF m = claude THEN "anthropic" ELSE "openai"]
MCImports == Permutations({first, other})
MCEnv == [model |-> local, total |-> 3]
=============================================================================
