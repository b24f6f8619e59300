------------------------------ MODULE MCReplay ------------------------------
(* One request of each kind, and one that fails with the sandbox open; an   *)
(* index some option uses and one none does; a run on this SQLite, another  *)
(* version or MySQL, and replays with and without a matching engine.        *)
EXTENDS Replay

CONSTANTS forecast, index, idleIndex, explain, loadTest, badCandidate, forbidden,
          garbled, sqlite, otherSqlite, mysql

\* The malformed request is a forecast whose arguments do not parse; without
\* arguments a forecast covers all options.
MCEmptied == [request \in {garbled} |-> forecast]
=============================================================================
