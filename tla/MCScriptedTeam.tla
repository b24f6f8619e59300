--------------------------- MODULE MCScriptedTeam ---------------------------
(* Worlds for ScriptedTeam: every way the options can fare when only an index *)
(* can make things worse, five bundles of evidence, and tools that may raise. *)
EXTENDS ScriptedTeam

Everything == {"digest", "plan", "tables", "calendar", "releases", "schedule", "log", "slo", "history",
               "rates", "budget", "profile"}
Bundles == {Everything, Everything \ {"plan"}, Everything \ {"tables"}, Everything \ {"digest", "plan"},
            Everything \ {"schedule", "log", "releases"}}

Grades == {g \in [{"keep", "scale", "index", "rewrite", "move"} -> 0..2] : \A o \in DOMAIN g \ {"index"} : g[o] <= g["keep"]}

World(b, root, disputed, nulls, g, broken) ==
    [bundle |-> b, root |-> root, disputed |-> disputed, nulls |-> nulls, batch |-> "schedule" \in b,
     late |-> IF disputed THEN {"move"} ELSE {}, grade |-> g, broken |-> broken]

\* The sources disagree, a statement has no fixture and tools raise in some
\* worlds only.
MCWorlds ==
    {World(b, "fixture", disputed, nulls, g, {}) : b \in Bundles, disputed, nulls \in BOOLEAN, g \in Grades}
    \cup {World(Everything, "other", FALSE, FALSE, g, {}) : g \in Grades}
    \cup {World(Everything, "fixture", FALSE, TRUE, g, broken) : g \in Grades, broken \in {{"index"}, {"forecast"}, {"estimate", "cost"}}}

RunLimit(rounds, perTurn, calls) == [rounds |-> rounds, perTurn |-> perTurn, calls |-> calls]

\* The two shipped budgets, fewer requests in a turn, and few calls in the run.
MCLimits == {RunLimit(4, 4, 40), RunLimit(4, 3, 30), RunLimit(3, 2, 40), RunLimit(3, 4, 6)}

MCTeams == {<<"engineer", "application", "reliability", "finops", "tenant">>, <<"single">>}
=============================================================================
