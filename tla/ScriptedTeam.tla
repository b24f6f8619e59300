---------------------------- MODULE ScriptedTeam ----------------------------
(***************************************************************************)
(* The scripted agents (providers/mock.py), the default provider, in the   *)
(* rounds of the orchestrator, and the scoring of evaluation/compare.py.   *)
(*                                                                         *)
(* Review lets an agent answer anything; here the answers are those of the *)
(* hand-written policies, which are functions of what their role may see.  *)
(* A run is therefore determined by its world (the evidence collected, the *)
(* tools that raise, how each option fares), its limits and its team.      *)
(* Figures are ranked, statements are the evidence they cite, and of the   *)
(* option list one option of each kind is kept.                            *)
(***************************************************************************)
EXTENDS Integers, Sequences, FiniteSets, SequencesExt, FiniteSetsExt

CONSTANTS
    Worlds,    \* [bundle, root, disputed, nulls, batch, late, grade, broken]; disputed:
               \* the sources contradict each other on the campaign, on one key
    Limits,    \* [rounds, perTurn, calls]: RunConfig
    Teams      \* sequences of roles: ROLE_ORDER, or the single agent alone

Options == <<"keep", "scale", "index", "rewrite", "move">>   \* in the order of the scenario file
Roles   == {"engineer", "application", "reliability", "finops", "tenant", "single"}

ASSUME WorldsAssumption == \A w \in Worlds : \A o \in Range(Options) : w.grade[o] \in Nat
ASSUME LimitsAssumption == \A l \in Limits : l.rounds \in Nat \ {0} /\ l.perTurn \in Nat /\ l.calls \in Nat
ASSUME TeamsAssumption  == Teams \subseteq Seq(Roles)

\* The roles that may experiment.  At most one is in a team, and speaks first.
Measurers == {"engineer", "single"}
ASSUME LeadAssumption == \A t \in Teams : \A n \in DOMAIN t : t[n] \in Measurers => n = 1

VARIABLES world, limits, team,   \* the inputs of the run
          round, who,            \* the loops of Orchestrator.run
          turns,                 \* run.turns
          queue,                 \* the groups of this round still to execute: [call, by]
          records,               \* run.tool_calls: [call, by, status]
          items,                 \* run.tool_evidence: [call, by, effects]
          effects,               \* env.effects: the experiments measured
          status
inputs == <<world, limits, team>>
vars == <<inputs, round, who, turns, queue, records, items, effects, status>>
-----------------------------------------------------------------------------
\* The options in the order of their ids.
ById == <<"index", "keep", "move", "rewrite", "scale">>
Undecided == "undecided"

\* What a forecast says of an option, given the effects in force when it ran.
\* grade ranks utilization and latency: 0 has headroom, 1 is over the threshold,
\* 2 breaches an objective.  An unmeasured index or rewrite changes nothing.
Grade(o, E) == IF o \in {"index", "rewrite"} /\ o \notin E THEN world.grade["keep"] ELSE world.grade[o]

Outcome(o, E) ==
    [safe     |-> Grade(o, E) < 2,
     over     |-> Grade(o, E),
     unknowns |-> IF o \in {"scale", "rewrite"} \/ (o = "index" /\ o \notin E) THEN 1 ELSE 0,
     months   |-> CASE o = "scale" -> 2 [] o = "index" /\ o \in E -> 1 [] OTHER -> 0,
     events   |-> CASE o = "scale" -> 2 [] o = "move" \/ o \in E -> 1 [] OTHER -> 0,
     built    |-> o = "index" /\ o \in E,
     late     |-> o \in world.late]

Outcomes(E) == [o \in Range(Options) |-> Outcome(o, E)]

\* The tool of a request, the kind of its evidence, and its effect if any.
Tool(c) == CASE c = "sensitivity" -> "forecast" [] c \in {"night", "nights"} -> "reschedule" [] OTHER -> c
Kind(c) == IF Tool(c) \in {"index", "rewrite", "explain"} THEN "experiment" ELSE "calculation"
Measures(c) == {c} \cap {"index", "rewrite"}

Sees ==
    LET shared == {"calendar", "calculation"} IN
    [engineer    |-> shared \cup {"digest", "plan", "tables", "schedule", "log", "experiment"},
     application |-> shared \cup {"digest", "releases", "schedule", "log", "slo", "profile"},
     reliability |-> shared \cup {"releases", "schedule", "log", "slo", "history", "experiment"},
     finops      |-> shared \cup {"rates", "budget", "tables", "experiment"},
     tenant      |-> shared \cup {"slo", "profile"},
     single      |-> shared \cup {"digest", "plan", "tables", "releases", "schedule", "log", "slo", "history",
                                  "rates", "budget", "profile", "experiment"}]

MayUse ==
    LET engineering == {"top", "skew", "explain", "index", "rewrite", "estimate", "growth", "bottleneck", "forecast"} IN
    [engineer    |-> engineering,
     application |-> {"top", "reschedule", "forecast", "cost"},
     reliability |-> {"skew", "bottleneck", "reschedule", "forecast", "cost"},
     finops      |-> {"skew", "growth", "forecast", "cost"},
     tenant      |-> {"skew", "forecast"},
     single      |-> engineering \cup {"reschedule", "cost"}]

Has(r, k) == k \in world.bundle \cap Sees[r]
Visible(r) == {i \in DOMAIN items : Kind(items[i].call) \in Sees[r]}
Latest(r, c) == Max({0} \cup {i \in Visible(r) : Tool(items[i].call) = Tool(c)})
Cited(r, S) == {Latest(r, c) : c \in S} \ {0}

\* ctx.prior_turns: the turns of the rounds before this one.
Prior == {i \in DOMAIN turns : turns[i].round < round}
Own(r) == {i \in Prior : turns[i].role = r}
PositionOf(r) == IF Own(r) = {} THEN "none" ELSE turns[Max(Own(r))].position
ChallengedBy(r, other) == \E i \in Own(other) : r \in turns[i].challenges

\* The latest forecast under the scenario's own assumptions, preferring one
\* that includes measured effects; 0 if there is none.
Forecast(r) ==
    LET base == {i \in Visible(r) : items[i].call = "forecast"}
        measured == {i \in base : items[i].effects # {}}
    IN  Max({0} \cup IF measured # {} THEN measured ELSE base)
-----------------------------------------------------------------------------
(***************************************************************************)
(* The policies.  Each has the requests it would make, in its order, the   *)
(* options it accepts and how it ranks them, whom it challenges, and the   *)
(* evidence its claims cite.  E are the effects in the forecast it reads,  *)
(* and out is what that forecast says of each option; tested tells whether *)
(* it sees the index measured, and strict whether reliability has          *)
(* challenged it.                                                          *)
(***************************************************************************)
When(b, s) == IF b THEN s ELSE <<>>
Before(a, b) == \E i \in DOMAIN a : a[i] < b[i] /\ \A j \in 1..i - 1 : a[j] = b[j]
Rank(order, o) == CHOOSE i \in DOMAIN order : order[i] = o

\* The first of the options that have a key, in the order of the keys, or no decision.
Best(key) == IF DOMAIN key = {} THEN Undecided
             ELSE CHOOSE o \in DOMAIN key : \A p \in DOMAIN key \ {o} : Before(key[o], key[p])

Rooted == world.root = "fixture" /\ "digest" \in world.bundle

\* Mutant: the forecast is asked for before the experiments.
EngineerWantsForecastFirst(r) ==
    <<"forecast", "bottleneck">> \o When(Rooted, <<"index">>) \o When(Rooted /\ Latest(r, "index") # 0, <<"rewrite">>)

EngineerWants(r) ==
       When(Has(r, "plan"), <<"estimate">>) \o When(~Has(r, "plan") /\ Rooted, <<"explain">>)
    \o <<"bottleneck">> \o When(Rooted, <<"index">>) \o When(Has(r, "tables"), <<"growth">>) \o <<"forecast">>
    \o When(Rooted /\ Latest(r, "index") # 0, <<"rewrite">>)

EngineerPosition(out, tested) ==
    Best([o \in {x \in Range(Options) : out[x].over = 0} |->
         <<IF tested /\ out[o].built THEN 0 ELSE 1, out[o].unknowns, out[o].months, out[o].over, Rank(Options, o)>>])

\* A rewrite that fails because it treats NULL differently (world.nulls) is for
\* the application to decide; a position that rests on unmeasured failovers is
\* for reliability to defend.
EngineerChallenges(r, E, position) ==
    LET theirs == PositionOf("reliability") IN
    {x \in {"application", "reliability"} :
        \/ x = "application" /\ Latest(r, "rewrite") # 0 /\ world.nulls
        \/ /\ x = "reliability" /\ position # Undecided
           /\ theirs \in Range(Options) \ {position} /\ Outcome(theirs, E).unknowns > 0}

ApplicationWants(r) ==
       When(Has(r, "schedule"), <<"nights">>) \o When(world.disputed, <<"sensitivity">>)
    \o When(Has(r, "digest"), <<"top">>) \o <<"forecast">>

ApplicationPosition(out) ==
    Best([o \in {x \in Range(Options) : out[x].safe /\ ~out[x].late} |-> <<out[o].over, out[o].events, Rank(ById, o)>>])

ApplicationChallenges(r, E, position) ==
    IF position # Undecided /\ Has(r, "releases") /\ Outcome(position, E).built THEN {"engineer"} ELSE {}

ReliabilityWants == <<"forecast", "bottleneck">> \o When(world.batch, <<"night">>)

ReliabilityPosition(out) ==
    Best([o \in {x \in Range(Options) : out[x].safe} |->
         <<out[o].over, out[o].unknowns + (IF out[o].built THEN 1 ELSE 0), out[o].over, Rank(Options, o)>>])

ReliabilityChallenges(E, position) ==
    {x \in Range(team) \ {"reliability"} :
        LET theirs == PositionOf(x) IN
        /\ position # Undecided /\ theirs \in Range(Options) \ {position}
        /\ Outcome(theirs, E).over > 0 \/ Outcome(theirs, E).built}

FinopsWants(r) == <<"cost", "forecast">> \o When(Has(r, "tables"), <<"growth">>)

\* Once reliability has challenged it, headroom counts too.
Strict(r) == ChallengedBy(r, "reliability")

FinopsPosition(out, strict) ==
    Best([o \in {x \in Range(Options) : out[x].safe /\ (out[x].over = 0 \/ ~strict)} |->
         <<out[o].months, out[o].over, Rank(Options, o)>>])

FinopsChallenges(E, position) ==
    {x \in Range(team) \ {"finops"} :
        LET theirs == PositionOf(x) IN
        /\ position # Undecided /\ theirs \in Range(Options) \ {position}
        /\ Outcome(theirs, E).months > Outcome(position, E).months}

TenantPosition(out) ==
    Best([o \in {x \in Range(Options) : out[x].safe} |-> <<out[o].over, out[o].unknowns, Rank(Options, o)>>])

TenantChallenges(r, E, position) ==
    LET theirs == PositionOf("engineer") IN
    IF position # Undecided /\ Has(r, "calendar") /\ theirs \in Range(Options) /\ Outcome(theirs, E).built
    THEN {"engineer"} ELSE {}

SingleWants(r) == EngineerWants(r) \o <<"cost">> \o When(world.batch, <<"night">>)

\* Mutant: the baseline takes whatever holds the objectives.
SingleTakesSafe(out) ==
    Best([o \in {x \in Range(Options) : out[x].safe} |->
         <<out[o].unknowns, out[o].months, out[o].over, Rank(Options, o)>>])

SinglePosition(out) ==
    Best([o \in {x \in Range(Options) : out[x].over = 0} |->
         <<out[o].unknowns, out[o].months, out[o].over, Rank(Options, o)>>])

\* A policy as it answers now; without a forecast nobody decides.
Wants(r) ==
    CASE r = "engineer" -> EngineerWants(r) [] r = "application" -> ApplicationWants(r)
      [] r = "reliability" -> ReliabilityWants [] r = "finops" -> FinopsWants(r)
      [] r = "tenant" -> <<"forecast", "skew">> [] r = "single" -> SingleWants(r)

Position(r, out, tested, strict) ==
    CASE r = "engineer" -> EngineerPosition(out, tested) [] r = "application" -> ApplicationPosition(out)
      [] r = "reliability" -> ReliabilityPosition(out) [] r = "finops" -> FinopsPosition(out, strict)
      [] r = "tenant" -> TenantPosition(out) [] r = "single" -> SinglePosition(out)

Challenges(r, E, position) ==
    CASE r = "engineer" -> EngineerChallenges(r, E, position)
      [] r = "application" -> ApplicationChallenges(r, E, position)
      [] r = "reliability" -> ReliabilityChallenges(E, position)
      [] r = "finops" -> FinopsChallenges(E, position)
      [] r = "tenant" -> TenantChallenges(r, E, position) [] r = "single" -> {}

\* What the claims of a policy rest on: evidence of the bundle, and results.
EngineerBasis    == {"digest", "plan", "bottleneck", "growth", "estimate", "index", "rewrite", "forecast"}
ApplicationBasis == {"releases", "calendar", "schedule", "log", "nights", "forecast"}
ReliabilityBasis == {"slo", "history", "forecast"}
FinopsBasis      == {"budget", "rates", "cost", "growth", "forecast"}
TenantBasis      == {"profile", "calendar", "skew", "forecast"}

\* Only what the role may see is cited.
Cites(r) ==
    LET basis == CASE r \in {"engineer", "single"} -> EngineerBasis [] r = "application" -> ApplicationBasis
                   [] r = "reliability" -> ReliabilityBasis [] r = "finops" -> FinopsBasis [] r = "tenant" -> TenantBasis
    IN  [kinds |-> {k \in basis : Has(r, k)}, results |-> Cited(r, basis)]

\* What it proposes for the statement at the root: the index, as measured by the
\* experiment it can see, or as not tested.
Proposals(r) ==
    IF r \notin {"engineer", "single"} \/ ~Rooted THEN {}
    ELSE {[status |-> IF Latest(r, "index") # 0 THEN "measured_local" ELSE "not_tested",
           support |-> {k \in {"digest", "plan"} : Has(r, k)}, results |-> Cited(r, {"index"})]}

\* What the role has asked for; a request the run skipped is kept under other
\* arguments and so counts as not made.
Asked(r) == {records[i].call : i \in {j \in DOMAIN records : r \in records[j].by /\ records[j].status \in {"ok", "error"}}}

Room == Min({limits.perTurn, Max({0, limits.calls - Len(items)})})
Take(s, n) == SubSeq(s, 1, Min({n, Len(s)}))

\* The elements of a sequence that are in a set.
Only(s, S) ==
    LET upTo[n \in 0..Len(s)] ==
            IF n = 0 THEN <<>> ELSE IF s[n] \in S THEN Append(upTo[n - 1], s[n]) ELSE upTo[n - 1]
    IN  upTo[Len(s)]

Requests(r) ==
    When(round < limits.rounds, Take(Only(Wants(r), {c \in Range(Wants(r)) \ Asked(r) : Tool(c) \in MayUse[r]}), Room))

\* What finish() gives as the reason of a changed position: results the role
\* had not seen when it last spoke, and who challenged it in the last round.
Fresh(r) == {i \in Visible(r) : \A j \in Own(r) : i > turns[j].seen}

\* Mutant: the challengers are looked for a round too early.
ChallengersEarlier(r) ==
    {turns[i].role : i \in {j \in DOMAIN turns : turns[j].round = round - 2 /\ r \in turns[j].challenges}}

Challengers(r) ==
    {turns[i].role : i \in {j \in DOMAIN turns : turns[j].round = round - 1 /\ r \in turns[j].challenges}}

Turn(r) ==
    LET read == Forecast(r)
        E == IF read = 0 THEN {} ELSE items[read].effects
        position == IF read = 0 THEN Undecided ELSE Position(r, Outcomes(E), Latest(r, "index") # 0, Strict(r))
    IN  [role |-> r, round |-> round, position |-> position, requests |-> Requests(r), read |-> read,
         challenges |-> IF read = 0 THEN IF r = "engineer" THEN EngineerChallenges(r, {}, Undecided) ELSE {}
                        ELSE Challenges(r, E, position),
         cites |-> Cites(r), proposals |-> Proposals(r), seen |-> Len(items), revised |-> PositionOf(r) \notin {"none", position},
         causes |-> [fresh |-> Fresh(r), challengers |-> Challengers(r)]]
-----------------------------------------------------------------------------
(***************************************************************************)
(* The rounds.                                                             *)
(***************************************************************************)
Init ==
    /\ world \in Worlds /\ limits \in Limits /\ team \in Teams
    /\ round = 1 /\ who = 1 /\ status = "deliberating"
    /\ turns = <<>> /\ queue = <<>> /\ records = <<>> /\ items = <<>> /\ effects = {}

Speak ==
    /\ status = "deliberating" /\ who <= Len(team)
    /\ turns' = Append(turns, Turn(team[who]))
    /\ who' = who + 1
    /\ UNCHANGED <<inputs, round, queue, records, items, effects, status>>

ThisRound == Only(turns, {t \in Range(turns) : t.round = round})

\* The requests of the round within the per-turn limit, in speaking order,
\* and the groups of equal ones.
Kept ==
    LET said == ThisRound IN
    FlattenSeq([i \in DOMAIN said |->
        [k \in 1..Min({limits.perTurn, Len(said[i].requests)}) |-> [call |-> said[i].requests[k], role |-> said[i].role]]])

Groups(kept) ==
    LET first == Only([i \in DOMAIN kept |-> i], {i \in DOMAIN kept : \A j \in 1..i - 1 : kept[j].call # kept[i].call})
    IN  [g \in DOMAIN first |->
            [call |-> kept[first[g]].call,
             by   |-> {kept[j].role : j \in {k \in DOMAIN kept : kept[k].call = kept[first[g]].call}}]]

Skip(group, why) == [call |-> group.call, by |-> group.by, status |-> why]

Stable(said) ==
    /\ \A i \in DOMAIN said : said[i].position = PositionOf(said[i].role)
    /\ \A i, j \in DOMAIN said : said[j].role \in said[i].challenges => said[i].position = said[j].position

EndRound ==
    /\ status = "deliberating" /\ who > Len(team)
    /\ LET kept == Kept IN
        IF round = limits.rounds \/ (round >= 2 /\ kept = <<>> /\ Stable(ThisRound))
        THEN /\ status' = "concluded" /\ queue' = <<>>
             /\ records' = records \o [i \in DOMAIN kept |-> Skip([call |-> kept[i].call, by |-> {kept[i].role}], "final_round")]
        ELSE status' = "executing" /\ queue' = Groups(kept) /\ UNCHANGED records
    /\ UNCHANGED <<inputs, round, who, turns, items, effects>>

\* execute_tool: a tool that raises leaves an error and no evidence, and only
\* evidence counts against the limit of the run.
RunTool ==
    /\ status = "executing" /\ queue # <<>>
    /\ LET group == Head(queue) IN
        CASE Len(items) >= limits.calls ->
                records' = Append(records, Skip(group, "budget")) /\ UNCHANGED <<items, effects>>
          [] Len(items) < limits.calls /\ Tool(group.call) \in world.broken ->
                records' = Append(records, Skip(group, "error")) /\ UNCHANGED <<items, effects>>
          [] OTHER ->
                /\ records' = Append(records, Skip(group, "ok"))
                /\ items' = Append(items, [call |-> group.call, by |-> group.by, effects |-> effects])
                /\ effects' = effects \cup Measures(group.call)
    /\ queue' = Tail(queue)
    /\ UNCHANGED <<inputs, round, who, turns, status>>

NextRound ==
    /\ status = "executing" /\ queue = <<>>
    /\ status' = "deliberating" /\ round' = round + 1 /\ who' = 1
    /\ UNCHANGED <<inputs, turns, queue, records, items, effects>>

Next == Speak \/ EndRound \/ RunTool \/ NextRound
Spec == Init /\ [][Next]_vars
-----------------------------------------------------------------------------
\* validate_turn: what is wrong with a turn.
Findings(t) ==
    {f \in {"position", "citation", "tool", "target", "result"} :
        \/ f = "position" /\ t.position \notin Range(Options) \cup {Undecided}
        \/ /\ f = "citation"
           /\ \E c \in {t.cites} \cup {[kinds |-> p.support, results |-> p.results] : p \in t.proposals} :
                \/ ~c.kinds \subseteq world.bundle \cap Sees[t.role]
                \/ \E i \in c.results : i > t.seen \/ Kind(items[i].call) \notin Sees[t.role]
        \/ f = "tool" /\ \E k \in DOMAIN t.requests : Tool(t.requests[k]) \notin MayUse[t.role]
        \/ f = "target" /\ ~t.challenges \subseteq DOMAIN Sees
        \/ f = "result" /\ \E p \in t.proposals :
              p.status = "measured_local" /\ \A i \in p.results : Kind(items[i].call) # "experiment"}

\* The options compare() holds against a recommendation: of those with headroom
\* and nothing unmeasured, the cheapest over twelve months, with the index
\* measured beforehand.
Reference == IF "index" \in world.broken THEN {} ELSE {"index"}
Eligible == {o \in Range(Options) : Outcome(o, Reference).over = 0 /\ Outcome(o, Reference).unknowns = 0}
ReferenceBest == {o \in Eligible : \A p \in Eligible : Outcome(o, Reference).months <= Outcome(p, Reference).months}

\* What an approach is scored on: the position most of its roles ended with,
\* the first by id of those that tie.
FinalPosition(r) == turns[Max({i \in DOMAIN turns : turns[i].role = r})].position
Votes(o) == Cardinality({r \in Range(team) : FinalPosition(r) = o})
Recommendation ==
    LET leaders == {o \in Range(Options) : Votes(o) > 0 /\ \A p \in Range(Options) : Votes(p) <= Votes(o)}
    IN  IF leaders = {} THEN Undecided ELSE CHOOSE o \in leaders : \A p \in leaders : Rank(ById, o) <= Rank(ById, p)

\* rule_based_recommendation: scale when the status quo is over the threshold.
RuleBased == IF Grade("keep", {}) > 0 THEN "scale" ELSE "keep"

\* A scripted turn stands up: validate_turn finds nothing wrong with it, the run
\* refuses none of its requests unless its own limit is used up, and a changed
\* position names new results or a challenge of the round before, never mere
\* reconsideration (validation.py:67-140, mock.py:100-154, EVALUATION.md:61).
TurnsStandUp ==
    /\ \A i \in DOMAIN turns :
        /\ Findings(turns[i]) = {}
        /\ turns[i].revised => turns[i].causes.fresh # {} \/ turns[i].causes.challengers # {}
    /\ \A i \in DOMAIN records : records[i].status \in {"ok", "error", "budget"}

\* Once the forecast of the one who measures has run, every position rests on a
\* forecast that knows the index experiment; and no forecast ever knows the
\* rewrites, whose effects only reach the decision record (mock.py:44-50,
\* 197-209, 276, orchestrator.py:172-192, decision.py:128).
ForecastsFollowMeasurements ==
    /\ \A i \in DOMAIN turns :
        LET t == turns[i]
            known == {items[k].call : k \in 1..t.seen}
        IN  /\ "index" \in known
            /\ \E k \in 1..t.seen : items[k].call = "forecast" /\ items[k].by \cap Measurers # {}
            => "index" \in items[t.read].effects
    /\ \A k \in DOMAIN items : items[k].call = "forecast" => "rewrite" \notin items[k].effects

\* The single agent stands comparison: what it decides fares no worse under the
\* reference than what the rules recommend, and when the statement at the root
\* has a fixture it is an option the scoring counts as best, unless none is
\* eligible (mock.py:625-638, compare.py:66-77, 131-148, 155-164, 181-189).
\* The scenario's assumptions are taken to be the hidden ones.
SingleHasNoRegret ==
    status = "concluded" /\ team = <<"single">> /\ Recommendation # Undecided
        => /\ Outcome(Recommendation, Reference).over <= Outcome(RuleBased, Reference).over
           /\ Rooted /\ Eligible # {} => Recommendation \in ReferenceBest
=============================================================================
