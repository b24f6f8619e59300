------------------------------- MODULE Review -------------------------------
(***************************************************************************)
(* One review run: Orchestrator.run of simulation/orchestrator.py with the *)
(* provider calls (providers/anthropic_provider.py), tool execution        *)
(* (tools.py) and the decision record (decision.py) it makes on the way.   *)
(*                                                                         *)
(* A run is one thread.  A step of the model is the code between two calls *)
(* that leave the program (the model API, a tool handler) or between two   *)
(* loop iterations.  What the API, the tools and the agents answer is a    *)
(* nondeterministic choice.  Wording, evidence contents, turn validation   *)
(* findings and timestamps are abstracted.                                 *)
(***************************************************************************)
EXTENDS Integers, Sequences, FiniteSets

CONSTANTS
    Roles,           \* the role ids that can be named in a turn
    RoleOrder,       \* the roles of this run, in speaking order (ROLE_ORDER)
    Positions,       \* option ids a turn may support, and Undecided
    Undecided,
    Requests,        \* tool requests, one per (tool, parsed arguments)
    BadArguments,    \* the requests whose arguments_json is not a JSON object
    UnknownTools,    \* the requests that name no tool of TOOLS
    RoleSensitive,   \* the requests of a tool whose result depends on the asker
    MayUse,          \* the roles whose tool list holds the request's tool
    Drafts,          \* the turns an agent may give
    RoundLimits,     \* the values config.max_rounds takes
    MaxToolCalls, MaxToolCallsPerTurn, StopWhenStable,   \* RunConfig
    MaxUsd,          \* config.max_usd
    Estimates,       \* what estimate_max_cost_usd may return
    MaxEstimate,     \* a bound of Estimates
    Excess,          \* what an attempt may cost above its estimate: the discount
                     \* of a cached prefix the API does not honour, and text
                     \* that takes more tokens than its length suggests
    Notice           \* what the notice in a second attempt's prompt costs

DraftType == [position : Positions, challenges : SUBSET Roles,
              requests : Seq(Requests)]

ASSUME RolesAssumption ==
    /\ RoleOrder \in Seq(Roles)
    /\ RoleOrder # <<>>
    /\ \A i, j \in 1..Len(RoleOrder) : RoleOrder[i] = RoleOrder[j] => i = j
ASSUME RequestsAssumption ==
    /\ BadArguments \subseteq Requests
    /\ UnknownTools \subseteq Requests
    /\ RoleSensitive \subseteq Requests \ UnknownTools
    /\ MayUse \in [Requests -> SUBSET Roles]
ASSUME DraftsAssumption == Drafts \subseteq DraftType
ASSUME LimitsAssumption ==
    /\ RoundLimits \subseteq Nat
    /\ MaxToolCalls \in Nat
    /\ MaxToolCallsPerTurn \in Nat
    /\ StopWhenStable \in BOOLEAN
ASSUME SpendAssumption ==
    /\ MaxUsd \in Nat
    /\ MaxEstimate \in Nat
    /\ Estimates \subseteq 0..MaxEstimate
    /\ Excess \in Nat
    /\ Notice \in Nat

VARIABLES
    status,      \* run.state.status
    pc,          \* where run() is
    maxRounds,   \* config.max_rounds
    rnd,         \* the loop variable of the rounds
    who,         \* index in RoleOrder of the role to speak
    prior,       \* length of the snapshot of run.turns taken as the round began
    turns,       \* run.turns
    call,        \* the provider call under way
    collected,   \* turns of this round whose requests were read
    requests,    \* requests of this round kept for execution
    served,      \* indexes of requests already in a group that was handled
    toolCalls,   \* run.tool_calls
    evidence,    \* run.tool_evidence: index of the tool call behind each item
    executed,    \* tool calls that count against max_tool_calls
    spend,       \* run.spend_usd
    roundsCompleted,
    decision,    \* run.decision
    told         \* history: what the answers for this run stated as their cost

lifeVars    == <<status, pc, maxRounds, rnd, roundsCompleted, decision>>
turnVars    == <<who, prior, turns, call>>
requestVars == <<collected, requests, served>>
toolVars    == <<toolCalls, evidence, executed>>
spendVars   == <<spend, told>>
vars == <<lifeVars, turnVars, requestVars, toolVars, spendVars>>

NoDecision == [none |-> TRUE]
NoCall     == [estimate |-> 0, attempt |-> 0, charged |-> 0, seen |-> 0]
-----------------------------------------------------------------------------
(***************************************************************************)
(* The decision record (decision.synthesize).                              *)
(***************************************************************************)
Spoken(ts) == {ts[i].role : i \in DOMAIN ts}

LastTurn(ts, r) ==
    ts[CHOOSE i \in DOMAIN ts :
        /\ ts[i].role = r
        /\ \A j \in DOMAIN ts : ts[j].role = r => j <= i]

\* final_position.get(r): a role that never spoke has none.
FinalPosition(ts, r) ==
    IF r \in Spoken(ts) THEN LastTurn(ts, r).position ELSE "none"

FinalRound(ts) == IF ts = <<>> THEN 0 ELSE ts[Len(ts)].round

\* Mutant: only the very last round's challenges are looked at.
InWindowLastRoundOnly(ts, i) == ts[i].round >= FinalRound(ts)

InWindow(ts, i) == ts[i].round >= FinalRound(ts) - 1

LatestChallenges(ts) ==
    {p \in Roles \X Roles :
        \E i \in DOMAIN ts : /\ InWindow(ts, i)
                             /\ ts[i].role = p[1]
                             /\ p[2] \in ts[i].challenges}

OpenChallenges(ts) ==
    {p \in LatestChallenges(ts) :
        FinalPosition(ts, p[2]) # FinalPosition(ts, p[1])}

\* The roles of the "positions" disagreement: those decided, if they differ.
Split(ts) ==
    LET decided == {r \in Spoken(ts) : FinalPosition(ts, r) # Undecided}
    IN  IF Cardinality({FinalPosition(ts, r) : r \in decided}) > 1
        THEN decided ELSE {}

SkippedStatuses == {"skipped_budget", "skipped_final_round"}

Synthesize(ts, calls) ==
    [final        |-> [r \in Spoken(ts) |-> FinalPosition(ts, r)],
     split        |-> Split(ts),
     open         |-> OpenChallenges(ts),
     openRequests |-> {k \in DOMAIN calls : calls[k].status \in SkippedStatuses}]

\* return self._finish(...): a terminal status and the record it is built from,
\* unless building it raises (an option that does not resolve, a sandbox that
\* no longer answers), which leaves run() without a run.
Finish(to, calls) ==
    /\ status' = to
    /\ \/ pc' = "returned" /\ decision' = Synthesize(turns, calls)
       \/ pc' = "raised" /\ UNCHANGED decision
-----------------------------------------------------------------------------
(***************************************************************************)
(* The run.                                                                *)
(***************************************************************************)
Init ==
    /\ status = "created"
    /\ pc = "validate"
    /\ maxRounds \in RoundLimits
    /\ rnd = 0 /\ who = 1 /\ prior = 0 /\ collected = 0
    /\ turns = <<>> /\ requests = <<>> /\ toolCalls = <<>> /\ evidence = <<>>
    /\ call = NoCall
    /\ served = {}
    /\ executed = 0 /\ spend = 0 /\ told = 0 /\ roundsCompleted = 0
    /\ decision = NoDecision

\* validate_scenario finds an error, or only warnings.
Validate ==
    /\ pc = "validate"
    /\ \/ status' = "invalid" /\ pc' = "returned"
       \/ status' = "validated" /\ pc' = "round"
    /\ UNCHANGED <<maxRounds, rnd, roundsCompleted, decision>>
    /\ UNCHANGED <<turnVars, requestVars, toolVars, spendVars>>

\* Mutant: the status is only set when the first round begins.
BeginRoundQuietly ==
    /\ pc = "round"
    /\ rnd < maxRounds
    /\ rnd' = rnd + 1
    /\ status' = IF rnd = 0 THEN "deliberating" ELSE status
    /\ prior' = Len(turns)
    /\ who' = 1
    /\ pc' = "guard"
    /\ UNCHANGED <<maxRounds, roundsCompleted, decision, turns, call>>
    /\ UNCHANGED <<requestVars, toolVars, spendVars>>

BeginRound ==
    /\ pc = "round"
    /\ rnd < maxRounds
    /\ rnd' = rnd + 1
    /\ status' = "deliberating"
    /\ prior' = Len(turns)
    /\ who' = 1
    /\ pc' = "guard"
    /\ UNCHANGED <<maxRounds, roundsCompleted, decision, turns, call>>
    /\ UNCHANGED <<requestVars, toolVars, spendVars>>

\* Mutant: the loop bound is missed when no round was asked for.
LoopExhaustedLate ==
    /\ pc = "round"
    /\ rnd > maxRounds
    /\ Finish(status, toolCalls)
    /\ UNCHANGED <<maxRounds, rnd, roundsCompleted>>
    /\ UNCHANGED <<turnVars, requestVars, toolVars, spendVars>>

\* range(1, max_rounds + 1) is used up without a break: only when it was empty.
LoopExhausted ==
    /\ pc = "round"
    /\ rnd >= maxRounds
    /\ Finish(status, toolCalls)
    /\ UNCHANGED <<maxRounds, rnd, roundsCompleted>>
    /\ UNCHANGED <<turnVars, requestVars, toolVars, spendVars>>

\* Mutant: the guard forgets what earlier turns cost.
OverLimitForgetful(estimate) == estimate > MaxUsd

OverLimit(estimate) == spend + estimate > MaxUsd

StopOnBudget ==
    /\ pc = "guard"
    /\ \E estimate \in Estimates : OverLimit(estimate)
    /\ Finish("budget_exhausted", toolCalls)
    /\ UNCHANGED <<maxRounds, rnd, roundsCompleted>>
    /\ UNCHANGED <<turnVars, requestVars, toolVars, spendVars>>

\* The context is built and the first request of generate_turn leaves.
StartTurn ==
    /\ pc = "guard"
    /\ \E estimate \in Estimates :
        /\ ~OverLimit(estimate)
        /\ call' = [estimate |-> estimate, attempt |-> 1, charged |-> 0,
                    seen |-> Len(evidence)]
    /\ pc' = "calling"
    /\ UNCHANGED <<status, maxRounds, rnd, roundsCompleted, decision>>
    /\ UNCHANGED <<who, prior, turns, requestVars, toolVars, spendVars>>

\* What one attempt may state as its cost: nothing when its answer comes without
\* usage, or no answer comes; it may have been billed all the same.
AttemptCosts ==
    0..(call.estimate + Excess + IF call.attempt = 2 THEN Notice ELSE 0)

Tell(cost) == told' = told + cost

\* The first answer was cut off at max_tokens: a shorter one is asked for.
RetryTruncated ==
    /\ pc = "calling"
    /\ call.attempt = 1
    /\ \E cost \in AttemptCosts :
        /\ call' = [estimate |-> call.estimate, attempt |-> 2,
                    charged |-> call.charged + cost, seen |-> call.seen]
        /\ Tell(cost)
    /\ UNCHANGED <<lifeVars, who, prior, turns, requestVars, toolVars, spend>>

\* Mutant: a turn of a round sees the statements made earlier in that round.
TurnWithRoundSoFar(draft) ==
    [round |-> rnd, role |-> RoleOrder[who], position |-> draft.position,
     challenges |-> draft.challenges, requests |-> draft.requests,
     prior |-> Len(turns), seen |-> call.seen]

Turn(draft) ==
    [round |-> rnd, role |-> RoleOrder[who], position |-> draft.position,
     challenges |-> draft.challenges, requests |-> draft.requests,
     prior |-> prior, seen |-> call.seen]

\* A usable answer: the turn is recorded with what all its attempts stated.
AcceptTurn ==
    /\ pc = "calling"
    /\ \E draft \in Drafts : turns' = Append(turns, Turn(draft))
    /\ \E cost \in AttemptCosts : spend' = spend + call.charged + cost /\ Tell(cost)
    /\ call' = NoCall
    /\ who' = who + 1
    /\ IF who = Len(RoleOrder)
       THEN pc' = "collect" /\ roundsCompleted' = rnd
       ELSE pc' = "guard" /\ UNCHANGED roundsCompleted
    /\ UNCHANGED <<status, maxRounds, rnd, decision, prior>>
    /\ UNCHANGED <<requestVars, toolVars>>

\* Mutant: only the last attempt is charged to a turn that failed.
ChargeLastAttempt(amount) == spend' = spend + amount

\* except ProviderError: what was charged comes with the exception.
ChargeFailure(amount) == spend' = spend + call.charged + amount

\* Refused, cut off twice, empty or not in the turn format; or the request
\* itself failed, which tells of no cost.
FailTurn ==
    /\ pc = "calling"
    /\ \E cost \in AttemptCosts : ChargeFailure(cost) /\ Tell(cost)
    /\ call' = NoCall
    /\ Finish("failed", toolCalls)
    /\ UNCHANGED <<maxRounds, rnd, roundsCompleted, who, prior, turns>>
    /\ UNCHANGED <<requestVars, toolVars>>

\* An exception the provider does not turn into a ProviderError (an answer
\* without choices, say) leaves run(): no run is returned.
RaiseInCall ==
    /\ pc = "calling"
    /\ \E cost \in AttemptCosts : Tell(cost)
    /\ pc' = "raised"
    /\ UNCHANGED <<status, maxRounds, rnd, roundsCompleted, decision>>
    /\ UNCHANGED <<turnVars, requestVars, toolVars, spend>>
-----------------------------------------------------------------------------
(***************************************************************************)
(* After every role has spoken: requests, the end of the debate, tools.    *)
(***************************************************************************)
Record(by, request, outcome, item) ==
    [round |-> rnd, by |-> by, request |-> request, status |-> outcome,
     item |-> item]

RoundTurns == (prior + 1)..Len(turns)

Least(S) == CHOOSE x \in S : \A y \in S : x <= y

\* One turn's requests: those past the per-turn limit are recorded as skipped.
CollectRequests ==
    /\ pc = "collect"
    /\ collected < Len(RoleOrder)
    /\ LET turn == turns[prior + collected + 1]
           kept == Least({MaxToolCallsPerTurn, Len(turn.requests)})
       IN  /\ requests' = requests \o
                  [i \in 1..kept |-> [role |-> turn.role,
                                      request |-> turn.requests[i]]]
           /\ toolCalls' = toolCalls \o
                  [i \in 1..(Len(turn.requests) - kept) |->
                      Record({turn.role}, turn.requests[kept + i],
                             "skipped_budget", 0)]
    /\ collected' = collected + 1
    /\ UNCHANGED <<lifeVars, turnVars, served, evidence, executed, spendVars>>

Changed ==
    \E i \in RoundTurns :
        FinalPosition(SubSeq(turns, 1, prior), turns[i].role) # turns[i].position

\* A challenge of this round whose target, this round, holds another position.
Unanswered ==
    \E i, j \in RoundTurns : /\ turns[j].role \in turns[i].challenges
                             /\ turns[j].position # turns[i].position

\* Mutant: an unanswered challenge does not keep the debate open.
StableWhateverChallenged == StopWhenStable /\ rnd >= 2 /\ requests = <<>> /\ ~Changed

Stable ==
    /\ StopWhenStable
    /\ rnd >= 2
    /\ requests = <<>>
    /\ ~Changed
    /\ ~Unanswered

\* Mutant: the decision is built before the last skips are recorded.
ConcludeBeforeSkips ==
    /\ pc = "collect"
    /\ collected = Len(RoleOrder)
    /\ rnd = maxRounds \/ Stable
    /\ toolCalls' = toolCalls \o
           [i \in 1..Len(requests) |->
               Record({requests[i].role}, requests[i].request, "skipped_final_round", 0)]
    /\ Finish("concluded", toolCalls)
    /\ UNCHANGED <<maxRounds, rnd, roundsCompleted, turnVars, requestVars>>
    /\ UNCHANGED <<evidence, executed, spendVars>>

Conclude ==
    /\ pc = "collect"
    /\ collected = Len(RoleOrder)
    /\ rnd = maxRounds \/ Stable
    /\ toolCalls' = toolCalls \o
           [i \in 1..Len(requests) |->
               Record({requests[i].role}, requests[i].request, "skipped_final_round", 0)]
    /\ Finish("concluded", toolCalls')
    /\ UNCHANGED <<maxRounds, rnd, roundsCompleted, turnVars, requestVars>>
    /\ UNCHANGED <<evidence, executed, spendVars>>

BeginTools ==
    /\ pc = "collect"
    /\ collected = Len(RoleOrder)
    /\ rnd # maxRounds /\ ~Stable
    /\ status' = "executing_tools"
    /\ pc' = "tools"
    /\ UNCHANGED <<maxRounds, rnd, roundsCompleted, decision>>
    /\ UNCHANGED <<turnVars, requestVars, toolVars, spendVars>>

\* Mutant: the key leaves the request's arguments out.
DedupeKeyWithoutArguments(ask) ==
    IF ask.request \in RoleSensitive THEN {ask.role} ELSE {}

\* Equal keys share one execution; a role-sensitive tool runs once per asker.
DedupeKey(ask) ==
    <<ask.request, IF ask.request \in RoleSensitive THEN {ask.role} ELSE {}>>

Waiting == DOMAIN requests \ served

\* The groups are handled in the order of their first request.
Group ==
    LET lead == requests[Least(Waiting)]
    IN  {i \in Waiting : DedupeKey(requests[i]) = DedupeKey(lead)}

GroupRoles   == {requests[i].role : i \in Group}
GroupRequest == requests[Least(Waiting)].request

\* A handler is reached: arguments parse, the tool exists, one asker may use it.
Runs(request, by) ==
    /\ request \notin BadArguments \cup UnknownTools
    /\ by \cap MayUse[request] # {}

Refusal(request) == IF request \in BadArguments THEN "error" ELSE "denied"

AtCeiling == executed >= MaxToolCalls

WithoutResult ==
    CASE AtCeiling                                   -> "skipped_budget"
      [] ~AtCeiling /\ Runs(GroupRequest, GroupRoles) -> "error"
      [] OTHER                                         -> Refusal(GroupRequest)

\* No evidence comes of the group: the ceiling is reached, the request is refused, or its
\* handler fails with an exception that execute_tool turns into a record.
NoResult ==
    /\ pc = "tools"
    /\ Waiting # {}
    /\ toolCalls' = Append(toolCalls,
                           Record(GroupRoles, GroupRequest, WithoutResult, 0))
    /\ served' = served \cup Group
    /\ UNCHANGED <<lifeVars, turnVars, collected, requests, evidence, executed>>
    /\ UNCHANGED spendVars

\* The result becomes a new evidence item of the bundle.
ExecuteTool ==
    /\ pc = "tools"
    /\ Waiting # {}
    /\ ~AtCeiling
    /\ Runs(GroupRequest, GroupRoles)
    /\ toolCalls' = Append(toolCalls, Record(GroupRoles, GroupRequest, "ok",
                                             Len(evidence) + 1))
    /\ evidence' = Append(evidence, Len(toolCalls) + 1)
    /\ executed' = executed + 1
    /\ served' = served \cup Group
    /\ UNCHANGED <<lifeVars, turnVars, collected, requests, spendVars>>

\* A handler raises what execute_tool does not catch: run() ends with it.
RaiseInTool ==
    /\ pc = "tools"
    /\ Waiting # {}
    /\ ~AtCeiling
    /\ Runs(GroupRequest, GroupRoles)
    /\ pc' = "raised"
    /\ UNCHANGED <<status, maxRounds, rnd, roundsCompleted, decision>>
    /\ UNCHANGED <<turnVars, requestVars, toolVars, spendVars>>

EndTools ==
    /\ pc = "tools"
    /\ Waiting = {}
    /\ pc' = "round"
    /\ collected' = 0 /\ requests' = <<>> /\ served' = {}
    /\ UNCHANGED <<status, maxRounds, rnd, roundsCompleted, decision>>
    /\ UNCHANGED <<turnVars, toolVars, spendVars>>

Next ==
    \/ Validate      \/ BeginRound      \/ LoopExhausted
    \/ StopOnBudget  \/ StartTurn       \/ RetryTruncated
    \/ AcceptTurn    \/ FailTurn        \/ RaiseInCall
    \/ CollectRequests \/ Conclude      \/ BeginTools
    \/ NoResult      \/ ExecuteTool     \/ RaiseInTool   \/ EndTools

\* One thread whose model calls return (the SDKs time out) and whose tool
\* handlers end: while run() has a next step it takes it.
Spec == Init /\ [][Next]_vars /\ WF_vars(Next)
-----------------------------------------------------------------------------
(***************************************************************************)
(* Types.                                                                  *)
(***************************************************************************)
TurnType == [round : Nat, role : Roles, position : Positions,
             challenges : SUBSET Roles, requests : Seq(Requests),
             prior : Nat, seen : Nat]
AskType  == [role : Roles, request : Requests]
CallOutcomes == {"ok", "error", "denied"} \cup SkippedStatuses
ToolCallType == [round : Nat, by : SUBSET Roles, request : Requests,
                 status : CallOutcomes, item : Nat]
ProviderCallType == [estimate : Nat, attempt : 0..2, charged : Nat, seen : Nat]

\* The variables have the shapes the code gives them, and the loop counters
\* stay within the lists they index (orchestrator.py:70-198).
TypeOK ==
    /\ status \in {"created", "validated", "invalid", "deliberating",
                   "executing_tools", "concluded", "budget_exhausted", "failed"}
    /\ pc \in {"validate", "round", "guard", "calling", "collect", "tools",
               "returned", "raised"}
    /\ maxRounds \in Nat /\ rnd \in 0..maxRounds
    /\ who \in 1..(Len(RoleOrder) + 1)
    /\ collected \in 0..Len(RoleOrder)
    /\ turns \in Seq(TurnType)
    /\ prior \in 0..Len(turns)
    /\ call \in ProviderCallType
    /\ requests \in Seq(AskType)
    /\ served \subseteq DOMAIN requests
    /\ toolCalls \in Seq(ToolCallType)
    /\ evidence \in Seq(Nat)
    /\ executed \in Nat /\ spend \in Nat /\ told \in Nat
    /\ roundsCompleted \in Nat
-----------------------------------------------------------------------------
(***************************************************************************)
(* Properties.                                                             *)
(***************************************************************************)
Lifecycle == INSTANCE RunLifecycle WITH status <- status

\* Every status change of the orchestrator is one that state.py allows, so
\* RunState.transition never raises InvalidTransition (state.py:53-58).
ImplementsLifecycle == Lifecycle!Spec

\* run() returns, or an exception leaves it: neither the retry of a truncated
\* turn nor the rounds nor the tool groups go on for ever
\* (orchestrator.py:93-198, anthropic_provider.py:133-173).
Termination == <>(pc \in {"returned", "raised"})

\* A returned run has a terminal status, and a decision record unless its
\* scenario was invalid; only a run asked for no round at all returns without
\* one (orchestrator.py:84-88, 169-197).
ReturnsSettled ==
    pc = "returned" =>
        /\ decision = NoDecision <=> status = "invalid"
        /\ status \in Lifecycle!TerminalStatuses \/ maxRounds = 0

\* How far the per-run limit holds: the guard prices one answer, but a turn may
\* take two, the second with a notice in its prompt, and each may exceed its
\* estimate, so a run ends at most one estimate, two excesses and a notice above
\* max_usd (orchestrator.py:115-122).
SpendBound == spend <= MaxUsd + MaxEstimate + 2 * Excess + Notice

\* No charge an answer states is lost on any path that returns: what the answers
\* stated is what the run record says plus what the call under way carries, and
\* a failed turn is charged like a recorded one (base.py:31-38,
\* orchestrator.py:126-146).  What is billed may be more: an answer without usage
\* states nothing (openai_compatible.py:107), nor does a request that timed out.
ChargesKept == pc # "raised" => told = spend + call.charged

\* All agents of a round speak on the same footing: they answer the turns of
\* earlier rounds only, and the tool results of earlier rounds only
\* (orchestrator.py:95, 109, 176-195).
SameFooting ==
    \A i \in DOMAIN turns :
        /\ turns[i].prior = Cardinality({j \in DOMAIN turns :
                                            turns[j].round < turns[i].round})
        /\ turns[i].seen = Cardinality({k \in DOMAIN toolCalls :
                                          /\ toolCalls[k].status = "ok"
                                          /\ toolCalls[k].round < turns[i].round})

\* No objection gets lost in the decision record: what a role said last, even
\* in the round before one that was cut short by the spend limit or a provider
\* error, is listed while its target ends on another position; and nothing that
\* ended in agreement is listed (decision.py:103-117).
LastWordKept ==
    decision # NoDecision =>
        /\ \A r \in Spoken(turns), t \in Roles :
              /\ t \in LastTurn(turns, r).challenges
              /\ FinalPosition(turns, t) # FinalPosition(turns, r)
              => <<r, t>> \in decision.open
        /\ \A p \in decision.open : p[2] \notin Spoken(turns)
                                    \/ decision.final[p[1]] # decision.final[p[2]]

\* A debate that stops early has settled: every role stands where it stood a
\* round ago, so an objection the record still lists was raised in the round
\* before and not repeated (orchestrator.py:160-168).
EarlyStopSettled ==
    pc = "returned" /\ status = "concluded" /\ rnd < maxRounds =>
        /\ \A i \in DOMAIN turns : turns[i].round >= rnd - 1 =>
               turns[i].position = decision.final[turns[i].role]
        /\ \A p \in decision.open :
               p[2] \in Spoken(turns) => p[2] \notin LastTurn(turns, p[1]).challenges

Accounted(i) ==
    \A k \in DOMAIN turns[i].requests :
        \E c \in DOMAIN toolCalls : /\ toolCalls[c].round = turns[i].round
                                    /\ toolCalls[c].request = turns[i].requests[k]
                                    /\ turns[i].role \in toolCalls[c].by

Ran(c) == /\ toolCalls[c].status \in {"ok", "error"}
          /\ toolCalls[c].request \notin BadArguments

\* A tool runs at most once per round for the same request, and its result is
\* shared by the askers unless it depends on who asks.
SharedOnce ==
    \A c, d \in DOMAIN toolCalls :
        Ran(c) /\ Ran(d) =>
            /\ toolCalls[c].request \in RoleSensitive => Cardinality(toolCalls[c].by) = 1
            /\ /\ c # d
               /\ toolCalls[c].round = toolCalls[d].round
               /\ toolCalls[c].request = toolCalls[d].request
               => /\ toolCalls[c].request \in RoleSensitive
                  /\ toolCalls[c].by # toolCalls[d].by

\* Every request made in a completed round ends as a tool call of that round
\* in the name of its asker, executed, refused or skipped, and none is executed
\* twice: grouping, the two limits and the last round drop none
\* (orchestrator.py:151-158, 169-195, tools.py:430-437).
RequestsAccounted ==
    /\ pc \in {"round", "returned"} =>
           \A i \in DOMAIN turns : turns[i].round <= roundsCompleted => Accounted(i)
    /\ SharedOnce

\* A saved run is settled and consistent with itself, which replay relies on: each
\* successful call has exactly one item, which names it back, no other call has
\* one, the ceiling on checks counts exactly these, and the decision follows
\* from what is saved with it, nothing being appended after it was made
\* (orchestrator.py:169-195, tools.py:464-490, replay.py:97-99).
RecordConsistent ==
    /\ ReturnsSettled
    /\ decision # NoDecision => decision = Synthesize(turns, toolCalls)
    /\ executed = Len(evidence) /\ executed <= MaxToolCalls
    /\ \A k \in DOMAIN evidence : /\ evidence[k] \in DOMAIN toolCalls
                                  /\ toolCalls[evidence[k]].item = k
    /\ \A c \in DOMAIN toolCalls :
           IF toolCalls[c].status = "ok"
           THEN toolCalls[c].item \in DOMAIN evidence /\ evidence[toolCalls[c].item] = c
           ELSE toolCalls[c].item = 0
=============================================================================
