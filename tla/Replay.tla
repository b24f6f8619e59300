------------------------------- MODULE Replay -------------------------------
(***************************************************************************)
(* The tool calls of a run and the replay of its record: ToolEnvironment   *)
(* and execute_tool (simulation/tools.py) as deterministic functions of    *)
(* the request, the measured effects and the sandbox engine, and           *)
(* evaluation/replay.py, which executes a saved record again.              *)
(*                                                                         *)
(* Review says which calls a run makes; here any sequence of calls is made *)
(* and what matters is what they compute.  A result is abstracted to what  *)
(* it depends on, and stands for its digest too.  The evidence ids inside  *)
(* effects are left out: the ids themselves are compared.                  *)
(***************************************************************************)
EXTENDS Integers, Sequences, FiniteSets

CONSTANTS
    Analyses,     \* requests whose result depends on the scenario alone
    Forecasts,    \* requests whose result also depends on measured effects
    Experiments,  \* requests that measure in the sandbox and register an effect
    Plans,        \* requests that only look into the sandbox (explain_query)
    Measurements, \* requests that measure in the lab, not deterministic
    Failing,      \* requests whose handler rejects its arguments
    Denied,       \* requests no asker may make, or of an unknown tool
    Malformed,    \* requests whose arguments_json is not a JSON object
    Emptied,      \* the request a malformed one becomes with no arguments
    SandboxTools, \* requests of SANDBOX_TOOLS, whatever comes of them
    LabTools,     \* requests of lab tools, whatever comes of them
    Opening,      \* failing requests whose handler opens the sandbox first
    Used,         \* experiments on candidates that an option uses
    Engines,      \* engine versions a sandbox may have
    SQLites,      \* those that are SQLite
    LocalSQLite,  \* the version of this machine
    Samples,      \* what a lab measurement may come out as
    MaxCalls, NoEngine, Forged

Kinds    == <<Analyses, Forecasts, Experiments, Plans, Measurements, Failing, Denied>>
Answered == UNION {Kinds[k] : k \in DOMAIN Kinds}
Requests == Answered \cup Malformed

ASSUME RequestsAssumption ==
    /\ \A k, l \in DOMAIN Kinds : k # l => Kinds[k] \cap Kinds[l] = {}
    /\ Malformed \cap Answered = {}
    /\ Emptied \in [Malformed -> Answered]
    /\ Forged \notin Requests
    /\ Used \subseteq Experiments /\ Opening \subseteq Failing
    /\ Experiments \cup Plans \subseteq SandboxTools
    /\ Measurements \subseteq LabTools
    /\ LabTools \cap (SandboxTools \cup Analyses \cup Forecasts) = {}
    /\ SandboxTools \cap (Analyses \cup Forecasts) = {}
ASSUME EnginesAssumption ==
    /\ SQLites \subseteq Engines /\ LocalSQLite \in SQLites
    /\ NoEngine \notin Engines /\ Forged \notin Samples
ASSUME CallsAssumption == MaxCalls \in Nat /\ Samples # {}

VARIABLES
    phase,      \* "run", "saved", "replay", then "done" or "raised"
    engine,     \* the engine of the run's sandbox, then of the replay's
    env,        \* the ToolEnvironment: the EV-TOOL items it added, the effects
                \* registered, and whether the sandbox was opened
    records,    \* run.tool_calls
    saved,      \* run.tool_evidence, run.decision and run.sandbox_engine
    next,       \* the record replay comes to next
    report,     \* the ReplayReport
    history     \* what was asked, and what was altered in the saved file

vars == <<phase, engine, env, records, saved, next, report, history>>

NoEnv == [items |-> {}, effects |-> {}, opened |-> FALSE]

Statuses == {"ok", "error", "denied", "skipped"}

\* What a result depends on.
Result(request, effects, on, sample) ==
    [request |-> request,
     effects |-> IF request \in Forecasts THEN effects ELSE {},
     on      |-> IF request \in Experiments \cup Plans THEN on ELSE NoEngine,
     sample  |-> IF request \in Measurements THEN sample ELSE Forged]

NoResult == [request |-> Forged, effects |-> {}, on |-> NoEngine, sample |-> Forged]

Runs(request) ==
    request \in Analyses \cup Forecasts \cup Experiments \cup Plans \cup Measurements

\* EvidenceBundle.next_id: one more than there are, or the next free number.
NextId(items) ==
    CHOOSE n \in (Cardinality(items) + 1)..(2 * Cardinality(items) + 1) :
        /\ n \notin items
        /\ \A m \in (Cardinality(items) + 1)..(n - 1) : m \in items

\* A result becomes the next EV-TOOL item, and an experiment registers what it
\* measured for the forecasts to come.
EnvAfter(e, request, on) ==
    [items   |-> IF Runs(request) THEN e.items \cup {NextId(e.items)} ELSE e.items,
     effects |-> IF request \in Experiments
                 THEN {f \in e.effects : f[1] # request} \cup {<<request, on>>}
                 ELSE e.effects,
     opened  |-> e.opened \/ request \in Experiments \cup Plans \cup Opening]

\* execute_tool: the record of one call in environment e.
Execute(e, request, on, sample) ==
    IF Runs(request)
    THEN [request |-> request, status |-> "ok", item |-> NextId(e.items),
          digest |-> Result(request, e.effects, on, sample)]
    ELSE [request |-> request, item |-> 0, digest |-> NoResult,
          status |-> IF request \in Denied THEN "denied" ELSE "error"]

\* Bad arguments are refused before the record gets any: it is saved with none.
RefuseMalformed(request) ==
    [request |-> Emptied[request], status |-> "error", item |-> 0,
     digest |-> NoResult]

\* The parts of a decision that calls decide: the options' outcomes, with the
\* effects they use, and the requests left open.
Decision(effects, rs) ==
    [effects |-> {f \in effects : f[1] \in Used},
     open    |-> {k \in DOMAIN rs : rs[k].status = "skipped"}]

\* run.tool_evidence: the result each item holds.
Stored(rs) ==
    [item \in {rs[k].item : k \in DOMAIN rs} \ {0} |->
        rs[CHOOSE k \in DOMAIN rs : rs[k].item = item].digest]
-----------------------------------------------------------------------------
Init ==
    /\ phase = "run"
    /\ engine \in Engines
    /\ env = NoEnv
    /\ records = <<>>
    /\ saved = [evidence |-> <<>>, decision |-> Decision({}, <<>>), engine |-> NoEngine]
    /\ next = 1
    /\ report = [mismatches |-> 0, skipped |-> {}, decisionMatch |-> FALSE]
    /\ history = [asked |-> {}, part |-> "none", call |-> 0]

\* The run executes a request.
Call(request) ==
    /\ phase = "run" /\ Len(records) < MaxCalls
    /\ \E sample \in Samples :
           records' = Append(records, IF request \in Malformed
                                      THEN RefuseMalformed(request)
                                      ELSE Execute(env, request, engine, sample))
    /\ env' = IF request \in Malformed THEN env ELSE EnvAfter(env, request, engine)
    /\ history' = [history EXCEPT !.asked = @ \cup {request}]
    /\ UNCHANGED <<phase, engine, saved, next, report>>

\* A limit keeps a request from running.
SkipCall(request) ==
    /\ phase = "run" /\ Len(records) < MaxCalls
    /\ records' = Append(records, [request |-> request, status |-> "skipped",
                                   item |-> 0, digest |-> NoResult])
    /\ UNCHANGED <<phase, engine, env, saved, next, report, history>>

\* _finish and save: the decision is computed with the effects measured.
Return ==
    /\ phase = "run"
    /\ phase' = "saved"
    /\ saved' = [evidence |-> Stored(records),
                 decision |-> Decision(env.effects, records),
                 engine   |-> IF env.opened THEN engine ELSE NoEngine]
    /\ UNCHANGED <<engine, env, records, next, report, history>>

\* One thing in the file is altered.
Altered(part, k) ==
    /\ phase = "saved" /\ history.part = "none"
    /\ history' = [history EXCEPT !.part = part, !.call = k]
    /\ UNCHANGED <<phase, engine, env, next, report>>

\* A digest in tool_calls, to one that no result has.
AlterDigest(k) ==
    /\ Altered("digest", k)
    /\ records[k].status = "ok"
    /\ records' = [records EXCEPT ![k].digest = NoResult]
    /\ UNCHANGED saved

\* What came of a call.
AlterStatus(k) ==
    /\ Altered("status", k)
    /\ \E status \in Statuses \ {records[k].status} :
           records' = [records EXCEPT ![k].status = status]
    /\ UNCHANGED saved

\* The evidence a call is said to have made.
AlterItem(k) ==
    /\ Altered("item", k)
    /\ records[k].status = "ok"
    /\ \E item \in ({0} \cup DOMAIN saved.evidence) \ {records[k].item} :
           records' = [records EXCEPT ![k].item = item]
    /\ UNCHANGED saved

\* The result itself, in tool_evidence.
AlterData(k) ==
    /\ Altered("data", k)
    /\ records[k].status = "ok"
    /\ saved' = [saved EXCEPT !.evidence[records[k].item] = NoResult]
    /\ UNCHANGED records

\* The effects the decision's outcomes are computed with.
AlterDecision ==
    /\ Altered("decision", 0)
    /\ \E effects \in (SUBSET (Used \X Engines)) \ {saved.decision.effects} :
           saved' = [saved EXCEPT !.decision.effects = effects]
    /\ UNCHANGED records

\* The engine replay gets: the one asked for, else a local SQLite unless the
\* run used another kind of engine.
FactoryFor(asked) ==
    IF asked # NoEngine THEN asked
    ELSE IF saved.engine \in SQLites \cup {NoEngine} THEN LocalSQLite ELSE NoEngine

StartReplay ==
    /\ phase = "saved"
    /\ \E asked \in Engines \cup {NoEngine} : engine' = FactoryFor(asked)
    /\ phase' = "replay"
    /\ env' = NoEnv
    /\ UNCHANGED <<records, saved, next, report, history>>

Reused(record) ==
    \/ record.request \in LabTools
    \/ record.request \in SandboxTools /\ engine = NoEngine

InReplay == phase = "replay" /\ next \in DOMAIN records

PassSkipped ==
    /\ InReplay
    /\ records[next].status = "skipped"
    /\ next' = next + 1
    /\ UNCHANGED <<phase, engine, env, records, saved, report, history>>

\* Mutant: the reused item does not enter the bundle.
ReuseWithoutItem ==
    /\ InReplay
    /\ records[next].status # "skipped" /\ Reused(records[next])
    /\ report' = [report EXCEPT !.skipped = @ \cup {next}]
    /\ next' = next + 1
    /\ UNCHANGED <<phase, engine, env, records, saved, history>>

\* The recorded item keeps later ids aligned; its effect is not registered.
\* EvidenceBundle.add raises when the id is taken.
ReuseRecorded ==
    /\ InReplay
    /\ records[next].status # "skipped" /\ Reused(records[next])
    /\ report' = [report EXCEPT !.skipped = @ \cup {next}]
    /\ IF records[next].item \in env.items
       THEN phase' = "raised" /\ UNCHANGED <<env, next>>
       ELSE /\ env' = [env EXCEPT !.items = @ \cup ({records[next].item} \cap DOMAIN saved.evidence)]
            /\ next' = next + 1
            /\ UNCHANGED phase
    /\ UNCHANGED <<engine, records, saved, history>>

\* Mutant: results are not compared.
SameStatusAndItem(new, record) == new.status = record.status /\ new.item = record.item

Same(new, record) ==
    /\ new.status = record.status
    /\ new.digest = record.digest
    /\ new.item = record.item

ReExecute ==
    /\ InReplay
    /\ records[next].status # "skipped" /\ ~Reused(records[next])
    /\ LET new == Execute(env, records[next].request, engine, Forged)
       IN  IF Same(new, records[next])
           THEN UNCHANGED report
           ELSE report' = [report EXCEPT !.mismatches = @ + 1]
    /\ env' = EnvAfter(env, records[next].request, engine)
    /\ next' = next + 1
    /\ UNCHANGED <<phase, engine, records, saved, history>>

\* The decision is rebuilt with the effects of the replay and compared.
Rebuild ==
    /\ phase = "replay" /\ next > Len(records)
    /\ phase' = "done"
    /\ report' = [report EXCEPT !.decisionMatch = Decision(env.effects, records) = saved.decision]
    /\ UNCHANGED <<engine, env, records, saved, next, history>>

Next ==
    \/ \E request \in Requests : Call(request) \/ SkipCall(request)
    \/ Return
    \/ \E k \in DOMAIN records :
           AlterDigest(k) \/ AlterStatus(k) \/ AlterItem(k) \/ AlterData(k)
    \/ AlterDecision
    \/ StartReplay
    \/ PassSkipped \/ ReuseRecorded \/ ReExecute \/ Rebuild

Spec == Init /\ [][Next]_vars
-----------------------------------------------------------------------------
Verified == report.mismatches = 0 /\ report.decisionMatch

\* Replay has what it needs: the engine the run measured with, if it did.
SameEngine == saved.engine \in {NoEngine, engine}

\* The record of a run that asked for nothing malformed verifies: results,
\* evidence ids and the decision come out the same, also after calls that are
\* not executed again.  It does so with another result on file too: of a call
\* executed again it is the digest that is compared, and nothing is computed from
\* the result of one that is taken over (replay.py:74-102).
RunReplays ==
    /\ phase \in {"done", "raised"} /\ history.part \in {"none", "data"}
    /\ history.asked \cap Malformed = {}
    /\ SameEngine
    => phase = "done" /\ Verified

\* What a verified record vouches for (replay.py:82-102).  No digest was made up,
\* and no status or evidence id changed, unless on a call whose record was taken
\* over unchecked; no other effects were written into the decision, unless an
\* experiment was taken over; and a decision that rests on experiments was
\* rebuilt with an engine.  A malformed call is excepted: it is recorded as
\* what it was not.
AlterationFound ==
    phase = "done" /\ Verified =>
        /\ \/ history.part = "digest"
           \/ history.part \in {"status", "item"} /\ history.asked \cap Malformed = {}
           => history.call \in report.skipped
        /\ history.part = "decision" =>
               \E k \in report.skipped : records[k].request \in Experiments
        /\ saved.decision.effects # {} => engine # NoEngine
=============================================================================
