# A TLA+ model of capacitylab

capacitylab lets a set of agents review how much capacity a database cluster
needs. It collects evidence, runs a structured debate of model-driven or scripted
roles that may ask for deterministic checks, and keeps a record of the decision
that can be replayed. This directory models the parts of it that have state,
control flow and concurrency worth checking, model-checks them with TLC, and
proves the most important results with TLAPS.

Paths below are relative to `src/src/capacitylab/` unless they start with `src/`.

## 1. Inventory

| Part | State | Operations | Hard behaviour | What makes it correct |
|---|---|---|---|---|
| Review orchestrator `simulation/orchestrator.py` | status, round, turns, tool calls, evidence, spend | `run`: rounds of turns, requests, tool groups, stops | nested loops with six exits, retries, limits that bite in the middle of a round | every exit settles the run; spend bounded; no request, charge or objection lost; agents on the same footing |
| Run lifecycle `scenarios/state.py` | status | `transition` | a forbidden move raises in the middle of a run | only moves of the table |
| Decision record `simulation/decision.py` | none (function of turns and tool calls) | `synthesize` | rounds cut short | last words kept, rebuildable |
| Model providers `simulation/providers/` | none | `generate_turn`, one or two billed attempts | truncated answers, errors after a charge, answers without usage, exceptions | every cost an answer states reaches the run |
| Scripted provider `simulation/providers/mock.py` | none (function of what a role sees) | six policies | answers that depend on results of several rounds, on challenges and on what failed | turns pass validation; positions follow measurements |
| Tool execution `simulation/tools.py` | registered experiment effects, evidence | `execute_tool`, `dedupe_key` | sharing of results, refusals, failures | see orchestrator and replay |
| Spend ledger `spend.py` | JSON file, lock per process | `remaining_usd`, `record` | several processes, crash while writing | entries survive, total bounded, nobody waits for ever |
| Web jobs and settings `web/app.py`, `settings_store.py`, `factory.py` | job threads, settings file and variable, result files | start, work and end of jobs; save, preset, reset | settings change between page, form check and job; a crash or a failed write while saving; files named by the second | limits not forgotten unnoticed, the model shown is the one used, links lead to the job's own result |
| Command line `cli.py` | none | `cmd_run`, `cmd_evaluate`, `cmd_replay`, `cmd_history_collect` | runs beside the web app on the same files | as the parts it calls |
| Replay `evaluation/replay.py` | none | `replay` | calls that cannot be repeated, other engines | honest records verify, what is compared cannot be altered |
| Evaluation `evaluation/compare.py` | none | `compare` | the reference measures what a run may not have measured | a recommendation is judged fairly |
| Sample history `history/store.py`, `history/collect.py` | SQLite tables | `collect_*`, `samples`, `gaps`, `coverage` | overlapping collectors, crashes, a topology and a period that change | rows accounted for, nothing stored unseen, nodes not mixed up |
| Workload envelope `history/envelope.py` | none | slots, quantiles, drift, readiness | little data, partial periods, slots of any length, a level that shifts | what was collected is found again; a shift is noticed and followed |
| Lab load driver `lab/workload.py` | queue, threads, row locks | `run_phase` | deadlocks, lost connections, threads that outlive the phase | every call measured once, locks released, it ends |
| Lab runner, sandbox and experiments `lab/`, `diagnostics/` | one database server: databases, indexes, counters, slow log | phases, repeats, index experiments | two jobs on one database, a failure between creating and dropping | what is measured is what was asked; nothing is left behind |
| Capacity model `capacity/`, `scenarios/validate.py` | measured effects | resolve options, evaluate, attribute, reschedule check | references between options, missing parameters, midnight and deadlines, rules implemented twice | it is known which options resolve; both implementations agree |
| Everything else: importers, normalisation, scan, findings, report, charts, login | none | parsing, rendering | none that TLC reaches | not modelled, see section 7 |

How the parts interact: a command or a web job builds a provider and a sandbox,
asks the ledger how much is left, runs the orchestrator, records what it spent
and saves the record. The orchestrator calls the provider for each turn and the
tools for each group of equal requests; tools read evidence and may run
experiments whose effects later forecasts use. Replay reads a saved record and
calls the same tools. Collectors append to the history from processes of their
own, and the envelope is built from what they stored. The lab drives load from
threads and writes evidence files which a later review reads; lab runs and
experiments share database servers.

## 2. Modules

| Module | Models | State and actions |
|---|---|---|
| `RunLifecycle` | `RunStatus`, `TRANSITIONS`, `RunState.transition` | `status`; `Transition(to)`. The abstract specification of a run. |
| `Review` | `Orchestrator.run` with `synthesize`, `dedupe_key`, the outcome of `execute_tool` and of a model call | `pc` is where `run` is between two effects. `Validate`, `BeginRound`, `LoopExhausted`; `StopOnBudget`/`StartTurn` (the guard); `RetryTruncated`, `AcceptTurn`, `FailTurn`, `RaiseInCall` (a model call); `CollectRequests`, `Conclude`, `BeginTools`; `NoResult`, `ExecuteTool`, `RaiseInTool`, `EndTools`. Implements `RunLifecycle` with its own `status`. |
| `ScriptedTeam` | the policies of `mock.py` in the rounds of the orchestrator, `validate_turn`, the reference and the rule-based baseline of `compare.py` | a world (evidence, failing tools, how each option fares) is an input; then `Speak`, `EndRound`, `RunTool`, `NextRound`. After the choice of its inputs a run is deterministic, like the code. |
| `SpendLedger` | `SpendLedger`, the budget part of `start_run`, `cmd_run`, `cmd_evaluate` | a job reads the remainder (`Start`), pays (`Pay`), and records: `Acquire`, `Load`, `Truncate`, `Fill`; `SaveFails` is a write that fails in a live process. Where two processes had the file open at once, `Fill` may leave an unreadable one. `Kill` takes a process with all its jobs. |
| `WebJobs` | settings page, `settings_store`, job threads of `web/app.py` | the page: `SaveForm`, `Preset`, `Reset`, then `Fill` (file written) and `Assign` (settings in memory), or `SaveFails` (a write that fails in a live process); any read may fail and then counts as empty. A job: `View`, `Post`, `Refuse`, `Build` or `StartImport`, `Fail`, `Charge`, `Open`, `Close`, `Link`. `Crash` restarts the process, `Tick` is the clock. |
| `Replay` | `replay`, and as much of a run as its record depends on | first a run: `Call`, `SkipCall`, `Return`; `Alter` changes one digest, status, evidence id, stored result or the decision of the saved record, or nothing; then `StartReplay`, `PassSkipped`, `ReuseRecorded`, `ReExecute`, `Rebuild`. |
| `History` | `History`, `collect_aws`, `collect_gcp`, `collect_azure` | a step of a collector is one committed statement: `Begin`, `ReadSalt`, `InsertSalt`, `NoteCluster`, then `NoteNode` and `AddSamples` for each node, `Finish`; `NoMetrics` (Azure) and `Abort`. `Tick` and `ChangeTopology` are the world. |
| `Envelope` | `build_envelope`, `_slot_values`, `_weighted_quantile`, `_detect_drift`, `_slots`, `Envelope.readiness` | a load that goes by (`Rise`, `Tick`) and `Collect`; the envelope is a function of what is held, rounded where the code rounds. `SlotOf` is the slot a sample is counted in, `At` the slot a moment is looked up in. |
| `LabPhase` | `run_phase`, `_execute` | the main thread (`Feed`, `JoinWorkers`, `JoinSide`, and `Interrupt`, an exception after which nobody sets `stop`), a worker (`Connect`, `Take`, `Lock`, `Refused`, `Commit`, `Rollback`, `ReadDone`, `RecordCall`, `End`), the batch job (`CheckStop`, `BeginChunk`, and the same transaction steps). |
| `LabRun` | `run_lab`, `run_lab_postgres`, `run_lab_repeats`, sandboxes and index experiments | several jobs on one server, each statement that others can see a step: database dropped, created, built; a stage creates its index, resets counters, switches the slow log, puts load, collects, drops the index. Faults go through the `finally` blocks of the code; `Crash` takes a job. |
| `Capacity` | `_resolve`, `evaluate_option`, `attribute`, `choose_rate_card`, `batch_reschedule_check`, `validate` | the state is what experiments `registered` (`Register`); everything else is a function of a scenario and of it. Parameters of an option may be missing and times unreadable (`Raises`); `Attribute` is the loop of `attribution.py` with its own demand, slots and surge, beside that of `Evaluate`. `Resolve[seen][o]` is `_resolve(o, seen)`: it recurses over options, and ends because `seen`, the options on the path, only grows, as in the code; `Assemble` is its loop over the components of a combined option. |
| `MC...` | | values of the constants for TLC, one module per component |
| `ReviewProofs`, `SpendLedgerProofs`, `WebJobsProofs`, `ReplayProofs`, `HistoryProofs`, `EnvelopeProofs`, `LabProofs`, `OptionProofs` | | theorems about the module of that name; `LabProofs` holds those of `LabPhase` and of `LabRun`, `OptionProofs` those of `ScriptedTeam` and of `Capacity`, whose definitions have different names for that reason |

Conventions. In `Review` a turn is a position, a set of challenged roles and a
sequence of requests; texts, evidence references and numbers in them are left
out, since no decision of the orchestrator depends on them. A request is a model
value; what the orchestrator does with it depends on four constants (who may use
its tool, whether its arguments parse, whether its tool exists, whether its result
depends on the asker). Money is counted in units. Definitions next to an action
and introduced by "Mutant:" are plausible bugs of that action; they are not part
of any specification, and each property has one that breaks it.

Variables that the code does not have are named as history variables: `told` in
`Review` (what the answers of the API stated as their cost), `seen` and `prior` of a
turn (what its author could read), `history` in `Replay`, `begun` and the numbers `id` and `by` in `History`
(which collection stored a sample), `late` in `LabPhase`, `left` and
`company` in `LabRun` (who failed where, who shared the server), `moved`, `meant`
and `shown` in `WebJobs` (what changed since a page was seen, what the settings
page was told), `overwritten` in `SpendLedger` (entries that another process wrote
over).

## 3. Runs

| Run | Question | Properties |
|---|---|---|
| `review_debate` | Two roles argue for up to three rounds; answers are cut off, cost more than estimated, state no usage, fail or raise. How does a run end, what does its record keep, what does it cost? | `SpendBound`, `ChargesKept`, `LastWordKept`, `EarlyStopSettled`, `ImplementsLifecycle`, `Termination` |
| `review_tools` | What happens to requests for checks? | `SameFooting`, `RequestsAccounted`, `RecordConsistent` |
| `scripted` | Do the scripted agents say what they may say, and does what they decide follow from what was measured? | `TurnsStandUp`, `ForecastsFollowMeasurements`, `SingleHasNoRegret` |
| `ledger` | Two web jobs and an evaluation share the ledger, processes are killed, writes fail. | `EntriesSurvive`, `TotalBound`, `JobsEnd` |
| `web_jobs` | A review and two imports that end in one second or several, beside a settings page that saves, presets and resets; writes and reads fail, the process dies. | `LimitsForgottenOnlyByMishap`, `ModelIsTheOneShown`, `LinksHold` |
| `replay` | Which records verify? | `RunReplays`, `AlterationFound` |
| `history` | Two collections of a cluster that changes, in four kinds of cloud, with periods that differ. | `WrittenAccounted`, `NothingHidden`, `RecordedMeansHeld`, `OneNodePerRole` |
| `envelope` | What is an envelope worth that was built from partial and missing periods, or over a shift, and is a moment that was collected found again in slots of several lengths? | `PartialsUnderstate`, `ShiftIsFollowed`, `CollectedIsFoundInSlots`, `MoreNeverDisqualifies` |
| `capacity` | Which options resolve, what is a combined plan, and do the implementations of a rule agree? | `ResolvesUnlessBroken`, `CombinedIsItsLeaves`, `SecondOpinionsAgree`, `SharesAddUp` |
| `lab_run` | Jobs overlap on one server, statements fail and processes die. | `AloneMeasuresItsOwn`, `LostIndexIsNoticed`, `IndexesAreTemporary`, `LogIsTemporary` |
| `lab_phase` | Two workers, a batch job that locks in the opposite order, a lost connection, a main thread that raises. | `CallsMeasured`, `ErrorsReleaseLocks`, `InterferenceBounded`, `PhaseEnds` |
| `history_key` | Is it one history per cluster? | violated: `OneHistoryPerCluster` |

The last one finds what it looks for, a promise of a comment that the code does not
keep; the others hold. Type invariants are not among the properties of the runs:
that of `Review` is proved (section 5), those of `LabRun` and `WebJobs` are parts of
the proved inductive invariants, and the ones of the other modules (`TypeOK`)
are there to be added to a run when a model is changed.

### Where the code differs from what a doc or a comment says

The properties state what does hold; the promise they stand next to is stronger.

* "Spend is capped per run" (src/README.md:229). The guard of a run prices one
  answer, but a truncated answer is asked for again and both are billed.
  `SpendBound` gives the true limit: one estimate, what two answers may cost above
  their estimate (a cache that is cold, text of more tokens than its length
  suggests), and the notice in the second prompt.
* "A call that reached the model still carries its cost, so spend stays accurate."
  (simulation/providers/base.py:32). An answer without usage is charged as free
  (openai_compatible.py:107), and a request that fails after it reached the model
  leaves no answer to read a cost from. `ChargesKept` says what holds: what the answers
  state is kept on every path that returns.
* "... when positions stop changing and nothing is left unanswered"
  (src/docs/HOW-IT-WORKS.md:68). An early stop looks at the challenges of the
  current round, the decision record at those of the last two. `EarlyStopSettled`:
  all roles stand where they stood a round ago, and no listed objection was
  repeated.
* "checks that were requested but never ran" are listed (HOW-IT-WORKS.md:51). A
  run stopped inside a round returns before the requests of the round are
  collected. `RequestsAccounted` holds for completed rounds.
* "so a total budget holds across runs" (spend.py:2). Jobs that overlap share a
  remainder. `TotalBound` bounds the excess by the price of the jobs that were
  under way together.
* "Replay of any run record" (src/CHANGELOG.md:59). A request whose arguments do
  not parse is recorded with empty arguments, and replay executes it. Records
  without such a request verify (`RunReplays`).
* "re-run every check in the record and confirm the same results" (src/README.md:126).
  The result of a call is in a record twice, and replay compares the digest in
  `tool_calls` and never reads the data in `tool_evidence` of a call it executes
  again: a record whose stored result was changed verifies, which `RunReplays` says.
  `AlterationFound` says which alterations are found; a decision altered to leave out what was measured is among those that are
  not, when the experiments are reused for lack of an engine.
* "None when that hour of that weekday has never been collected" (history/envelope.py:164).
  With slots that divide neither an hour nor are made of whole hours, samples are
  rolled back in two steps and a moment that is looked up in one: with slots of an hour
  and a half a moment that was collected is looked up in a slot that does not exist.
  `CollectedIsFoundInSlots` holds where one of the two is the case.
* "so the same cluster accumulates across collections" (history/store.py:20). For
  a member of an Aurora cluster the instance asked for is hashed into the key on
  top of the members. This is the run `history_key`.
* "combined option cannot include itself" (scenarios/validate.py:96) catches direct
  inclusion only. Options that include each other pass, and the decision record of
  a finished run raises. So do parameters that only some kinds are asked for: a
  combination without components, a resize without target, a move without start.
  `ResolvesUnlessBroken` says exactly which options do not resolve, and what
  validation leaves of that.
* "with the index and rewrite effects measured ... The scripted FinOps agent reads
  this table" (src/docs/EXAMPLE.md:164). No forecast that a role reads knows the
  effects of the rewrites, which are asked for after it
  (`ForecastsFollowMeasurements`).

Smaller things that came up while modelling, none of which a property calls wrong:
a smaller instance class in a combined plan never takes effect, but its saving is
booked; an option reached along two paths counts its effects and costs twice; a
combined plan whose job is moved to a start equal to its own loses the mark that
it is on the next day; an option for a reader in a cluster without readers raises
`IndexError`; a run log whose longest run has a decimal point makes the reschedule
check raise, so that its verdict never differs from that of the plan, which truncates; a
scaling window over midnight has negative hours; `coverage` of a history adds up the
periods of samples that overlap, so that with two periods 1.0 ("a full window",
history/store.py:277) need not be full; a ledger file torn
by a crash or a failed write makes every later page and job fail; commands do not read the settings
page; the seed of a lab phase contains the name of the phase, although the evidence
speaks of the same seed (lab/runner.py:310); the scripted finops analyst may go
back to "undecided" after a challenge; with few requests per turn and few rounds
the engineer's forecast may come too late for anybody to decide on it.

### Bounds, and why they are enough

* `Review`: two roles suffice for every relation between agents (challenge,
  agreement, sharing of a request); a third round is needed for a challenge two
  rounds old, and `RoundLimits` includes 0 for the loop that never runs. In `review_debate`
  `MaxUsd` of two units with estimates of zero or one (zero is a
  price the provider does not know) lets the guard stop at every turn of the first
  rounds, and unpriced answers carry a debate to its end; `Excess` of one is what an
  answer costs above its estimate (a cold cache,
  text of more tokens than its length suggests), `Notice` of one what the request for
  a shorter answer adds to a second prompt. `MaxToolCalls` and `MaxToolCallsPerTurn` of two are
  exceeded by the drafts of `review_tools`, which include repeated, shared,
  role-sensitive, forbidden and malformed requests; its round limit is two, its limit
  is zero and its answers are free. Debate and tools are separate runs
  since neither positions nor prices depend on which checks ran: the model lets a
  turn be anything in either run.
* `ScriptedTeam`: one option of each kind the policies tell apart, graded 0 (headroom),
  1 (over the threshold) or 2 (breaches an objective). Only an index may be worse
  than keeping capacity: the others remove load or add servers. Five bundles of
  evidence are those in which some policy takes another branch; a root statement
  without fixture, disputed sources, a rewrite that fails over NULLs and failing
  tools vary in part of the worlds. Disputed sources contradict each other on one key,
  as the one campaign of the scenarios that are shipped; for several keys the code asks
  for one sensitivity analysis each, and `ForecastsFollowMeasurements` counts on one.
  The four limits are the two budgets that the code ships, one of fewer requests
  per turn and one of few calls per run. Five roles or the single agent.
* `SpendLedger`: two threads of one process and one other process are the two
  kinds of interference; the evaluation runs the model twice. The second job's scenario
  has a lower budget than the job before it. The settings page has
  lowered the web app's total below that of the environment, which the command
  works with. `MaxConcurrent` is the most jobs under way together, two, and appears
  in `TotalBound`; the third job still starts after one of them failed.
* `WebJobs`: one review and two imports (two files of one second need two jobs of
  the same kind; reviews have names of their own), equal but for their names, and
  `MaxSeconds` of one for two seconds to end in. Two models of two providers tell a
  changed model and a changed kind. `MaxSaves` of two, `MaxFaults` of one and
  `MaxCrashes` of one let a save be torn by a fault or a crash and a preset make the
  loss permanent, beside any step of the jobs. 4.1 million states.
* `Replay`: `MaxCalls` of three lets an experiment, a forecast that uses its
  effects and one other call follow each other in any order. There is one request
  of each kind: an index that some option uses and one that none does, a plan, a
  load test, a candidate that fails after the sandbox was opened, a lab tool that is
  not allowed, one with arguments that do not parse. `Samples` has one value: what matters
  of a measurement is that replay never runs it again. Of the three engines two are
  kinds of SQLite. 3.4 million states.
* `History`: two collectors and `MaxCollections` of two attempts, at times up to
  `MaxTime` 3 with windows of 2 ticks and `Periods` of 1 and 2, so that windows
  overlap or touch and one collection's grid is not the other's;
  `MaxChanges` of one topology change before, between or during them.
  The cluster starts with a writer and a reader that sorts after the third
  instance, so that adding one moves the roles. `history_key` needs no change of
  topology.
* `Envelope`: hours of one period, days of two slots, weeks of two days and a `Window` of three days are
  the smallest in which a slot of the week is seen twice, a weekday once, and a
  last day differs from a past one. Two `Levels` whose ratio (3:2) is beyond
  `DriftUp` and `DriftDown`. `Spans` of 1, 3 and 6 periods are a short, a partial
  and a full collection; `MaxCollections` is two and `MaxTime` 7, one period past
  the window, so that samples leave it. The weights are a week's half-life and the
  short one, scaled to whole numbers; coverage is in ten-thousandths, rounded as the
  code rounds it, and the other thresholds are shrunk in proportion. Slots are an
  hour; for `CollectedIsFoundInSlots` the same collections are read a second, third and
  fourth time with slots of half an hour, of two hours and of a day (`MCEnvelope`).
* `Capacity`: three options, the first a combination, the second possibly one, the
  third closing cycles of every length; leaves of every kind; a horizon of three
  slots that ends at midnight; batch jobs that start inside it, before it or are
  not planned, take no time, have a deadline at no time of the day, or a log with a
  decimal point (a longest run of two and a half or of three units, of which the
  plan keeps the whole part); rate cards that cover all, some or no
  classes; each candidate measured or not. An option of each kind may lack a
  parameter or have a time that cannot be read. Waiting times are a table with one step
  (saturated or not). Not every setting meets every other: each of them meets all options.
* `LabRun`: a Percona lab run, a lab run of two passes and an experiment, two of
  which are started; plans with an indexed and a plain stage; `MaxMishaps` of one
  fault or crash at any statement. `Parts` of two lets another job step into the
  load of a stage. A fault may meet the load itself too, which leaves the stage by
  the `finally` of `runner.py` and may leave its threads at work beside the next job.
  1.6 million states, for MySQL and PostgreSQL.
* `LabPhase`: two workers, a batch job, two rows, three calls of which two are
  checkouts, and `MaxLosses` of one lost connection: enough for a deadlock of each
  pair of threads, for a worker that has nothing left to do and for one that ends
  early. `late` counts to two, since more chunks mean nothing new.

Deadlock is not checked where the system really stops: a run that returned or
raised, jobs that ended, a finished replay, the last tick, a finished phase.

## 4. Fairness

* `Review`: `WF_vars(Next)`. A run is one sequential process; the code waits only
  for a model call, whose client has a timeout, and for a tool. The nondeterminism
  is the answer of the model, of which no fairness is asked: `Termination` holds
  for every sequence of answers.
* `SpendLedger`: weak fairness of the steps of each job. A job is a thread whose
  calls return or raise. A kill is never forced. `JobsEnd` needs no strong
  fairness of the lock, since each job takes it once.
* `LabPhase`: weak fairness of the main thread, of each worker and of the batch
  job. A statement that waits for a row is granted it or fails after
  `set_lock_timeout`, which is why waiting (`Refused`) is not for ever; the
  threads are joined with a timeout where they may outlive the phase. Losing a
  connection is never forced, and neither is an exception of the main thread.
  `PhaseEnds` has a way out for the latter: `run_phase` sets `stop` in no `finally`
  (lab/workload.py:251-269), so that after an exception the batch job goes on.
* The other modules claim safety only. That the jobs of `WebJobs` and `LabRun` end
  would restate that threads run, and a run of `ScriptedTeam` ends for the reason
  that one of `Review` does.

## 5. Proofs

`Review`, for every value of the constants that meets its named assumptions (roles
in an order without repetition, at least one; limits that are natural numbers;
estimates up to `MaxEstimate`; drafts of the type a draft has):

* `TypeCorrect`: `Spec => []TypeOK`. `TypeOK` is not inductive: that a turn goes to
  some role needs the position in the round order to stay in range while a turn
  is due. The inductive invariant `TypeInv` adds this (`Shape`). One lemma per
  action; the lemmas about `Least`, `Group` and concatenation carry the actions on
  requests and tools.
* `SpendIsBounded`: `Spec => []SpendBound`. A bound on `spend` alone says nothing
  about a call under way. `GuardHeld` adds that while a call is under way its
  estimate still fits under the limit, and that what its first attempt cost is
  at most that estimate and `Excess`; so two attempts exceed the limit by at most one
  estimate, two excesses and one `Notice`. That the excess of an answer is bounded at
  all is an assumption about the API: the estimate counts characters. The theorem
  holds for any bound; a bill that no answer states is not in `spend`, and
  no theorem bounds it.
* `ChargesAreKept`: `Spec => []ChargesKept`: what the answers stated (`told`) is in `spend` or
  in the call under way, on every path that returns. `NothingPending` adds that
  between two calls nothing is charged that is not in `spend`, so a new call may
  start at zero. What was billed may be more: an answer
  without usage states nothing.
* `RunImplementsLifecycle`: `Spec => Lifecycle!Spec`. `StatusInv` relates the place
  in `run` to the status; with it each action maps to a move of the table or to a
  stutter. The consequence: no path makes `transition` raise.
* `RecordsAreConsistent`: `Spec => []RecordConsistent`. Three invariants under it
  serve the theorems that follow too: `RoundsInv` (turns are recorded round by round
  in the speaking order, each role once a round, earlier rounds complete),
  `EndInv` (which limits and which status go with each place, and what the decision
  was made from) and `ItemsInv` (an evidence item and the call that made it name
  each other).
* `LastWordIsKept` and `EarlyStopsAreSettled`: `Spec => []LastWordKept` and
  `Spec => []EarlyStopSettled`. By `RoundsInv` the last turn of a role is one of the
  last round or, where that was cut short, of the one before, and these are the
  turns the decision looks at; when a round is complete its turns are the last ones.
* `FootingIsTheSame`: `Spec => []SameFooting`. `FootingInv` turns the counters a turn
  remembers into rounds: the turns and items before `prior` and `seen` are exactly
  those of earlier rounds, since no tool runs while agents speak.
* `RequestsAreAccounted`: `Spec => []RequestsAccounted`. `AccountInv` follows a request
  from the turn to the list of the round (`RoundsHeld`), to a group that is served
  (`ServedAsked`) and to the record (`TurnsAccounted`), through a round that is
  concluded in between. `SharedInv` says that a group which was served took all
  requests with its key, so that what ran once never runs again in that round.

`LabRun`, for any jobs, databases, candidates, plans and passes, and any number of
faults and crashes (`JobsAssumption`):

* `SlowLogIsTemporary`: `Spec => []LogIsTemporary`. The property says who may be the
  one whose log is on; inductive is `LogInv`, which adds that only a first pass with
  Percona gets to the step that switches it on, so that such a job goes from its
  load to switching it off, and not past it, also when the load raised.
* `IndexesAreDropped`: `Spec => []IndexesAreTemporary`. `IndexInv` adds why nothing
  can keep the maker of an index from dropping it: its database is there and built,
  its connection open, its stage one that wants this index, and `created` set once
  the statement returned. Another job that drops the database takes the index with
  it, which is where the invariant is restored rather than broken.
* `LostIndexesAreNoticed`: `Spec => []LostIndexIsNoticed`. `CreatedInv` adds that a
  stage that wants an index gets to its measurements only with the index created,
  so that it always comes to dropping one; `OwnInv` that on PostgreSQL the maker of
  an index keeps it while its session lives, because rebuilding the database ends
  that session.
* `AloneJobsMeasureTheirOwn`: `Spec => []AloneMeasuresItsOwn`. A job has shared the server
  too when the threads of a load that raised were left at work (`Lingers`). `LoneInv` says of a job
  that has never shared the server that nobody is at work beside it, that its
  database has the index of its stage and no other from `CREATE DATABASE` on, that
  the counters hold its own statements and no others since it reset them, and that
  the slow log has been its own since it was switched on. Whatever crashed jobs
  left on the server is gone by the time the load begins.

`LabPhase`, for any workers, rows, calls and numbers of lost connections:

* `LocksAreReleased`: `Spec => []ErrorsReleaseLocks`, inductive with the types.
* `OneLateChunk`: `Spec => []InterferenceBounded`. `LateInv` adds that after the late
  chunk the batch job is never again before a chunk.
* `EveryCallIsMeasured`: `Spec => []CallsMeasured`. `QueueInv` says that the queue
  holds what was fed and not yet taken, in order; `CallsInv` that a call that was
  taken is with one worker or measured, that a worker which is done has taken an
  end mark, which comes after all calls, and that nobody works once `stop` is set.

`WebJobs`, for any reviews, imports, models and totals, and any number of saves,
crashes and seconds (`SettingsAssumption`):

* `LimitsHold`: `Spec => []LimitsForgottenOnlyByMishap`. `meant` says what the page was
  told, and which fields are `lost` from the file or `gone` from memory since, to a
  crash or a failed write in the middle of a save, or to a read that failed; a save
  of a field takes it back. `SettingsInv` follows a save
  through its steps: while the file is open it is torn and the values to come hold
  what the page was told but for the lost fields, and otherwise the file holds it; the
  settings in memory are the file laid over the environment but for the fields that
  are gone, whenever no save is under way.
* `ModelHolds`: `Spec => []ModelIsTheOneShown`. `ModelInv` adds that until a job is
  built, either the model in force is still the one its page showed, or `moved`
  says that it changed, and the same for the kind since the check of the form.
* `FilesHold`: `Spec => []LinksHold`. `LinkInv` says of each file which jobs'
  text may be in it, and that a job which wrote and shares its name with no other
  has its file to itself.

`SpendLedger`, for any jobs and processes (finitely many, `JobsAssumption`), caps and
prices that are natural numbers:

* `LedgerEntriesSurvive`: `Spec => []EntriesSurvive`. `DocInv` says of the document a
  job has loaded what the property says of the file, until it is written: the
  entries of its own process are all in it, because its threads wait for the lock
  (`LockInv`), and only another process makes it stale.
* `TotalIsBounded`: `Spec => []TotalBound`. `LastStarted` keeps a witness: the last job
  to start, and fewer than `MaxConcurrent` jobs that were under way with it, so that
  what all others have paid is settled and leaves room for its runs under its cap.
  It starts from a ledger in which everything settled is recorded, which is where
  the hypothesis that nothing was written over is needed (`KeptInv`).

`History`, for any collectors, instances, windows, periods and clouds, whatever the
topology does and wherever a collector stops:

* `TypesAlways`, and `NothingIsHidden`: `Spec => []NothingHidden`. `FoundInv` adds what
  each collector has noted before it writes, and that the salt is there as soon as
  any key is.
* `WrittenIsAccounted`: `Spec => []WrittenAccounted`. `CountInv` says the same of the
  collections under way, and that no two, recorded or under way, share a number. The
  new rows of a step are disjoint from the samples by the primary key, so what it
  counts is what it adds.
* `RecordedIsHeld`: `Spec => []RecordedMeansHeld`. `HeldInv` says the same of a
  collection under way: all it got so far is in the store, and rows never leave.
* `RolesAreNodes`: `Spec => []OneNodePerRole`. Two collections meet under one key only
  if they saw the same instances; `OrderInv` shows that until a failover the names
  in a key determine the writer and with it the order of the roles, also where a
  promoted RDS replica stands alone.

`Replay`, for any requests, engines and measurements, and runs of any length:

* `AlterationsAreFound`: `Spec => []AlterationFound`, for one alteration of the saved
  file. A forged digest, status or evidence id is found unless replay takes the record
  of that call over, effects added to or left out of the decision unless it took an
  experiment over, and without an engine a decision that rests on experiments never
  verifies. `FoundInv` says that replay is past
  the altered call only with a mismatch counted or the call among those skipped, and
  that with every experiment executed again the effects replay registers are those
  of the run. What is not found is part of the statement: the stored result of a call
  that is executed again is never read.
* `UnalteredRunsReplay`: `Spec => []RunReplays`, for records that are unaltered and for
  those of which only a stored result was altered. What the environment was before each
  call of the run can be read off the calls before it (`EffectsOf`, `ItemsOf`);
  `RunInv` says that every record is what its request makes in that environment,
  `ReplayInv` that replay's environment is the one of the record it has come to.
  Evidence ids are handed out without gaps, so no id that replay reuses is taken.

`Envelope`, for any levels, window, spans and thresholds (`GradesAssumption`: coverage
asks for no more than all of a window, as `MIN_COVERAGE` has it):

* `PartialsAreFew`: `Spec => []PartialsUnderstate`. `PartialInv` counts the period under
  way among the partial ones as soon as it is held, since it may still rise; only a
  collection adds a period to these, and only that one.
* `MoreIsNeverLess`: `Spec => MoreNeverDisqualifies`. The reasons that disqualify are
  days and coverage (`InsufficientWhen`), which grow with the samples; thin slots and
  shifts, which do not, are not among them.

`ScriptedTeam`, for any worlds whose grades are numbers, any limits of at least one
round, and any sequence of roles for a team in which at most the first may experiment,
as in `ROLE_ORDER`, where the engineer comes first, and for the single agent
(`WorldsAssumption`, `LimitsAssumption`, `TeamsAssumption`, `LeadAssumption`; the first
theorem does not need the last):

* `ScriptedTurnsStandUp`: `Spec => []TurnsStandUp`. That a changed position has a
  reason rests on what was not written down: `PositionsInv` says that every position
  is still what its policy makes of what could be seen when it was taken (`Stand`),
  since results are only added and a later turn is no challenge of an earlier round;
  `SpokenInv` that a role's last turn is one of the round before. With nothing new
  to see and no challenge in that round, a policy reads what it read then, so it
  decides the same. `Sound` says what a turn needs for `validate_turn` to find
  nothing, in terms that later results do not disturb. `RequestsInv` says that nothing
  is asked for in the last round, so that no request is refused when it is over.
  That a policy decides for one of the options at all (`PositionIs`) is that a
  finite set in a linear order has a least element: the keys of a policy end with
  the rank of the option, so no two options tie (`BeforeIsLinear`, `BestIn`).
* `ForecastsKnowMeasurements`: `Spec => []ForecastsFollowMeasurements`. `OrderInv` is the
  heart of it: no forecast among the results comes after a rewrite, and no index
  experiment after a forecast of the one who measures. Results appear in the order of
  the queue, so `QueueInv` says the same of what is queued, together with what was
  asked for before. The hard case is a limit per turn that cuts the requests of a role
  short and leaves the rest for later rounds. The one who measures is cut in its own
  order (`LeadRank`), so whatever it has asked for comes with all that ranks before it
  (`LeadInv`). The others do not know that order. That none of them still asks for a
  forecast when the rewrites begin follows by counting (`PaceInv`): the limit is
  the same for all, so a role that has not come to its forecast has asked for as many
  requests as the first, which made four before the rewrites (`EarlyAreFour`), while
  none of the others has more than three before its forecast (`PreludeIsAtMostThree`). Once the
  limit of the run is used up nobody asks (`NobodyAsks`), which is why both invariants
  are about runs with calls left. `Trail` turns the order of the results into the
  effects each of them knows.
  That a group is in the queue where its first request was follows from
  the lemmas about filtered, joined and grouped sequences (`OnlySelects`,
  `FlattenJoins`, `GroupsAre`).
* `SingleStandsComparison`: `Spec => []SingleHasNoRegret`. `SingleChooses` says in which
  sense the choice is the least of the keys, `ChoiceFares` compares it under the
  effects of the forecast it rests on and under those of the reference. They are the
  same when the statement at the root has a fixture (`ForecastsKnow`): the index was
  asked for before the forecast (`IndexInv`), what was asked for and not found is a
  tool that raises (`FareInv`), and `OrderInv` puts it ahead of the forecast. Without a
  fixture an option that rests on an experiment nobody made never beats keeping
  things as they are. That the last position is still what the policy makes of such a
  forecast is `PositionsInv` once more.

`Capacity`, for finitely many options of known kinds, nested in any way, and any
horizon, slots, batch job and campaign whose times are numbers
(`CapacityAssumption`, `ScenariosAssumption`; cyclic scenarios are among them, and
scenarios that validation rejects, and options without their parameters). The scenario of a run stays what it is
(`ScenarioStays`), so both properties are theorems about its plans:

* `OptionsResolve`: `CapacitySpec => []ResolvesUnlessBroken`. That the recursive function
  `Resolve` is what its definition says is not for free: `SolvedExists` builds the
  plans from paths that leave few options ahead to the empty path (`Ahead`), and
  `ResolveIs` follows. `ResolveIsRight` goes by induction over the same number
  (`PathInduction`) and says of every path that an option resolves behind it when it
  is `Open`: nothing it refers to is on the path, refers to itself, or is a leaf that
  raises. `OpenStep` is the step from an option to its components, where the path
  grows by the option itself; `Below`, which the property defines as a least closed
  set, comes apart the same way (`BelowIs`). On the empty path `Open` is the property.
  The second half compares `Raises` with what `validate` looks at, parameter by
  parameter: what it leaves is `Unasked`.
* `OpinionsAgree`: `CapacitySpec => []SecondOpinionsAgree`, in three parts. For the
  deadline `Timed` is carried through leaves, combination and judgement: a plan's job
  waits for the next day exactly when it was moved before the horizon, or was not moved
  at all. With it the two formulas are the same sum but for the longest run, which the
  plan truncates; where the two would differ the check has no verdict, since it fails to
  write down a time with a decimal point, and a plan whose job takes no time has none
  either. For the overlap and for the slots of the sale, which the forecast cuts by the
  minute and the calls by the slot, `SlotIndexBefore` turns the clamped quotient into a
  comparison of times.

Sums. `SumFunctionOnSet` is a recursive function over sets, and the induction
theorems of the library cannot be instantiated. `SetInduction` of `SpendLedgerProofs`
states induction over a finite set with a set in place of a predicate (the set of
the subsets for which the claim holds), which the provers can use; the recursion
and the lemmas about sums that change in one place follow from it.

Only model-checked: `CombinedIsItsLeaves` and `SharesAddUp` of `Capacity`, which sum over
sequences and over a share for each statement and tenant; `CollectedIsFoundInSlots` of
`MCEnvelope`, which is arithmetic of remainders; `ShiftIsFollowed`, which is about weighted
quantiles and rests on what the two half-lives weigh. Out of the prover's reach in any
case: liveness under fairness (`Termination`, `JobsEnd`, `PhaseEnds`), ENABLED, and
what recursive functions over data compute for every input (quantiles, sums over leaves).

## 6. Plan

Done: `RunLifecycle`, `Review`, `SpendLedger`, `Replay`, `History`, `LabPhase`,
`Capacity`, `Envelope`, `LabRun`, `WebJobs`, `ScriptedTeam`, and the theorems of
section 5. Left, in this order:

1. Theorems: `CollectedIsFound` of `Envelope` for any slot that divides an hour or is
   made of whole hours, `SharesAddUp` of `Capacity`, and of `ShiftIsFollowed` that a
   shift is noticed.
2. `gaps` and `coverage` of a history with several periods, and the envelope on top of `History`
   itself rather than of the collections it assumes.
3. Tenant entitlements (`capacity/entitlements.py`).

## 7. Not modelled

* Parsing, formatting and rendering (`importers.py`, `evidence/normalize.py`,
  `evidence/collectors.py`, `scan.py`, `findings.py`, `report.py`, `web/charts.py`,
  templates, prompts): conversions without state.
* `web/auth.py`: access control, kept apart from the behaviour here.
* The formatting side of the collectors (`lab/collector.py`, `lab/pg_collector.py`,
  `lab/explain.py`, `lab/percona.py`) and of the cloud imports; prices of clouds.
* Real-valued arithmetic: waiting times of a queue are a table, prices and CPU are
  whole numbers. Rounding is modelled where a property depends on it (coverage of an
  envelope, the longest run of a batch job) and left out elsewhere. `_confidence` and `_causes` of the scripted
  provider and the buffer-pool notes of a forecast are wording.
* `gaps` and `coverage` of a history, which are reads over what was stored; several contradicting campaign keys in one bundle
  (`ScriptedTeam`); an engine that is asked for and cannot be reached in replay, which
  raises before a call is compared; a batch update that is under way when its phase has
  returned (`LabPhase` counts it, `InterferenceBounded`; in `LabRun` it is not among a
  stage's statements, since the lab reports the batch under a fingerprint of its own).
* In `validate_turn`: whether the numbers in a claim occur in the evidence it
  cites, and whether argument values are legal.
* In the parts that are modelled: logging and progress messages, the run's event
  log, wording of the decision, latencies and percentiles.
