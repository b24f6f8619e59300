---------------------------- MODULE SpendLedger ----------------------------
(***************************************************************************)
(* The total model budget: spend.py and the three places that use it, the  *)
(* web app's review jobs (web/app.py), `capacitylab run` and `capacitylab  *)
(* evaluate` (cli.py).                                                     *)
(*                                                                         *)
(* A job is one such review with a paid model.  It reads what is left of   *)
(* the total, runs with the smaller of that and its own cap, and records   *)
(* what it paid in the ledger file.  Jobs of one process (the web app)     *)
(* share _LOCK; each command is a process of its own.  The file is         *)
(* rewritten in place: truncated, then filled.  A process may be killed at *)
(* any point and started again.                                            *)
(*                                                                         *)
(* The total is a setting.  The web app lays what its settings page stored *)
(* over the environment (WebJobs); the commands read the environment only, *)
(* so the processes may work with different totals.                        *)
(***************************************************************************)
EXTENDS Integers, FiniteSets, FiniteSetsExt, Functions

CONSTANTS
    Jobs, Procs, ProcOf,   \* the jobs, and the process each runs in
    Evaluations,           \* the jobs that are evaluations: two model runs each
    TotalCap,              \* max_usd_total as each process has it
    PerRunCap,             \* what each job may spend by run, whatever is left: max_usd_per_run, for a review the
                           \* scenario's budget if that is lower, and for `run --max-usd` what was asked for
    Overshoot,             \* what one run may pay above its cap (Review)
    MaxConcurrent,         \* the most jobs that users have under way at once
    NoJob

ASSUME JobsAssumption ==
    /\ IsFiniteSet(Jobs) /\ Jobs # {} /\ IsFiniteSet(Procs)
    /\ ProcOf \in [Jobs -> Procs]
    /\ Evaluations \subseteq Jobs
    /\ NoJob \notin Jobs
ASSUME CapsAssumption ==
    /\ TotalCap \in [Procs -> Nat] /\ PerRunCap \in [Jobs -> Nat] /\ Overshoot \in Nat
    /\ MaxConcurrent \in Nat \ {0}

VARIABLES
    file,   \* the ledger file: its total and entries, or Torn
    lock,   \* who holds _LOCK in each process
    pc,     \* where each job is
    cap,    \* max_usd of the job's runs
    cost,   \* what the job has paid so far
    doc,    \* what the job loaded under the lock
    overwritten   \* history: jobs whose entry was written over

vars == <<file, lock, pc, cap, cost, doc, overwritten>>

Empty == [total |-> 0, entries |-> {}]
Torn  == [total |-> -1, entries |-> {}]

Ended  == {"done", "refused", "failed", "killed"}
Active == {j \in Jobs : pc[j] \notin Ended \cup {"new"}}

RunsOf(j) == IF j \in Evaluations THEN 2 ELSE 1
-----------------------------------------------------------------------------
\* A missing file counts as an empty ledger.
Init ==
    /\ file = Empty
    /\ lock = [p \in Procs |-> NoJob]
    /\ pc = [j \in Jobs |-> "new"]
    /\ cap = [j \in Jobs |-> 0]
    /\ cost = [j \in Jobs |-> 0]
    /\ doc = [j \in Jobs |-> Empty]
    /\ overwritten = {}

\* remaining_usd, with the total of the job's process
Remaining(j) ==
    LET total == TotalCap[ProcOf[j]] IN IF file.total < total THEN total - file.total ELSE 0

\* Mutant: what is left of the total does not lower the cap.
CapFromSettingsOnly(j) == PerRunCap[j]

\* An evaluation splits what is left between its two runs.
CapFor(j) ==
    LET share == Remaining(j) \div RunsOf(j)
    IN  IF share < PerRunCap[j] THEN share ELSE PerRunCap[j]

\* work(job) or the command begins: it reads the ledger, without the lock.
Start(j) ==
    /\ pc[j] = "new"
    /\ Cardinality(Active) < MaxConcurrent
    /\ \/ /\ file = Torn
          /\ pc' = [pc EXCEPT ![j] = "failed"]
          /\ UNCHANGED cap
       \/ /\ file # Torn /\ Remaining(j) = 0
          /\ pc' = [pc EXCEPT ![j] = "refused"]
          /\ UNCHANGED cap
       \/ /\ file # Torn /\ Remaining(j) > 0
          /\ pc' = [pc EXCEPT ![j] = "running"]
          /\ cap' = [cap EXCEPT ![j] = CapFor(j)]
    /\ UNCHANGED <<file, lock, cost, doc, overwritten>>

\* A model call of the job's runs is billed.
Pay(j) ==
    /\ pc[j] = "running"
    /\ cost[j] < RunsOf(j) * (cap[j] + Overshoot)
    /\ cost' = [cost EXCEPT ![j] = @ + 1]
    /\ UNCHANGED <<file, lock, pc, cap, doc, overwritten>>

\* The runs return, or raise: then nothing is recorded.
EndRuns(j) ==
    /\ pc[j] = "running"
    /\ \E to \in {"recording", "failed"} : pc' = [pc EXCEPT ![j] = to]
    /\ UNCHANGED <<file, lock, cap, cost, doc, overwritten>>

\* record(): nothing was paid.
SkipRecord(j) ==
    /\ pc[j] = "recording"
    /\ cost[j] = 0
    /\ pc' = [pc EXCEPT ![j] = "done"]
    /\ UNCHANGED <<file, lock, cap, cost, doc, overwritten>>

\* Mutant: record() without the lock.
AcquireNothing(j) ==
    /\ pc[j] = "recording"
    /\ cost[j] > 0
    /\ pc' = [pc EXCEPT ![j] = "locked"]
    /\ UNCHANGED <<file, lock, cap, cost, doc, overwritten>>

\* with _LOCK
Acquire(j) ==
    /\ pc[j] = "recording"
    /\ cost[j] > 0
    /\ lock[ProcOf[j]] = NoJob
    /\ lock' = [lock EXCEPT ![ProcOf[j]] = j]
    /\ pc' = [pc EXCEPT ![j] = "locked"]
    /\ UNCHANGED <<file, cap, cost, doc, overwritten>>

Release(j) == lock' = [lock EXCEPT ![ProcOf[j]] = NoJob]

\* Mutant: a file that cannot be read leaves the lock taken.
LoadKeepingLock(j) ==
    /\ pc[j] = "locked"
    /\ IF file = Torn
       THEN pc' = [pc EXCEPT ![j] = "failed"] /\ UNCHANGED <<lock, doc>>
       ELSE /\ pc' = [pc EXCEPT ![j] = "loaded"]
            /\ doc' = [doc EXCEPT ![j] = file]
            /\ UNCHANGED lock
    /\ UNCHANGED <<file, cap, cost, overwritten>>

\* _load(): a torn file raises, and the with block lets go of the lock.
Load(j) ==
    /\ pc[j] = "locked"
    /\ IF file = Torn
       THEN pc' = [pc EXCEPT ![j] = "failed"] /\ Release(j) /\ UNCHANGED doc
       ELSE /\ pc' = [pc EXCEPT ![j] = "loaded"]
            /\ doc' = [doc EXCEPT ![j] = file]
            /\ UNCHANGED lock
    /\ UNCHANGED <<file, cap, cost, overwritten>>

\* write_text opens the file, which empties it ...
Truncate(j) ==
    /\ pc[j] = "loaded"
    /\ file' = Torn
    /\ pc' = [pc EXCEPT ![j] = "writing"]
    /\ UNCHANGED <<lock, cap, cost, doc, overwritten>>

\* The jobs whose payment was recorded.
Recorded == {j \in Jobs : pc[j] = "done" /\ cost[j] > 0}

\* ... and writes the loaded document with the job's entry, over what was
\* recorded since it was loaded.  Where another process filled the file since
\* this one emptied it, the end of a longer text may stay behind the shorter.
Fill(j) ==
    /\ pc[j] = "writing"
    /\ \/ file' = [total   |-> doc[j].total + cost[j],
                   entries |-> doc[j].entries \cup {j}]
       \/ file # Torn /\ file' = Torn
    /\ pc' = [pc EXCEPT ![j] = "done"]
    /\ Release(j)
    /\ overwritten' = overwritten \cup (Recorded \ doc[j].entries)
    /\ UNCHANGED <<cap, cost, doc>>

\* The file cannot be opened, or the disk is full: write_text raises, and the
\* job fails with part of the text written, or nothing.
SaveFails(j) ==
    /\ \/ pc[j] = "loaded" /\ file' = file
       \/ pc[j] = "writing" /\ file' \in {file, Torn}
    /\ pc' = [pc EXCEPT ![j] = "failed"]
    /\ Release(j)
    /\ UNCHANGED <<cap, cost, doc, overwritten>>

\* The process is killed; its daemon threads end with it.
Kill(p) ==
    /\ \E j \in Active : ProcOf[j] = p
    /\ pc' = [j \in Jobs |-> IF j \in Active /\ ProcOf[j] = p THEN "killed" ELSE pc[j]]
    /\ lock' = [lock EXCEPT ![p] = NoJob]
    /\ UNCHANGED <<file, cap, cost, doc, overwritten>>

Step(j) ==
    \/ Pay(j)  \/ EndRuns(j)  \/ SkipRecord(j) \/ Acquire(j)
    \/ Load(j) \/ Truncate(j) \/ Fill(j) \/ SaveFails(j)

Next ==
    \/ \E j \in Jobs : Start(j) \/ Step(j)
    \/ \E p \in Procs : Kill(p)

\* A thread that can go on does; whether a job is started or a process is
\* killed is up to the users.
Spec == Init /\ [][Next]_vars /\ \A j \in Jobs : WF_vars(Step(j))
-----------------------------------------------------------------------------
CostOf(S) == SumFunctionOnSet(cost, S)

\* Jobs that are recorded but whose entry is gone.
Lost == Recorded \ file.entries

\* The ledger's total is the sum of its entries, and an entry disappears only
\* when another process rewrote the file: threads of one process never
\* overwrite each other's entry (spend.py:29-38).
EntriesSurvive ==
    file # Torn =>
        /\ file.total = CostOf(file.entries)
        /\ file.entries \subseteq Recorded
        /\ \A j \in Lost : \E k \in file.entries : ProcOf[k] # ProcOf[j]

HighestTotal == Max({TotalCap[p] : p \in Procs})

Price == [j \in Jobs |-> RunsOf(j) * (PerRunCap[j] + Overshoot)]

\* How far the total budget holds until an entry is written over: the last job to
\* start fits under what it saw was left, but the others under way with it are
\* not in the ledger yet.  Jobs that return pay no more than the highest total
\* any process has (lowering it on the settings page binds no command), that
\* job's overshoot and the full price of the others (app.py:445-463,
\* cli.py:91-115, 174-192).
TotalBound ==
    overwritten = {} =>
        \E j \in Jobs, others \in SUBSET Jobs :
            /\ j \notin others /\ Cardinality(others) < MaxConcurrent
            /\ CostOf({k \in Jobs : pc[k] \notin {"failed", "killed"}}) <=
                   HighestTotal + RunsOf(j) * Overshoot
                            + SumFunctionOnSet(Price, others)

\* Every job that starts ends: an unreadable ledger or a killed process leaves
\* nobody waiting for the lock (spend.py:32).
JobsEnd == \A j \in Jobs : pc[j] = "running" ~> pc[j] \in Ended

\* "a total budget holds across runs, evaluations, and the web UI" (spend.py:2).
TotalBudgetHolds ==
    CostOf({j \in Jobs : pc[j] = "done"}) <= HighestTotal
=============================================================================
