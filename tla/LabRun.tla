-------------------------------- MODULE LabRun --------------------------------
(***************************************************************************)
(* Jobs that measure on a local database server: lab runs (run_lab of      *)
(* lab/runner.py, run_lab_postgres of lab/pg_runner.py, passes of          *)
(* run_lab_repeats) and experiments (diagnostics/experiments.py on a       *)
(* sandbox of diagnostics/sandbox.py).  A job drops and rebuilds the       *)
(* database it is given, then goes through stages: a lab phase, or the     *)
(* baseline and the candidates of an experiment.  A stage may create an    *)
(* index for its own duration.  Nothing excludes two jobs on one database: *)
(* web threads, the command line and tools of a review all start them, and *)
(* statement counters and the slow log are those of the server.            *)
(*                                                                         *)
(* Any statement may fail, and a process may die with its job (a budget of *)
(* MaxMishaps for both).  The load of a stage has two parts, so that       *)
(* others can step in between; what a phase does with its threads is       *)
(* LabPhase.  Latency and plans are left out: what counts here is under    *)
(* which indexes the measured statements ran, and whose were counted.  The *)
(* statements are those of the schedule: the updates of the batch job, of  *)
(* which one may reach into the next stage, are counted by themselves.     *)
(***************************************************************************)
EXTENDS Integers, Sequences, FiniteSets

CONSTANTS
    Jobs, Databases, Indexes,
    Labs,        \* the jobs that are lab runs; the others are experiments
    Percona,     \* the lab runs with --percona
    DatabaseOf,  \* LAB_DATABASE for lab runs, the sandbox of the settings else
    Plan,        \* per stage of a job: the index candidate, or None
    Passes,      \* run_lab_repeats: how often the plan is gone through
    MaxJobs,     \* how many of the jobs are started
    MaxMishaps,  \* how many of them meet a fault or die
    None

Parts == 2   \* of the load of one stage

ASSUME JobsAssumption ==
    /\ Percona \subseteq Labs /\ Labs \subseteq Jobs
    /\ None \notin Indexes \cup Jobs
    /\ DatabaseOf \in [Jobs -> Databases]
    /\ Plan \in [Jobs -> Seq(Indexes \cup {None})]
    /\ Passes \in [Jobs -> Nat \ {0}]
ASSUME BoundsAssumption == MaxJobs \in Nat /\ MaxMishaps \in Nat

VARIABLES
    engine,    \* "mysql" or "postgres"
    there,     \* the databases that exist
    built,     \* those whose tables fx.build has made
    maker,     \* who made each index of each database, or None: no index
    counted,   \* server: statements counted per job since the last reset
    slow,      \* server: the job whose slow log is being written, or None
    pc,        \* where each job is
    pass, stage,  \* of each job
    conn,      \* jobs whose sandbox connection is open
    created,   \* jobs whose stage has an index to drop
    raised,    \* jobs with an exception on its way through the finally blocks
    got,       \* what the stage of each job has measured so far
    reports,   \* what each job has reported, by stage, pass by pass
    mishaps,   \* how many faults and crashes there have been
    left,      \* history: which jobs met a fault where, or died
    company    \* history: jobs that shared the server with another job or its threads

base   == <<there, built, maker>>
server == <<counted, slow>>
locals == <<pass, stage, conn, created, raised, got>>
bounds == <<engine, mishaps, left>>
vars   == <<base, server, locals, bounds, pc, reports, company>>

Active(j) == pc[j] \notin {"idle", "done", "failed", "crashed"}
Nothing   == [part |-> 0, saw |-> {}, logged |-> 0, statements |-> [k \in Jobs |-> 0]]
NoIndex   == [i \in Indexes |-> None]

Init ==
    /\ engine \in {"mysql", "postgres"}
    /\ there = {} /\ built = {} /\ maker = [d \in Databases |-> NoIndex]
    /\ counted = [j \in Jobs |-> 0] /\ slow = None
    /\ pc = [j \in Jobs |-> "idle"]
    /\ pass = [j \in Jobs |-> 1] /\ stage = [j \in Jobs |-> 1]
    /\ conn = {} /\ created = {} /\ raised = {}
    /\ got = [j \in Jobs |-> Nothing]
    /\ reports = [j \in Jobs |-> <<>>]
    /\ mishaps = 0 /\ left = {} /\ company = {}

Go(j, where)    == pc' = [pc EXCEPT ![j] = where]
Raise(j, where) == Go(j, where) /\ raised' = raised \cup {j}

Base(j)   == DatabaseOf[j]
Want(j)   == Plan[j][stage[j]]
Logs(j)   == j \in Percona /\ pass[j] = 1   \* the tools run on the first pass only
Tables(j) == Base(j) \in there /\ Base(j) \in built
Works(j)  == j \in conn /\ Tables(j)        \* statements on the tables succeed
Present(j, i) == maker[Base(j)][i] # None
-----------------------------------------------------------------------------
(* Opening the sandbox. *)

\* A phase that raised leaves its threads at work (LabPhase).
Lingers(k) == k \in Labs /\ <<k, "load">> \in left

\* Someone starts a job; run_lab_postgres refuses --percona.
Start(j) ==
    /\ pc[j] = "idle"
    /\ Cardinality({k \in Jobs : pc[k] # "idle"}) < MaxJobs
    /\ j \in Percona => engine = "mysql"
    /\ Go(j, "drop")
    /\ company' = LET others == {k \in Jobs \ {j} : Active(k) \/ Lingers(k)} IN
                  IF others = {} THEN company ELSE company \cup others \cup {j}
    /\ UNCHANGED <<base, server, locals, bounds, reports>>

\* DROP DATABASE IF EXISTS; PostgreSQL's FORCE ends every session on it.
Drop(j) ==
    /\ pc[j] = "drop"
    /\ there' = there \ {Base(j)}
    /\ built' = built \ {Base(j)}
    /\ maker' = [maker EXCEPT ![Base(j)] = NoIndex]
    /\ conn' = IF engine = "mysql" THEN conn \cup {j}
               ELSE {k \in conn : DatabaseOf[k] # Base(j)}
    /\ Go(j, "create")
    /\ UNCHANGED <<server, pass, stage, created, raised, got, bounds, reports, company>>

\* CREATE DATABASE and USE, or connect: outside the try of the job, so that an
\* error (another job was faster) ends it at once.
Create(j) ==
    /\ pc[j] = "create"
    /\ \/ /\ Base(j) \in there
          /\ Raise(j, "failed")
          /\ conn' = conn \ {j}
          /\ UNCHANGED there
       \/ /\ Base(j) \notin there
          /\ there' = there \cup {Base(j)}
          /\ conn' = conn \cup {j}
          /\ Go(j, "build")
          /\ UNCHANGED raised
    /\ UNCHANGED <<built, maker, server, pass, stage, created, got, bounds, reports, company>>

\* fx.build: fails on a database that went away, or that another job has built.
Build(j) ==
    /\ pc[j] = "build"
    /\ LET can == j \in conn /\ Base(j) \in there \ built IN
       \/ can  /\ built' = built \cup {Base(j)} /\ Go(j, "stage") /\ UNCHANGED raised
       \/ ~can /\ Raise(j, "close") /\ UNCHANGED built
    /\ UNCHANGED <<there, maker, server, pass, stage, conn, created, got, bounds, reports, company>>
-----------------------------------------------------------------------------
(* One stage. *)

Measure(j) == IF j \in Labs THEN "reset" ELSE "load"

\* A stage without an index measures at once.
BeginPlain(j) ==
    /\ pc[j] = "stage"
    /\ stage[j] <= Len(Plan[j])
    /\ Want(j) = None
    /\ Go(j, Measure(j))
    /\ UNCHANGED <<base, server, locals, bounds, reports, company>>

\* CREATE INDEX fails when the table is gone or the index is there; an error
\* leaves `created` unset.
BeginIndexed(j) ==
    /\ pc[j] = "stage"
    /\ stage[j] <= Len(Plan[j])
    /\ Want(j) # None
    /\ LET can == Works(j) /\ ~Present(j, Want(j)) IN
       \/ can  /\ maker' = [maker EXCEPT ![Base(j)][Want(j)] = j]
               /\ Go(j, "analyze") /\ UNCHANGED raised
       \/ ~can /\ Raise(j, "close") /\ UNCHANGED maker
    /\ UNCHANGED <<there, built, server, pass, stage, conn, created, got, bounds, reports, company>>

\* ANALYZE TABLE and the size of the index, the rest of create_index.
Analyze(j) ==
    /\ pc[j] = "analyze"
    /\ \/ Works(j)  /\ created' = created \cup {j} /\ Go(j, Measure(j)) /\ UNCHANGED raised
       \/ ~Works(j) /\ Raise(j, "close") /\ UNCHANGED created
    /\ UNCHANGED <<base, server, pass, stage, conn, got, bounds, reports, company>>

\* Mutant: counters go on from the phase before.
CountedOn == counted

CountedAfterReset == [k \in Jobs |-> 0]

\* reset_digests or reset_statements, for the whole server, and the counters before.
Reset(j) ==
    /\ pc[j] = "reset"
    /\ \/ /\ j \in conn
          /\ counted' = CountedAfterReset
          /\ Go(j, IF Logs(j) THEN "enable" ELSE "load")
          /\ UNCHANGED raised
       \/ j \notin conn /\ Raise(j, "undo") /\ UNCHANGED counted
    /\ UNCHANGED <<base, slow, pass, stage, conn, created, got, bounds, reports, company>>

\* enable_slow_log: SET GLOBAL, with a file of this job and phase.
EnableLog(j) ==
    /\ pc[j] = "enable"
    /\ slow' = j
    /\ Go(j, "load")
    /\ UNCHANGED <<base, counted, locals, bounds, reports, company>>

AfterPart(j) ==
    IF got[j].part + 1 < Parts THEN "load"
    ELSE IF Logs(j) THEN "disable" ELSE IF j \in Labs THEN "collect" ELSE "undo"

\* A part of the load.  Workers of a lab have connections of their own, count a
\* call that fails and go on; the statement of an experiment raises.
Load(j) ==
    /\ pc[j] = "load"
    /\ \/ /\ Tables(j) /\ (j \in Labs \/ j \in conn)
          /\ got' = [got EXCEPT ![j].part = @ + 1,
                                ![j].saw = @ \cup {{i \in Indexes : Present(j, i)}},
                                ![j].logged = @ + (IF slow = j THEN 1 ELSE 0)]
          /\ counted' = [counted EXCEPT ![j] = IF @ < Parts THEN @ + 1 ELSE @]
          /\ Go(j, AfterPart(j))
          /\ UNCHANGED raised
       \/ /\ ~Tables(j) /\ j \in Labs
          /\ got' = [got EXCEPT ![j].part = @ + 1]
          /\ Go(j, AfterPart(j))
          /\ UNCHANGED <<counted, raised>>
       \/ /\ ~Works(j) /\ j \notin Labs
          /\ Raise(j, "undo")
          /\ UNCHANGED <<counted, got>>
    /\ UNCHANGED <<base, slow, pass, stage, conn, created, bounds, reports, company>>

\* Mutant: the log is left as it is.
LogKept == slow

LogAfterPhase == None

\* The finally around run_phase.
DisableLog(j) ==
    /\ pc[j] = "disable"
    /\ slow' = LogAfterPhase
    /\ Go(j, IF j \in raised THEN "undo" ELSE "collect")
    /\ UNCHANGED <<base, counted, locals, bounds, reports, company>>

\* Counters after, digest rows of this database, EXPLAIN ANALYZE on its tables.
Collect(j) ==
    /\ pc[j] = "collect"
    /\ \/ /\ Works(j)
          /\ got' = [got EXCEPT ![j].statements =
                       [k \in Jobs |-> IF DatabaseOf[k] = Base(j) THEN counted[k] ELSE 0]]
          /\ Go(j, "undo")
          /\ UNCHANGED raised
       \/ ~Works(j) /\ Raise(j, "undo") /\ UNCHANGED got
    /\ UNCHANGED <<base, server, pass, stage, conn, created, bounds, reports, company>>

\* Mutant: DROP INDEX IF EXISTS on every engine.
DropIndexIfExists(j) == j \in conn

\* DROP INDEX: MySQL's needs the index, PostgreSQL's has IF EXISTS.
DropIndexSucceeds(j) ==
    /\ j \in conn /\ Base(j) \in there
    /\ engine = "mysql" => Base(j) \in built /\ Present(j, Want(j))

\* Mutant: the index is dropped only after a stage that went well.
UndoneIfOk(j) == j \in created \ raised

Undone(j) == j \in created

Report(j) ==
    [pass |-> pass[j], stage |-> stage[j], saw |-> got[j].saw,
     statements |-> got[j].statements, logged |-> got[j].logged,
     dropped |-> IF j \in created THEN maker[Base(j)][Want(j)] ELSE None]

\* The finally of the stage: drop the index that was created.  Only then the
\* results of the stage are added, so an error here loses them.
Undo(j) ==
    /\ pc[j] = "undo"
    /\ LET fails == Undone(j) /\ ~DropIndexSucceeds(j) IN
       /\ maker' = IF Undone(j) /\ ~fails
                   THEN [maker EXCEPT ![Base(j)][Want(j)] = None] ELSE maker
       /\ \/ /\ j \notin raised /\ ~fails
             /\ reports' = [reports EXCEPT ![j] = Append(@, Report(j))]
             /\ stage' = [stage EXCEPT ![j] = @ + 1]
             /\ Go(j, "stage")
             /\ UNCHANGED raised
          \/ /\ j \in raised \/ fails
             /\ Raise(j, "close")
             /\ UNCHANGED <<reports, stage>>
    /\ created' = created \ {j}
    /\ got' = [got EXCEPT ![j] = Nothing]
    /\ UNCHANGED <<there, built, server, pass, conn, bounds, company>>
-----------------------------------------------------------------------------
(* The end of a pass, and of a job. *)

EndPass(j) ==
    /\ pc[j] = "stage"
    /\ stage[j] > Len(Plan[j])
    /\ Go(j, "close")
    /\ UNCHANGED <<base, server, locals, bounds, reports, company>>

\* sandbox.close(), then the next pass of run_lab_repeats, or write_evidence.
Close(j) ==
    /\ pc[j] = "close"
    /\ conn' = conn \ {j}
    /\ \/ /\ j \notin raised /\ pass[j] < Passes[j]
          /\ pass' = [pass EXCEPT ![j] = @ + 1]
          /\ stage' = [stage EXCEPT ![j] = 1]
          /\ Go(j, "drop")
       \/ /\ j \in raised \/ pass[j] >= Passes[j]
          /\ Go(j, IF j \in raised THEN "failed" ELSE "done")
          /\ UNCHANGED <<pass, stage>>
    /\ UNCHANGED <<base, server, created, raised, got, bounds, reports, company>>

Mishap(j, where) ==
    /\ mishaps < MaxMishaps
    /\ mishaps' = mishaps + 1
    /\ left' = left \cup {<<j, where>>}
    /\ UNCHANGED engine

\* A statement or a toolkit container fails.  In the constructor the job is
\* over; in create_index, and in dropping the index, the index stays; around
\* the slow log it may be on or off.  At the load of a lab run_phase raises.
Fault(j) ==
    /\ Mishap(j, pc[j])
    /\ \/ /\ pc[j] \in {"drop", "create"}
          /\ Raise(j, "failed")
          /\ conn' = conn \ {j}
          /\ UNCHANGED slow
       \/ /\ pc[j] \in {"build", "analyze"} \/ (pc[j] = "undo" /\ j \in created)
          /\ Raise(j, "close")
          /\ UNCHANGED <<slow, conn>>
       \/ /\ pc[j] \in {"reset", "collect"} \/ (pc[j] = "load" /\ ~Logs(j))
          /\ Raise(j, "undo")
          /\ UNCHANGED <<slow, conn>>
       \/ /\ pc[j] = "load" /\ Logs(j)
          /\ Raise(j, "disable")
          /\ UNCHANGED <<slow, conn>>
       \/ /\ pc[j] = "enable"
          /\ Raise(j, "undo")
          /\ slow' \in {slow, j}
          /\ UNCHANGED conn
       \/ /\ pc[j] = "disable"
          /\ Raise(j, "undo")
          /\ slow' \in {slow, LogAfterPhase}
          /\ UNCHANGED conn
    /\ UNCHANGED <<base, counted, pass, stage, created, got, reports, company>>

\* The process of a job ends, with this job only; its threads are daemons, no
\* finally block runs.
Crash(j) ==
    /\ Active(j)
    /\ Mishap(j, "crash")
    /\ Go(j, "crashed")
    /\ conn' = conn \ {j}
    /\ UNCHANGED <<base, server, pass, stage, created, raised, got, reports, company>>

Next ==
    \E j \in Jobs :
        \/ Start(j) \/ Drop(j) \/ Create(j) \/ Build(j)
        \/ BeginPlain(j) \/ BeginIndexed(j) \/ Analyze(j)
        \/ Reset(j) \/ EnableLog(j) \/ Load(j) \/ DisableLog(j) \/ Collect(j)
        \/ Undo(j) \/ EndPass(j) \/ Close(j)
        \/ Fault(j) \/ Crash(j)

Spec == Init /\ [][Next]_vars
-----------------------------------------------------------------------------
(* Properties. *)

\* A job that had the server to itself measured what it says: a stage ran
\* under its own index and no other, whatever earlier jobs left behind, its
\* counters hold its own statements and all of them, and with Percona the slow
\* log holds all of them ("index created only in its phase", runner.py:310).
AloneMeasuresItsOwn ==
    \A j \in Jobs \ company : \A n \in DOMAIN reports[j] :
        LET r == reports[j][n]
            want == Plan[j][r.stage]
        IN  /\ r.saw = {IF want = None THEN {} ELSE {want}}
            /\ j \in Labs => r.statements = [k \in Jobs |-> IF k = j THEN Parts ELSE 0]
            /\ (j \in Percona /\ r.pass = 1) => r.logged = Parts

\* A stage that lost its index to a job that rebuilt the database is not
\* reported: MySQL refuses to drop an index that is gone, PostgreSQL has ended
\* the session.  On MySQL the index dropped may be that of the other job; on
\* PostgreSQL it is the job's own.
LostIndexIsNoticed ==
    \A j \in Jobs : \A n \in DOMAIN reports[j] :
        LET r == reports[j][n] IN
        Plan[j][r.stage] # None =>
            /\ r.dropped # None
            /\ engine = "postgres" => r.dropped = j

LeftAt(j, places) == \E where \in places : <<j, where>> \in left

\* Outside the stage that needs it an index stays only if the job that made it
\* died, or failed inside create_index or in dropping it.  A failure anywhere
\* else, an interrupted phase or a database rebuilt by others leaves none.
IndexesAreTemporary ==
    \A d \in Databases, i \in Indexes :
        LET j == maker[d][i] IN
        j # None /\ ~LeftAt(j, {"analyze", "undo", "crash"}) =>
            /\ pc[j] \in {"analyze", "reset", "enable", "load", "disable", "collect", "undo"}
            /\ Want(j) = i

\* The slow log of the server is on only while a phase of its last user is
\* under way, or if that user died or failed while switching it.
LogIsTemporary ==
    slow # None =>
        \/ pc[slow] \in {"load", "disable"}
        \/ LeftAt(slow, {"enable", "disable", "crash"})
=============================================================================
