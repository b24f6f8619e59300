------------------------------ MODULE History ------------------------------
(***************************************************************************)
(* The sample history: history/store.py and the collectors of              *)
(* history/collect.py that append to it, run by cron and by hand as        *)
(* processes of their own on one SQLite file.                              *)
(*                                                                         *)
(* A step of a collector is one committed statement, with what it reads    *)
(* from the cloud before it.  Time is counted in ticks.  One metric is     *)
(* kept, and of a sample where it came from: its value is not needed.      *)
(* The clouds are external: what a topology call names, and at which       *)
(* times a metrics call has points, are taken from the importers.          *)
(***************************************************************************)
EXTENDS Integers, FiniteSets, Sequences, SequencesExt, FiniteSetsExt

CONSTANTS
    Collectors,        \* processes that may collect at the same time
    Nodes,             \* the instances, as numbers in the order of their names
    Clouds,            \* the clouds the cluster may be in
    Topologies,        \* what the cluster looks like at first
    Windows,           \* values of --hours, in ticks
    Periods,           \* values of --period
    MaxTime, MaxCollections, MaxChanges,   \* bounds of the exploration
    NoSalt

ASSUME CloudsAssumption  == Clouds \subseteq {"aurora", "rds", "gcp", "azure"}
ASSUME NodesAssumption   == Nodes \subseteq Nat /\ Nodes # {} /\ IsFiniteSet(Nodes)
ASSUME TopologiesAssumption ==
    /\ Topologies \subseteq [writer : Nodes, readers : SUBSET Nodes]
    /\ \A t \in Topologies : t.writer \notin t.readers
ASSUME PeriodsAssumption == Periods \subseteq Nat \ {0} /\ Windows \subseteq Nat \ {0}
ASSUME BoundsAssumption  ==
    /\ MaxTime \in Nat /\ MaxCollections \in Nat /\ MaxChanges \in Nat
    /\ IsFiniteSet(Collectors) /\ NoSalt \notin Collectors

VARIABLES
    clock,
    cloud,
    topology,      \* external: which node writes and which only read
    changes,       \* history: how often the topology has changed, and if it failed over
    salt,          \* meta.key_salt: who generated it
    clusters,      \* keys of the clusters table
    nodes,         \* (cluster_key, role) of the nodes table
    samples,       \* the samples table
    collections,   \* the collections table
    job,           \* what each collector is at
    begun          \* history: collections begun, each known by its number

storeVars == <<salt, clusters, nodes, samples, collections>>
vars == <<clock, cloud, topology, changes, storeVars, job, begun>>

Idle == [pc |-> "idle"]
-----------------------------------------------------------------------------
(***************************************************************************)
(* What the clouds answer.                                                 *)
(***************************************************************************)
\* read_topology for one instance: an RDS replica is a cluster to itself,
\* elsewhere a replica leads to the node it follows.
TopologyOf(asked) ==
    IF cloud = "rds" /\ asked # topology.writer
    THEN [writer |-> asked, readers |-> {}]
    ELSE topology

\* Writer first, readers by name: the roles writer, reader-1, reader-2, ...
InOrder(t) ==
    [role \in 1..(1 + Cardinality(t.readers)) |->
        IF role = 1 THEN t.writer
        ELSE CHOOSE n \in t.readers : Cardinality({m \in t.readers : m < n}) = role - 2]

\* Mutant: an instance is named by itself alone.
IdentifiersOfAskedOnly(asked, t) == [n \in Nodes |-> IF n = asked THEN 1 ELSE 0]

\* How often each name is among the identifiers.  For a member of an Aurora
\* cluster the instance asked for comes first, then all members.
Identifiers(asked, t) ==
    [n \in Nodes |-> (IF n \in {t.writer} \cup t.readers THEN 1 ELSE 0)
                     + (IF cloud = "aurora" /\ n = asked THEN 1 ELSE 0)]

\* Times of the points a window holds: Cloud Monitoring stamps the end of a
\* period and aligns to the end of the window, the others stamp its start on a
\* fixed grid.
PointTimes(from, until, period) ==
    IF cloud = "gcp"
    THEN {ts \in (from + 1)..until : (until - ts) % period = 0}
    ELSE {ts \in from..(until - 1) : ts % period = 0}
-----------------------------------------------------------------------------
(***************************************************************************)
(* Reading the store.                                                      *)
(***************************************************************************)
Series(key, role) == {s \in samples : s.key = key /\ s.role = role}
-----------------------------------------------------------------------------
(***************************************************************************)
(* Collecting.                                                             *)
(***************************************************************************)
Init ==
    /\ clock = 0
    /\ begun = 0
    /\ changes = [count |-> 0, failover |-> FALSE]
    /\ cloud \in Clouds
    /\ topology \in Topologies
    /\ salt = NoSalt
    /\ clusters = {} /\ nodes = {} /\ samples = {} /\ collections = <<>>
    /\ job = [c \in Collectors |-> Idle]

\* The collector takes the time and reads the topology.
Begin(c) ==
    /\ job[c].pc = "idle"
    /\ begun < MaxCollections
    /\ begun' = begun + 1
    /\ \E asked \in {topology.writer} \cup topology.readers, window \in Windows,
          period \in Periods :
           LET t == TopologyOf(asked)
           IN  job' = [job EXCEPT ![c] =
                   [pc |-> "key", id |-> begun', at |-> clock, window |-> window, period |-> period,
                    order |-> InOrder(t), names |-> Identifiers(asked, t), key |-> <<>>,
                    role |-> 1, got |-> {}, seen |-> 0, written |-> 0, note |-> FALSE]]
    /\ UNCHANGED <<clock, cloud, topology, changes, storeVars>>

Go(c, pc) == job' = [job EXCEPT ![c].pc = pc]

KeyFor(c, by) == job' = [job EXCEPT ![c].pc = "cluster", ![c].key = <<by, job[c].names>>]

\* _salt(): there is one ...
ReadSalt(c) ==
    /\ job[c].pc = "key"
    /\ IF salt = NoSalt THEN Go(c, "salt") ELSE KeyFor(c, salt)
    /\ UNCHANGED <<clock, cloud, topology, changes, storeVars, begun>>

\* ... or none was there, and it is generated.  If another process has been
\* faster the primary key makes the statement fail (Abort).
InsertSalt(c) ==
    /\ job[c].pc = "salt"
    /\ salt = NoSalt
    /\ salt' = c
    /\ KeyFor(c, c)
    /\ UNCHANGED <<clock, cloud, topology, changes, clusters, nodes, samples,
                   collections, begun>>

\* note_cluster
NoteCluster(c) ==
    /\ job[c].pc = "cluster"
    /\ clusters' = clusters \cup {job[c].key}
    /\ Go(c, "node")
    /\ UNCHANGED <<clock, cloud, topology, changes, salt, nodes, samples,
                   collections, begun>>

\* Mutant: the loop ends one node early.
ThroughTooEarly(j) == j.pc = "node" /\ (j.role >= Len(j.order) \/ j.note)

\* Every node has been read, or the loop was left.
Through(j) == j.pc = "node" /\ (j.role > Len(j.order) \/ j.note)

\* Mutant: the node is not noted before its metrics are read.
NoteNodeLater(c) ==
    /\ job[c].pc = "node" /\ ~Through(job[c])
    /\ nodes' = nodes \cup {<<job[c].key, r>> : r \in 1..(job[c].role - 1)}
    /\ Go(c, "samples")
    /\ UNCHANGED <<clock, cloud, topology, changes, salt, clusters, samples,
                   collections, begun>>

\* note_node
NoteNode(c) ==
    /\ job[c].pc = "node" /\ ~Through(job[c])
    /\ nodes' = nodes \cup {<<job[c].key, job[c].role>>}
    /\ Go(c, "samples")
    /\ UNCHANGED <<clock, cloud, topology, changes, salt, clusters, samples,
                   collections, begun>>

\* The points of the window for the node the collector is at.
Times(j) == PointTimes(j.at - j.window, j.at, j.period) \cap Nat

RowOf(j, ts) == [key |-> j.key, role |-> j.role, ts |-> ts, period |-> j.period,
                 node |-> j.order[j.role], by |-> j.id]

\* ON CONFLICT DO NOTHING: a point already held is left as it is.
Fresh(j) ==
    {RowOf(j, ts) : ts \in Times(j) \ {s.ts : s \in Series(j.key, j.role)}}

\* read_metrics and add_samples.
AddSamples(c) ==
    /\ job[c].pc = "samples"
    /\ LET j == job[c]
       IN  /\ samples' = samples \cup Fresh(j)
           /\ job' = [job EXCEPT ![c] = [j EXCEPT
                  !.pc = "node", !.role = @ + 1,
                  !.got = @ \cup {<<j.role, ts>> : ts \in Times(j)},
                  !.seen = @ + Cardinality(Times(j)),
                  !.written = @ + Cardinality(Fresh(j))]]
    /\ UNCHANGED <<clock, cloud, topology, changes, salt, clusters, nodes, collections,
                   begun>>

\* Azure Monitor answers an error: the rest is left out, with a note.
NoMetrics(c) ==
    /\ job[c].pc = "samples" /\ cloud = "azure"
    /\ job' = [job EXCEPT ![c].pc = "node", ![c].note = TRUE]
    /\ UNCHANGED <<clock, cloud, topology, changes, storeVars, begun>>

Row(j) == [id |-> j.id, key |-> j.key, at |-> j.at, got |-> j.got, roles |-> Len(j.order),
           done |-> j.role - 1, seen |-> j.seen, written |-> j.written, note |-> j.note]

\* Mutant: what was seen is recorded as written.
FinishWithSeen(c) ==
    /\ Through(job[c])
    /\ collections' = Append(collections, [Row(job[c]) EXCEPT !.written = job[c].seen])
    /\ job' = [job EXCEPT ![c] = Idle]
    /\ UNCHANGED <<clock, cloud, topology, changes, salt, clusters, nodes, samples, begun>>

\* _finish: record_collection
Finish(c) ==
    /\ Through(job[c])
    /\ collections' = Append(collections, Row(job[c]))
    /\ job' = [job EXCEPT ![c] = Idle]
    /\ UNCHANGED <<clock, cloud, topology, changes, salt, clusters, nodes, samples, begun>>

\* An exception leaves the collector (a cloud API error, the salt generated
\* twice, a database that stays locked), or the process is killed.
Abort(c) ==
    /\ job[c].pc # "idle"
    /\ job' = [job EXCEPT ![c] = Idle]
    /\ UNCHANGED <<clock, cloud, topology, changes, storeVars, begun>>

Tick ==
    /\ clock < MaxTime
    /\ clock' = clock + 1
    /\ UNCHANGED <<cloud, topology, changes, storeVars, job, begun>>

\* External: a reader is added or removed, or a failover makes one the writer
\* (a promoted RDS replica leaves its source instead).
ChangeTopology ==
    /\ changes.count < MaxChanges
    /\ LET w == topology.writer
           r == topology.readers
       IN  topology' \in
              {[writer |-> w, readers |-> r \cup {n}] : n \in Nodes \ (r \cup {w})}
              \cup {[writer |-> w, readers |-> r \ {n}] : n \in r}
              \cup {[writer |-> n, readers |-> (r \ {n}) \cup {w}] :
                        n \in IF cloud = "rds" THEN {} ELSE r}
    /\ changes' = [count    |-> changes.count + 1,
                   failover |-> changes.failover \/ topology'.writer # topology.writer]
    /\ UNCHANGED <<clock, cloud, storeVars, job, begun>>

Step(c) ==
    \/ Begin(c)      \/ ReadSalt(c)  \/ InsertSalt(c) \/ NoteCluster(c)
    \/ NoteNode(c)   \/ AddSamples(c) \/ NoMetrics(c) \/ Finish(c)
    \/ Abort(c)

Next == (\E c \in Collectors : Step(c)) \/ Tick \/ ChangeTopology

Spec == Init /\ [][Next]_vars
-----------------------------------------------------------------------------
Rows == Range(collections)
Keys == {s.key : s \in samples}

\* The collections table tells what each collection added, whatever other collectors
\* add at the same time and however the windows overlap: it is recorded to have written
\* as many samples as there are of its own, and those alone (store.py:183-210,
\* collect.py:39-42).
WrittenAccounted ==
    \A r \in Rows : r.written = Cardinality({s \in samples : s.by = r.id})

\* Nothing is stored where a later `history status` does not look, also when a
\* collector stops half way or first collections race for the salt: the cluster
\* and the node of every sample are noted first, and every key in the store was
\* made with the salt that is in it (collect.py:56-66, store.py:141-154, 214-227).
NothingHidden ==
    /\ \A k \in clusters \cup {s.key : s \in samples} \cup {r.key : r \in Rows} :
           k[1] = salt
    /\ \A s \in samples : <<s.key, s.role>> \in nodes
    /\ \A n \in nodes : n[1] \in clusters

\* "a quiet stretch can be told from a stretch nobody collected"
\* (docs/IMPORTS.md:118): a collection recorded without a note covers its window
\* for every node it found, and all that came back is held.
RecordedMeansHeld ==
    \A r \in Rows :
        /\ ~r.note => r.done = r.roles
        /\ \A g \in r.got : \E s \in samples : s.key = r.key /\ s.role = g[1] /\ s.ts = g[2]

\* The nodes of a history are not mixed up when readers come and go: while no
\* failover hands the roles on, one role of one key is one instance
\* (collect.py:55-62, aws_import.py:130-160).
OneNodePerRole ==
    ~changes.failover =>
        \A s, t \in samples : s.key = t.key /\ s.role = t.role => s.node = t.node

\* "the same cluster accumulates across collections" (history/store.py:20):
\* all that is collected from the one cluster there is has one key.
OneHistoryPerCluster == Cardinality(clusters) <= 1
=============================================================================
