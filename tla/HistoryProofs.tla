--------------------------- MODULE HistoryProofs ---------------------------
(***************************************************************************)
(* The sample history for any collectors, instances, windows and periods,  *)
(* whatever the topology does and wherever a collector stops.              *)
(***************************************************************************)
EXTENDS History, FiniteSetTheorems, TLAPS

Shapes == [writer : Nodes, readers : SUBSET Nodes]
Orders == {InOrder(t) : t \in Shapes}
KeysThere == {<<>>} \cup (Collectors \X [Nodes -> Int])

AtWork ==
    [pc : {"key", "salt", "cluster", "node", "samples"}, id : Nat, at : Nat, window : Nat,
     period : Nat, order : Orders, names : [Nodes -> Int], key : KeysThere, role : Nat,
     got : SUBSET (Nat \X Nat), seen : Nat, written : Nat, note : BOOLEAN]

Types ==
    /\ clock \in Nat
    /\ topology \in Shapes /\ topology.writer \notin topology.readers
    /\ changes \in [count : Nat, failover : BOOLEAN]
    /\ begun \in Nat
    /\ salt \in Collectors \cup {NoSalt}
    /\ IsFiniteSet(samples)
    /\ job \in [Collectors -> AtWork \cup {Idle}]
    /\ collections \in Seq(Range(collections))

LEMMA OrdersAreSequences == \A o \in Orders : Len(o) \in Nat
<1> SUFFICES ASSUME NEW t \in Shapes PROVE Len(InOrder(t)) \in Nat
  BY DEF Orders
<1>1. Cardinality(t.readers) \in Nat
  BY NodesAssumption, FS_Subset, FS_CardinalityType DEF Shapes
<1> QED BY <1>1 DEF InOrder

\* The points of a window, and the new rows they make, are finitely many.
LEMMA FreshIsFinite ==
    ASSUME Types, NEW j \in AtWork
    PROVE  /\ IsFiniteSet(Times(j)) /\ Times(j) \subseteq Nat
           /\ IsFiniteSet(Fresh(j)) /\ Fresh(j) \cap samples = {}
<1>1. Times(j) \subseteq 0..j.at
  <2>1. j.at \in Nat /\ j.at - j.window \in Int
    BY DEF AtWork
  <2> DEFINE from == j.at - j.window
  <2>2. PointTimes(from, j.at, j.period) \subseteq from..j.at
    <3>1. (from + 1)..j.at \subseteq from..j.at /\ from..(j.at - 1) \subseteq from..j.at
      BY <2>1
    <3> QED BY <3>1 DEF PointTimes
  <2> QED BY <2>1, <2>2 DEF Times
<1>2. IsFiniteSet(Times(j))
  <2>1. IsFiniteSet(0..j.at)
    BY FS_Interval DEF AtWork
  <2> QED BY <1>1, <2>1, FS_Subset
<1> DEFINE new == Times(j) \ {s.ts : s \in Series(j.key, j.role)}
           f == [ts \in new |-> RowOf(j, ts)]
<1>3. IsFiniteSet(Fresh(j))
  <2>1. IsFiniteSet(new)
    BY <1>2, FS_Subset
  <2>2. f \in Surjection(new, Fresh(j))
    BY DEF Surjection, Fresh
  <2> HIDE DEF f, new
  <2> QED BY <2>1, <2>2, FS_Surjection
<1>4. Fresh(j) \cap samples = {}
  BY DEF Fresh, Series, RowOf
<1> QED BY <1>1, <1>2, <1>3, <1>4

\* A row more in the collections table.
LEMMA OneRowMore ==
    ASSUME collections \in Seq(Range(collections)), NEW row, collections' = Append(collections, row)
    PROVE  /\ Rows' = Rows \cup {row}
           /\ collections' \in Seq(Range(collections'))
<1>1. /\ DOMAIN collections' = DOMAIN collections \cup {Len(collections) + 1}
      /\ collections'[Len(collections) + 1] = row
      /\ \A i \in DOMAIN collections : collections'[i] = collections[i]
  OBVIOUS
<1>2. Rows' = Rows \cup {row}
  BY <1>1 DEF Rows, Range
<1>3. collections' \in Seq(Rows \cup {row})
  BY DEF Rows
<1> QED BY <1>2, <1>3 DEF Rows

\* An action of a collector touches its own job only.
LEMMA OthersKeep ==
    ASSUME Types, NEW c \in Collectors, Step(c)
    PROVE  /\ job' = [d \in Collectors |-> job'[d]]
           /\ \A d \in Collectors : d # c => job'[d] = job[d]
BY DEF Types, Step, Begin, ReadSalt, InsertSalt, NoteCluster, NoteNode, AddSamples,
       NoMetrics, Finish, Abort, Go, KeyFor

\* At most places only the place changes.
LEMMA JustGoes ==
    ASSUME Types, NEW c \in Collectors, NEW pc, job[c].pc # "idle", Go(c, pc)
    PROVE  job[c] \in AtWork /\ job'[c] = [job[c] EXCEPT !.pc = pc]
BY DEF Types, Go, Idle

\* A new job.
LEMMA BeginJob ==
    ASSUME Types, NEW c \in Collectors, Begin(c)
    PROVE  /\ job[c] = Idle /\ begun' = begun + 1 /\ job'[c].id = begun'
           /\ job'[c].pc = "key" /\ job'[c].role = 1 /\ job'[c].got = {} /\ job'[c].written = 0
           /\ \E asked \in {topology.writer} \cup topology.readers :
                  /\ job'[c].order = InOrder(TopologyOf(asked))
                  /\ job'[c].names = Identifiers(asked, TopologyOf(asked))
<1>1. PICK asked \in {topology.writer} \cup topology.readers, window \in Windows,
           period \in Periods :
         job' = [job EXCEPT ![c] =
             [pc |-> "key", id |-> begun', at |-> clock, window |-> window, period |-> period,
              order |-> InOrder(TopologyOf(asked)),
              names |-> Identifiers(asked, TopologyOf(asked)), key |-> <<>>,
              role |-> 1, got |-> {}, seen |-> 0, written |-> 0, note |-> FALSE]]
  BY DEF Begin
<1>2. job[c] = Idle /\ begun' = begun + 1
  BY DEF Begin, Types, AtWork
<1> QED BY <1>1, <1>2 DEF Types

\* A job that has been through one node more.
LEMMA GoesOn ==
    ASSUME NEW j \in AtWork, NEW role \in Nat, NEW got \in SUBSET (Nat \X Nat),
           NEW seen \in Nat, NEW written \in Nat
    PROVE  [j EXCEPT !.pc = "node", !.role = role, !.got = got,
                     !.seen = seen, !.written = written] \in AtWork
BY DEF AtWork

\* What the collector's job becomes.
LEMMA AtWorkStep ==
    ASSUME Types, NEW c \in Collectors, Step(c)
    PROVE  job'[c] \in AtWork \cup {Idle}
<1> DEFINE j == job[c]
<1>0. j \in AtWork \cup {Idle} /\ (j.pc # "idle" => j \in AtWork)
  BY DEF Types, Idle
<1>1. CASE Begin(c)
  <2>1. PICK asked \in {topology.writer} \cup topology.readers, window \in Windows,
             period \in Periods :
           job' = [job EXCEPT ![c] =
               [pc |-> "key", id |-> begun', at |-> clock, window |-> window, period |-> period,
                order |-> InOrder(TopologyOf(asked)),
                names |-> Identifiers(asked, TopologyOf(asked)), key |-> <<>>,
                role |-> 1, got |-> {}, seen |-> 0, written |-> 0, note |-> FALSE]]
    BY <1>1 DEF Begin
  <2>2. TopologyOf(asked) \in Shapes
    BY DEF Types, Shapes, TopologyOf
  <2>3. InOrder(TopologyOf(asked)) \in Orders
    BY <2>2 DEF Orders
  <2>4. Identifiers(asked, TopologyOf(asked)) \in [Nodes -> Int]
    BY DEF Identifiers
  <2>5. clock \in Nat /\ window \in Nat /\ period \in Nat /\ begun' \in Nat
    BY <1>1, PeriodsAssumption DEF Types, Begin
  <2> QED BY <2>1, <2>3, <2>4, <2>5 DEF Types, AtWork, KeysThere
<1>2. CASE \E by \in Collectors : j.pc # "idle" /\ KeyFor(c, by)
  <2>1. PICK by \in Collectors : j.pc # "idle" /\ KeyFor(c, by)
    BY <1>2
  <2>2. <<by, j.names>> \in KeysThere
    BY <1>0, <2>1 DEF AtWork, KeysThere
  <2>3. job'[c] = [j EXCEPT !.pc = "cluster", !.key = <<by, j.names>>]
    BY <2>1 DEF KeyFor, Types
  <2> QED BY <1>0, <2>1, <2>2, <2>3 DEF AtWork
<1>3. CASE j.pc # "idle" /\ \E pc \in {"salt", "node", "samples"} : Go(c, pc)
  <2>1. PICK pc \in {"salt", "node", "samples"} : Go(c, pc)
    BY <1>3
  <2>2. j \in AtWork /\ job'[c] = [j EXCEPT !.pc = pc]
    BY <1>0, <1>3, <2>1 DEF Go, Types
  <2> HIDE DEF j
  <2> QED BY <2>2 DEF AtWork
<1>4. CASE AddSamples(c)
  <2>1. job'[c] = [j EXCEPT !.pc = "node", !.role = @ + 1,
                            !.got = @ \cup {<<j.role, ts>> : ts \in Times(j)},
                            !.seen = @ + Cardinality(Times(j)),
                            !.written = @ + Cardinality(Fresh(j))]
    BY <1>4 DEF AddSamples, Types
  <2>2. Cardinality(Times(j)) \in Nat /\ Cardinality(Fresh(j)) \in Nat /\ Times(j) \subseteq Nat
    BY <1>0, <1>4, FreshIsFinite, FS_CardinalityType DEF AddSamples
  <2>3. j \in AtWork
    BY <1>0, <1>4 DEF AddSamples
  <2>4. {<<j.role, ts>> : ts \in Times(j)} \in SUBSET (Nat \X Nat)
    BY <2>2, <2>3 DEF AtWork
  <2> DEFINE role == j.role + 1
             got == j.got \cup {<<j.role, ts>> : ts \in Times(j)}
             seen == j.seen + Cardinality(Times(j))
             written == j.written + Cardinality(Fresh(j))
  <2>5. got \in SUBSET (Nat \X Nat) /\ seen \in Nat /\ written \in Nat /\ role \in Nat
    BY <2>2, <2>3, <2>4 DEF AtWork
  <2>6. job'[c] = [j EXCEPT !.pc = "node", !.role = role, !.got = got,
                            !.seen = seen, !.written = written]
    BY <2>1
  <2> HIDE DEF j, role, got, seen, written
  <2>7. [j EXCEPT !.pc = "node", !.role = role, !.got = got,
                  !.seen = seen, !.written = written] \in AtWork
    BY <2>3, <2>5, GoesOn
  <2> QED BY <2>6, <2>7
<1>5. CASE NoMetrics(c)
  BY <1>0, <1>5 DEF NoMetrics, Types, AtWork
<1>6. CASE Finish(c) \/ Abort(c)
  BY <1>6 DEF Finish, Abort, Types
<1> QED BY <1>1, <1>2, <1>3, <1>4, <1>5, <1>6
        DEF Step, ReadSalt, InsertSalt, NoteCluster, NoteNode, Types

LEMMA TypesInit == Init => Types
<1> SUFFICES ASSUME Init PROVE Types
  OBVIOUS
<1>1. topology \in Shapes /\ topology.writer \notin topology.readers
  BY TopologiesAssumption DEF Init, Shapes
<1>2. collections \in Seq(Range(collections)) /\ Rows = {}
  BY DEF Init, Rows, Range
<1>3. IsFiniteSet(samples)
  BY FS_EmptySet DEF Init
<1> QED BY <1>1, <1>2, <1>3 DEF Init, Types

LEMMA TypesStep == Types /\ [Next]_vars => Types'
<1> SUFFICES ASSUME Types, [Next]_vars PROVE Types'
  OBVIOUS
<1>1. CASE UNCHANGED vars
  BY <1>1 DEF vars, storeVars, Types, Rows
<1>2. CASE Tick
  BY <1>2 DEF Tick, storeVars, Types, Rows
<1>3. CASE ChangeTopology
  <2>1. topology' \in Shapes /\ topology'.writer \notin topology'.readers
    BY <1>3 DEF ChangeTopology, Types, Shapes
  <2>2. changes' \in [count : Nat, failover : BOOLEAN]
    BY <1>3 DEF ChangeTopology, Types
  <2> QED BY <1>3, <2>1, <2>2 DEF ChangeTopology, storeVars, Types, Rows
<1>4. ASSUME NEW c \in Collectors, Step(c) PROVE Types'
  <2>1. job' \in [Collectors -> AtWork \cup {Idle}]
    BY <1>4, OthersKeep, AtWorkStep DEF Types
  <2>2. job[c] \in AtWork \cup {Idle}
        /\ (job[c].pc # "idle" => job[c] \in AtWork)
    BY DEF Types, AtWork, Idle
  <2>3. UNCHANGED <<clock, topology, changes>>
    BY <1>4 DEF Step, Begin, ReadSalt, InsertSalt, NoteCluster, NoteNode, AddSamples,
                NoMetrics, Finish, Abort
  <2>4. begun' \in Nat
    BY <1>4 DEF Step, Begin, ReadSalt, InsertSalt, NoteCluster, NoteNode, AddSamples,
                      NoMetrics, Finish, Abort, Types, storeVars
  <2>5. salt' \in Collectors \cup {NoSalt}
    BY <1>4 DEF Step, Begin, ReadSalt, InsertSalt, NoteCluster, NoteNode, AddSamples,
                NoMetrics, Finish, Abort, Types, storeVars
  <2>6. IsFiniteSet(samples')
    <3>1. CASE AddSamples(c)
      BY <2>2, <3>1, FreshIsFinite, FS_Union DEF AddSamples, Types
    <3>2. CASE ~AddSamples(c)
      BY <1>4, <3>2 DEF Step, Begin, ReadSalt, InsertSalt, NoteCluster, NoteNode,
                        NoMetrics, Finish, Abort, Types, storeVars
    <3> QED BY <3>1, <3>2
  <2>7. collections' \in Seq(Range(collections'))
    <3>1. CASE Finish(c)
      BY <3>1, OneRowMore DEF Finish, Types
    <3>2. CASE ~Finish(c)
      BY <1>4, <3>2 DEF Step, Begin, ReadSalt, InsertSalt, NoteCluster, NoteNode,
                        AddSamples, NoMetrics, Abort, Types, storeVars, Rows
    <3> QED BY <3>1, <3>2
  <2> QED BY <2>1, <2>3, <2>4, <2>5, <2>6, <2>7 DEF Types
<1> QED BY <1>1, <1>2, <1>3, <1>4 DEF Next

\* Whatever the cloud, the cluster and the collectors, the store holds finitely
\* many rows of the shape the schema gives them, and a collector is idle or at
\* one of its statements (store.py:32-78, collect.py:50-70).
THEOREM TypesAlways == Spec => []Types
BY TypesInit, TypesStep, PTL DEF Spec
-----------------------------------------------------------------------------
(* What is stored can be found. *)

MadeKeys == clusters \cup {s.key : s \in samples} \cup {r.key : r \in Rows}

\* What a collector has noted, at each place it may be.
Located(j) ==
    /\ j.pc \in {"cluster", "node", "samples"} =>
           salt # NoSalt /\ j.key[1] = salt /\ j.key[2] = j.names
    /\ j.pc \in {"node", "samples"} => j.key \in clusters
    /\ j.pc = "samples" => <<j.key, j.role>> \in nodes

FoundInv ==
    /\ NothingHidden
    /\ MadeKeys # {} => salt # NoSalt
    /\ \A c \in Collectors : Located(job[c])

LEMMA FoundInit == Init => FoundInv
BY DEF Init, FoundInv, NothingHidden, MadeKeys, Located, Rows, Range, Idle

LEMMA FoundStep == Types /\ FoundInv /\ [Next]_vars => FoundInv'
<1> SUFFICES ASSUME Types, FoundInv, [Next]_vars PROVE FoundInv'
  OBVIOUS
<1>1. CASE UNCHANGED <<storeVars, job>>
  BY <1>1 DEF storeVars, FoundInv, NothingHidden, MadeKeys, Located, Rows
<1>2. ASSUME NEW c \in Collectors, Begin(c) \/ Abort(c) \/ NoMetrics(c) PROVE FoundInv'
  <2>1. UNCHANGED storeVars
    BY <1>2 DEF Begin, Abort, NoMetrics
  <2>2. Located(job[c])'
    <3>1. CASE Begin(c) \/ Abort(c)
      BY <3>1 DEF Begin, Abort, Types, Located, Idle
    <3>2. CASE NoMetrics(c)
      <4>1. job[c] \in AtWork /\ job[c].pc = "samples" /\ Located(job[c])
            /\ job'[c] = [job[c] EXCEPT !.pc = "node", !.note = TRUE]
        BY <3>2 DEF NoMetrics, Types, Idle, FoundInv
      <4>2. job'[c].pc = "node" /\ job'[c].key = job[c].key /\ job'[c].names = job[c].names
        BY <4>1 DEF AtWork
      <4> QED BY <2>1, <4>1, <4>2 DEF Located, storeVars
    <3> QED BY <1>2, <3>1, <3>2
  <2>3. \A d \in Collectors : d # c => Located(job[d])'
    BY <1>2, <2>1, OthersKeep DEF Step, Located, storeVars, FoundInv
  <2> QED BY <2>1, <2>2, <2>3 DEF storeVars, FoundInv, NothingHidden, MadeKeys, Rows
<1>3. ASSUME NEW c \in Collectors, ReadSalt(c) PROVE FoundInv'
  <2>1. UNCHANGED storeVars
    BY <1>3 DEF ReadSalt
  <2>2. Located(job[c])'
    <3>1. CASE salt = NoSalt
      <4>1. job[c].pc = "key" /\ Go(c, "salt")
        BY <1>3, <3>1 DEF ReadSalt
      <4>2. job[c] \in AtWork /\ job'[c] = [job[c] EXCEPT !.pc = "salt"]
        BY <4>1, JustGoes
      <4>3. job'[c].pc = "salt"
        BY <4>2 DEF AtWork
      <4> QED BY <4>3 DEF Located
    <3>2. CASE salt # NoSalt
      <4>1. job[c] \in AtWork
            /\ job'[c] = [job[c] EXCEPT !.pc = "cluster", !.key = <<salt, job[c].names>>]
        <5>1. job[c].pc = "key" /\ KeyFor(c, salt)
          BY <1>3, <3>2 DEF ReadSalt
        <5>2. job[c] \in AtWork
          BY <5>1 DEF Types, Idle
        <5> QED BY <5>1, <5>2 DEF KeyFor, Types
      <4>2. job'[c].pc = "cluster" /\ job'[c].key = <<salt, job[c].names>>
            /\ job'[c].names = job[c].names
        BY <4>1 DEF AtWork
      <4> QED BY <2>1, <3>2, <4>2 DEF Located, storeVars
    <3> QED BY <3>1, <3>2
  <2>3. \A d \in Collectors : d # c => Located(job[d])'
    BY <1>3, <2>1, OthersKeep DEF Step, Located, storeVars, FoundInv
  <2> QED BY <2>1, <2>2, <2>3 DEF storeVars, FoundInv, NothingHidden, MadeKeys, Rows
<1>4. ASSUME NEW c \in Collectors, InsertSalt(c) PROVE FoundInv'
  <2>1. /\ salt = NoSalt /\ salt' = c /\ c # NoSalt
        /\ UNCHANGED <<clusters, nodes, samples, collections>>
    BY <1>4, BoundsAssumption DEF InsertSalt
  <2>2. MadeKeys = {} /\ MadeKeys' = {}
    BY <2>1 DEF FoundInv, MadeKeys, Rows
  <2>3. Located(job[c])'
    BY <1>4, <2>1 DEF InsertSalt, KeyFor, Types, Located
  <2>4. \A d \in Collectors : d # c => Located(job[d])'
    BY <1>4, <2>1, OthersKeep DEF Step, Located, FoundInv
  <2>5. NothingHidden'
    BY <2>1, <2>2 DEF FoundInv, NothingHidden, MadeKeys, Rows
  <2> QED BY <2>1, <2>2, <2>3, <2>4, <2>5 DEF FoundInv
<1>5. ASSUME NEW c \in Collectors, NoteCluster(c) PROVE FoundInv'
  <2>1. /\ clusters' = clusters \cup {job[c].key}
        /\ UNCHANGED <<salt, nodes, samples, collections>>
        /\ salt # NoSalt /\ job[c].key[1] = salt /\ job[c].key[2] = job[c].names
    BY <1>5 DEF NoteCluster, FoundInv, Located
  <2>2. Located(job[c])'
    BY <1>5, <2>1 DEF NoteCluster, Go, Types, Located
  <2>3. \A d \in Collectors : d # c => Located(job[d])'
    BY <1>5, <2>1, OthersKeep DEF Step, Located, FoundInv
  <2> QED BY <2>1, <2>2, <2>3 DEF FoundInv, NothingHidden, MadeKeys, Rows
<1>6. ASSUME NEW c \in Collectors, NoteNode(c) PROVE FoundInv'
  <2>1. /\ nodes' = nodes \cup {<<job[c].key, job[c].role>>}
        /\ UNCHANGED <<salt, clusters, samples, collections>>
        /\ job[c].key \in clusters
    BY <1>6 DEF NoteNode, Through, FoundInv, Located
  <2>2. Located(job[c])'
    <3>1. job[c] \in AtWork /\ job[c].pc = "node" /\ Located(job[c])
          /\ job'[c] = [job[c] EXCEPT !.pc = "samples"]
      BY <1>6, JustGoes DEF NoteNode, FoundInv
    <3>2. job'[c].pc = "samples" /\ job'[c].key = job[c].key /\ job'[c].names = job[c].names
          /\ job'[c].role = job[c].role
      BY <3>1 DEF AtWork
    <3> QED BY <2>1, <3>1, <3>2 DEF Located
  <2>3. \A d \in Collectors : d # c => Located(job[d])'
    BY <1>6, <2>1, OthersKeep DEF Step, Located, FoundInv
  <2> QED BY <2>1, <2>2, <2>3 DEF FoundInv, NothingHidden, MadeKeys, Rows
<1>7. ASSUME NEW c \in Collectors, AddSamples(c) PROVE FoundInv'
  <2>1. /\ samples' = samples \cup Fresh(job[c])
        /\ UNCHANGED <<salt, clusters, nodes, collections>>
        /\ salt # NoSalt /\ job[c].key[1] = salt /\ <<job[c].key, job[c].role>> \in nodes
    BY <1>7 DEF AddSamples, FoundInv, Located
  <2>2. \A s \in Fresh(job[c]) : s.key = job[c].key /\ s.role = job[c].role
    BY DEF Fresh, RowOf
  <2>3. Located(job[c])'
    BY <1>7, <2>1 DEF AddSamples, Types, Located, FoundInv
  <2>4. \A d \in Collectors : d # c => Located(job[d])'
    BY <1>7, <2>1, OthersKeep DEF Step, Located, FoundInv
  <2> QED BY <2>1, <2>2, <2>3, <2>4 DEF FoundInv, NothingHidden, MadeKeys, Rows
<1>8. ASSUME NEW c \in Collectors, Finish(c) PROVE FoundInv'
  <2>1. /\ Rows' = Rows \cup {Row(job[c])}
        /\ UNCHANGED <<salt, clusters, nodes, samples>>
        /\ salt # NoSalt /\ Row(job[c]).key[1] = salt
    BY <1>8, OneRowMore DEF Finish, Through, Row, Types, FoundInv, Located
  <2>2. Located(job[c])'
    BY <1>8 DEF Finish, Types, Located, Idle
  <2>3. \A d \in Collectors : d # c => Located(job[d])'
    BY <1>8, <2>1, OthersKeep DEF Step, Located, FoundInv
  <2> QED BY <2>1, <2>2, <2>3 DEF FoundInv, NothingHidden, MadeKeys
<1> QED BY <1>1, <1>2, <1>3, <1>4, <1>5, <1>6, <1>7, <1>8
        DEF Next, Step, Tick, ChangeTopology, vars

\* Nothing is stored where a later `history status` does not look, whichever
\* collector stops where and whoever generates the salt first
\* (collect.py:56-66, store.py:141-154, 214-227).
THEOREM NothingIsHidden == Spec => []NothingHidden
<1>1. FoundInv => NothingHidden
  BY DEF FoundInv
<1> QED BY <1>1, FoundInit, FoundStep, TypesAlways, PTL DEF Spec
-----------------------------------------------------------------------------
(* Every sample is counted by the collection that stored it. *)

Own(id) == {s \in samples : s.by = id}

\* A collector under way has counted what it stored so far.
Counted(c) ==
    job[c].pc # "idle" =>
        /\ job[c].id \in 1..begun
        /\ job[c].written = Cardinality(Own(job[c].id))
        /\ \A r \in Rows : r.id # job[c].id

\* The numbers of the collections are theirs alone.
CountInv ==
    /\ WrittenAccounted
    /\ \A s \in samples : s.by \in 1..begun
    /\ \A r \in Rows : r.id \in 1..begun
    /\ \A c \in Collectors : Counted(c)
    /\ \A c, d \in Collectors :
           c # d /\ job[c].pc # "idle" /\ job[d].pc # "idle" => job[c].id # job[d].id

\* A job keeps its number, and its count changes only with the samples.
LEMMA CountStays ==
    ASSUME Types, NEW c \in Collectors, Step(c), ~Begin(c), job'[c].pc # "idle"
    PROVE  /\ job[c] \in AtWork /\ job[c].pc # "idle" /\ job'[c].id = job[c].id
           /\ \/ job'[c].written = job[c].written
              \/ /\ AddSamples(c)
                 /\ job'[c].written = job[c].written + Cardinality(Fresh(job[c]))
<1>1. job[c] \in AtWork \/ job[c] = Idle
  BY DEF Types
<1>2. CASE AddSamples(c)
  BY <1>1, <1>2 DEF AddSamples, Types, AtWork, Idle
<1>3. ASSUME NEW pc, job[c].pc # "idle", Go(c, pc)
      PROVE  job[c] \in AtWork /\ job'[c].id = job[c].id /\ job'[c].written = job[c].written
  <2>1. job[c] \in AtWork /\ job'[c] = [job[c] EXCEPT !.pc = pc]
    BY <1>3, JustGoes
  <2> QED BY <2>1 DEF AtWork
<1>4. ASSUME NEW by, job[c].pc # "idle", KeyFor(c, by)
      PROVE  job[c] \in AtWork /\ job'[c].id = job[c].id /\ job'[c].written = job[c].written
  BY <1>1, <1>4 DEF KeyFor, Types, AtWork, Idle
<1>5. CASE ReadSalt(c) \/ InsertSalt(c) \/ NoteCluster(c) \/ NoteNode(c)
  <2>1. job[c].pc # "idle"
    BY <1>5 DEF ReadSalt, InsertSalt, NoteCluster, NoteNode
  <2>2. \/ \E pc \in {"salt", "node", "samples"} : Go(c, pc)
        \/ \E by \in {c, salt} : KeyFor(c, by)
    BY <1>5 DEF ReadSalt, InsertSalt, NoteCluster, NoteNode
  <2> QED BY <1>3, <1>4, <2>1, <2>2
<1>6. CASE NoMetrics(c)
  <2>1. job[c] \in AtWork /\ job[c].pc = "samples"
        /\ job'[c] = [job[c] EXCEPT !.pc = "node", !.note = TRUE]
    BY <1>6 DEF NoMetrics, Types, Idle
  <2> QED BY <2>1 DEF AtWork
<1>7. CASE Finish(c) \/ Abort(c)
  BY <1>7 DEF Finish, Abort, Types, Idle
<1> QED BY <1>2, <1>5, <1>6, <1>7 DEF Step

LEMMA CountInit == Init => CountInv
BY DEF Init, CountInv, Counted, WrittenAccounted, Rows, Range, Idle

\* Steps that store nothing and record nothing.
LEMMA CountKept ==
    ASSUME Types, CountInv, NEW c \in Collectors, Step(c), UNCHANGED <<samples, collections>>
    PROVE  CountInv'
<1>1. \A d \in Collectors : d # c => job'[d] = job[d]
  BY OthersKeep
<1>2. Rows' = Rows /\ \A id : Own(id)' = Own(id)
  BY DEF Rows, Own
<1>3. begun \in Nat
  BY DEF Types
<1>4. CASE Begin(c)
  <2>1. begun' = begun + 1 /\ job'[c].id = begun + 1 /\ job'[c].written = 0
    BY <1>4, BeginJob
  <2>2. \A x \in 1..begun : x \in 1..begun' /\ x # begun + 1
    BY <1>3, <2>1
  <2>3. begun + 1 \in 1..begun'
    BY <1>3, <2>1
  <2>4. Own(begun + 1) = {}
    BY <2>2 DEF Own, CountInv
  <2>5. WrittenAccounted' /\ (\A s \in samples' : s.by \in 1..begun')
        /\ \A r \in Rows' : r.id \in 1..begun'
    BY <1>2, <2>2 DEF CountInv, WrittenAccounted, Own
  <2>6. Counted(c)'
    BY <1>2, <2>1, <2>2, <2>3, <2>4, FS_EmptySet DEF Counted, CountInv
  <2>7. \A d \in Collectors \ {c} : Counted(d)'
    BY <1>1, <1>2, <2>2 DEF Counted, CountInv
  <2>8. \A d, e \in Collectors :
            d # e /\ job'[d].pc # "idle" /\ job'[e].pc # "idle" => job'[d].id # job'[e].id
    BY <1>1, <2>1, <2>2 DEF CountInv, Counted
  <2> QED BY <2>5, <2>6, <2>7, <2>8 DEF CountInv
<1>5. CASE ~Begin(c)
  <2>1. begun' = begun
    BY <1>5 DEF Step, ReadSalt, InsertSalt, NoteCluster, NoteNode, AddSamples, NoMetrics,
                Finish, Abort
  <2>2. job'[c].pc # "idle" => /\ job[c].pc # "idle" /\ job'[c].id = job[c].id
                               /\ job'[c].written = job[c].written
    <3> SUFFICES ASSUME job'[c].pc # "idle"
                 PROVE  /\ job[c].pc # "idle" /\ job'[c].id = job[c].id
                        /\ job'[c].written = job[c].written
      OBVIOUS
    <3>1. /\ job[c] \in AtWork /\ job[c].pc # "idle" /\ job'[c].id = job[c].id
          /\ \/ job'[c].written = job[c].written
             \/ /\ AddSamples(c)
                /\ job'[c].written = job[c].written + Cardinality(Fresh(job[c]))
      BY <1>5, CountStays
    <3>2. AddSamples(c) => Cardinality(Fresh(job[c])) = 0
      <4> SUFFICES ASSUME AddSamples(c) PROVE Fresh(job[c]) = {}
        BY FS_EmptySet
      <4>1. Fresh(job[c]) \subseteq samples /\ Fresh(job[c]) \cap samples = {}
        BY <3>1, FreshIsFinite DEF AddSamples
      <4> QED BY <4>1
    <3>3. job[c].written + 0 = job[c].written
      BY <3>1 DEF AtWork
    <3> QED BY <3>1, <3>2, <3>3
  <2>3. WrittenAccounted' /\ (\A s \in samples' : s.by \in 1..begun')
        /\ \A r \in Rows' : r.id \in 1..begun'
    BY <1>2, <2>1 DEF CountInv, WrittenAccounted, Own
  <2>4. \A d \in Collectors : Counted(d)'
    BY <1>1, <1>2, <2>1, <2>2 DEF Counted, CountInv
  <2>5. \A d, e \in Collectors :
            d # e /\ job'[d].pc # "idle" /\ job'[e].pc # "idle" => job'[d].id # job'[e].id
    BY <1>1, <2>2 DEF CountInv
  <2> QED BY <2>3, <2>4, <2>5 DEF CountInv
<1> QED BY <1>4, <1>5

LEMMA CountStep == Types /\ CountInv /\ [Next]_vars => CountInv'
<1> SUFFICES ASSUME Types, CountInv, [Next]_vars PROVE CountInv'
  OBVIOUS
<1>1. CASE UNCHANGED <<storeVars, job, begun>>
  BY <1>1 DEF storeVars, CountInv, Counted, WrittenAccounted, Rows, Own
<1>2. ASSUME NEW c \in Collectors, AddSamples(c) PROVE CountInv'
  <2>0. PICK j \in AtWork : j = job[c]
    BY <1>2 DEF AddSamples, Types, Idle
  <2>1. /\ samples' = samples \cup Fresh(j) /\ Rows' = Rows /\ begun' = begun
        /\ job[c].pc # "idle" /\ job'[c].id = j.id
        /\ job'[c].written = j.written + Cardinality(Fresh(j))
    BY <1>2, <2>0 DEF AddSamples, Types, AtWork, Rows
  <2>2. \A d \in Collectors : d # c => job'[d] = job[d]
    BY <1>2, OthersKeep DEF Step
  <2>3. \A s \in Fresh(j) : s.by = j.id
    BY DEF Fresh, RowOf
  <2>4. Own(j.id)' = Own(j.id) \cup Fresh(j) /\ \A id : id # j.id => Own(id)' = Own(id)
    BY <2>1, <2>3 DEF Own
  <2>5. Cardinality(Own(j.id)') = Cardinality(Own(j.id)) + Cardinality(Fresh(j))
    <3>1. /\ IsFiniteSet(Own(j.id)) /\ IsFiniteSet(Fresh(j))
          /\ Own(j.id) \cap Fresh(j) = {}
      <4>1. IsFiniteSet(Own(j.id))
        BY FS_Subset DEF Types, Own
      <4> QED BY <4>1, FreshIsFinite DEF Own
    <3>2. /\ Cardinality(Own(j.id) \cup Fresh(j)) =
                 Cardinality(Own(j.id)) + Cardinality(Fresh(j)) - Cardinality({})
          /\ Cardinality(Own(j.id)) \in Nat /\ Cardinality(Fresh(j)) \in Nat
      BY <3>1, FS_Union, FS_CardinalityType
    <3> QED BY <2>4, <3>2, FS_EmptySet
  <2>6. /\ j.id \in 1..begun /\ j.written = Cardinality(Own(j.id))
        /\ \A r \in Rows : r.id # j.id
        /\ \A d \in Collectors \ {c} : job[d].pc # "idle" => job[d].id # j.id
    BY <2>0, <2>1 DEF CountInv, Counted
  <2>7. WrittenAccounted'
    BY <2>1, <2>4, <2>6 DEF CountInv, WrittenAccounted, Own
  <2>8. (\A s \in samples' : s.by \in 1..begun') /\ \A r \in Rows' : r.id \in 1..begun'
    BY <2>1, <2>3, <2>6 DEF CountInv
  <2>9. Counted(c)'
    BY <2>1, <2>5, <2>6 DEF Counted
  <2>10. \A d \in Collectors \ {c} : Counted(d)'
    BY <2>1, <2>2, <2>4, <2>6 DEF Counted, CountInv
  <2>11. \A d, e \in Collectors :
            d # e /\ job'[d].pc # "idle" /\ job'[e].pc # "idle" => job'[d].id # job'[e].id
    BY <2>0, <2>1, <2>2 DEF CountInv
  <2> QED BY <2>7, <2>8, <2>9, <2>10, <2>11 DEF CountInv
<1>3. ASSUME NEW c \in Collectors, Finish(c) PROVE CountInv'
  <2> DEFINE row == Row(job[c])
  <2>1. /\ Rows' = Rows \cup {row} /\ job'[c] = Idle
        /\ UNCHANGED <<samples, begun>> /\ job[c].pc # "idle"
    BY <1>3, OneRowMore DEF Finish, Through, Types
  <2>2. row.id = job[c].id /\ row.written = job[c].written
    BY DEF Row
  <2> HIDE DEF row
  <2>3. \A id : Own(id)' = Own(id)
    BY <2>1 DEF Own
  <2>4. \A d \in Collectors : d # c => job'[d] = job[d]
    BY <1>3, OthersKeep DEF Step
  <2>5. WrittenAccounted' /\ (\A s \in samples' : s.by \in 1..begun')
        /\ \A r \in Rows' : r.id \in 1..begun'
    <3>1. Counted(c)
      BY DEF CountInv
    <3>2. row.id \in 1..begun /\ row.written = Cardinality(Own(row.id))
      BY <2>1, <2>2, <3>1 DEF Counted
    <3>3. \A r \in Rows' : r.written = Cardinality(Own(r.id))
      BY <2>1, <3>2 DEF CountInv, WrittenAccounted, Own
    <3>4. WrittenAccounted'
      BY <2>1, <3>3 DEF WrittenAccounted, Own
    <3> QED BY <2>1, <3>2, <3>4 DEF CountInv
  <2>6. \A d \in Collectors : job'[d].pc # "idle" => d # c /\ job'[d] = job[d]
    BY <2>1, <2>4 DEF Idle
  <2>7. \A d \in Collectors : Counted(d)'
    BY <2>1, <2>2, <2>3, <2>6 DEF Counted, CountInv
  <2>8. \A d, e \in Collectors :
            d # e /\ job'[d].pc # "idle" /\ job'[e].pc # "idle" => job'[d].id # job'[e].id
    BY <2>6 DEF CountInv
  <2> QED BY <2>5, <2>7, <2>8 DEF CountInv
<1>4. ASSUME NEW c \in Collectors, Step(c), ~AddSamples(c), ~Finish(c) PROVE CountInv'
  <2>1. UNCHANGED <<samples, collections>>
    BY <1>4 DEF Step, Begin, ReadSalt, InsertSalt, NoteCluster, NoteNode, NoMetrics, Abort,
                storeVars
  <2> QED BY <1>4, <2>1, CountKept
<1> QED BY <1>1, <1>2, <1>3, <1>4 DEF Next, Tick, ChangeTopology, vars

\* However collections overlap, and wherever they stop, each that is recorded has
\* as many samples of its own in the store as it says (store.py:183-210).
THEOREM WrittenIsAccounted == Spec => []WrittenAccounted
<1>1. CountInv => WrittenAccounted
  BY DEF CountInv
<1> QED BY <1>1, CountInit, CountStep, TypesAlways, PTL DEF Spec
-----------------------------------------------------------------------------
(* What a collection says it held, it did. *)

Held(key, g) == \E s \in samples : s.key = key /\ s.role = g[1] /\ s.ts = g[2]

\* The nodes a collector has been through, and what it got.
Underway(j) ==
    j.pc # "idle" =>
        /\ j.role <= Len(j.order) + 1
        /\ j.pc = "samples" => j.role <= Len(j.order)
        /\ j.pc \in {"key", "salt"} => j.got = {}
        /\ \A g \in j.got : Held(j.key, g)

HeldInv == RecordedMeansHeld /\ \A c \in Collectors : Underway(job[c])

LEMMA HeldInit == Init => HeldInv
BY DEF Init, HeldInv, RecordedMeansHeld, Rows, Range, Underway, Idle

\* Samples are only added, so what was held is held.
LEMMA HeldStays ==
    ASSUME Types, HeldInv, samples \subseteq samples', NEW c \in Collectors, Step(c),
           Underway(job[c])', Rows' = Rows
    PROVE  HeldInv'
<1>1. \A key, g : Held(key, g) => Held(key, g)'
  BY DEF Held
<1>2. \A d \in Collectors : d # c => job'[d] = job[d]
  BY OthersKeep
<1>3. \A d \in Collectors : d # c => Underway(job[d])'
  BY <1>1, <1>2 DEF HeldInv, Underway, Held
<1> QED BY <1>1, <1>3 DEF HeldInv, RecordedMeansHeld, Held

LEMMA HeldStep == Types /\ HeldInv /\ [Next]_vars => HeldInv'
<1> SUFFICES ASSUME Types, HeldInv, [Next]_vars PROVE HeldInv'
  OBVIOUS
<1>1. CASE UNCHANGED <<storeVars, job>>
  BY <1>1 DEF storeVars, HeldInv, RecordedMeansHeld, Rows, Underway, Held
<1>2. ASSUME NEW c \in Collectors, Begin(c) PROVE HeldInv'
  <2>1. PICK asked \in {topology.writer} \cup topology.readers :
            job'[c].order = InOrder(TopologyOf(asked))
    BY <1>2, BeginJob
  <2>2. Len(job'[c].order) \in Nat
    <3>1. TopologyOf(asked) \in Shapes
      BY DEF Types, Shapes, TopologyOf
    <3> QED BY <2>1, <3>1, OrdersAreSequences DEF Orders
  <2>3. Underway(job[c])'
    BY <1>2, <2>2, BeginJob DEF Underway
  <2> QED BY <1>2, <2>3, HeldStays DEF Step, Begin, storeVars, Rows
<1>3. ASSUME NEW c \in Collectors, Abort(c) PROVE HeldInv'
  <2>1. Underway(job[c])'
    BY <1>3 DEF Abort, Types, Underway, Idle
  <2> QED BY <1>3, <2>1, HeldStays DEF Step, Abort, storeVars, Rows
<1>4. ASSUME NEW c \in Collectors, NEW pc \in {"salt", "node"}, job[c].pc \in {"key", "cluster"},
             Go(c, pc), Step(c), UNCHANGED <<samples, collections>>, pc = "salt" => job[c].pc = "key"
      PROVE  HeldInv'
  <2>1. job[c] \in AtWork /\ job'[c] = [job[c] EXCEPT !.pc = pc] /\ Underway(job[c])
    BY <1>4, JustGoes DEF HeldInv
  <2>2. /\ job'[c].pc = pc /\ job'[c].role = job[c].role /\ job'[c].order = job[c].order
        /\ job'[c].got = job[c].got /\ job'[c].key = job[c].key
    BY <2>1 DEF AtWork
  <2>3. Underway(job[c])'
    BY <1>4, <2>1, <2>2 DEF Underway, Held
  <2> QED BY <1>4, <2>3, HeldStays DEF Rows
<1>5. ASSUME NEW c \in Collectors, NEW by, job[c].pc \in {"key", "salt"}, KeyFor(c, by),
             Step(c), UNCHANGED <<samples, collections>>
      PROVE  HeldInv'
  <2>1. job[c] \in AtWork /\ Underway(job[c])
        /\ job'[c] = [job[c] EXCEPT !.pc = "cluster", !.key = <<by, job[c].names>>]
    BY <1>5 DEF KeyFor, Types, Idle, HeldInv
  <2>2. /\ job'[c].pc = "cluster" /\ job'[c].role = job[c].role
        /\ job'[c].order = job[c].order /\ job'[c].got = job[c].got
    BY <2>1 DEF AtWork
  <2>3. Underway(job[c])'
    BY <1>5, <2>1, <2>2 DEF Underway
  <2> QED BY <1>5, <2>3, HeldStays DEF Rows
<1>6. ASSUME NEW c \in Collectors, ReadSalt(c) \/ InsertSalt(c) \/ NoteCluster(c) PROVE HeldInv'
  BY <1>4, <1>5, <1>6 DEF ReadSalt, InsertSalt, NoteCluster, Step, storeVars
<1>7. ASSUME NEW c \in Collectors, NoteNode(c) PROVE HeldInv'
  <2>1. job[c] \in AtWork /\ job[c].pc = "node" /\ job'[c] = [job[c] EXCEPT !.pc = "samples"]
        /\ Underway(job[c])
    BY <1>7, JustGoes DEF NoteNode, HeldInv
  <2>2. /\ job'[c].pc = "samples" /\ job'[c].role = job[c].role
        /\ job'[c].order = job[c].order /\ job'[c].got = job[c].got /\ job'[c].key = job[c].key
    BY <2>1 DEF AtWork
  <2>3. job[c].role <= Len(job[c].order)
    <3>1. ~(job[c].role > Len(job[c].order))
      BY <1>7 DEF NoteNode, Through
    <3> QED BY <2>1, <3>1, OrdersAreSequences DEF AtWork
  <2>4. Underway(job[c])'
    BY <1>7, <2>1, <2>2, <2>3 DEF Underway, Held, NoteNode
  <2> QED BY <1>7, <2>4, HeldStays DEF Step, NoteNode, Rows
<1>8. ASSUME NEW c \in Collectors, NoMetrics(c) PROVE HeldInv'
  <2>1. job[c] \in AtWork /\ job[c].pc = "samples" /\ Underway(job[c])
        /\ job'[c] = [job[c] EXCEPT !.pc = "node", !.note = TRUE]
    BY <1>8 DEF NoMetrics, Types, Idle, HeldInv
  <2>2. /\ job'[c].pc = "node" /\ job'[c].role = job[c].role
        /\ job'[c].order = job[c].order /\ job'[c].got = job[c].got /\ job'[c].key = job[c].key
    BY <2>1 DEF AtWork
  <2>3. Underway(job[c])'
    BY <1>8, <2>1, <2>2 DEF Underway, Held, NoMetrics, storeVars
  <2> QED BY <1>8, <2>3, HeldStays DEF Step, NoMetrics, storeVars, Rows
<1>9. ASSUME NEW c \in Collectors, AddSamples(c) PROVE HeldInv'
  <2>0. PICK j \in AtWork : j = job[c]
    BY <1>9 DEF AddSamples, Types, Idle
  <2>1. j.pc = "samples" /\ Underway(j)
    BY <1>9, <2>0 DEF AddSamples, HeldInv
  <2>2. samples' = samples \cup Fresh(j)
    BY <1>9, <2>0 DEF AddSamples
  <2>3. /\ job'[c].pc = "node" /\ job'[c].role = j.role + 1
        /\ job'[c].order = j.order /\ job'[c].key = j.key
        /\ job'[c].got = j.got \cup {<<j.role, ts>> : ts \in Times(j)}
    BY <1>9, <2>0 DEF AddSamples, Types, AtWork
  <2>4. \A ts \in Times(j) : Held(j.key, <<j.role, ts>>)'
    <3> SUFFICES ASSUME NEW ts \in Times(j) PROVE Held(j.key, <<j.role, ts>>)'
      OBVIOUS
    <3>1. CASE ts \in {s.ts : s \in Series(j.key, j.role)}
      BY <2>2, <3>1 DEF Held, Series
    <3>2. CASE ts \notin {s.ts : s \in Series(j.key, j.role)}
      <4>1. RowOf(j, ts) \in samples'
        BY <2>2, <3>2 DEF Fresh
      <4> QED BY <4>1 DEF Held, RowOf
    <3> QED BY <3>1, <3>2
  <2>5. \A g \in j.got : Held(j.key, g)'
    BY <2>1, <2>2 DEF Underway, Held
  <2>6. j.role + 1 <= Len(j.order) + 1
    BY <2>1, OrdersAreSequences DEF Underway, AtWork
  <2>7. Underway(job[c])'
    BY <2>3, <2>4, <2>5, <2>6 DEF Underway, Held
  <2> QED BY <1>9, <2>2, <2>7, HeldStays DEF Step, AddSamples, Rows
<1>10. ASSUME NEW c \in Collectors, Finish(c) PROVE HeldInv'
  <2> DEFINE j == job[c]
  <2>1. j \in AtWork /\ Through(j) /\ Underway(j) /\ Rows' = Rows \cup {Row(j)}
        /\ samples' = samples /\ job'[c] = Idle
    BY <1>10, OneRowMore DEF Finish, Through, Types, Idle, HeldInv
  <2>2. ~j.note => j.role - 1 = Len(j.order)
    <3>1. Len(j.order) \in Nat /\ j.role \in Nat
      BY <2>1, OrdersAreSequences DEF AtWork
    <3> QED BY <2>1, <3>1 DEF Through, Underway
  <2>3. \A g \in j.got : Held(j.key, g)
    BY <2>1 DEF Underway, Through
  <2>4. RecordedMeansHeld'
    BY <2>1, <2>2, <2>3 DEF HeldInv, RecordedMeansHeld, Row, Held
  <2>5. \A d \in Collectors : d # c => job'[d] = job[d]
    BY <1>10, OthersKeep DEF Step
  <2>6. \A d \in Collectors : Underway(job[d])'
    BY <2>1, <2>5 DEF HeldInv, Underway, Held, Idle
  <2> QED BY <2>4, <2>6 DEF HeldInv
<1> QED BY <1>1, <1>2, <1>3, <1>6, <1>7, <1>8, <1>9, <1>10
        DEF Next, Step, Tick, ChangeTopology, vars

\* A recorded collection without a note went through every node, and all it got
\* is in the store (collect.py:39-42, store.py:203-210).
THEOREM RecordedIsHeld == Spec => []RecordedMeansHeld
<1>1. HeldInv => RecordedMeansHeld
  BY DEF HeldInv
<1> QED BY <1>1, HeldInit, HeldStep, TypesAlways, PTL DEF Spec
-----------------------------------------------------------------------------
(* Roles. *)

Named(names) == {n \in Nodes : names[n] > 0}

\* Until a failover the names in a key tell the writer: where the writer is not
\* among them, an RDS replica stands alone.
ShapeOf(names) ==
    LET writer == IF topology.writer \in Named(names) THEN topology.writer
                  ELSE CHOOSE n \in Named(names) : TRUE
    IN  [writer |-> writer, readers |-> Named(names) \ {writer}]

OrderInv ==
    ~changes.failover =>
        /\ \A s \in samples : s.node = InOrder(ShapeOf(s.key[2]))[s.role]
        /\ \A c \in Collectors :
               job[c].pc # "idle" => job[c].order = InOrder(ShapeOf(job[c].names))

LEMMA TopologyIsNamed ==
    ASSUME Types, NEW asked \in {topology.writer} \cup topology.readers
    PROVE  ShapeOf(Identifiers(asked, TopologyOf(asked))) = TopologyOf(asked)
<1> DEFINE t == TopologyOf(asked)
           names == Identifiers(asked, t)
<1>1. /\ t \in Shapes /\ t.writer \notin t.readers
      /\ t = [writer |-> t.writer, readers |-> t.readers]
      /\ asked \in {t.writer} \cup t.readers /\ asked \in Nodes
  BY DEF Types, Shapes, TopologyOf
<1>2. Named(names) = {t.writer} \cup t.readers
  <2>1. \A n \in Nodes : names[n] = (IF n \in {t.writer} \cup t.readers THEN 1 ELSE 0)
                                    + (IF cloud = "aurora" /\ n = asked THEN 1 ELSE 0)
    BY DEF Identifiers
  <2> HIDE DEF t, names
  <2>2. \A n \in Nodes : names[n] > 0 <=> n \in {t.writer} \cup t.readers
    BY <1>1, <2>1
  <2> QED BY <1>1, <2>2 DEF Named, Shapes
<1>3. t = topology \/ (topology.writer # asked /\ t.writer = asked /\ t.readers = {})
  BY DEF TopologyOf
<1> HIDE DEF t, names
<1>4. ShapeOf(names) = t
  <2>1. CASE t = topology
    BY <1>1, <1>2, <2>1 DEF ShapeOf
  <2>2. CASE topology.writer # asked /\ t.writer = asked /\ t.readers = {}
    <3>1. Named(names) = {asked}
      BY <1>2, <2>2
    <3>2. topology.writer \notin Named(names) /\ (CHOOSE n \in Named(names) : TRUE) = asked
      BY <2>2, <3>1
    <3> QED BY <1>1, <2>2, <3>1, <3>2 DEF ShapeOf
  <2> QED BY <1>3, <2>1, <2>2
<1> QED BY <1>4 DEF t, names

\* Only a new job brings an order and names of its own.
LEMMA OrderStays ==
    ASSUME Types, NEW c \in Collectors, Step(c), ~Begin(c), job'[c].pc # "idle"
    PROVE  /\ job[c].pc # "idle"
           /\ job'[c].order = job[c].order /\ job'[c].names = job[c].names
<1>1. job[c] \in AtWork \/ job[c] = Idle
  BY DEF Types
<1>2. ASSUME NEW pc, job[c].pc # "idle", Go(c, pc)
      PROVE  job'[c].order = job[c].order /\ job'[c].names = job[c].names
  <2>1. job[c] \in AtWork /\ job'[c] = [job[c] EXCEPT !.pc = pc]
    BY <1>2, JustGoes
  <2> QED BY <2>1 DEF AtWork
<1>3. ASSUME NEW by, job[c].pc # "idle", KeyFor(c, by)
      PROVE  job'[c].order = job[c].order /\ job'[c].names = job[c].names
  BY <1>1, <1>3 DEF KeyFor, Types, AtWork, Idle
<1>4. CASE ReadSalt(c) \/ InsertSalt(c) \/ NoteCluster(c) \/ NoteNode(c)
  <2>1. job[c].pc # "idle"
    BY <1>4 DEF ReadSalt, InsertSalt, NoteCluster, NoteNode
  <2>2. \/ \E pc \in {"salt", "node", "samples"} : Go(c, pc)
        \/ \E by \in {c, salt} : KeyFor(c, by)
    BY <1>4 DEF ReadSalt, InsertSalt, NoteCluster, NoteNode
  <2> QED BY <1>2, <1>3, <2>1, <2>2
<1>5. CASE NoMetrics(c)
  <2>1. job[c] \in AtWork /\ job'[c] = [job[c] EXCEPT !.pc = "node", !.note = TRUE]
    BY <1>5 DEF NoMetrics, Types, Idle
  <2> QED BY <2>1 DEF AtWork
<1>6. CASE AddSamples(c)
  BY <1>1, <1>6 DEF AddSamples, Types, AtWork, Idle
<1>7. CASE Finish(c) \/ Abort(c)
  BY <1>7 DEF Finish, Abort, Types, Idle
<1> QED BY <1>4, <1>5, <1>7, <1>6 DEF Step

LEMMA OrderInit == Init => OrderInv
<1> SUFFICES ASSUME Init PROVE OrderInv
  OBVIOUS
<1>1. samples = {} /\ \A c \in Collectors : job[c].pc = "idle"
  BY DEF Init, Idle
<1> QED BY <1>1 DEF OrderInv

LEMMA OrderStep == Types /\ FoundInv /\ OrderInv /\ [Next]_vars => OrderInv'
<1> SUFFICES ASSUME Types, FoundInv, OrderInv, [Next]_vars, ~changes'.failover PROVE OrderInv'
  BY DEF OrderInv
<1>1. CASE ~(\E c \in Collectors : Step(c))
  <2>1. UNCHANGED <<samples, job>> /\ ~changes.failover /\ topology'.writer = topology.writer
    <3>1. CASE ChangeTopology
      <4>1. ~changes.failover /\ topology'.writer = topology.writer
        <5>1. changes'.failover = (changes.failover \/ topology'.writer # topology.writer)
          BY <3>1 DEF ChangeTopology
        <5> QED BY <5>1
      <4> QED BY <3>1, <4>1 DEF ChangeTopology, storeVars
    <3>2. CASE Tick \/ UNCHANGED vars
      BY <3>2 DEF Tick, storeVars, vars
    <3> QED BY <1>1, <3>1, <3>2 DEF Next
  <2>2. \A names : ShapeOf(names)' = ShapeOf(names)
    BY <2>1 DEF ShapeOf
  <2> QED BY <2>1, <2>2 DEF OrderInv
<1>2. ASSUME NEW c \in Collectors, Step(c) PROVE OrderInv'
  <2>1. UNCHANGED <<topology, changes>>
    BY <1>2 DEF Step, Begin, ReadSalt, InsertSalt, NoteCluster, NoteNode, AddSamples,
                NoMetrics, Finish, Abort
  <2>2. \A names : ShapeOf(names)' = ShapeOf(names)
    BY <2>1 DEF ShapeOf
  <2>3. /\ \A s \in samples : s.node = InOrder(ShapeOf(s.key[2]))[s.role]
        /\ \A d \in Collectors :
               job[d].pc # "idle" => job[d].order = InOrder(ShapeOf(job[d].names))
    BY <2>1 DEF OrderInv
  <2>4. \A s \in samples' : s.node = InOrder(ShapeOf(s.key[2]))[s.role]
    <3>1. CASE AddSamples(c)
      <4>1. /\ samples' = samples \cup Fresh(job[c]) /\ job[c].key[2] = job[c].names
            /\ job[c].order = InOrder(ShapeOf(job[c].names))
        BY <2>3, <3>1 DEF AddSamples, FoundInv, Located
      <4>2. \A s \in Fresh(job[c]) : /\ s.key = job[c].key /\ s.role = job[c].role
                                     /\ s.node = job[c].order[job[c].role]
        BY DEF Fresh, RowOf
      <4> QED BY <2>3, <4>1, <4>2
    <3>2. CASE ~AddSamples(c)
      <4>1. samples' = samples
        BY <1>2, <3>2 DEF Step, Begin, ReadSalt, InsertSalt, NoteCluster, NoteNode,
                          NoMetrics, Finish, Abort, storeVars
      <4> QED BY <2>3, <4>1
    <3> QED BY <3>1, <3>2
  <2>5. ASSUME NEW d \in Collectors, job'[d].pc # "idle"
        PROVE  job'[d].order = InOrder(ShapeOf(job'[d].names))
    <3>1. CASE d # c
      BY <1>2, <2>3, <2>5, <3>1, OthersKeep
    <3>2. CASE d = c /\ Begin(c)
      <4>1. PICK asked \in {topology.writer} \cup topology.readers :
                /\ job'[c].order = InOrder(TopologyOf(asked))
                /\ job'[c].names = Identifiers(asked, TopologyOf(asked))
        BY <3>2, BeginJob
      <4> QED BY <3>2, <4>1, TopologyIsNamed
    <3>3. CASE d = c /\ ~Begin(c)
      BY <1>2, <2>3, <2>5, <3>3, OrderStays
    <3> QED BY <3>1, <3>2, <3>3
  <2> QED BY <2>2, <2>4, <2>5 DEF OrderInv
<1> QED BY <1>1, <1>2

\* As long as no failover hands the roles on, one role of one key is one
\* instance, however readers come and go and wherever the collection was asked
\* for (collect.py:55-62, aws_import.py:130-160).
THEOREM RolesAreNodes == Spec => []OneNodePerRole
<1>1. OrderInv => OneNodePerRole
  BY DEF OrderInv, OneNodePerRole
<1>2. Types /\ FoundInv /\ OrderInv /\ [Next]_vars => (Types /\ FoundInv /\ OrderInv)'
  BY TypesStep, FoundStep, OrderStep
<1> QED BY <1>1, <1>2, TypesInit, FoundInit, OrderInit, PTL DEF Spec
=============================================================================
