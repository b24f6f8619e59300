---------------------------- MODULE ReplayProofs ----------------------------
(***************************************************************************)
(* Replay for any requests, engines and measurements, and runs of any      *)
(* length: why an unaltered record verifies, and an altered one does not.  *)
(***************************************************************************)
EXTENDS Replay, FiniteSetTheorems, TLAPS

Effects == Experiments \X Engines

Results ==
    [request : Requests \cup {Forged}, effects : SUBSET Effects,
     on : Engines \cup {NoEngine}, sample : Samples \cup {Forged}]

Records ==
    [request : Requests, status : Statuses, item : Nat, digest : Results]

Parts == {"none", "digest", "status", "item", "data", "decision"}

Types ==
    /\ phase \in {"run", "saved", "replay", "done", "raised"}
    /\ engine \in Engines \cup {NoEngine}
    /\ phase \in {"run", "saved"} => engine \in Engines
    /\ env = [items |-> env.items, effects |-> env.effects, opened |-> env.opened]
    /\ env.effects \subseteq Effects
    /\ phase = "run" => \E m \in Nat : env.items = 1..m
    /\ records \in Seq(Records)
    /\ saved = [evidence |-> saved.evidence, decision |-> saved.decision, engine |-> saved.engine]
    /\ saved.decision = [effects |-> saved.decision.effects, open |-> saved.decision.open]
    /\ DOMAIN saved.evidence \subseteq Nat \ {0}
    /\ saved.engine \in Engines \cup {NoEngine}
    /\ next \in Nat \ {0} /\ next <= Len(records) + 1
    /\ report \in [mismatches : Nat, skipped : SUBSET Nat, decisionMatch : BOOLEAN]
    /\ history \in [asked : SUBSET Requests, part : Parts, call : Nat]

LEMMA KindsAreDistinct ==
    /\ Forecasts \cap Experiments = {}
    /\ Measurements \cap (Forecasts \cup Experiments \cup Plans) = {}
    /\ Forecasts \cap Plans = {} /\ Experiments \cap Plans = {}
    /\ \A r \in Failing \cup Denied : ~Runs(r)
    /\ \A r \in Answered : ~Runs(r) => r \in Failing \cup Denied
    /\ Analyses \cup Forecasts \cup Experiments \cup Plans \cup Measurements \subseteq Requests
<1>1. /\ DOMAIN Kinds = 1..7
      /\ Kinds[1] = Analyses /\ Kinds[2] = Forecasts /\ Kinds[3] = Experiments
      /\ Kinds[4] = Plans /\ Kinds[5] = Measurements /\ Kinds[6] = Failing /\ Kinds[7] = Denied
  BY DEF Kinds
<1>2. \A k, l \in 1..7 : k # l => Kinds[k] \cap Kinds[l] = {}
  BY <1>1, RequestsAssumption
<1>3. Answered =
          Analyses \cup Forecasts \cup Experiments \cup Plans \cup Measurements \cup Failing \cup Denied
  BY <1>1 DEF Answered
<1>4. /\ \A l \in {2, 3, 4} : Kinds[5] \cap Kinds[l] = {}
      /\ Kinds[2] \cap Kinds[3] = {} /\ Kinds[2] \cap Kinds[4] = {} /\ Kinds[3] \cap Kinds[4] = {}
      /\ \A k \in {6, 7}, l \in {1, 2, 3, 4, 5} : Kinds[k] \cap Kinds[l] = {}
  BY <1>2
<1>5. \A r \in Failing \cup Denied : ~Runs(r)
  BY <1>1, <1>4 DEF Runs
<1> QED BY <1>1, <1>3, <1>4, <1>5 DEF Runs, Requests

\* Evidence ids are handed out without gaps.
LEMMA NextIdCounts == \A m \in Nat : NextId(1..m) = m + 1
<1> SUFFICES ASSUME NEW m \in Nat PROVE NextId(1..m) = m + 1
  OBVIOUS
<1>1. Cardinality(1..m) = m
  BY FS_Interval
<1> DEFINE P(n) == n \notin 1..m /\ \A i \in (m + 1)..(n - 1) : i \in 1..m
<1>2. m + 1 \in (m + 1)..(2 * m + 1) /\ P(m + 1)
  OBVIOUS
<1>3. \A n \in (m + 1)..(2 * m + 1) : P(n) => n = m + 1
  <2> SUFFICES ASSUME NEW n \in (m + 1)..(2 * m + 1), P(n), n > m + 1 PROVE FALSE
    OBVIOUS
  <2>1. m + 1 \in (m + 1)..(n - 1)
    OBVIOUS
  <2> QED BY <2>1
<1>4. NextId(1..m) = CHOOSE n \in (m + 1)..(2 * m + 1) : P(n)
  BY <1>1 DEF NextId
<1> HIDE DEF P
<1> QED BY <1>2, <1>3, <1>4

LEMMA ExecuteIsRecord ==
    ASSUME NEW e, e.effects \subseteq Effects, NEW m \in Nat, e.items = 1..m,
           NEW request \in Requests, NEW on \in Engines, NEW sample \in Samples
    PROVE  Execute(e, request, on, sample) \in Records
<1>1. NextId(e.items) \in Nat
  BY NextIdCounts
<1>2. Result(request, e.effects, on, sample) \in Results
  BY DEF Result, Results
<1>3. NoResult \in Results
  BY DEF NoResult, Results
<1> QED BY <1>1, <1>2, <1>3 DEF Execute, Records, Statuses

LEMMA SkippedIsRecord ==
    ASSUME NEW request \in Requests
    PROVE  [request |-> request, status |-> "skipped", item |-> 0, digest |-> NoResult] \in Records
BY DEF Records, Results, NoResult, Statuses

LEMMA MalformedIsRecord == \A request \in Malformed : RefuseMalformed(request) \in Records
BY RequestsAssumption DEF RefuseMalformed, Records, Results, NoResult, Requests, Statuses

LEMMA EffectsAfter ==
    ASSUME NEW e, e.effects \subseteq Effects, NEW request, NEW on,
           request \in Experiments => on \in Engines
    PROVE  /\ EnvAfter(e, request, on) = [items   |-> EnvAfter(e, request, on).items,
                                          effects |-> EnvAfter(e, request, on).effects,
                                          opened  |-> EnvAfter(e, request, on).opened]
           /\ EnvAfter(e, request, on).effects \subseteq Effects
BY DEF EnvAfter, Effects

\* What a call adds to the records.
LEMMA CallAppends ==
    ASSUME Types, NEW request \in Requests, Call(request) \/ SkipCall(request)
    PROVE  \E r \in Records :
               /\ records' = Append(records, r)
               /\ \/ /\ r.status = "skipped" /\ r.item = 0 /\ r.digest = NoResult
                     /\ env' = env /\ history' = history
                  \/ /\ request \in Malformed /\ request \in history'.asked
                     /\ r.status = "error" /\ r.item = 0 /\ r.digest = NoResult /\ env' = env
                  \/ /\ request \notin Malformed
                     /\ env' = EnvAfter(env, request, engine)
                     /\ \E sample \in Samples : r = Execute(env, request, engine, sample)
<1>1. CASE SkipCall(request)
  BY <1>1, SkippedIsRecord DEF SkipCall
<1>2. CASE Call(request) /\ request \in Malformed
  <2>1. records' = Append(records, RefuseMalformed(request)) /\ env' = env
    BY <1>2 DEF Call
  <2>2. request \in history'.asked
    BY <1>2 DEF Call, Types
  <2> QED BY <1>2, <2>1, <2>2, MalformedIsRecord DEF RefuseMalformed
<1>3. CASE Call(request) /\ request \notin Malformed
  <2>1. PICK m \in Nat : env.items = 1..m
    BY <1>3 DEF Types, Call
  <2>2. PICK sample \in Samples :
            records' = Append(records, Execute(env, request, engine, sample))
    BY <1>3 DEF Call
  <2>3. Execute(env, request, engine, sample) \in Records
    BY <1>3, <2>1, ExecuteIsRecord DEF Types, Call
  <2>4. env' = EnvAfter(env, request, engine)
    BY <1>3 DEF Call
  <2> QED BY <1>3, <2>2, <2>3, <2>4
<1> QED BY <1>1, <1>2, <1>3

LEMMA TypesInit == Init => Types
<1> SUFFICES ASSUME Init PROVE Types
  OBVIOUS
<1>1. /\ \E m \in Nat : env.items = 1..m
      /\ env = [items |-> env.items, effects |-> env.effects, opened |-> env.opened]
      /\ env.effects \subseteq Effects
  <2>1. env.items = 1..0
    BY DEF Init, NoEnv
  <2> QED BY <2>1 DEF Init, NoEnv
<1>2. engine \in Engines /\ phase = "run" /\ records \in Seq(Records) /\ Len(records) = 0
  BY DEF Init
<1>3. /\ saved.engine = NoEngine /\ DOMAIN saved.evidence = {}
      /\ saved = [evidence |-> saved.evidence, decision |-> saved.decision, engine |-> saved.engine]
      /\ saved.decision = [effects |-> saved.decision.effects, open |-> saved.decision.open]
  BY DEF Init, Decision
<1>4. report \in [mismatches : Nat, skipped : SUBSET Nat, decisionMatch : BOOLEAN]
      /\ history \in [asked : SUBSET Requests, part : Parts, call : Nat] /\ next = 1
  BY DEF Init, Parts
<1> QED BY <1>1, <1>2, <1>3, <1>4 DEF Types

LEMMA CallStep ==
    ASSUME Types, NEW request \in Requests, Call(request) \/ SkipCall(request)
    PROVE  Types'
<1>1. PICK m \in Nat : env.items = 1..m
  BY DEF Types, Call, SkipCall
<1>2. PICK r \in Records : records' = Append(records, r)
  BY CallAppends
<1>3. env' = env \/ env' = EnvAfter(env, request, engine)
  BY DEF Call, SkipCall
<1>4. engine \in Engines /\ env.effects \subseteq Effects /\ records \in Seq(Records)
  BY DEF Types, Call, SkipCall
<1>5. records' \in Seq(Records) /\ Len(records') = Len(records) + 1
  BY <1>2, <1>4
<1>6. \E n \in Nat : env'.items = 1..n
  <2>1. EnvAfter(env, request, engine).items \in {1..m, (1..m) \cup {m + 1}}
    BY <1>1, NextIdCounts DEF EnvAfter
  <2>2. (1..m) \cup {m + 1} = 1..(m + 1) /\ m + 1 \in Nat
    OBVIOUS
  <2> QED BY <1>1, <1>3, <2>1, <2>2
<1>7. /\ env' = [items |-> env'.items, effects |-> env'.effects, opened |-> env'.opened]
      /\ env'.effects \subseteq Effects
  BY <1>3, <1>4, EffectsAfter DEF Types
<1>8. history' \in [asked : SUBSET Requests, part : Parts, call : Nat]
  BY DEF Call, SkipCall, Types
<1>9. next \in Nat \ {0} /\ next <= Len(records') + 1
  BY <1>4, <1>5 DEF Types
<1> QED BY <1>5, <1>6, <1>7, <1>8, <1>9 DEF Call, SkipCall, Types

\* What the alterations of a record have in common.
LEMMA AlterRecord ==
    ASSUME Types, NEW k \in DOMAIN records, AlterDigest(k) \/ AlterStatus(k) \/ AlterItem(k)
    PROVE  /\ phase = "saved" /\ history.part = "none"
           /\ history'.asked = history.asked /\ history'.call = k
           /\ history'.part = "digest" <=> AlterDigest(k)
           /\ history'.part = "status" <=> AlterStatus(k)
           /\ history'.part = "item" <=> AlterItem(k)
           /\ history'.part \in {"digest", "status", "item"}
           /\ UNCHANGED <<phase, engine, env, saved, next, report>>
           /\ k \in 1..Len(records) /\ k \in Nat \ {0}
           /\ records' \in Seq(Records)
           /\ Len(records') = Len(records) /\ DOMAIN records' = DOMAIN records
           /\ \A i \in DOMAIN records : i # k => records'[i] = records[i]
           /\ records'[k].request = records[k].request
           /\ AlterDigest(k) => /\ records'[k].status = "ok" /\ records[k].status = "ok"
                                /\ records'[k].item = records[k].item
                                /\ records'[k].digest = NoResult
           /\ AlterStatus(k) => records'[k].status # records[k].status
           /\ AlterItem(k)   => /\ records'[k].status = "ok" /\ records[k].status = "ok"
                                /\ records'[k].item # records[k].item
<1>1. /\ phase = "saved" /\ history.part = "none"
      /\ UNCHANGED <<phase, engine, env, saved, next, report>>
      /\ history'.asked = history.asked /\ history'.call = k
      /\ history'.part \in {"digest", "status", "item"}
  BY DEF AlterDigest, AlterStatus, AlterItem, Altered, Types
<1>2. /\ AlterDigest(k) => history'.part = "digest"
      /\ AlterStatus(k) => history'.part = "status"
      /\ AlterItem(k) => history'.part = "item"
  BY DEF AlterDigest, AlterStatus, AlterItem, Altered, Types
<1>3. k \in 1..Len(records) /\ records[k] \in Records /\ records \in Seq(Records)
      /\ DOMAIN records = 1..Len(records)
  BY DEF Types
<1>4. PICK r \in Records :
          /\ records' = [records EXCEPT ![k] = r]
          /\ r.request = records[k].request
          /\ AlterDigest(k) => /\ r.status = "ok" /\ records[k].status = "ok"
                               /\ r.item = records[k].item /\ r.digest = NoResult
          /\ AlterStatus(k) => r.status # records[k].status
          /\ AlterItem(k) => r.status = "ok" /\ records[k].status = "ok" /\ r.item # records[k].item
  <2>1. CASE AlterDigest(k)
    <3>1. records' = [records EXCEPT ![k] = [records[k] EXCEPT !.digest = NoResult]]
          /\ records[k].status = "ok"
      BY <2>1 DEF AlterDigest
    <3>2. NoResult \in Results
      BY DEF NoResult, Results
    <3>3. [records[k] EXCEPT !.digest = NoResult] \in Records
      BY <1>3, <3>2 DEF Records
    <3> QED BY <1>2, <1>3, <2>1, <3>1, <3>3 DEF Records
  <2>2. CASE AlterStatus(k)
    <3>1. PICK status \in Statuses \ {records[k].status} :
              records' = [records EXCEPT ![k] = [records[k] EXCEPT !.status = status]]
      BY <2>2 DEF AlterStatus
    <3>2. [records[k] EXCEPT !.status = status] \in Records
      BY <1>3, <3>1 DEF Records
    <3> QED BY <1>2, <1>3, <2>2, <3>1, <3>2 DEF Records
  <2>3. CASE AlterItem(k)
    <3>1. PICK item \in ({0} \cup DOMAIN saved.evidence) \ {records[k].item} :
              records' = [records EXCEPT ![k] = [records[k] EXCEPT !.item = item]]
      BY <2>3 DEF AlterItem
    <3>2. records[k].status = "ok"
      BY <2>3 DEF AlterItem
    <3>3. item \in Nat
      BY <3>1 DEF Types
    <3>4. [records[k] EXCEPT !.item = item] \in Records
      BY <1>3, <3>3 DEF Records
    <3> QED BY <1>2, <1>3, <2>3, <3>1, <3>2, <3>4 DEF Records
  <2> QED BY <2>1, <2>2, <2>3
<1>5. /\ records' \in Seq(Records) /\ Len(records') = Len(records)
      /\ DOMAIN records' = DOMAIN records /\ records'[k] = r
      /\ \A i \in DOMAIN records : i # k => records'[i] = records[i]
  BY <1>3, <1>4
<1> QED BY <1>1, <1>2, <1>3, <1>4, <1>5

LEMMA TypesStep == Types /\ [Next]_vars => Types'
<1> SUFFICES ASSUME Types, [Next]_vars PROVE Types'
  OBVIOUS
<1>1. CASE UNCHANGED vars
  BY <1>1 DEF vars, Types
<1>2. CASE Return
  <2>1. DOMAIN saved'.evidence \subseteq Nat \ {0}
    <3>1. \A k \in DOMAIN records : records[k].item \in Nat
      <4>1. records \in Seq(Records)
        BY DEF Types
      <4>2. \A k \in DOMAIN records : records[k] \in Records
        BY <4>1
      <4> QED BY <4>2 DEF Records
    <3> QED BY <1>2, <3>1 DEF Return, Stored
  <2>2. /\ saved' = [evidence |-> saved'.evidence, decision |-> saved'.decision,
                     engine |-> saved'.engine]
        /\ saved'.decision = [effects |-> saved'.decision.effects, open |-> saved'.decision.open]
        /\ saved'.engine \in Engines \cup {NoEngine}
    BY <1>2 DEF Return, Decision, Types
  <2> QED BY <1>2, <2>1, <2>2 DEF Return, Types
<1>3. ASSUME NEW k \in DOMAIN records, AlterDigest(k) \/ AlterStatus(k) \/ AlterItem(k)
      PROVE  Types'
  <2>1. history' \in [asked : SUBSET Requests, part : Parts, call : Nat]
    <3>1. history' = [history EXCEPT !.part = history'.part, !.call = k]
          /\ history'.part \in Parts /\ k \in Nat
      BY <1>3, AlterRecord DEF AlterDigest, AlterStatus, AlterItem, Altered, Types, Parts
    <3> QED BY <3>1 DEF Types
  <2> QED BY <1>3, <2>1, AlterRecord DEF Types
<1>4. ASSUME NEW k \in DOMAIN records, AlterData(k) PROVE Types'
  <2>1. history' \in [asked : SUBSET Requests, part : Parts, call : Nat]
    <3>1. k \in Nat /\ history' = [history EXCEPT !.part = "data", !.call = k]
      BY <1>4 DEF AlterData, Altered, Types
    <3> QED BY <3>1 DEF Types, Parts
  <2>2. saved' = [saved EXCEPT !.evidence[records[k].item] = NoResult]
    BY <1>4 DEF AlterData
  <2>3. /\ saved' = [evidence |-> saved'.evidence, decision |-> saved'.decision,
                     engine |-> saved'.engine]
        /\ saved'.decision = saved.decision /\ saved'.engine = saved.engine
        /\ DOMAIN saved'.evidence = DOMAIN saved.evidence
    BY <2>2 DEF Types
  <2> QED BY <1>4, <2>1, <2>3 DEF AlterData, Altered, Types
<1>5. CASE AlterDecision
  <2>1. history' \in [asked : SUBSET Requests, part : Parts, call : Nat]
    BY <1>5 DEF AlterDecision, Altered, Types, Parts
  <2>2. PICK effects : saved' = [saved EXCEPT !.decision.effects = effects]
    BY <1>5 DEF AlterDecision
  <2>3. /\ saved' = [evidence |-> saved'.evidence, decision |-> saved'.decision,
                     engine |-> saved'.engine]
        /\ saved'.decision = [effects |-> saved'.decision.effects, open |-> saved'.decision.open]
        /\ saved'.engine = saved.engine /\ saved'.evidence = saved.evidence
    BY <2>2 DEF Types
  <2> QED BY <1>5, <2>1, <2>3 DEF AlterDecision, Altered, Types
<1>6. CASE StartReplay
  <2>1. engine' \in Engines \cup {NoEngine}
    BY <1>6, EnginesAssumption DEF StartReplay, FactoryFor
  <2>2. /\ env' = [items |-> env'.items, effects |-> env'.effects, opened |-> env'.opened]
        /\ env'.effects \subseteq Effects
    BY <1>6 DEF StartReplay, NoEnv
  <2> QED BY <1>6, <2>1, <2>2 DEF StartReplay, Types
<1>7. CASE PassSkipped
  BY <1>7 DEF PassSkipped, InReplay, Types
<1>8. CASE ReuseRecorded
  <2>1. report' \in [mismatches : Nat, skipped : SUBSET Nat, decisionMatch : BOOLEAN]
    BY <1>8 DEF ReuseRecorded, Types
  <2>2. /\ env' = [items |-> env'.items, effects |-> env'.effects, opened |-> env'.opened]
        /\ env'.effects = env.effects
    BY <1>8 DEF ReuseRecorded, Types
  <2>3. phase' \in {"replay", "raised"} /\ next' \in Nat \ {0} /\ next' <= Len(records) + 1
    BY <1>8 DEF ReuseRecorded, InReplay, Types
  <2> QED BY <1>8, <2>1, <2>2, <2>3 DEF ReuseRecorded, Types
<1>9. CASE ReExecute
  <2>1. report' \in [mismatches : Nat, skipped : SUBSET Nat, decisionMatch : BOOLEAN]
    <3>1. report' = report \/ report' = [report EXCEPT !.mismatches = @ + 1]
      BY <1>9 DEF ReExecute
    <3> QED BY <3>1 DEF Types
  <2>2. records[next].request \in Experiments => engine \in Engines
    BY <1>9, RequestsAssumption DEF ReExecute, Reused, Types
  <2>3. /\ env' = [items |-> env'.items, effects |-> env'.effects, opened |-> env'.opened]
        /\ env'.effects \subseteq Effects
    BY <1>9, <2>2, EffectsAfter DEF ReExecute, Types
  <2> QED BY <1>9, <2>1, <2>3 DEF ReExecute, InReplay, Types
<1>10. CASE Rebuild
  BY <1>10 DEF Rebuild, Types
<1> QED BY <1>1, <1>2, <1>3, <1>4, <1>5, <1>6, <1>7, <1>8, <1>9, <1>10, CallStep DEF Next

LEMMA TypesAlways == Spec => []Types
BY TypesInit, TypesStep, PTL DEF Spec
-----------------------------------------------------------------------------
(* What the records of a run say of the run: the items and effects its        *)
(* environment held before each call.                                         *)

\* The calls among the first n that ran, and what they left in the environment.
Ran(rs, n)        == {k \in 1..n : rs[k].status = "ok"}
ItemsOf(rs, n)    == {rs[k].item : k \in Ran(rs, n)}
Effect(r, on)     == {<<request, on>> : request \in {r} \cap Experiments}
Entry(r)          == Effect(r.request, r.digest.on)
Registered(rs, n) == UNION {Entry(rs[k]) : k \in Ran(rs, n)}

\* What comes of a request, engine or not.
StatusOf(request) ==
    IF Runs(request) THEN "ok" ELSE IF request \in Denied THEN "denied" ELSE "error"

\* The item of record k is the next after those before it.
Numbered(rs, k) ==
    /\ rs[k].status = "ok" =>
           rs[k].item \in Nat \ {0} /\ ItemsOf(rs, k - 1) = 1..(rs[k].item - 1)
    /\ rs[k].status # "ok" => rs[k].item = 0

\* The records before the one whose item was altered.
Before(k) == history.part = "item" => k < history.call

\* What the records say, as far as they were not altered.
MadeInv ==
    /\ history.part # "status" =>
           /\ \A k \in DOMAIN records : records[k].status = "ok" => Runs(records[k].request)
           /\ history.asked \cap Malformed = {} =>
                  \A k \in DOMAIN records :
                      records[k].status \in {"skipped", StatusOf(records[k].request)}
           /\ \A k \in DOMAIN records : Before(k) =>
                  /\ Numbered(records, k)
                  /\ phase # "run" /\ records[k].status = "ok" =>
                         records[k].item \in DOMAIN saved.evidence
    /\ phase = "run" =>
           /\ history.part = "none"
           /\ env.items = ItemsOf(records, Len(records))
           /\ env.effects = Registered(records, Len(records))
    /\ phase # "run" /\ history.part \in {"none", "data"} =>
           saved.decision = Decision(Registered(records, Len(records)), records)
    /\ phase # "raised" => env.effects \subseteq Experiments \X {engine}

\* What the first n records say depends on them alone.
LEMMA SamePrefix ==
    ASSUME NEW rs, NEW rs2, NEW n \in Nat, \A k \in 1..n : rs2[k] = rs[k]
    PROVE  ItemsOf(rs2, n) = ItemsOf(rs, n) /\ Registered(rs2, n) = Registered(rs, n)
<1>1. Ran(rs2, n) = Ran(rs, n)
  BY DEF Ran
<1>2. \A k \in Ran(rs, n) : rs2[k] = rs[k]
  BY DEF Ran
<1> QED BY <1>1, <1>2 DEF ItemsOf, Registered

\* Nor do digests matter to the items.
LEMMA SameItems ==
    ASSUME NEW rs, NEW rs2, NEW n \in Nat,
           \A k \in 1..n : rs2[k].status = rs[k].status /\ rs2[k].item = rs[k].item
    PROVE  ItemsOf(rs2, n) = ItemsOf(rs, n)
<1>1. Ran(rs2, n) = Ran(rs, n)
  BY DEF Ran
<1>2. \A k \in Ran(rs, n) : rs2[k].item = rs[k].item
  BY DEF Ran
<1> QED BY <1>1, <1>2 DEF ItemsOf

\* What one more record adds.
LEMMA OneMoreRan ==
    ASSUME NEW rs, NEW n \in Nat
    PROVE  /\ rs[n + 1].status # "ok" =>
                  /\ ItemsOf(rs, n + 1) = ItemsOf(rs, n)
                  /\ Registered(rs, n + 1) = Registered(rs, n)
           /\ rs[n + 1].status = "ok" =>
                  /\ ItemsOf(rs, n + 1) = ItemsOf(rs, n) \cup {rs[n + 1].item}
                  /\ Registered(rs, n + 1) = Registered(rs, n) \cup Entry(rs[n + 1])
<1>1. 1..(n + 1) = (1..n) \cup {n + 1}
  OBVIOUS
<1>2. CASE rs[n + 1].status # "ok"
  <2>1. Ran(rs, n + 1) = Ran(rs, n)
    BY <1>1, <1>2 DEF Ran
  <2> QED BY <1>2, <2>1 DEF ItemsOf, Registered
<1>3. CASE rs[n + 1].status = "ok"
  <2>1. Ran(rs, n + 1) = Ran(rs, n) \cup {n + 1}
    BY <1>1, <1>3 DEF Ran
  <2>2. ItemsOf(rs, n + 1) = ItemsOf(rs, n) \cup {rs[n + 1].item}
    BY <2>1 DEF ItemsOf
  <2>3. Registered(rs, n + 1) = Registered(rs, n) \cup Entry(rs[n + 1])
    BY <2>1 DEF Registered
  <2> QED BY <1>3, <2>2, <2>3
<1> QED BY <1>2, <1>3

\* An environment on one engine keeps one effect of each experiment.
LEMMA EnvKeepsUp ==
    ASSUME NEW e, NEW on, e.effects \subseteq Experiments \X {on}, NEW request
    PROVE  /\ EnvAfter(e, request, on).effects = e.effects \cup Effect(request, on)
           /\ EnvAfter(e, request, on).effects \subseteq Experiments \X {on}
<1>1. \A f \in e.effects : f[1] = request => f = <<request, on>>
  OBVIOUS
<1>2. CASE request \in Experiments
  <2>1. {f \in e.effects : f[1] # request} \cup {<<request, on>>} =
            e.effects \cup {<<request, on>>}
    BY <1>1
  <2>2. Effect(request, on) = {<<request, on>>}
    BY <1>2 DEF Effect
  <2> QED BY <1>2, <2>1, <2>2 DEF EnvAfter
<1>3. CASE request \notin Experiments
  BY <1>3 DEF EnvAfter, Effect
<1> QED BY <1>2, <1>3

\* The record of a call names the effect it had.
LEMMA EntryIsEffect ==
    ASSUME NEW r, NEW on, r.request \in Experiments => r.digest.on = on
    PROVE  Entry(r) = Effect(r.request, on)
BY DEF Entry, Effect

\* An experiment's result names the engine.
LEMMA ResultOn ==
    \A request, effects, on, sample :
        /\ Result(request, effects, on, sample).request = request
        /\ request \in Experiments => Result(request, effects, on, sample).on = on
BY DEF Result

\* A call that ran leaves the items the record says.
LEMMA ItemsAgain ==
    ASSUME NEW rs, NEW k \in Nat \ {0}, NEW on, NEW e, Numbered(rs, k),
           e.items = ItemsOf(rs, k - 1), rs[k].status = "ok" <=> Runs(rs[k].request)
    PROVE  /\ EnvAfter(e, rs[k].request, on).items = ItemsOf(rs, k)
           /\ rs[k].status = "ok" => NextId(e.items) = rs[k].item
<1>1. PICK n \in Nat : k - 1 = n /\ k = n + 1
  OBVIOUS
<1>2. CASE rs[k].status = "ok"
  <2>1. /\ rs[k].item \in Nat \ {0} /\ e.items = 1..(rs[k].item - 1) /\ Runs(rs[k].request)
    BY <1>2 DEF Numbered
  <2>2. NextId(e.items) = rs[k].item
    <3>1. rs[k].item - 1 \in Nat /\ (rs[k].item - 1) + 1 = rs[k].item
      BY <2>1
    <3>2. NextId(1..(rs[k].item - 1)) = (rs[k].item - 1) + 1
      BY <3>1, NextIdCounts
    <3> QED BY <2>1, <3>1, <3>2
  <2>3. ItemsOf(rs, k) = ItemsOf(rs, k - 1) \cup {rs[k].item}
    BY <1>1, <1>2, OneMoreRan
  <2> QED BY <2>1, <2>2, <2>3 DEF EnvAfter
<1>3. CASE rs[k].status # "ok"
  <2>1. ItemsOf(rs, k) = ItemsOf(rs, k - 1)
    BY <1>1, <1>3, OneMoreRan
  <2> QED BY <1>3, <2>1 DEF EnvAfter
<1> QED BY <1>2, <1>3

LEMMA MadeInit == Init => MadeInv
<1> SUFFICES ASSUME Init PROVE MadeInv
  OBVIOUS
<1>1. /\ records = <<>> /\ Len(records) = 0 /\ DOMAIN records = {} /\ phase = "run"
      /\ env.items = {} /\ env.effects = {} /\ history.part = "none"
  BY DEF Init, NoEnv
<1>2. Ran(records, 0) = {}
  BY DEF Ran
<1>3. ItemsOf(records, 0) = {} /\ Registered(records, 0) = {}
  BY <1>2 DEF ItemsOf, Registered
<1> QED BY <1>1, <1>3 DEF MadeInv

\* Each call is recorded as made after the calls before it.
LEMMA MadeCall ==
    ASSUME Types, MadeInv, NEW request \in Requests, Call(request) \/ SkipCall(request)
    PROVE  MadeInv'
<1>1. /\ phase = "run" /\ phase' = "run" /\ engine' = engine /\ history'.part = history.part
      /\ history.part = "none" /\ records \in Seq(Records)
      /\ history.asked \subseteq history'.asked
  BY DEF Call, SkipCall, Types, MadeInv
<1>2. PICK r \in Records :
          /\ records' = Append(records, r)
          /\ \/ /\ r.status = "skipped" /\ r.item = 0 /\ r.digest = NoResult
                /\ env' = env /\ history' = history
             \/ /\ request \in Malformed /\ request \in history'.asked
                /\ r.status = "error" /\ r.item = 0 /\ r.digest = NoResult /\ env' = env
             \/ /\ request \notin Malformed
                /\ env' = EnvAfter(env, request, engine)
                /\ \E sample \in Samples : r = Execute(env, request, engine, sample)
  BY CallAppends
<1>3. PICK m \in Nat : env.items = 1..m
  BY <1>1 DEF Types
<1>4. PICK n \in Nat : n = Len(records)
  BY <1>1
<1>5. /\ Len(records') = n + 1 /\ records'[n + 1] = r
      /\ DOMAIN records' = 1..(n + 1) /\ DOMAIN records = 1..n
      /\ \A k \in 1..n : records'[k] = records[k]
      /\ (n + 1) - 1 = n
  BY <1>1, <1>2, <1>4
<1>6. \A k \in 0..n : ItemsOf(records', k) = ItemsOf(records, k)
                     /\ Registered(records', k) = Registered(records, k)
  <2> SUFFICES ASSUME NEW k \in 0..n
               PROVE  ItemsOf(records', k) = ItemsOf(records, k)
                      /\ Registered(records', k) = Registered(records, k)
    OBVIOUS
  <2>1. k \in Nat /\ \A i \in 1..k : records'[i] = records[i]
    BY <1>5
  <2> QED BY <2>1, SamePrefix
<1>7. env.items = ItemsOf(records', n) /\ env.effects = Registered(records', n)
      /\ env.effects \subseteq Experiments \X {engine}
  BY <1>1, <1>4, <1>6 DEF MadeInv
<1>8. /\ r.status = "ok" => Runs(r.request)
      /\ history'.asked \cap Malformed = {} => r.status \in {"skipped", StatusOf(r.request)}
      /\ Numbered(records', n + 1)
      /\ env'.items = ItemsOf(records', n + 1)
      /\ env'.effects = Registered(records', n + 1)
      /\ env'.effects \subseteq Experiments \X {engine}
  <2>1. CASE r.status # "ok" /\ env' = env /\ r.item = 0
    <3>1. ItemsOf(records', n + 1) = ItemsOf(records', n)
          /\ Registered(records', n + 1) = Registered(records', n)
      BY <1>5, <2>1, OneMoreRan
    <3>2. history'.asked \cap Malformed = {} => r.status \in {"skipped", StatusOf(r.request)}
      <4>1. ASSUME NEW sample \in Samples, r = Execute(env, request, engine, sample)
            PROVE  r.status = StatusOf(r.request)
        BY <4>1 DEF Execute, StatusOf
      <4> QED BY <1>2, <4>1
    <3> QED BY <1>5, <1>7, <2>1, <3>1, <3>2 DEF Numbered
  <2>2. CASE /\ env' = EnvAfter(env, request, engine)
             /\ \E sample \in Samples : r = Execute(env, request, engine, sample)
    <3>1. PICK sample \in Samples : r = Execute(env, request, engine, sample)
      BY <2>2
    <3>2. NextId(env.items) = m + 1
      BY <1>3, NextIdCounts
    <3>3. /\ r.request = request /\ r.status = StatusOf(r.request)
          /\ r.status = "ok" <=> Runs(r.request)
          /\ r.status = "ok" => r.item = m + 1 /\ r.digest = Result(request, env.effects, engine, sample)
          /\ r.status # "ok" => r.item = 0
      BY <3>1, <3>2 DEF Execute, StatusOf
    <3>4. Numbered(records', n + 1)
      <4>1. m + 1 \in Nat \ {0} /\ (m + 1) - 1 = m
        OBVIOUS
      <4> QED BY <1>3, <1>5, <1>7, <3>3, <4>1 DEF Numbered
    <3>5. env'.items = ItemsOf(records', n + 1)
      BY <1>5, <1>7, <2>2, <3>3, <3>4, ItemsAgain
    <3>6. request \in Experiments => r.status = "ok" /\ r.digest.on = engine
      BY <3>3, ResultOn DEF Runs
    <3>7. env'.effects = env.effects \cup Entry(r) /\ env'.effects \subseteq Experiments \X {engine}
      <4>1. Entry(r) = Effect(request, engine)
        BY <3>3, <3>6, EntryIsEffect
      <4>2. env.effects \subseteq Experiments \X {engine} /\ env' = EnvAfter(env, request, engine)
        BY <1>7, <2>2
      <4>3. /\ EnvAfter(env, request, engine).effects = env.effects \cup Effect(request, engine)
            /\ EnvAfter(env, request, engine).effects \subseteq Experiments \X {engine}
        BY <4>2, EnvKeepsUp
      <4> QED BY <4>1, <4>2, <4>3
    <3>8. r.status # "ok" => Entry(r) = {}
      BY <3>3, <3>6 DEF Entry, Effect
    <3>9. Registered(records', n + 1) = Registered(records', n) \cup Entry(r)
      BY <1>5, <3>8, OneMoreRan
    <3> QED BY <1>7, <3>3, <3>4, <3>5, <3>7, <3>9
  <2> QED BY <1>2, <2>1, <2>2
<1> DEFINE Made(k) ==
        /\ records'[k].status = "ok" => Runs(records'[k].request)
        /\ history'.asked \cap Malformed = {} =>
               records'[k].status \in {"skipped", StatusOf(records'[k].request)}
        /\ Numbered(records', k)
<1>9. \A k \in 1..n : Made(k)
  <2> SUFFICES ASSUME NEW k \in 1..n PROVE Made(k)
    OBVIOUS
  <2>1. /\ records'[k] = records[k] /\ k - 1 \in 0..n /\ k \in DOMAIN records
        /\ ItemsOf(records', k - 1) = ItemsOf(records, k - 1)
    BY <1>5, <1>6
  <2>2. /\ records[k].status = "ok" => Runs(records[k].request)
        /\ Numbered(records, k)
        /\ history.asked \cap Malformed = {} =>
                records[k].status \in {"skipped", StatusOf(records[k].request)}
    BY <1>1, <2>1 DEF MadeInv, Before
  <2> QED BY <1>1, <2>1, <2>2 DEF Numbered
<1>10. Made(n + 1)
  BY <1>5, <1>8
<1>11. \A k \in DOMAIN records' : Made(k)
  <2> HIDE DEF Made
  <2>1. \A k \in 1..(n + 1) : k \in 1..n \/ k = n + 1
    OBVIOUS
  <2> QED BY <1>5, <1>9, <1>10, <2>1
<1> QED BY <1>1, <1>5, <1>8, <1>11 DEF MadeInv

\* The file holds the result of each call that ran, and the decision its effects make.
LEMMA MadeReturn == Types /\ MadeInv /\ Return => MadeInv'
<1> SUFFICES ASSUME Types, MadeInv, Return PROVE MadeInv'
  OBVIOUS
<1>1. /\ phase = "run" /\ phase' = "saved" /\ history.part = "none"
      /\ UNCHANGED <<engine, env, records, history>>
      /\ saved'.evidence = Stored(records)
      /\ saved'.decision = Decision(env.effects, records)
  BY DEF Return, MadeInv
<1>2. \A k \in DOMAIN records :
          Before(k) /\ records[k].status = "ok" => records[k].item \in DOMAIN saved'.evidence
  <2> SUFFICES ASSUME NEW k \in DOMAIN records, Before(k), records[k].status = "ok"
               PROVE  records[k].item \in DOMAIN saved'.evidence
    OBVIOUS
  <2>1. records[k].item # 0
    BY <1>1 DEF MadeInv, Numbered
  <2> QED BY <1>1, <2>1 DEF Stored
<1> QED BY <1>1, <1>2 DEF MadeInv, Before

\* An altered digest or item leaves the rest of the records as they were.
LEMMA MadeAlter ==
    ASSUME Types, MadeInv, NEW k \in DOMAIN records,
           AlterDigest(k) \/ AlterStatus(k) \/ AlterItem(k)
    PROVE  MadeInv'
<1>1. /\ phase = "saved" /\ phase' = "saved" /\ history.part = "none"
      /\ history'.asked = history.asked /\ history'.call = k
      /\ history'.part = "status" <=> AlterStatus(k)
      /\ history'.part = "item" <=> AlterItem(k)
      /\ history'.part \in {"digest", "status", "item"}
      /\ UNCHANGED <<engine, env, saved>>
      /\ k \in 1..Len(records) /\ k \in Nat
      /\ Len(records') = Len(records) /\ DOMAIN records' = DOMAIN records
      /\ \A i \in DOMAIN records : i # k => records'[i] = records[i]
      /\ records'[k].request = records[k].request
  BY AlterRecord
<1>2. AlterDigest(k) => /\ records'[k].status = records[k].status
                        /\ records'[k].item = records[k].item
  BY AlterRecord
<1>3. AlterItem(k) => records'[k].status = records[k].status
  BY AlterRecord
<1>4. ASSUME ~AlterStatus(k), NEW i \in DOMAIN records
      PROVE  records'[i].status = records[i].status /\ records'[i].request = records[i].request
  BY <1>1, <1>2, <1>3, <1>4
<1>5. ASSUME ~AlterStatus(k), NEW i \in DOMAIN records, Before(i)'
      PROVE  /\ Numbered(records', i)
             /\ records'[i].status = "ok" => records'[i].item \in DOMAIN saved.evidence
  <2>1. i \in 1..Len(records) /\ Len(records) \in Nat /\ i - 1 \in Nat
        /\ DOMAIN records = 1..Len(records)
    BY DEF Types
  <2>2. \A j \in 1..i : /\ records'[j].status = records[j].status
                        /\ records'[j].item = records[j].item
    <3> SUFFICES ASSUME NEW j \in 1..i
                 PROVE  records'[j].status = records[j].status /\ records'[j].item = records[j].item
      OBVIOUS
    <3>1. j \in DOMAIN records
      BY <2>1
    <3>2. CASE j # k
      BY <1>1, <3>1, <3>2
    <3>3. CASE j = k
      <4>1. ~AlterItem(k)
        BY <1>1, <1>5, <2>1, <3>3 DEF Before
      <4> QED BY <1>2, <1>5, <3>3, <4>1
    <3> QED BY <3>2, <3>3
  <2>3. ItemsOf(records', i - 1) = ItemsOf(records, i - 1)
    BY <2>1, <2>2, SameItems
  <2>4. Numbered(records, i) /\ (records[i].status = "ok" => records[i].item \in DOMAIN saved.evidence)
    BY <1>1 DEF MadeInv, Before
  <2>5. records'[i].status = records[i].status /\ records'[i].item = records[i].item
    BY <2>1, <2>2
  <2> QED BY <2>3, <2>4, <2>5 DEF Numbered
<1>6. ASSUME ~AlterStatus(k)
      PROVE  \A i \in DOMAIN records' :
                 /\ records'[i].status = "ok" => Runs(records'[i].request)
                 /\ history'.asked \cap Malformed = {} =>
                        records'[i].status \in {"skipped", StatusOf(records'[i].request)}
  BY <1>1, <1>4, <1>6 DEF MadeInv
<1>7. env'.effects \subseteq Experiments \X {engine'}
  BY <1>1 DEF MadeInv
<1> QED BY <1>1, <1>5, <1>6, <1>7 DEF MadeInv

\* Replay leaves the records as they are.
LEMMA MadeReplay ==
    ASSUME Types, MadeInv, PassSkipped \/ ReuseRecorded \/ ReExecute \/ Rebuild
    PROVE  MadeInv'
<1>1. /\ phase = "replay" /\ phase' \in {"replay", "raised", "done"}
      /\ UNCHANGED <<engine, records, saved, history>>
  BY DEF PassSkipped, ReuseRecorded, ReExecute, Rebuild, InReplay
<1>2. env.effects \subseteq Experiments \X {engine}
  BY <1>1 DEF MadeInv
<1>3. env'.effects \subseteq Experiments \X {engine}
  <2>1. CASE ReExecute
    BY <1>2, <2>1, EnvKeepsUp DEF ReExecute
  <2>2. CASE ReuseRecorded
    BY <1>2, <2>2 DEF ReuseRecorded, Types
  <2>3. CASE PassSkipped \/ Rebuild
    BY <1>2, <2>3 DEF PassSkipped, Rebuild
  <2> QED BY <2>1, <2>2, <2>3
<1> QED BY <1>1, <1>3 DEF MadeInv, Before

LEMMA MadeStep == Types /\ MadeInv /\ [Next]_vars => MadeInv'
<1> SUFFICES ASSUME Types, MadeInv, [Next]_vars PROVE MadeInv'
  OBVIOUS
<1>1. CASE UNCHANGED vars
  BY <1>1 DEF vars, MadeInv, Before
<1>2. ASSUME NEW k \in DOMAIN records, AlterData(k) PROVE MadeInv'
  <2>1. /\ phase = "saved" /\ phase' = phase /\ history.part = "none" /\ history'.part = "data"
        /\ history'.asked = history.asked
        /\ UNCHANGED <<engine, env, records>>
        /\ saved' = [saved EXCEPT !.evidence[records[k].item] = NoResult]
    BY <1>2 DEF AlterData, Altered, Types
  <2>2. saved'.decision = saved.decision /\ DOMAIN saved'.evidence = DOMAIN saved.evidence
    BY <2>1 DEF Types
  <2> QED BY <2>1, <2>2 DEF MadeInv, Before
<1>3. CASE AlterDecision
  <2>1. /\ phase = "saved" /\ phase' = phase /\ history.part = "none"
        /\ history'.part = "decision" /\ history'.asked = history.asked
        /\ UNCHANGED <<engine, env, records>>
    BY <1>3 DEF AlterDecision, Altered, Types
  <2>2. PICK effects : saved' = [saved EXCEPT !.decision.effects = effects]
    BY <1>3 DEF AlterDecision
  <2>3. saved'.evidence = saved.evidence
    BY <2>2 DEF Types
  <2> QED BY <2>1, <2>3 DEF MadeInv, Before
<1>4. CASE StartReplay
  <2>1. env'.effects = {}
    BY <1>4 DEF StartReplay, NoEnv
  <2> QED BY <1>4, <2>1 DEF StartReplay, MadeInv, Before
<1> QED BY <1>1, <1>2, <1>3, <1>4, MadeCall, MadeReturn, MadeAlter, MadeReplay DEF Next
-----------------------------------------------------------------------------
(* What a verified record vouches for. *)

\* Only calls that asked for what parses are recorded as what they were.
WellFormed == history.asked \cap Malformed = {}

SkippedCalls == {k \in DOMAIN records : records[k].status = "skipped"}

\* Replay took over the altered call, or counted a mismatch.
Noticed == history.call \in report.skipped \/ report.mismatches > 0

\* Why AlterationFound holds.  A forged digest, another status and another item
\* are not what replay computes when it comes to the call, unless the call is
\* now or was before one that was skipped: then the decision's open requests
\* differ.  Up to an altered item replay hands out the ids of the run.  And while
\* every experiment is executed again with the same result, replay registers
\* what the run registered, which is not what an altered decision says.
FoundInv ==
    /\ phase \in {"run", "saved"} => next = 1
    /\ phase = "done" =>
           /\ next = Len(records) + 1
           /\ report.decisionMatch = (Decision(env.effects, records) = saved.decision)
    /\ history.part \in {"digest", "status", "item"} => history.call \in DOMAIN records
    /\ history.part = "digest" =>
           /\ records[history.call].status = "ok" /\ records[history.call].digest = NoResult
           /\ next > history.call => Noticed
    /\ history.part = "status" /\ WellFormed =>
           \/ saved.decision.open # SkippedCalls
           \/ /\ records[history.call].status \notin
                     {"skipped", StatusOf(records[history.call].request)}
              /\ next > history.call => Noticed
    /\ history.part = "item" /\ WellFormed =>
           /\ records[history.call].status = "ok"
           /\ \E m \in Nat : /\ ItemsOf(records, history.call - 1) = 1..m
                             /\ records[history.call].item # m + 1
           /\ phase = "replay" /\ next <= history.call =>
                  env.items = ItemsOf(records, next - 1)
           /\ next > history.call => Noticed
    /\ history.part = "decision" =>
           /\ saved.decision.effects # Decision(Registered(records, Len(records)), records).effects
           /\ /\ phase \in {"replay", "done"} /\ report.mismatches = 0
              /\ \A k \in report.skipped : records[k].request \notin Experiments
              => env.effects = Registered(records, next - 1)

LEMMA FoundInit == Init => FoundInv
BY DEF Init, FoundInv

LEMMA FoundCall ==
    ASSUME Types, MadeInv, FoundInv, NEW request \in Requests, Call(request) \/ SkipCall(request)
    PROVE  FoundInv'
<1>1. history'.part = "none" /\ phase' = "run" /\ phase = "run" /\ next' = next
  BY DEF Call, SkipCall, Types, MadeInv
<1> QED BY <1>1 DEF FoundInv

LEMMA FoundAlter ==
    ASSUME Types, MadeInv, FoundInv, NEW k \in DOMAIN records,
           AlterDigest(k) \/ AlterStatus(k) \/ AlterItem(k)
    PROVE  FoundInv'
<1>1. /\ phase = "saved" /\ phase' = "saved" /\ history.part = "none" /\ next = 1 /\ next' = 1
      /\ history'.asked = history.asked /\ history'.call = k
      /\ history'.part = "digest" <=> AlterDigest(k)
      /\ history'.part = "status" <=> AlterStatus(k)
      /\ history'.part = "item" <=> AlterItem(k)
      /\ history'.part \in {"digest", "status", "item"}
      /\ UNCHANGED <<engine, env, saved, report>>
      /\ k \in 1..Len(records) /\ k \in Nat \ {0} /\ ~(1 > k)
      /\ Len(records') = Len(records) /\ DOMAIN records' = DOMAIN records
      /\ \A i \in DOMAIN records : i # k => records'[i] = records[i]
      /\ records'[k].request = records[k].request
  BY AlterRecord DEF FoundInv
<1>2. history'.part = "digest" => records'[k].status = "ok" /\ records'[k].digest = NoResult
  BY <1>1, AlterRecord
<1>3. history'.part = "status" /\ WellFormed' =>
          \/ saved'.decision.open # SkippedCalls'
          \/ records'[k].status \notin {"skipped", StatusOf(records'[k].request)}
  <2> SUFFICES ASSUME AlterStatus(k), WellFormed, saved.decision.open = SkippedCalls'
               PROVE  records'[k].status \notin {"skipped", StatusOf(records'[k].request)}
    BY <1>1 DEF WellFormed
  <2>1. saved.decision.open = SkippedCalls
    BY <1>1 DEF MadeInv, Decision, SkippedCalls
  <2>2. records'[k].status = "skipped" <=> records[k].status = "skipped"
    <3>1. k \in SkippedCalls <=> k \in SkippedCalls'
      BY <2>1
    <3> QED BY <1>1, <3>1 DEF SkippedCalls
  <2>3. records'[k].status # records[k].status
    BY AlterRecord
  <2>4. records[k].status \in {"skipped", StatusOf(records[k].request)}
    BY <1>1 DEF MadeInv, WellFormed
  <2> QED BY <1>1, <2>2, <2>3, <2>4
<1>4. history'.part = "item" =>
          /\ records'[k].status = "ok"
          /\ \E m \in Nat : ItemsOf(records', k - 1) = 1..m /\ records'[k].item # m + 1
  <2> SUFFICES ASSUME AlterItem(k)
               PROVE  /\ records'[k].status = "ok"
                      /\ \E m \in Nat : ItemsOf(records', k - 1) = 1..m /\ records'[k].item # m + 1
    BY <1>1
  <2>1. /\ records'[k].status = "ok" /\ records[k].status = "ok"
        /\ records'[k].item # records[k].item
    BY AlterRecord
  <2>2. records[k].item \in Nat \ {0} /\ ItemsOf(records, k - 1) = 1..(records[k].item - 1)
    BY <1>1, <2>1 DEF MadeInv, Before, Numbered
  <2>3. ItemsOf(records', k - 1) = ItemsOf(records, k - 1)
    <3>1. k - 1 \in Nat /\ \A j \in 1..(k - 1) : j # k /\ j \in 1..Len(records)
      BY <1>1 DEF Types
    <3>2. \A j \in 1..(k - 1) : records'[j] = records[j]
      BY <1>1, <3>1 DEF Types
    <3> QED BY <3>1, <3>2, SamePrefix
  <2>4. PICK m \in Nat : m = records[k].item - 1 /\ records[k].item = m + 1
    BY <2>2
  <2>5. ItemsOf(records', k - 1) = 1..m /\ records'[k].item # m + 1
    BY <2>1, <2>2, <2>3, <2>4
  <2> QED BY <2>1, <2>5
<1>5. ~(next' > history'.call) /\ history'.part # "decision" /\ phase' \notin {"replay", "done", "run"}
  BY <1>1
<1> QED BY <1>1, <1>2, <1>3, <1>4, <1>5 DEF FoundInv

LEMMA FoundDecision == Types /\ MadeInv /\ FoundInv /\ AlterDecision => FoundInv'
<1> SUFFICES ASSUME Types, MadeInv, FoundInv, AlterDecision PROVE FoundInv'
  OBVIOUS
<1>1. /\ phase = "saved" /\ phase' = "saved" /\ history.part = "none"
      /\ history'.part = "decision" /\ UNCHANGED <<engine, env, records, next, report>>
  BY DEF AlterDecision, Altered, Types
<1>2. PICK effects : /\ saved' = [saved EXCEPT !.decision.effects = effects]
                     /\ effects # saved.decision.effects
  BY DEF AlterDecision
<1>3. saved'.decision.effects = effects
  BY <1>2 DEF Types
<1>4. saved.decision = Decision(Registered(records, Len(records)), records)
  BY <1>1 DEF MadeInv
<1>5. saved'.decision.effects # Decision(Registered(records', Len(records')), records').effects
  BY <1>1, <1>2, <1>3, <1>4
<1> QED BY <1>1, <1>5 DEF FoundInv

\* Executing a call again gives the status of its request, and never no result.
LEMMA ExecuteSays ==
    \A e, on, sample : \A request \in Requests :
           /\ Execute(e, request, on, sample).status = StatusOf(request)
           /\ Runs(request) => /\ Execute(e, request, on, sample).digest # NoResult
                              /\ Execute(e, request, on, sample).item = NextId(e.items)
           /\ request \in Experiments => Execute(e, request, on, sample).digest.on = on
<1> SUFFICES ASSUME NEW e, NEW on, NEW sample, NEW request \in Requests
             PROVE  /\ Execute(e, request, on, sample).status = StatusOf(request)
                    /\ Runs(request) => /\ Execute(e, request, on, sample).digest # NoResult
                                       /\ Execute(e, request, on, sample).item = NextId(e.items)
                    /\ request \in Experiments => Execute(e, request, on, sample).digest.on = on
  OBVIOUS
<1>1. CASE Runs(request)
  <2>1. Execute(e, request, on, sample) =
            [request |-> request, status |-> "ok", item |-> NextId(e.items),
             digest |-> Result(request, e.effects, on, sample)]
    BY <1>1 DEF Execute
  <2>2. Result(request, e.effects, on, sample) # NoResult
    BY ResultOn, RequestsAssumption DEF NoResult
  <2> QED BY <1>1, <2>1, <2>2, ResultOn DEF StatusOf
<1>2. CASE ~Runs(request)
  <2>1. Execute(e, request, on, sample).status = IF request \in Denied THEN "denied" ELSE "error"
    BY <1>2 DEF Execute
  <2> QED BY <1>2, <2>1 DEF StatusOf, Runs
<1> QED BY <1>1, <1>2

\* The item of a reused call is the one replay comes to next.
LEMMA ItemsReused ==
    ASSUME Types, NEW k \in Nat \ {0}, Numbered(records, k),
           records[k].status = "ok" => records[k].item \in DOMAIN saved.evidence,
           NEW items, items = ItemsOf(records, k - 1)
    PROVE  /\ items \cup ({records[k].item} \cap DOMAIN saved.evidence) = ItemsOf(records, k)
           /\ records[k].status = "ok" => records[k].item \notin items
<1>1. PICK n \in Nat : k - 1 = n /\ k = n + 1
  OBVIOUS
<1>2. CASE records[k].status = "ok"
  <2>1. ItemsOf(records, k) = ItemsOf(records, k - 1) \cup {records[k].item}
    BY <1>1, <1>2, OneMoreRan
  <2>2. records[k].item \in Nat \ {0} /\ items = 1..(records[k].item - 1)
    BY <1>2 DEF Numbered
  <2> QED BY <1>2, <2>1, <2>2
<1>3. CASE records[k].status # "ok"
  <2>1. ItemsOf(records, k) = ItemsOf(records, k - 1)
    BY <1>1, <1>3, OneMoreRan
  <2>2. records[k].item = 0 /\ 0 \notin DOMAIN saved.evidence
    BY <1>3 DEF Numbered, Types
  <2> QED BY <1>3, <2>1, <2>2
<1> QED BY <1>2, <1>3

\* One step further along the records.
LEMMA FoundNextRecord ==
    ASSUME Types, MadeInv, FoundInv, phase = "replay", phase' = "replay",
           NEW k \in Nat \ {0}, k = next, k \in DOMAIN records, next' = k + 1,
           UNCHANGED <<engine, records, saved, history>>,
           history.call \in report.skipped => history.call \in report'.skipped,
           report.mismatches > 0 => report'.mismatches > 0,
           history.call = k =>
               \/ Noticed'
               \/ history.part = "status" /\ records[k].status \in {"skipped", StatusOf(records[k].request)}
               \/ history.part \notin {"digest", "status", "item"}
               \/ history.part # "digest" /\ ~WellFormed,
           history.part = "item" /\ WellFormed /\ k < history.call
               /\ env.items = ItemsOf(records, k - 1) => env'.items = ItemsOf(records, k),
           /\ history.part = "decision" /\ report'.mismatches = 0
           /\ \A i \in report'.skipped : records[i].request \notin Experiments
           /\ report.mismatches = 0 => env.effects = Registered(records, k - 1)
           => report.mismatches = 0 /\ env'.effects = Registered(records, k),
           report.skipped \subseteq report'.skipped
    PROVE  FoundInv'
<1>1. history.call \in Nat /\ (k + 1) - 1 = k
  BY DEF Types
<1>2. Noticed => Noticed'
  BY DEF Noticed
<1>3. next' > history.call => next > history.call \/ history.call = k
  BY <1>1
<1>4. next' <= history.call => next <= history.call /\ k < history.call
  BY <1>1
<1>5. WellFormed' <=> WellFormed
  BY DEF WellFormed
<1>6. SkippedCalls' = SkippedCalls
  BY DEF SkippedCalls
<1>7. history.part = "digest" =>
          /\ records[history.call].status = "ok" /\ records[history.call].digest = NoResult
          /\ next' > history.call => Noticed'
  BY <1>2, <1>3 DEF FoundInv
<1>8. history.part = "status" /\ WellFormed =>
          \/ saved.decision.open # SkippedCalls
          \/ /\ records[history.call].status \notin
                    {"skipped", StatusOf(records[history.call].request)}
             /\ next' > history.call => Noticed'
  BY <1>2, <1>3 DEF FoundInv
<1>9. history.part = "item" /\ WellFormed =>
          /\ records[history.call].status = "ok"
          /\ \E m \in Nat : /\ ItemsOf(records, history.call - 1) = 1..m
                            /\ records[history.call].item # m + 1
          /\ next' <= history.call => env'.items = ItemsOf(records, k)
          /\ next' > history.call => Noticed'
  BY <1>2, <1>3, <1>4 DEF FoundInv
<1>10. history.part = "decision" =>
          /\ saved.decision.effects # Decision(Registered(records, Len(records)), records).effects
          /\ /\ report'.mismatches = 0
             /\ \A i \in report'.skipped : records[i].request \notin Experiments
             => env'.effects = Registered(records, k)
  BY DEF FoundInv
<1>11. next' - 1 = k
  BY <1>1
<1> QED BY <1>5, <1>6, <1>7, <1>8, <1>9, <1>10, <1>11 DEF FoundInv

LEMMA FoundPass == Types /\ MadeInv /\ FoundInv /\ PassSkipped => FoundInv'
<1> SUFFICES ASSUME Types, MadeInv, FoundInv, PassSkipped PROVE FoundInv'
  OBVIOUS
<1>1. PICK k \in Nat \ {0} : k = next /\ k \in DOMAIN records
  BY DEF PassSkipped, InReplay, Types
<1>2. /\ phase = "replay" /\ phase' = "replay" /\ next' = k + 1
      /\ UNCHANGED <<engine, records, saved, history, env, report>>
      /\ records[k].status = "skipped"
  BY <1>1 DEF PassSkipped, InReplay
<1>3. history.call = k =>
          \/ history.part = "status" /\ records[k].status \in {"skipped", StatusOf(records[k].request)}
          \/ history.part \notin {"digest", "status", "item"}
          \/ history.part # "digest" /\ ~WellFormed
  BY <1>2 DEF FoundInv
<1>4. ItemsOf(records, k) = ItemsOf(records, k - 1)
      /\ Registered(records, k) = Registered(records, k - 1)
  <2>1. PICK n \in Nat : k - 1 = n /\ k = n + 1
    OBVIOUS
  <2> QED BY <1>2, <2>1, OneMoreRan
<1> QED BY <1>1, <1>2, <1>3, <1>4, FoundNextRecord

LEMMA FoundReuse == Types /\ MadeInv /\ FoundInv /\ ReuseRecorded => FoundInv'
<1> SUFFICES ASSUME Types, MadeInv, FoundInv, ReuseRecorded PROVE FoundInv'
  OBVIOUS
<1>1. PICK k \in Nat \ {0} : k = next /\ k \in DOMAIN records
  BY DEF ReuseRecorded, InReplay, Types
<1>2. /\ phase = "replay" /\ UNCHANGED <<engine, records, saved, history>>
      /\ report' = [report EXCEPT !.skipped = @ \cup {k}]
  BY <1>1 DEF ReuseRecorded, InReplay
<1>3. /\ report'.skipped = report.skipped \cup {k} /\ report'.mismatches = report.mismatches
  BY <1>2 DEF Types
<1>4. CASE phase' = "raised" /\ UNCHANGED <<env, next>>
  <2>1. Noticed => Noticed'
    BY <1>2, <1>3 DEF Noticed
  <2> QED BY <1>2, <1>4, <2>1 DEF FoundInv, WellFormed, SkippedCalls
<1>5. CASE /\ env' = [env EXCEPT !.items = @ \cup ({records[k].item} \cap DOMAIN saved.evidence)]
           /\ next' = k + 1 /\ phase' = phase
  <2>1. /\ env'.items = env.items \cup ({records[k].item} \cap DOMAIN saved.evidence)
        /\ env'.effects = env.effects
    BY <1>5 DEF Types
  <2>2. history.call = k => Noticed'
    BY <1>2, <1>3 DEF Noticed
  <2>3. ASSUME history.part = "item", k < history.call, env.items = ItemsOf(records, k - 1)
        PROVE  env'.items = ItemsOf(records, k)
    <3>1. /\ Numbered(records, k)
          /\ records[k].status = "ok" => records[k].item \in DOMAIN saved.evidence
      BY <1>1, <1>2, <2>3 DEF MadeInv, Before
    <3> QED BY <2>1, <2>3, <3>1, ItemsReused
  <2>4. ASSUME history.part = "decision",
               \A i \in report'.skipped : records[i].request \notin Experiments
        PROVE  Registered(records, k) = Registered(records, k - 1)
    <3>1. records[k].request \notin Experiments
      BY <1>3, <2>4
    <3>2. PICK n \in Nat : k - 1 = n /\ k = n + 1
      OBVIOUS
    <3>3. Entry(records[n + 1]) = {}
      BY <3>1, <3>2 DEF Entry, Effect
    <3>4. Registered(records, n + 1) \in
              {Registered(records, n), Registered(records, n) \cup Entry(records[n + 1])}
      BY OneMoreRan
    <3> QED BY <3>2, <3>3, <3>4
  <2>5. /\ history.part = "decision" /\ report'.mismatches = 0
        /\ \A i \in report'.skipped : records[i].request \notin Experiments
        /\ report.mismatches = 0 => env.effects = Registered(records, k - 1)
        => report.mismatches = 0 /\ env'.effects = Registered(records, k)
    BY <1>3, <2>1, <2>4
  <2> QED BY <1>1, <1>2, <1>3, <1>5, <2>2, <2>3, <2>5, FoundNextRecord
<1> QED BY <1>1, <1>2, <1>4, <1>5 DEF ReuseRecorded

LEMMA FoundReExecute == Types /\ MadeInv /\ FoundInv /\ ReExecute => FoundInv'
<1> SUFFICES ASSUME Types, MadeInv, FoundInv, ReExecute PROVE FoundInv'
  OBVIOUS
<1>1. PICK k \in Nat \ {0} : k = next /\ k \in DOMAIN records
  BY DEF ReExecute, InReplay, Types
<1> DEFINE request == records[k].request
           new     == Execute(env, request, engine, Forged)
<1>2. /\ phase = "replay" /\ phase' = "replay" /\ next' = k + 1
      /\ UNCHANGED <<engine, records, saved, history>>
      /\ records[k].status # "skipped"
      /\ env' = EnvAfter(env, request, engine)
      /\ IF Same(new, records[k]) THEN report' = report
         ELSE report' = [report EXCEPT !.mismatches = @ + 1]
  BY <1>1 DEF ReExecute, InReplay
<1>3. /\ report'.skipped = report.skipped /\ report.mismatches \in Nat
      /\ Same(new, records[k]) => report'.mismatches = report.mismatches
      /\ ~Same(new, records[k]) => report'.mismatches = report.mismatches + 1
  BY <1>2 DEF Types
<1>4. request \in Requests
  <2>1. records[k] \in Records
    BY <1>1 DEF Types
  <2> QED BY <2>1 DEF Records
<1>5. /\ new.status = StatusOf(request)
      /\ Runs(request) => new.digest # NoResult /\ new.item = NextId(env.items)
      /\ request \in Experiments => new.digest.on = engine
  BY <1>4, ExecuteSays
<1> HIDE DEF new
<1>6. history.call = k =>
          \/ Noticed'
          \/ history.part = "status" /\ records[k].status \in {"skipped", StatusOf(records[k].request)}
          \/ history.part \notin {"digest", "status", "item"}
          \/ history.part # "digest" /\ ~WellFormed
  <2> SUFFICES ASSUME history.call = k, Same(new, records[k])
               PROVE  \/ history.part = "status" /\ records[k].status \in {StatusOf(request)}
                      \/ history.part \notin {"digest", "status", "item"}
                      \/ history.part # "digest" /\ ~WellFormed
    BY <1>3 DEF Noticed
  <2>1. /\ records[k].status = StatusOf(request) /\ new.digest = records[k].digest
        /\ new.item = records[k].item
    BY <1>5 DEF Same
  <2>2. CASE history.part = "digest"
    <3>1. Runs(request) /\ records[k].digest = NoResult
      BY <1>1, <2>2 DEF MadeInv, FoundInv
    <3> QED BY <1>5, <2>1, <3>1
  <2>3. CASE history.part = "item" /\ WellFormed
    <3>1. Runs(request) /\ env.items = ItemsOf(records, k - 1)
      BY <1>1, <1>2, <2>3 DEF MadeInv, FoundInv
    <3>2. PICK m \in Nat : ItemsOf(records, k - 1) = 1..m /\ records[k].item # m + 1
      BY <2>3 DEF FoundInv
    <3>3. new.item = m + 1
      BY <1>5, <3>1, <3>2, NextIdCounts
    <3> QED BY <2>1, <3>2, <3>3
  <2> QED BY <2>1, <2>2, <2>3
<1>7. ASSUME history.part = "item", WellFormed, k < history.call, env.items = ItemsOf(records, k - 1)
      PROVE  env'.items = ItemsOf(records, k)
  <2>1. Numbered(records, k)
    BY <1>1, <1>7 DEF MadeInv, Before
  <2>2. records[k].status = StatusOf(request)
    BY <1>1, <1>2, <1>7 DEF MadeInv, WellFormed
  <2>3. records[k].status = "ok" <=> Runs(request)
    BY <2>2 DEF StatusOf
  <2> QED BY <1>2, <1>7, <2>1, <2>3, ItemsAgain
<1>8. ASSUME history.part = "decision", report'.mismatches = 0,
             report.mismatches = 0 => env.effects = Registered(records, k - 1)
      PROVE  report.mismatches = 0 /\ env'.effects = Registered(records, k)
  <2>1. Same(new, records[k]) /\ report.mismatches = 0
    BY <1>3, <1>8
  <2>2. records[k].status = StatusOf(request) /\ (request \in Experiments => records[k].digest.on = engine)
    BY <1>5, <2>1 DEF Same
  <2>3. env'.effects = env.effects \cup Effect(request, engine)
    <3>1. env.effects \subseteq Experiments \X {engine}
      BY <1>2 DEF MadeInv
    <3> QED BY <1>2, <3>1, EnvKeepsUp
  <2>4. Entry(records[k]) = Effect(request, engine)
    BY <2>2, EntryIsEffect
  <2>5. records[k].status # "ok" => Effect(request, engine) = {}
    BY <2>2 DEF Effect, StatusOf, Runs
  <2>6. Registered(records, k) = Registered(records, k - 1) \cup Effect(request, engine)
    <3>1. PICK n \in Nat : k - 1 = n /\ k = n + 1
      OBVIOUS
    <3>2. Entry(records[n + 1]) = Effect(request, engine)
          /\ (records[n + 1].status # "ok" => Effect(request, engine) = {})
      BY <2>4, <2>5, <3>1
    <3>3. Registered(records, n + 1) = Registered(records, n) \cup Effect(request, engine)
      BY <3>2, OneMoreRan
    <3> QED BY <3>1, <3>3
  <2> QED BY <1>8, <2>1, <2>3, <2>6
<1>9. /\ report.mismatches > 0 => report'.mismatches > 0
      /\ report.skipped \subseteq report'.skipped
  BY <1>3
<1> QED BY <1>1, <1>2, <1>3, <1>6, <1>7, <1>8, <1>9, FoundNextRecord

LEMMA FoundStep == Types /\ MadeInv /\ FoundInv /\ [Next]_vars => FoundInv'
<1> SUFFICES ASSUME Types, MadeInv, FoundInv, [Next]_vars PROVE FoundInv'
  OBVIOUS
<1>1. CASE UNCHANGED vars
  BY <1>1 DEF vars, FoundInv, WellFormed, SkippedCalls, Noticed
<1>2. CASE Return
  BY <1>2 DEF Return, MadeInv, FoundInv
<1>3. ASSUME NEW k \in DOMAIN records, AlterData(k) PROVE FoundInv'
  BY <1>3 DEF AlterData, Altered, FoundInv, Types
<1>4. CASE StartReplay
  <2>1. next = 1 /\ next' = 1 /\ UNCHANGED <<records, saved, history, report>>
        /\ phase = "saved" /\ phase' = "replay" /\ env' = NoEnv
    BY <1>4 DEF StartReplay, FoundInv
  <2>2. ItemsOf(records, 0) = {} /\ Registered(records, 0) = {}
    BY DEF ItemsOf, Registered, Ran
  <2>3. env'.items = {} /\ env'.effects = {} /\ next' - 1 = 0
    BY <2>1 DEF NoEnv
  <2> QED BY <2>1, <2>2, <2>3 DEF FoundInv, WellFormed, SkippedCalls, Noticed
<1>5. CASE Rebuild
  <2>1. /\ phase = "replay" /\ phase' = "done" /\ next = Len(records) + 1
        /\ UNCHANGED <<engine, env, records, saved, next, history>>
        /\ report' = [report EXCEPT !.decisionMatch = Decision(env.effects, records) = saved.decision]
    BY <1>5 DEF Rebuild, Types
  <2>2. /\ report'.decisionMatch = (Decision(env.effects, records) = saved.decision)
        /\ report'.skipped = report.skipped /\ report'.mismatches = report.mismatches
    BY <2>1 DEF Types
  <2> QED BY <2>1, <2>2 DEF FoundInv, WellFormed, SkippedCalls, Noticed
<1> QED BY <1>1, <1>2, <1>3, <1>4, <1>5, FoundCall, FoundAlter, FoundDecision, FoundPass,
           FoundReuse, FoundReExecute DEF Next

\* What a verified record vouches for, whatever was called and however often: no
\* forged digest, other status or other evidence id, but on calls whose records
\* replay takes over; no other effects in the decision, unless it takes over an
\* experiment; and no measured effect without an engine (replay.py:82-102).
THEOREM AlterationsAreFound == Spec => []AlterationFound
<1>1. Types /\ MadeInv /\ FoundInv => AlterationFound
  <2> SUFFICES ASSUME Types, MadeInv, FoundInv, phase = "done", Verified PROVE AlterationFound
    BY DEF AlterationFound
  <2>1. /\ report.mismatches = 0 /\ next = Len(records) + 1
        /\ Decision(env.effects, records) = saved.decision
    BY DEF Verified, FoundInv
  <2>2. ASSUME \/ history.part = "digest"
               \/ history.part \in {"status", "item"} /\ WellFormed
        PROVE  history.call \in report.skipped
    <3>1. history.call \in 1..Len(records) /\ Len(records) \in Nat
      BY <2>2 DEF FoundInv, Types
    <3>2. next > history.call
      BY <2>1, <3>1
    <3>3. saved.decision.open = SkippedCalls
      BY <2>1 DEF Decision, SkippedCalls
    <3>4. Noticed
      BY <2>2, <3>2, <3>3 DEF FoundInv
    <3> QED BY <2>1, <3>4 DEF Noticed
  <2>3. ASSUME history.part = "decision", \A k \in report.skipped : records[k].request \notin Experiments
        PROVE  FALSE
    <3>1. env.effects = Registered(records, next - 1)
      BY <2>1, <2>3 DEF FoundInv
    <3>2. next - 1 = Len(records)
      BY <2>1 DEF Types
    <3>3. saved.decision.effects # Decision(Registered(records, Len(records)), records).effects
      BY <2>3 DEF FoundInv
    <3> QED BY <2>1, <3>1, <3>2, <3>3
  <2>4. saved.decision.effects # {} => engine # NoEngine
    <3> SUFFICES ASSUME engine = NoEngine PROVE saved.decision.effects = {}
      OBVIOUS
    <3>1. env.effects \subseteq Experiments \X {NoEngine} /\ env.effects \subseteq Experiments \X Engines
      BY DEF MadeInv, Types, Effects
    <3>2. env.effects = {}
      BY <3>1, EnginesAssumption
    <3>3. saved.decision.effects = {f \in env.effects : f[1] \in Used}
      BY <2>1 DEF Decision
    <3> QED BY <3>2, <3>3
  <2> QED BY <2>2, <2>3, <2>4 DEF AlterationFound, WellFormed
<1> QED BY <1>1, MadeInit, MadeStep, FoundInit, FoundStep, TypesAlways, PTL DEF Spec
-----------------------------------------------------------------------------
(* Why an unaltered record verifies.  What the run's environment was before   *)
(* each call can be read off the records themselves; replay rebuilds it.      *)

\* Record k holds the digest that executing its request after the records before
\* it makes, in a sandbox on engine on.
Digested(rs, k, on) ==
    IF rs[k].status = "ok"
    THEN \E sample \in Samples :
             rs[k].digest = Result(rs[k].request, Registered(rs, k - 1), on, sample)
    ELSE rs[k].digest = NoResult

Unaltered == history.part \in {"none", "data"} /\ WellFormed

\* The record is that of a run on this engine, if on any.
RunInv ==
    /\ \A k \in DOMAIN records : Digested(records, k, engine)
    /\ (IF phase = "run" THEN ~env.opened ELSE saved.engine = NoEngine) =>
           \A k \in DOMAIN records :
               records[k].status = "ok" => records[k].request \notin Experiments \cup Plans

\* Replay has come this far, in the environment the run had there.
ReplayInv ==
    /\ report.mismatches = 0
    /\ phase # "raised"
    /\ phase \in {"replay", "done"} =>
           /\ env.items = ItemsOf(records, next - 1)
           /\ env.effects = Registered(records, next - 1)

UnalteredInv ==
    /\ phase = "run" => saved.engine = NoEngine
    /\ phase = "saved" => SameEngine
    /\ Unaltered /\ SameEngine => RunInv /\ ReplayInv

\* Where the sandbox was not used, its engine makes no difference to the digest.
LEMMA EngineIsFree ==
    ASSUME NEW rs, NEW k, NEW on, NEW on2, Digested(rs, k, on),
           rs[k].status = "ok" => rs[k].request \notin Experiments \cup Plans
    PROVE  Digested(rs, k, on2)
<1>1. \A sample, effects : rs[k].request \notin Experiments \cup Plans =>
          Result(rs[k].request, effects, on, sample) = Result(rs[k].request, effects, on2, sample)
  BY DEF Result
<1> QED BY <1>1 DEF Digested

LEMMA UnalteredInit == Init => UnalteredInv
<1> SUFFICES ASSUME Init PROVE RunInv /\ ReplayInv /\ saved.engine = NoEngine /\ phase = "run"
  BY DEF UnalteredInv
<1>1. records = <<>> /\ DOMAIN records = {} /\ phase = "run" /\ report.mismatches = 0
      /\ saved.engine = NoEngine
  BY DEF Init
<1> QED BY <1>1 DEF RunInv, ReplayInv

\* The run: each call is recorded with what it computed.
LEMMA UnalteredCall ==
    ASSUME Types, MadeInv, UnalteredInv, NEW request \in Requests,
           Call(request) \/ SkipCall(request)
    PROVE  UnalteredInv'
<1>1. /\ phase = "run" /\ phase' = "run" /\ engine' = engine /\ report' = report
      /\ saved' = saved /\ records \in Seq(Records) /\ history'.part = history.part
      /\ history.asked \subseteq history'.asked
  BY DEF Call, SkipCall, Types
<1> SUFFICES ASSUME Unaltered' PROVE (RunInv /\ ReplayInv)'
  BY <1>1 DEF UnalteredInv
<1>2. RunInv /\ ReplayInv
  BY <1>1 DEF Unaltered, UnalteredInv, SameEngine, WellFormed
<1>3. PICK r \in Records :
          /\ records' = Append(records, r)
          /\ \/ r.status = "skipped" /\ r.digest = NoResult /\ env' = env
             \/ /\ env' = EnvAfter(env, request, engine)
                /\ \E sample \in Samples : r = Execute(env, request, engine, sample)
  BY CallAppends DEF Unaltered, WellFormed
<1>4. PICK n \in Nat : n = Len(records)
  BY <1>1
<1>5. /\ records'[n + 1] = r /\ DOMAIN records' = 1..(n + 1) /\ DOMAIN records = 1..n
      /\ \A k \in 1..n : records'[k] = records[k]
      /\ (n + 1) - 1 = n
  BY <1>1, <1>3, <1>4
<1>6. \A k \in 0..n : Registered(records', k) = Registered(records, k)
  <2> SUFFICES ASSUME NEW k \in 0..n PROVE Registered(records', k) = Registered(records, k)
    OBVIOUS
  <2>1. k \in Nat /\ \A i \in 1..k : records'[i] = records[i]
    BY <1>5
  <2> QED BY <2>1, SamePrefix
<1>7. env.effects = Registered(records', n)
  BY <1>1, <1>4, <1>6 DEF MadeInv
<1>8. /\ Digested(records', n + 1, engine)
      /\ ~env'.opened => ~env.opened /\ (r.status = "ok" => r.request \notin Experiments \cup Plans)
  <2>1. CASE r.status = "skipped" /\ r.digest = NoResult /\ env' = env
    BY <1>5, <2>1 DEF Digested
  <2>2. CASE /\ env' = EnvAfter(env, request, engine)
             /\ \E sample \in Samples : r = Execute(env, request, engine, sample)
    <3>1. PICK sample \in Samples : r = Execute(env, request, engine, sample)
      BY <2>2
    <3>2. /\ r.request = request
          /\ r.status = "ok" => r.digest = Result(r.request, env.effects, engine, sample)
          /\ r.status # "ok" => r.digest = NoResult
      BY <3>1 DEF Execute
    <3>3. Digested(records', n + 1, engine)
      BY <1>5, <1>7, <3>2 DEF Digested
    <3>4. ~env'.opened => ~env.opened /\ request \notin Experiments \cup Plans
      BY <2>2 DEF EnvAfter
    <3> QED BY <3>2, <3>3, <3>4
  <2> QED BY <1>3, <2>1, <2>2
<1>9. \A k \in 1..n : Digested(records', k, engine)
  <2> SUFFICES ASSUME NEW k \in 1..n PROVE Digested(records', k, engine)
    OBVIOUS
  <2>1. records'[k] = records[k] /\ k - 1 \in 0..n /\ Digested(records, k, engine)
    BY <1>2, <1>5 DEF RunInv
  <2>2. Registered(records', k - 1) = Registered(records, k - 1)
    BY <1>6, <2>1
  <2> QED BY <2>1, <2>2 DEF Digested
<1>10. RunInv'
  <2>1. \A k \in 1..(n + 1) : k \in 1..n \/ k = n + 1
    OBVIOUS
  <2>2. \A k \in DOMAIN records' : Digested(records', k, engine)
    BY <1>5, <1>8, <1>9, <2>1
  <2>3. ~env'.opened => \A k \in DOMAIN records' :
            records'[k].status = "ok" => records'[k].request \notin Experiments \cup Plans
    <3> SUFFICES ASSUME ~env'.opened, NEW k \in DOMAIN records', records'[k].status = "ok"
                 PROVE  records'[k].request \notin Experiments \cup Plans
      OBVIOUS
    <3>1. CASE k = n + 1
      BY <1>5, <1>8, <3>1
    <3>2. CASE k \in 1..n
      <4>1. records'[k] = records[k] /\ k \in DOMAIN records
        BY <1>5, <3>2
      <4> QED BY <1>1, <1>2, <1>8, <4>1 DEF RunInv
    <3> QED BY <1>5, <2>1, <3>1, <3>2
  <2> QED BY <1>1, <2>2, <2>3 DEF RunInv
<1>11. ReplayInv'
  BY <1>1, <1>2 DEF ReplayInv
<1> QED BY <1>10, <1>11

\* _finish saves the engine of the sandbox, if any call opened it.
LEMMA UnalteredReturn == Types /\ MadeInv /\ UnalteredInv /\ Return => UnalteredInv'
<1> SUFFICES ASSUME Types, MadeInv, UnalteredInv, Return PROVE UnalteredInv'
  OBVIOUS
<1>1. /\ phase = "run" /\ phase' = "saved" /\ engine \in Engines /\ engine # NoEngine
      /\ UNCHANGED <<engine, env, records, next, report, history>>
      /\ saved'.engine = IF env.opened THEN engine ELSE NoEngine
  BY EnginesAssumption DEF Return, Types
<1>2. SameEngine' /\ (saved'.engine = NoEngine <=> ~env.opened)
  BY <1>1 DEF SameEngine, Types
<1>3. Unaltered' => RunInv /\ ReplayInv
  BY <1>1 DEF Unaltered, UnalteredInv, SameEngine, WellFormed
<1> QED BY <1>1, <1>2, <1>3 DEF UnalteredInv, RunInv, ReplayInv

\* Replay starts from nothing, on the run's engine where the sandbox was used.
LEMMA UnalteredStart == Types /\ MadeInv /\ FoundInv /\ UnalteredInv /\ StartReplay => UnalteredInv'
<1> SUFFICES ASSUME Types, FoundInv, UnalteredInv, StartReplay, Unaltered', SameEngine'
             PROVE  (RunInv /\ ReplayInv)'
  BY DEF UnalteredInv, StartReplay
<1>1. /\ phase = "saved" /\ phase' = "replay" /\ next = 1 /\ next' = 1 /\ env' = NoEnv
      /\ UNCHANGED <<records, saved, report, history>>
  BY DEF StartReplay, FoundInv
<1>2. RunInv /\ ReplayInv /\ SameEngine
  BY <1>1 DEF Unaltered, UnalteredInv, WellFormed
<1>3. \A k \in DOMAIN records : Digested(records, k, engine')
  <2>1. CASE saved.engine = NoEngine
    <3> SUFFICES ASSUME NEW k \in DOMAIN records PROVE Digested(records, k, engine')
      OBVIOUS
    <3>1. Digested(records, k, engine)
      BY <1>2 DEF RunInv
    <3>2. records[k].status = "ok" => records[k].request \notin Experiments \cup Plans
      BY <1>1, <1>2, <2>1 DEF RunInv
    <3> QED BY <3>1, <3>2, EngineIsFree
  <2>2. CASE saved.engine # NoEngine
    <3>1. engine' = engine
      BY <1>1, <1>2, <2>2 DEF SameEngine
    <3> QED BY <1>2, <3>1 DEF RunInv
  <2> QED BY <2>1, <2>2
<1>4. env'.items = ItemsOf(records, 0) /\ env'.effects = Registered(records, 0) /\ next' - 1 = 0
  BY <1>1 DEF ItemsOf, Registered, Ran, NoEnv
<1> QED BY <1>1, <1>2, <1>3, <1>4 DEF RunInv, ReplayInv

\* The item of a reused call is saved, and no earlier call has taken it: replay
\* neither raises nor loses count.
LEMMA UnalteredReuse ==
    ASSUME Types, MadeInv, Unaltered, RunInv, ReplayInv, SameEngine, ReuseRecorded
    PROVE  RunInv' /\ ReplayInv'
<1>1. PICK k \in Nat \ {0} : k = next /\ k \in DOMAIN records
  BY DEF ReuseRecorded, InReplay, Types
<1>2. /\ phase = "replay" /\ records[k].status # "skipped" /\ Reused(records[k])
      /\ UNCHANGED <<engine, records, saved, history>>
      /\ report' = [report EXCEPT !.skipped = @ \cup {k}]
  BY <1>1 DEF ReuseRecorded, InReplay
<1>3. report'.mismatches = report.mismatches
  BY <1>2 DEF Types
<1>4. /\ Numbered(records, k)
      /\ records[k].status = "ok" => records[k].item \in DOMAIN saved.evidence
  BY <1>1, <1>2 DEF MadeInv, Before, Unaltered
<1>5. env.items = ItemsOf(records, k - 1) /\ env.effects = Registered(records, k - 1)
  BY <1>1, <1>2 DEF ReplayInv
<1>6. /\ env.items \cup ({records[k].item} \cap DOMAIN saved.evidence) = ItemsOf(records, k)
      /\ records[k].item \notin env.items
  <2>1. /\ env.items \cup ({records[k].item} \cap DOMAIN saved.evidence) = ItemsOf(records, k)
        /\ records[k].status = "ok" => records[k].item \notin env.items
    BY <1>4, <1>5, ItemsReused
  <2>2. records[k].status # "ok" => records[k].item \notin env.items
    <3> SUFFICES ASSUME NEW i \in Ran(records, k - 1) PROVE records[i].item # 0
      BY <1>4, <1>5 DEF Numbered, ItemsOf
    <3>1. i \in DOMAIN records /\ records[i].status = "ok"
      <4>1. DOMAIN records = 1..Len(records) /\ Len(records) \in Nat
        BY DEF Types
      <4> QED BY <1>1, <4>1 DEF Ran
    <3> QED BY <3>1 DEF MadeInv, Before, Unaltered, Numbered
  <2> QED BY <2>1, <2>2
<1>7. /\ phase' = "replay" /\ next' = k + 1
      /\ env'.items = ItemsOf(records, k) /\ env'.effects = env.effects
  <2>1. env' = [env EXCEPT !.items = @ \cup ({records[k].item} \cap DOMAIN saved.evidence)]
        /\ phase' = "replay" /\ next' = k + 1
    BY <1>1, <1>2, <1>6 DEF ReuseRecorded
  <2> QED BY <1>6, <2>1 DEF Types
<1>8. records[k].status = "ok" => records[k].request \notin Experiments
  <2>1. CASE records[k].request \in LabTools
    BY <2>1, RequestsAssumption
  <2>2. CASE engine = NoEngine
    <3>1. saved.engine = NoEngine
      BY <2>2 DEF SameEngine
    <3> QED BY <1>1, <1>2, <3>1 DEF RunInv
  <2> QED BY <1>2, <2>1, <2>2 DEF Reused
<1>9. Registered(records, k) = Registered(records, k - 1)
  <2>1. PICK n \in Nat : k - 1 = n /\ k = n + 1
    OBVIOUS
  <2>2. records[n + 1].status = "ok" => Entry(records[n + 1]) = {}
    BY <1>8, <2>1 DEF Entry, Effect
  <2>3. \/ Registered(records, n + 1) = Registered(records, n)
        \/ records[n + 1].status = "ok"
           /\ Registered(records, n + 1) = Registered(records, n) \cup Entry(records[n + 1])
    BY OneMoreRan
  <2> QED BY <2>1, <2>2, <2>3
<1>10. next' - 1 = k
  BY <1>7
<1> QED BY <1>2, <1>3, <1>5, <1>7, <1>9, <1>10 DEF RunInv, ReplayInv

\* A call executed again in the environment of its time is recorded as before.
LEMMA UnalteredReExecute ==
    ASSUME Types, MadeInv, Unaltered, RunInv, ReplayInv, SameEngine, ReExecute
    PROVE  RunInv' /\ ReplayInv'
<1>1. PICK k \in Nat \ {0} : k = next /\ k \in DOMAIN records
  BY DEF ReExecute, InReplay, Types
<1> DEFINE request == records[k].request
           new     == Execute(env, request, engine, Forged)
<1>2. /\ phase = "replay" /\ phase' = "replay" /\ next' = k + 1
      /\ UNCHANGED <<engine, records, saved, history>>
      /\ records[k].status # "skipped" /\ ~Reused(records[k])
      /\ env' = EnvAfter(env, request, engine)
      /\ Same(new, records[k]) => report' = report
  BY <1>1 DEF ReExecute, InReplay
<1>3. env.items = ItemsOf(records, k - 1) /\ env.effects = Registered(records, k - 1)
  BY <1>1, <1>2 DEF ReplayInv
<1>4. /\ Numbered(records, k) /\ Digested(records, k, engine)
      /\ records[k].status = StatusOf(request)
  BY <1>1, <1>2 DEF MadeInv, Before, Unaltered, WellFormed, RunInv
<1>5. records[k].status = "ok" <=> Runs(request)
  BY <1>4 DEF StatusOf
<1>6. /\ env'.items = ItemsOf(records, k)
      /\ records[k].status = "ok" => NextId(env.items) = records[k].item
  BY <1>2, <1>3, <1>4, <1>5, ItemsAgain
<1>7. Same(new, records[k])
  <2>1. CASE Runs(request)
    <3>1. PICK sample \in Samples : records[k].digest = Result(request, env.effects, engine, sample)
      BY <1>3, <1>4, <1>5, <2>1 DEF Digested
    <3>2. request \notin Measurements
      BY <1>2, RequestsAssumption DEF Reused
    <3>3. Result(request, env.effects, engine, sample) = Result(request, env.effects, engine, Forged)
      BY <3>2 DEF Result
    <3> QED BY <1>5, <1>6, <2>1, <3>1, <3>3 DEF Execute, Same
  <2>2. CASE ~Runs(request)
    BY <1>4, <1>5, <2>2 DEF Execute, Same, Digested, Numbered, StatusOf
  <2> QED BY <2>1, <2>2
<1>8. Registered(records, k) = env'.effects
  <2>1. request \in Experiments => records[k].status = "ok" /\ records[k].digest.on = engine
    BY <1>4, <1>5, ResultOn DEF Digested, Runs
  <2>2. env'.effects = env.effects \cup Effect(request, engine)
    <3>1. env.effects \subseteq Experiments \X {engine}
      BY <1>2 DEF MadeInv
    <3> QED BY <1>2, <3>1, EnvKeepsUp
  <2>3. Entry(records[k]) = Effect(request, engine)
    BY <2>1, EntryIsEffect
  <2>4. records[k].status # "ok" => Effect(request, engine) = {}
    BY <2>1 DEF Effect
  <2>5. PICK n \in Nat : k - 1 = n /\ k = n + 1
    OBVIOUS
  <2>6. Entry(records[n + 1]) = Effect(request, engine)
        /\ (records[n + 1].status # "ok" => Effect(request, engine) = {})
    BY <2>3, <2>4, <2>5
  <2>7. Registered(records, n + 1) = Registered(records, n) \cup Effect(request, engine)
    BY <2>6, OneMoreRan
  <2> QED BY <1>3, <2>2, <2>5, <2>7
<1>9. next' - 1 = k
  BY <1>2
<1> QED BY <1>2, <1>6, <1>7, <1>8, <1>9 DEF RunInv, ReplayInv

LEMMA UnalteredStep == Types /\ MadeInv /\ FoundInv /\ UnalteredInv /\ [Next]_vars => UnalteredInv'
<1> SUFFICES ASSUME Types, MadeInv, FoundInv, UnalteredInv, [Next]_vars PROVE UnalteredInv'
  OBVIOUS
<1>1. CASE UNCHANGED vars
  BY <1>1 DEF vars, UnalteredInv, Unaltered, WellFormed, SameEngine, RunInv, ReplayInv
<1>2. ASSUME NEW k \in DOMAIN records,
             AlterDigest(k) \/ AlterStatus(k) \/ AlterItem(k) \/ AlterData(k)
      PROVE  UnalteredInv'
  <2>1. CASE AlterDigest(k) \/ AlterStatus(k) \/ AlterItem(k)
    <3>1. /\ history'.part \notin {"none", "data"} /\ phase' = phase /\ phase = "saved"
          /\ saved'.engine = saved.engine /\ engine' = engine
      BY <2>1 DEF AlterDigest, AlterStatus, AlterItem, Altered, Types
    <3> QED BY <3>1 DEF UnalteredInv, Unaltered, SameEngine
  <2>2. CASE AlterData(k)
    <3>1. /\ history.part = "none" /\ history'.asked = history.asked /\ phase = "saved"
          /\ UNCHANGED <<phase, engine, env, records, next, report>>
      BY <2>2 DEF AlterData, Altered, Types
    <3>2. saved'.engine = saved.engine
      BY <2>2 DEF AlterData, Types
    <3> QED BY <3>1, <3>2 DEF UnalteredInv, Unaltered, WellFormed, SameEngine, RunInv, ReplayInv, Digested
  <2> QED BY <1>2, <2>1, <2>2
<1>3. CASE AlterDecision
  <2>1. /\ history'.part \notin {"none", "data"} /\ phase' = phase /\ phase = "saved"
        /\ saved'.engine = saved.engine /\ engine' = engine
    BY <1>3 DEF AlterDecision, Altered, Types
  <2> QED BY <2>1 DEF UnalteredInv, Unaltered, SameEngine
<1>4. SUFFICES ASSUME PassSkipped \/ ReuseRecorded \/ ReExecute \/ Rebuild,
                      Unaltered', SameEngine'
               PROVE  RunInv' /\ ReplayInv'
  <2>1. PassSkipped \/ ReuseRecorded \/ ReExecute \/ Rebuild => phase' \notin {"run", "saved"}
    BY DEF PassSkipped, ReuseRecorded, ReExecute, Rebuild, InReplay
  <2> QED BY <1>1, <1>2, <1>3, <2>1, UnalteredCall, UnalteredReturn, UnalteredStart
          DEF Next, UnalteredInv
<1>5. /\ phase = "replay" /\ Unaltered /\ RunInv /\ ReplayInv /\ SameEngine
      /\ UNCHANGED <<engine, records, saved, history>>
  <2>1. phase = "replay" /\ UNCHANGED <<engine, records, saved, history>>
    BY <1>4 DEF PassSkipped, ReuseRecorded, ReExecute, Rebuild, InReplay
  <2> QED BY <1>4, <2>1 DEF UnalteredInv, Unaltered, WellFormed, SameEngine
<1>6. CASE PassSkipped
  <2>1. PICK n \in Nat : next = n + 1 /\ next - 1 = n /\ next' - 1 = n + 1
    BY <1>6 DEF PassSkipped, Types
  <2>2. ItemsOf(records, n + 1) = ItemsOf(records, n)
        /\ Registered(records, n + 1) = Registered(records, n)
    <3>1. records[n + 1].status # "ok"
      BY <1>6, <2>1 DEF PassSkipped
    <3> QED BY <3>1, OneMoreRan
  <2> QED BY <1>5, <1>6, <2>1, <2>2 DEF PassSkipped, RunInv, ReplayInv
<1>7. CASE ReuseRecorded
  BY <1>5, <1>7, UnalteredReuse
<1>8. CASE ReExecute
  BY <1>5, <1>8, UnalteredReExecute
<1>9. CASE Rebuild
  <2>1. report'.mismatches = report.mismatches /\ phase' = "done"
        /\ UNCHANGED <<engine, env, records, saved, next, history>>
    BY <1>9 DEF Rebuild, Types
  <2> QED BY <1>5, <2>1 DEF RunInv, ReplayInv
<1> QED BY <1>4, <1>6, <1>7, <1>8, <1>9

\* The record of a run that asked for nothing malformed verifies on the engine it
\* measured with, whatever was asked, refused, skipped or measured in the lab:
\* replay makes every result, every evidence id and the decision again, and no id
\* it reuses is taken (replay.py:74-102).
THEOREM UnalteredRunsReplay == Spec => []RunReplays
<1>1. Types /\ MadeInv /\ FoundInv /\ UnalteredInv => RunReplays
  <2> SUFFICES ASSUME Types, MadeInv, FoundInv, UnalteredInv, phase \in {"done", "raised"},
                      Unaltered, SameEngine
               PROVE  phase = "done" /\ Verified
    BY DEF RunReplays, Unaltered, WellFormed
  <2>1. ReplayInv /\ phase = "done"
    BY DEF UnalteredInv, ReplayInv
  <2>2. next - 1 = Len(records)
    BY <2>1 DEF FoundInv, Types
  <2>3. env.effects = Registered(records, Len(records))
    BY <2>1, <2>2 DEF ReplayInv
  <2>4. saved.decision = Decision(Registered(records, Len(records)), records)
    BY <2>1 DEF MadeInv, Unaltered
  <2> QED BY <2>1, <2>3, <2>4 DEF ReplayInv, FoundInv, Verified
<1> QED BY <1>1, MadeInit, MadeStep, FoundInit, FoundStep, UnalteredInit, UnalteredStep, TypesAlways,
           PTL DEF Spec
=============================================================================
