------------------------------ MODULE LabProofs ------------------------------
(***************************************************************************)
(* The lab: one phase with any number of workers, any schedule, any rows   *)
(* locked in any order and any number of lost connections; and what the    *)
(* jobs around it leave behind on the server, for any number of jobs,      *)
(* databases and index candidates, any plans, faults and crashes.          *)
(***************************************************************************)
EXTENDS LabPhase, LabRun, TLAPS

-----------------------------------------------------------------------------
(* A phase. *)

PhasePlaces == {"new", "ready", "locking", "reading", "rollback", "record", "begin", "dead", "done"}

PhaseTypes ==
    /\ main \in {"feed", "side", "returned", "raised"}
    /\ at \in [Threads -> PhasePlaces]
    /\ holder \in [Rows -> Threads \cup {Nobody}]
    /\ late \in 0..2
    /\ main = "feed" => stop = FALSE
    /\ main \in {"side", "returned"} => stop = TRUE

LEMMA PhaseTypesInit == PhaseInit => PhaseTypes
<1> SUFFICES ASSUME PhaseInit PROVE PhaseTypes
  OBVIOUS
<1>1. main = "feed" /\ stop = FALSE /\ late \in 0..2
  BY DEF PhaseInit
<1>2. at \in [Threads -> PhasePlaces] /\ holder \in [Rows -> Threads \cup {Nobody}]
  BY DEF PhaseInit, PhasePlaces
<1> QED BY <1>1, <1>2 DEF PhaseTypes

LEMMA PhaseTypesStep == PhaseTypes /\ [PhaseNext]_phaseVars => PhaseTypes'
<1> SUFFICES ASSUME PhaseTypes, [PhaseNext]_phaseVars PROVE PhaseTypes'
  OBVIOUS
<1> USE DEF PhaseTypes, PhasePlaces, GoTo, Threads
<1>1. CASE UNCHANGED phaseVars
  BY <1>1 DEF phaseVars
<1>2. CASE Main \/ Interrupt
  BY <1>2 DEF Main, Interrupt, Feed, JoinWorkers, JoinSide
<1>3. ASSUME NEW t \in Threads, Connect(t) PROVE PhaseTypes'
  BY <1>3 DEF Connect
<1>4. ASSUME NEW t \in Threads, Lock(t) PROVE PhaseTypes'
  BY <1>4 DEF Lock
<1>5. ASSUME NEW t \in Threads, Refused(t) PROVE PhaseTypes'
  BY <1>5 DEF Refused
<1>6. ASSUME NEW t \in Threads, Commit(t) PROVE PhaseTypes'
  BY <1>6 DEF Commit, Unlocked, After
<1>7. ASSUME NEW t \in Threads, Rollback(t) PROVE PhaseTypes'
  BY <1>7 DEF Rollback, Unlocked, After
<1>8. ASSUME NEW t \in Threads, Lose(t) PROVE PhaseTypes'
  BY <1>8 DEF Lose, Unlocked, AfterLoss
<1>9. CASE CheckStop \/ BeginChunk
  BY <1>9 DEF CheckStop, BeginChunk
<1>10. ASSUME NEW w \in Workers, End(w) \/ ReadDone(w) \/ RecordCall(w) PROVE PhaseTypes'
  BY <1>10 DEF End, ReadDone, RecordCall
<1>11. ASSUME NEW w \in Workers, Take(w) PROVE PhaseTypes'
  BY <1>11 DEF Take
<1> QED
  BY <1>1, <1>2, <1>3, <1>4, <1>5, <1>6, <1>7, <1>8, <1>9, <1>10, <1>11 DEF PhaseNext, Work, BatchJob
-----------------------------------------------------------------------------
(* Locks. *)

LEMMA LocksStep == PhaseTypes /\ ErrorsReleaseLocks /\ [PhaseNext]_phaseVars => ErrorsReleaseLocks'
<1> SUFFICES ASSUME PhaseTypes, ErrorsReleaseLocks, [PhaseNext]_phaseVars PROVE ErrorsReleaseLocks'
  OBVIOUS
<1> USE ThreadsAssumption DEF PhaseTypes, ErrorsReleaseLocks, GoTo, Threads
<1>1. CASE UNCHANGED phaseVars
  BY <1>1 DEF phaseVars
<1>2. CASE Main \/ Interrupt
  BY <1>2 DEF Main, Interrupt, Feed, JoinWorkers, JoinSide
<1>3. ASSUME NEW t \in Threads, Connect(t) PROVE ErrorsReleaseLocks'
  BY <1>3 DEF Connect
<1>4. ASSUME NEW t \in Threads, Lock(t) PROVE ErrorsReleaseLocks'
  BY <1>4 DEF Lock
<1>5. ASSUME NEW t \in Threads, Refused(t) PROVE ErrorsReleaseLocks'
  BY <1>5 DEF Refused
<1>6. ASSUME NEW t \in Threads, Commit(t) \/ Rollback(t) \/ Lose(t) PROVE ErrorsReleaseLocks'
  <2>1. /\ holder' = Unlocked(t)
        /\ \A u \in Threads \ {t} : at'[u] = at[u]
    BY <1>6 DEF Commit, Rollback, Lose
  <2> QED BY <2>1 DEF Unlocked
<1>7. CASE CheckStop \/ BeginChunk
  BY <1>7 DEF CheckStop, BeginChunk
<1>8. ASSUME NEW w \in Workers, End(w) \/ ReadDone(w) \/ RecordCall(w) \/ Take(w)
      PROVE ErrorsReleaseLocks'
  <2>1. /\ holder' = holder
        /\ at[w] \notin {"locking", "rollback"}
        /\ \A u \in Threads \ {w} : at'[u] = at[u]
    BY <1>8 DEF End, ReadDone, RecordCall, Take
  <2> QED BY <2>1
<1> QED
  BY <1>1, <1>2, <1>3, <1>4, <1>5, <1>6, <1>7, <1>8 DEF PhaseNext, Work, BatchJob

\* No error leaves a lock behind: with any number of workers, rows and lost
\* connections, who holds a row is inside a transaction (workload.py:162-172,
\* 232-240).
THEOREM LocksAreReleased == PhaseSpec => []ErrorsReleaseLocks
<1>1. PhaseInit => ErrorsReleaseLocks
  BY DEF PhaseInit, ErrorsReleaseLocks
<1> QED BY <1>1, PhaseTypesInit, PhaseTypesStep, LocksStep, PTL DEF PhaseSpec
-----------------------------------------------------------------------------
(* The batch job after the phase. *)

\* A chunk that begins late is the last: stop is set by then, and the batch job
\* looks at it before it comes to another.
LateInv ==
    /\ late <= 1
    /\ late > 0 => main = "returned" /\ at[Batch] # "begin"

LEMMA LateStep == PhaseTypes /\ LateInv /\ [PhaseNext]_phaseVars => LateInv'
<1> SUFFICES ASSUME PhaseTypes, LateInv, [PhaseNext]_phaseVars PROVE LateInv'
  OBVIOUS
<1> USE ThreadsAssumption DEF PhaseTypes, LateInv, GoTo, Threads
<1>1. CASE UNCHANGED phaseVars
  BY <1>1 DEF phaseVars
<1>2. CASE Main \/ Interrupt
  BY <1>2 DEF Main, Interrupt, Feed, JoinWorkers, JoinSide
<1>3. ASSUME NEW t \in Threads,
             Connect(t) \/ Lock(t) \/ Refused(t) \/ Commit(t) \/ Rollback(t) \/ Lose(t)
      PROVE LateInv'
  BY <1>3 DEF Connect, Lock, Refused, Commit, Rollback, Lose, After, AfterLoss
<1>4. CASE CheckStop
  BY <1>4 DEF CheckStop
<1>5. CASE BeginChunk
  BY <1>5 DEF BeginChunk
<1>6. ASSUME NEW w \in Workers, End(w) \/ ReadDone(w) \/ RecordCall(w) \/ Take(w)
      PROVE LateInv'
  <2>1. late' = late /\ main' = main /\ at'[Batch] = at[Batch]
    BY <1>6 DEF End, ReadDone, RecordCall, Take
  <2> QED BY <2>1
<1> QED
  BY <1>1, <1>2, <1>3, <1>4, <1>5, <1>6 DEF PhaseNext, Work, BatchJob

\* A batch job that outlives its phase begins at most one more chunk, with any
\* number of threads, rows and lost connections (workload.py:226-231, 264-266).
THEOREM OneLateChunk == PhaseSpec => []InterferenceBounded
<1>1. PhaseInit => LateInv
  BY DEF PhaseInit, LateInv
<1>2. LateInv => InterferenceBounded
  BY DEF LateInv, InterferenceBounded
<1> QED BY <1>1, <1>2, PhaseTypesInit, PhaseTypesStep, LateStep, PTL DEF PhaseSpec
-----------------------------------------------------------------------------
(* The calls. *)

Busy(w) == at[w] \in {"locking", "reading", "rollback", "record"}

\* What main puts into the queue: the calls in turn, then end marks.
Stream(k) == IF k <= Calls THEN k ELSE Pill

Taken == fed - Len(queue)

\* The queue holds what was fed and not yet taken, in order; a call that was
\* taken is with one worker or measured; who is done has taken an end mark, which
\* comes after all calls; and nobody works any more once stop is set.
QueueInv ==
    /\ fed \in Nat /\ queue \in Seq(Nat) /\ Len(queue) <= fed
    /\ \A i \in 1..Len(queue) : queue[i] = Stream(Taken + i)

CallsInv ==
    /\ item \in [Workers -> 0..Calls]
    /\ measured \in [1..Calls -> {0, 1}]
    /\ \A w \in Workers : Busy(w) =>
          /\ item[w] \in 1..Calls /\ item[w] <= Taken /\ measured[item[w]] = 0
          /\ \A v \in Workers \ {w} : Busy(v) => item[v] # item[w]
    /\ \A c \in 1..Calls :
          c <= Taken => measured[c] = 1 \/ \E w \in Workers : Busy(w) /\ item[w] = c
    /\ \A c \in 1..Calls : c > Taken => measured[c] = 0
    /\ \A w \in Workers : at[w] = "done" => Taken > Calls
    /\ stop = TRUE => \A w \in Workers : Over(w)

LEMMA QueueStep == QueueInv /\ [PhaseNext]_phaseVars => QueueInv' /\ Taken' >= Taken
<1> SUFFICES ASSUME QueueInv, [PhaseNext]_phaseVars PROVE QueueInv' /\ Taken' >= Taken
  OBVIOUS
<1> USE CallsAssumption DEF QueueInv, Taken
<1>1. CASE UNCHANGED <<fed, queue>>
  BY <1>1 DEF Stream
<1>2. CASE Feed
  <2> DEFINE x == IF fed < Calls THEN fed + 1 ELSE Pill
  <2>1. queue' = Append(queue, x) /\ fed' = fed + 1 /\ x \in Nat /\ x = Stream(fed + 1)
    BY <1>2 DEF Feed, Pill, Stream
  <2> HIDE DEF x
  <2>2. /\ queue' \in Seq(Nat) /\ Len(queue') = Len(queue) + 1
        /\ queue'[Len(queue) + 1] = x
        /\ \A i \in 1..Len(queue) : queue'[i] = queue[i]
    BY <2>1
  <2>3. Taken' = Taken /\ fed' \in Nat /\ Len(queue') <= fed'
    BY <2>1, <2>2
  <2>4. ASSUME NEW i \in 1..Len(queue') PROVE queue'[i] = Stream(Taken + i)
    <3>1. CASE i \in 1..Len(queue)
      BY <3>1, <2>2
    <3>2. CASE i = Len(queue) + 1
      BY <3>2, <2>1, <2>2
    <3> QED BY <3>1, <3>2, <2>2
  <2>5. \A i \in 1..Len(queue') : queue'[i] = Stream(Taken' + i)
    BY <2>3, <2>4
  <2> QED BY <2>2, <2>3, <2>5 DEF Stream
<1>3. CASE queue # <<>> /\ queue' = Tail(queue) /\ fed' = fed
  <2>1. /\ queue' \in Seq(Nat) /\ Len(queue') = Len(queue) - 1
        /\ \A i \in 1..Len(queue') : queue'[i] = queue[i + 1] /\ i + 1 \in 1..Len(queue)
    BY <1>3
  <2>2. Taken' = Taken + 1 /\ Len(queue') <= fed'
    BY <1>3, <2>1
  <2>3. ASSUME NEW i \in 1..Len(queue') PROVE queue'[i] = Stream(Taken' + i)
    <3>1. queue'[i] = Stream(Taken + (i + 1))
      BY <2>1
    <3>2. Taken + (i + 1) = Taken' + i
      BY <2>1, <2>2, <1>3
    <3> QED BY <3>1, <3>2
  <2> QED BY <1>3, <2>1, <2>2, <2>3 DEF Stream
<1> QED
  BY <1>1, <1>2, <1>3
  DEF PhaseNext, Work, BatchJob, Main, phaseVars, Connect, Feed, End, Take, ReadDone, Lock, Refused, Commit,
      Rollback, Lose, RecordCall, CheckStop, BeginChunk, JoinWorkers, JoinSide, Interrupt

\* What is taken next.
LEMMA HeadOfQueue ==
    ASSUME QueueInv, queue # <<>>, queue' = Tail(queue), fed' = fed
    PROVE  Head(queue) = Stream(Taken + 1) /\ Taken' = Taken + 1 /\ Taken \in Nat
BY DEF QueueInv, Taken

\* A step of one thread that takes nothing, measures nothing, and neither
\* begins, ends nor gives up a call.
LEMMA CallsKept ==
    ASSUME PhaseTypes, PhaseTypes', QueueInv, CallsInv, Taken' = Taken,
           item' = item, measured' = measured,
           \A w \in Workers : Busy(w)' <=> Busy(w),
           \A w \in Workers : at'[w] = "done" <=> at[w] = "done",
           stop' = TRUE => \A w \in Workers : Over(w)'
    PROVE  CallsInv'
BY DEF CallsInv

LEMMA CallsStep == PhaseTypes /\ PhaseTypes' /\ QueueInv /\ CallsInv /\ [PhaseNext]_phaseVars => CallsInv'
<1> SUFFICES ASSUME PhaseTypes, PhaseTypes', QueueInv, CallsInv, [PhaseNext]_phaseVars PROVE CallsInv'
  OBVIOUS
<1> USE ThreadsAssumption, CallsAssumption DEF PhaseTypes, GoTo, Threads, PhasePlaces, Over
<1>1. CASE UNCHANGED phaseVars
  BY <1>1, CallsKept DEF phaseVars, Busy, Taken, CallsInv
<1>2. CASE Feed
  <2>1. Taken' = Taken
    BY <1>2 DEF Feed, QueueInv, Taken, Pill
  <2> QED BY <1>2, <2>1, CallsKept DEF Feed, Busy, CallsInv
<1>3. CASE JoinWorkers \/ JoinSide \/ Interrupt
  BY <1>3, CallsKept DEF JoinWorkers, JoinSide, Interrupt, Busy, Taken, CallsInv
<1>4. ASSUME NEW t \in Threads,
             Connect(t) \/ Lock(t) \/ Refused(t) \/ Commit(t) \/ Rollback(t) \/ Lose(t)
      PROVE CallsInv'
  <2>1. /\ item' = item /\ measured' = measured /\ Taken' = Taken /\ stop' = stop
        /\ \A u \in Threads \ {t} : at'[u] = at[u]
    BY <1>4 DEF Connect, Lock, Refused, Commit, Rollback, Lose, Taken
  <2>2. t \in Workers => /\ Busy(t)' <=> Busy(t)
                         /\ at'[t] # "done" /\ at[t] # "done" /\ at[t] # "dead"
    BY <1>4 DEF Connect, Lock, Refused, Commit, Rollback, Lose, After, AfterLoss, Busy
  <2>3. stop = TRUE => \A w \in Workers : w # t /\ Over(w)
    BY <2>2 DEF CallsInv
  <2>4. \A w \in Workers : /\ Busy(w)' <=> Busy(w)
                           /\ at'[w] = "done" <=> at[w] = "done"
                           /\ stop' = TRUE => Over(w)'
    BY <2>1, <2>2, <2>3 DEF Busy
  <2> QED BY <2>1, <2>4, CallsKept
<1>5. CASE CheckStop \/ BeginChunk
  <2>1. /\ item' = item /\ measured' = measured /\ Taken' = Taken /\ stop' = stop
        /\ \A u \in Workers : at'[u] = at[u]
    BY <1>5 DEF CheckStop, BeginChunk, Taken
  <2> QED BY <2>1, CallsKept DEF CallsInv, Busy
<1>6. ASSUME NEW w \in Workers, ReadDone(w) PROVE CallsInv'
  <2>1. /\ item' = item /\ measured' = measured /\ Taken' = Taken /\ stop' = stop
        /\ \A u \in Workers \ {w} : at'[u] = at[u]
        /\ at[w] = "reading" /\ at'[w] = "record"
    BY <1>6 DEF ReadDone, Taken
  <2> QED BY <2>1, CallsKept DEF CallsInv, Busy
<1>7. ASSUME NEW w \in Workers, End(w) PROVE CallsInv'
  <2>1. /\ item' = item /\ measured' = measured /\ stop' = stop
        /\ \A u \in Workers \ {w} : at'[u] = at[u]
        /\ at[w] = "ready" /\ at'[w] = "done"
    BY <1>7 DEF End
  <2>2. Taken' = Taken + 1 /\ Taken \in Nat /\ Stream(Taken + 1) = Pill
    BY <1>7, HeadOfQueue DEF End
  <2>3. Taken >= Calls
    BY <2>2 DEF Stream, Pill
  <2>4. \A u \in Workers : Busy(u)' <=> Busy(u)
    BY <2>1 DEF Busy
  <2> HIDE DEF Busy
  <2> QED BY <2>1, <2>2, <2>3, <2>4 DEF CallsInv
<1>8. ASSUME NEW w \in Workers, Take(w) PROVE CallsInv'
  <2> DEFINE c == Taken + 1
  <2>1. /\ measured' = measured /\ stop' = stop
        /\ \A u \in Workers \ {w} : at'[u] = at[u]
        /\ at[w] = "ready" /\ at'[w] \in {"locking", "reading", "record"}
        /\ item' = [item EXCEPT ![w] = Head(queue)]
    BY <1>8 DEF Take
  <2>2. Taken' = c /\ Taken \in Nat /\ Head(queue) = Stream(c) /\ Head(queue) # Pill
    BY <1>8, HeadOfQueue DEF Take
  <2>3. c \in 1..Calls /\ Head(queue) = c
    BY <2>2 DEF Stream, Pill
  <2> HIDE DEF c
  <2>4. /\ item' \in [Workers -> 0..Calls] /\ item'[w] = c
        /\ \A u \in Workers \ {w} : item'[u] = item[u]
    BY <2>1, <2>3 DEF CallsInv
  <2>5. /\ Busy(w)' /\ ~Busy(w) /\ ~Over(w)
        /\ \A u \in Workers \ {w} : Busy(u)' <=> Busy(u)
    BY <2>1 DEF Busy
  <2>6. c = Taken + 1 /\ measured[c] = 0 /\ stop # TRUE
    <3>1. c = Taken + 1
      BY DEF c
    <3>2. measured[c] = 0
      BY <2>2, <2>3, <3>1 DEF CallsInv
    <3>3. stop # TRUE
      BY <2>5 DEF CallsInv
    <3> QED BY <3>1, <3>2, <3>3
  <2>7. \A v \in Workers : Busy(v) => item[v] # c
    BY <2>2, <2>6, <2>3 DEF CallsInv
  <2>8. \A v \in Workers : Busy(v)' =>
          /\ item'[v] \in 1..Calls /\ item'[v] <= Taken' /\ measured'[item'[v]] = 0
          /\ \A u \in Workers \ {v} : Busy(u)' => item'[u] # item'[v]
    BY <2>1, <2>2, <2>3, <2>4, <2>5, <2>6, <2>7 DEF CallsInv
  <2>9. \A d \in 1..Calls :
          d <= Taken' => measured'[d] = 1 \/ \E v \in Workers : Busy(v)' /\ item'[v] = d
    BY <2>1, <2>2, <2>3, <2>4, <2>5, <2>6 DEF CallsInv
  <2>10. /\ \A d \in 1..Calls : d > Taken' => measured'[d] = 0
         /\ \A v \in Workers : at'[v] = "done" => Taken' > Calls
    BY <2>1, <2>2, <2>3, <2>6 DEF CallsInv
  <2> QED BY <2>1, <2>4, <2>6, <2>8, <2>9, <2>10 DEF CallsInv
<1>9. ASSUME NEW w \in Workers, RecordCall(w) PROVE CallsInv'
  <2> DEFINE c == item[w]
  <2>1. /\ item' = item /\ stop' = stop /\ Taken' = Taken
        /\ \A u \in Workers \ {w} : at'[u] = at[u]
        /\ at[w] = "record" /\ at'[w] = "ready"
        /\ measured' = [measured EXCEPT ![c] = @ + 1]
    BY <1>9 DEF RecordCall, Taken
  <2>2. /\ Busy(w) /\ ~Busy(w)' /\ ~Over(w)
        /\ \A u \in Workers \ {w} : Busy(u)' <=> Busy(u)
    BY <2>1 DEF Busy
  <2>3. c \in 1..Calls /\ c <= Taken /\ measured[c] = 0 /\ stop # TRUE
    BY <2>2 DEF CallsInv
  <2>4. /\ measured' \in [1..Calls -> {0, 1}] /\ measured'[c] = 1
        /\ \A d \in 1..Calls \ {c} : measured'[d] = measured[d]
    BY <2>1, <2>3 DEF CallsInv
  <2>5. \A v \in Workers \ {w} : Busy(v) => item[v] # c
    BY <2>2 DEF CallsInv
  <2>6. \A d \in 1..Calls :
          d <= Taken' => measured'[d] = 1 \/ \E v \in Workers : Busy(v)' /\ item'[v] = d
    BY <2>1, <2>2, <2>3, <2>4 DEF CallsInv
  <2>7. \A v \in Workers : Busy(v)' =>
          /\ item'[v] \in 1..Calls /\ item'[v] <= Taken' /\ measured'[item'[v]] = 0
          /\ \A u \in Workers \ {v} : Busy(u)' => item'[u] # item'[v]
    BY <2>1, <2>2, <2>4, <2>5 DEF CallsInv
  <2>8. Taken \in Int
    BY DEF QueueInv, Taken
  <2>9. \A d \in 1..Calls : d > Taken' => measured'[d] = 0
    BY <2>1, <2>3, <2>4, <2>8 DEF CallsInv
  <2>10. \A v \in Workers : at'[v] = "done" => Taken' > Calls
    BY <2>1 DEF CallsInv
  <2> QED BY <2>1, <2>3, <2>4, <2>6, <2>7, <2>9, <2>10 DEF CallsInv
<1> QED
  BY <1>1, <1>2, <1>3, <1>4, <1>5, <1>6, <1>7, <1>8, <1>9 DEF PhaseNext, Main, Work, BatchJob

\* No call is measured twice, and with one worker that lives to the end none is
\* left out, for any schedule, any number of workers and lost connections
\* (workload.py:187-217, 252-262).
THEOREM EveryCallIsMeasured == PhaseSpec => []CallsMeasured
<1>1. PhaseInit => QueueInv /\ CallsInv
  <2> SUFFICES ASSUME PhaseInit PROVE QueueInv /\ CallsInv
    OBVIOUS
  <2>1. fed = 0 /\ queue = <<>> /\ Len(queue) = 0
    BY DEF PhaseInit
  <2>2. QueueInv /\ Taken = 0
    <3>1. queue \in Seq(Nat)
      BY <2>1
    <3>2. \A i \in 1..Len(queue) : queue[i] = Stream(Taken + i)
      BY <2>1
    <3>3. fed \in Int /\ Len(queue) \in Int /\ fed = Len(queue)
      BY <2>1
    <3>4. Taken = 0
      BY <3>3 DEF Taken
    <3>5. fed \in Nat /\ Len(queue) <= fed
      BY <2>1
    <3> QED BY <3>1, <3>2, <3>4, <3>5 DEF QueueInv
  <2>3. \A w \in Workers : ~Busy(w) /\ at[w] # "done"
    BY DEF PhaseInit, Busy, Threads
  <2> QED BY <2>3, <2>2, CallsAssumption DEF PhaseInit, CallsInv, Pill
<1>2. QueueInv /\ CallsInv => CallsMeasured
  <2> SUFFICES ASSUME QueueInv, CallsInv PROVE CallsMeasured
    OBVIOUS
  <2>1. \A c \in 1..Calls : measured[c] <= 1
    BY DEF CallsInv
  <2>2. ASSUME stop = TRUE, NEW v \in Workers, at[v] = "done", NEW c \in 1..Calls
        PROVE measured[c] = 1
    <3>1. Taken > Calls /\ \A w \in Workers : ~Busy(w)
      BY <2>2 DEF CallsInv, Over, Busy
    <3>2. Taken \in Int
      BY DEF QueueInv, Taken
    <3>3. c <= Taken
      BY <3>1, <3>2, CallsAssumption
    <3> QED BY <3>1, <3>3 DEF CallsInv
  <2> QED BY <2>1, <2>2 DEF CallsMeasured
<1> QED BY <1>1, <1>2, PhaseTypesInit, PhaseTypesStep, QueueStep, CallsStep, PTL DEF PhaseSpec

-----------------------------------------------------------------------------
(* The jobs. *)

Places == {"idle", "drop", "create", "build", "stage", "analyze", "reset", "enable",
           "load", "disable", "collect", "undo", "close", "done", "failed", "crashed"}

Types ==
    /\ engine \in {"mysql", "postgres"}
    /\ maker \in [Databases -> [Indexes -> Jobs \cup {None}]]
    /\ slow \in Jobs \cup {None}
    /\ pc \in [Jobs -> Places]
    /\ pass \in [Jobs -> Nat]
    /\ stage \in [Jobs -> Nat]

\* Why LogIsTemporary holds: only a first pass with Percona switches the log on,
\* and such a pass goes from its load to switching it off.
LogInv ==
    /\ \A j \in Jobs : pc[j] = "enable" => Logs(j)
    /\ slow # None =>
          \/ pc[slow] \in {"load", "disable"} /\ Logs(slow)
          \/ LeftAt(slow, {"enable", "disable", "crash"})

InStage == {"analyze", "reset", "enable", "load", "disable", "collect", "undo"}

\* Nothing can keep job j from dropping its index i of database d.
Held(d, i, j) ==
    /\ pc[j] \in InStage
    /\ Want(j) = i
    /\ DatabaseOf[j] = d
    /\ d \in there /\ d \in built
    /\ j \in conn
    /\ pc[j] # "analyze" => j \in created

Excused(j) == LeftAt(j, {"analyze", "undo", "crash"})

\* Why IndexesAreTemporary holds.
IndexInv ==
    \A d \in Databases, i \in Indexes, j \in Jobs :
        maker[d][i] = j /\ ~Excused(j) => Held(d, i, j)
-----------------------------------------------------------------------------
\* Setting one entry of the table of indexes.
LEMMA SetEntry ==
    ASSUME NEW m \in [Databases -> [Indexes -> Jobs \cup {None}]],
           NEW d \in Databases, NEW i, NEW v \in Jobs \cup {None}
    PROVE  /\ [m EXCEPT ![d][i] = v] \in [Databases -> [Indexes -> Jobs \cup {None}]]
           /\ i \in Indexes => [m EXCEPT ![d][i] = v][d][i] = v
           /\ \A e \in Databases, k \in Indexes :
                  e # d \/ k # i => [m EXCEPT ![d][i] = v][e][k] = m[e][k]
OBVIOUS

LEMMA TypesInit == Init => Types
BY JobsAssumption DEF Init, Types, NoIndex, Places

LEMMA TypesStep == Types /\ [Next]_vars => Types'
<1> SUFFICES ASSUME Types, [Next]_vars PROVE Types'
  OBVIOUS
<1> USE JobsAssumption DEF Types, Places, Go, Raise, Measure
<1>1. CASE UNCHANGED vars
  BY <1>1 DEF vars, base, server, locals, bounds
<1>2. ASSUME NEW j \in Jobs, Start(j) PROVE Types'
  BY <1>2 DEF Start, base, server, locals, bounds
<1>3. ASSUME NEW j \in Jobs, Drop(j) PROVE Types'
  BY <1>3 DEF Drop, server, bounds, NoIndex, Base
<1>4. ASSUME NEW j \in Jobs, Create(j) PROVE Types'
  BY <1>4 DEF Create, server, bounds
<1>5. ASSUME NEW j \in Jobs, Build(j) PROVE Types'
  BY <1>5 DEF Build, server, bounds
<1>6. ASSUME NEW j \in Jobs, BeginPlain(j) PROVE Types'
  BY <1>6 DEF BeginPlain, base, server, locals, bounds
<1>7. ASSUME NEW j \in Jobs, BeginIndexed(j) PROVE Types'
  <2>1. maker' \in [Databases -> [Indexes -> Jobs \cup {None}]]
    <3>1. maker' = maker \/ maker' = [maker EXCEPT ![Base(j)][Want(j)] = j]
      BY <1>7 DEF BeginIndexed
    <3>2. Base(j) \in Databases /\ maker \in [Databases -> [Indexes -> Jobs \cup {None}]]
      BY DEF Base
    <3>3. [maker EXCEPT ![Base(j)][Want(j)] = j] \in [Databases -> [Indexes -> Jobs \cup {None}]]
      BY <3>2, SetEntry
    <3> QED BY <3>1, <3>3
  <2> QED BY <1>7, <2>1 DEF BeginIndexed, server, bounds
<1>8. ASSUME NEW j \in Jobs, Analyze(j) PROVE Types'
  BY <1>8 DEF Analyze, base, server, bounds
<1>9. ASSUME NEW j \in Jobs, Reset(j) PROVE Types'
  BY <1>9 DEF Reset, base, bounds
<1>10. ASSUME NEW j \in Jobs, EnableLog(j) PROVE Types'
  BY <1>10 DEF EnableLog, base, locals, bounds
<1>11. ASSUME NEW j \in Jobs, Load(j) PROVE Types'
  BY <1>11 DEF Load, AfterPart, base, bounds
<1>12. ASSUME NEW j \in Jobs, DisableLog(j) PROVE Types'
  BY <1>12 DEF DisableLog, LogAfterPhase, base, locals, bounds
<1>13. ASSUME NEW j \in Jobs, Collect(j) PROVE Types'
  BY <1>13 DEF Collect, base, server, bounds
<1>14. ASSUME NEW j \in Jobs, Undo(j) PROVE Types'
  <2>1. maker' \in [Databases -> [Indexes -> Jobs \cup {None}]]
    <3>1. maker' = maker \/ maker' = [maker EXCEPT ![Base(j)][Want(j)] = None]
      BY <1>14 DEF Undo
    <3>2. Base(j) \in Databases /\ maker \in [Databases -> [Indexes -> Jobs \cup {None}]]
      BY DEF Base
    <3>3. [maker EXCEPT ![Base(j)][Want(j)] = None] \in [Databases -> [Indexes -> Jobs \cup {None}]]
      BY <3>2, SetEntry
    <3> QED BY <3>1, <3>3
  <2>2. stage' \in [Jobs -> Nat]
    <3>1. stage' = stage \/ stage' = [stage EXCEPT ![j] = stage[j] + 1]
      BY <1>14 DEF Undo
    <3> QED BY <3>1
  <2>3. pc' \in [Jobs -> Places]
    BY <1>14 DEF Undo
  <2> QED BY <1>14, <2>1, <2>2, <2>3 DEF Undo, server, bounds
<1>15. ASSUME NEW j \in Jobs, EndPass(j) PROVE Types'
  BY <1>15 DEF EndPass, base, server, locals, bounds
<1>16. ASSUME NEW j \in Jobs, Close(j) PROVE Types'
  <2>1. pass' \in [Jobs -> Nat] /\ stage' \in [Jobs -> Nat]
    BY <1>16 DEF Close
  <2>2. pc' \in [Jobs -> Places]
    BY <1>16 DEF Close
  <2> QED BY <1>16, <2>1, <2>2 DEF Close, base, server, bounds
<1>17. ASSUME NEW j \in Jobs, Fault(j) PROVE Types'
  BY <1>17 DEF Fault, Mishap, LogAfterPhase, base
<1>18. ASSUME NEW j \in Jobs, Crash(j) PROVE Types'
  BY <1>18 DEF Crash, Mishap, base, server
<1> QED
  BY <1>1, <1>2, <1>3, <1>4, <1>5, <1>6, <1>7, <1>8, <1>9, <1>10, <1>11, <1>12,
     <1>13, <1>14, <1>15, <1>16, <1>17, <1>18 DEF Next
-----------------------------------------------------------------------------
LEMMA LogStep == Types /\ LogInv /\ [Next]_vars => LogInv'
<1> SUFFICES ASSUME Types, LogInv, [Next]_vars PROVE LogInv'
  OBVIOUS
<1> USE JobsAssumption DEF Types, LogInv, LeftAt, Go, Raise, Measure, Logs
<1>1. CASE UNCHANGED vars
  BY <1>1 DEF vars, base, server, locals, bounds
<1>2. ASSUME NEW j \in Jobs, Start(j) PROVE LogInv'
  BY <1>2 DEF Start, base, server, locals, bounds
<1>3. ASSUME NEW j \in Jobs, Drop(j) PROVE LogInv'
  BY <1>3 DEF Drop, server, bounds
<1>4. ASSUME NEW j \in Jobs, Create(j) PROVE LogInv'
  BY <1>4 DEF Create, server, bounds
<1>5. ASSUME NEW j \in Jobs, Build(j) PROVE LogInv'
  BY <1>5 DEF Build, server, bounds
<1>6. ASSUME NEW j \in Jobs, BeginPlain(j) PROVE LogInv'
  BY <1>6 DEF BeginPlain, base, server, locals, bounds
<1>7. ASSUME NEW j \in Jobs, BeginIndexed(j) PROVE LogInv'
  BY <1>7 DEF BeginIndexed, server, bounds
<1>8. ASSUME NEW j \in Jobs, Analyze(j) PROVE LogInv'
  BY <1>8 DEF Analyze, base, server, bounds
<1>9. ASSUME NEW j \in Jobs, Reset(j) PROVE LogInv'
  BY <1>9 DEF Reset, base, bounds
<1>10. ASSUME NEW j \in Jobs, EnableLog(j) PROVE LogInv'
  BY <1>10 DEF EnableLog, base, locals, bounds
<1>11. ASSUME NEW j \in Jobs, Load(j) PROVE LogInv'
  BY <1>11 DEF Load, AfterPart, base, bounds
<1>12. ASSUME NEW j \in Jobs, DisableLog(j) PROVE LogInv'
  BY <1>12 DEF DisableLog, LogAfterPhase, base, locals, bounds
<1>13. ASSUME NEW j \in Jobs, Collect(j) PROVE LogInv'
  BY <1>13 DEF Collect, base, server, bounds
<1>14. ASSUME NEW j \in Jobs, Undo(j) PROVE LogInv'
  BY <1>14 DEF Undo, server, bounds
<1>15. ASSUME NEW j \in Jobs, EndPass(j) PROVE LogInv'
  BY <1>15 DEF EndPass, base, server, locals, bounds
<1>16. ASSUME NEW j \in Jobs, Close(j) PROVE LogInv'
  BY <1>16 DEF Close, base, server, bounds
<1>17. ASSUME NEW j \in Jobs, Fault(j) PROVE LogInv'
  BY <1>17 DEF Fault, Mishap, LogAfterPhase, base
<1>18. ASSUME NEW j \in Jobs, Crash(j) PROVE LogInv'
  BY <1>18 DEF Crash, Mishap, base, server
<1> QED
  BY <1>1, <1>2, <1>3, <1>4, <1>5, <1>6, <1>7, <1>8, <1>9, <1>10, <1>11, <1>12,
     <1>13, <1>14, <1>15, <1>16, <1>17, <1>18 DEF Next
-----------------------------------------------------------------------------
LEMMA IndexStep == Types /\ IndexInv /\ [Next]_vars => IndexInv'
<1> SUFFICES ASSUME Types, IndexInv, [Next]_vars,
                    NEW d \in Databases, NEW i \in Indexes, NEW k \in Jobs,
                    maker'[d][i] = k, ~Excused(k)'
             PROVE  Held(d, i, k)'
  BY DEF IndexInv
<1> USE JobsAssumption DEF Types, Held, Excused, LeftAt, InStage, Want, Base, Go, Raise, Measure
<1>0. maker[d][i] = k /\ ~Excused(k) => Held(d, i, k)
  BY DEF IndexInv
<1>1. CASE UNCHANGED vars
  BY <1>0, <1>1 DEF vars, base, server, locals, bounds
<1>2. ASSUME NEW j \in Jobs, Start(j) PROVE Held(d, i, k)'
  BY <1>0, <1>2 DEF Start, base, server, locals, bounds
<1>3. ASSUME NEW j \in Jobs, Drop(j) PROVE Held(d, i, k)'
  BY <1>0, <1>3 DEF Drop, server, bounds, NoIndex
<1>4. ASSUME NEW j \in Jobs, Create(j) PROVE Held(d, i, k)'
  BY <1>0, <1>4 DEF Create, server, bounds
<1>5. ASSUME NEW j \in Jobs, Build(j) PROVE Held(d, i, k)'
  BY <1>0, <1>5 DEF Build, server, bounds
<1>6. ASSUME NEW j \in Jobs, BeginPlain(j) PROVE Held(d, i, k)'
  BY <1>0, <1>6 DEF BeginPlain, base, server, locals, bounds
<1>7. ASSUME NEW j \in Jobs, BeginIndexed(j) PROVE Held(d, i, k)'
  <2>1. CASE Works(j) /\ ~Present(j, Want(j))
    <3>1. /\ pc[j] = "stage" /\ pc' = [pc EXCEPT ![j] = "analyze"]
          /\ maker' = [maker EXCEPT ![Base(j)][Want(j)] = j]
          /\ UNCHANGED <<there, built, stage, conn, created, left>>
      BY <1>7, <2>1 DEF BeginIndexed, bounds
    <3>2. Base(j) \in Databases
      BY DEF Base
    <3>3. CASE d = Base(j) /\ i = Want(j)
      <4>1. k = j
        BY <3>1, <3>2, <3>3, SetEntry
      <4> QED BY <2>1, <3>1, <3>3, <4>1 DEF Works, Tables
    <3>4. CASE d # Base(j) \/ i # Want(j)
      <4>1. maker[d][i] = k
        BY <3>1, <3>2, <3>4, SetEntry
      <4> QED BY <1>0, <3>1, <4>1
    <3> QED BY <3>3, <3>4
  <2>2. CASE ~(Works(j) /\ ~Present(j, Want(j)))
    BY <1>0, <1>7, <2>2 DEF BeginIndexed, server, bounds
  <2> QED BY <2>1, <2>2
<1>8. ASSUME NEW j \in Jobs, Analyze(j) PROVE Held(d, i, k)'
  BY <1>0, <1>8 DEF Analyze, base, server, bounds, Works, Tables
<1>9. ASSUME NEW j \in Jobs, Reset(j) PROVE Held(d, i, k)'
  BY <1>0, <1>9 DEF Reset, base, bounds
<1>10. ASSUME NEW j \in Jobs, EnableLog(j) PROVE Held(d, i, k)'
  BY <1>0, <1>10 DEF EnableLog, base, locals, bounds
<1>11. ASSUME NEW j \in Jobs, Load(j) PROVE Held(d, i, k)'
  BY <1>0, <1>11 DEF Load, AfterPart, base, bounds
<1>12. ASSUME NEW j \in Jobs, DisableLog(j) PROVE Held(d, i, k)'
  BY <1>0, <1>12 DEF DisableLog, base, locals, bounds
<1>13. ASSUME NEW j \in Jobs, Collect(j) PROVE Held(d, i, k)'
  BY <1>0, <1>13 DEF Collect, base, server, bounds
<1>14. ASSUME NEW j \in Jobs, Undo(j) PROVE Held(d, i, k)'
  <2>1. maker[d][i] = k
    BY <1>14 DEF Undo
  <2>2. CASE k = j
    BY <1>0, <1>14, <2>1, <2>2 DEF Undo, server, bounds, Undone, DropIndexSucceeds, Present
  <2>3. CASE k # j
    BY <1>0, <1>14, <2>1, <2>3 DEF Undo, server, bounds
  <2> QED BY <2>2, <2>3
<1>15. ASSUME NEW j \in Jobs, EndPass(j) PROVE Held(d, i, k)'
  BY <1>0, <1>15 DEF EndPass, base, server, locals, bounds
<1>16. ASSUME NEW j \in Jobs, Close(j) PROVE Held(d, i, k)'
  BY <1>0, <1>16 DEF Close, base, server, bounds
<1>17. ASSUME NEW j \in Jobs, Fault(j) PROVE Held(d, i, k)'
  BY <1>0, <1>17 DEF Fault, Mishap, base
<1>18. ASSUME NEW j \in Jobs, Crash(j) PROVE Held(d, i, k)'
  BY <1>0, <1>18 DEF Crash, Mishap, base, server
<1> QED
  BY <1>1, <1>2, <1>3, <1>4, <1>5, <1>6, <1>7, <1>8, <1>9, <1>10, <1>11, <1>12,
     <1>13, <1>14, <1>15, <1>16, <1>17, <1>18 DEF Next
-----------------------------------------------------------------------------
(* What is reported. *)

Inner == InStage \ {"analyze"}

\* A stage that wants an index measures only once it is created, and what is
\* created is wanted; a mark that a fault left behind belongs to a job that is
\* about to fail.
CreatedInv ==
    \A j \in Jobs :
        /\ stage[j] >= 1
        /\ pc[j] \in InStage => stage[j] <= Len(Plan[j])
        /\ pc[j] \in Inner => (j \in created <=> Want(j) # None)
        /\ pc[j] = "analyze" => Want(j) # None
        /\ pc[j] \in {"idle", "drop", "create", "build", "stage", "analyze"} => j \notin created
        /\ pc[j] = "close" /\ j \notin raised => j \notin created

\* Why PostgreSQL drops nobody else's index: who made one keeps it as long as
\* its session lives, for rebuilding the database ends that session.
OwnInv ==
    engine = "postgres" =>
        \A j \in Jobs : j \in conn /\ pc[j] \in InStage /\ Want(j) # None => maker[Base(j)][Want(j)] = j

\* The reports are sequences, of whatever.
Sequences == \E R : reports \in [Jobs -> Seq(R)]

ReportsInv == CreatedInv /\ OwnInv /\ Sequences /\ LostIndexIsNoticed

LEMMA CreatedStep == Types /\ CreatedInv /\ [Next]_vars => CreatedInv'
<1> SUFFICES ASSUME Types, CreatedInv, [Next]_vars PROVE CreatedInv'
  OBVIOUS
<1> USE JobsAssumption DEF Types, CreatedInv, InStage, Inner, Want, Go, Raise, Measure
<1>1. CASE UNCHANGED vars
  BY <1>1 DEF vars, base, server, locals, bounds
<1>2. ASSUME NEW j \in Jobs, Start(j) PROVE CreatedInv'
  BY <1>2 DEF Start, base, server, locals, bounds
<1>3. ASSUME NEW j \in Jobs, Drop(j) PROVE CreatedInv'
  BY <1>3 DEF Drop, server, bounds
<1>4. ASSUME NEW j \in Jobs, Create(j) PROVE CreatedInv'
  BY <1>4 DEF Create, server, bounds
<1>5. ASSUME NEW j \in Jobs, Build(j) PROVE CreatedInv'
  BY <1>5 DEF Build, server, bounds
<1>6. ASSUME NEW j \in Jobs, BeginPlain(j) PROVE CreatedInv'
  BY <1>6 DEF BeginPlain, base, server, locals, bounds
<1>7. ASSUME NEW j \in Jobs, BeginIndexed(j) PROVE CreatedInv'
  BY <1>7 DEF BeginIndexed, server, bounds
<1>8. ASSUME NEW j \in Jobs, Analyze(j) PROVE CreatedInv'
  BY <1>8 DEF Analyze, base, server, bounds
<1>9. ASSUME NEW j \in Jobs, Reset(j) PROVE CreatedInv'
  BY <1>9 DEF Reset, base, bounds
<1>10. ASSUME NEW j \in Jobs, EnableLog(j) PROVE CreatedInv'
  BY <1>10 DEF EnableLog, base, locals, bounds
<1>11. ASSUME NEW j \in Jobs, Load(j) PROVE CreatedInv'
  BY <1>11 DEF Load, AfterPart, base, bounds
<1>12. ASSUME NEW j \in Jobs, DisableLog(j) PROVE CreatedInv'
  BY <1>12 DEF DisableLog, base, locals, bounds
<1>13. ASSUME NEW j \in Jobs, Collect(j) PROVE CreatedInv'
  BY <1>13 DEF Collect, base, server, bounds
<1>14. ASSUME NEW j \in Jobs, Undo(j) PROVE CreatedInv'
  BY <1>14 DEF Undo, server, bounds
<1>15. ASSUME NEW j \in Jobs, EndPass(j) PROVE CreatedInv'
  BY <1>15 DEF EndPass, base, server, locals, bounds
<1>16. ASSUME NEW j \in Jobs, Close(j) PROVE CreatedInv'
  BY <1>16 DEF Close, base, server, bounds
<1>17. ASSUME NEW j \in Jobs, Fault(j) PROVE CreatedInv'
  BY <1>17 DEF Fault, Mishap, base, Logs
<1>18. ASSUME NEW j \in Jobs, Crash(j) PROVE CreatedInv'
  BY <1>18 DEF Crash, Mishap, base, server
<1> QED
  BY <1>1, <1>2, <1>3, <1>4, <1>5, <1>6, <1>7, <1>8, <1>9, <1>10, <1>11, <1>12,
     <1>13, <1>14, <1>15, <1>16, <1>17, <1>18 DEF Next

\* The index a job wants is one of the candidates.
LEMMA Wanted ==
    ASSUME Types, CreatedInv, NEW j \in Jobs, stage[j] <= Len(Plan[j]), Want(j) # None
    PROVE  Want(j) \in Indexes
BY JobsAssumption DEF Types, CreatedInv, Want

LEMMA OwnStep == Types /\ CreatedInv /\ OwnInv /\ [Next]_vars => OwnInv'
<1> SUFFICES ASSUME Types, CreatedInv, OwnInv, [Next]_vars, engine' = "postgres",
                    NEW k \in Jobs, k \in conn', pc'[k] \in InStage, Want(k)' # None
             PROVE  (maker[Base(k)][Want(k)] = k)'
  BY DEF OwnInv
<1> DEFINE Goal == (maker[Base(k)][Want(k)] = k)'
<1>0. engine = "postgres"
  BY DEF Next, vars, bounds, Start, Drop, Create, Build, BeginPlain, BeginIndexed, Analyze, Reset,
         EnableLog, Load, DisableLog, Collect, Undo, EndPass, Close, Fault, Crash, Mishap
<1> USE <1>0 DEF Types, OwnInv, InStage, Go, Raise, Measure
<1>1. CASE UNCHANGED vars
  BY <1>1 DEF vars, base, server, locals, bounds, Want, Base
<1>2. ASSUME NEW j \in Jobs, Start(j) PROVE Goal
  BY <1>2 DEF Start, base, server, locals, bounds, Want, Base
<1>3. ASSUME NEW j \in Jobs, Drop(j) PROVE Goal
  <2>1. k # j /\ pc[k] \in InStage /\ Want(k)' = Want(k) /\ k \in conn /\ Base(k) # Base(j)
    BY <1>3 DEF Drop, Want, Base
  <2> QED BY <1>3, <2>1, JobsAssumption DEF Drop, Base
<1>4. ASSUME NEW j \in Jobs, Create(j) PROVE Goal
  BY <1>4 DEF Create, server, bounds, Want, Base
<1>5. ASSUME NEW j \in Jobs, Build(j) PROVE Goal
  BY <1>5 DEF Build, server, bounds, Want, Base
<1>6. ASSUME NEW j \in Jobs, BeginPlain(j) PROVE Goal
  BY <1>6 DEF BeginPlain, base, server, locals, bounds, Want, Base
<1>7. ASSUME NEW j \in Jobs, BeginIndexed(j) PROVE Goal
  <2>1. /\ stage[j] <= Len(Plan[j]) /\ Want(j) # None /\ pc[j] = "stage"
        /\ Want(k)' = Want(k) /\ k \in conn /\ \A u \in Jobs \ {j} : pc'[u] = pc[u]
    BY <1>7 DEF BeginIndexed, Want
  <2>2. Want(j) \in Indexes /\ Base(j) \in Databases /\ Base(k) \in Databases
    BY <2>1, Wanted, JobsAssumption DEF Base
  <2>3. CASE Works(j) /\ ~Present(j, Want(j))
    <3>1. maker' = [maker EXCEPT ![Base(j)][Want(j)] = j] /\ maker[Base(j)][Want(j)] = None
      BY <1>7, <2>3 DEF BeginIndexed, Present
    <3>2. CASE k = j
      BY <2>1, <2>2, <3>1, <3>2, SetEntry DEF Base
    <3>3. CASE k # j
      <4>1. pc[k] \in InStage /\ maker[Base(k)][Want(k)] = k
        BY <2>1, <3>3
      <4>2. Want(k) \in Indexes
        BY <2>1, <4>1, Wanted DEF CreatedInv
      <4>3. Base(k) # Base(j) \/ Want(k) # Want(j)
        BY <3>1, <4>1, JobsAssumption
      <4> QED BY <2>1, <2>2, <3>1, <4>1, <4>2, <4>3, SetEntry DEF Base
    <3> QED BY <3>2, <3>3
  <2>4. CASE ~(Works(j) /\ ~Present(j, Want(j)))
    <3>1. maker' = maker /\ k # j
      BY <1>7, <2>4 DEF BeginIndexed
    <3> QED BY <2>1, <3>1 DEF Base
  <2> QED BY <2>3, <2>4
<1>8. ASSUME NEW j \in Jobs, Analyze(j) PROVE Goal
  BY <1>8 DEF Analyze, base, server, bounds, Want, Base
<1>9. ASSUME NEW j \in Jobs, Reset(j) PROVE Goal
  BY <1>9 DEF Reset, base, bounds, Want, Base
<1>10. ASSUME NEW j \in Jobs, EnableLog(j) PROVE Goal
  BY <1>10 DEF EnableLog, base, locals, bounds, Want, Base
<1>11. ASSUME NEW j \in Jobs, Load(j) PROVE Goal
  BY <1>11 DEF Load, AfterPart, base, bounds, Want, Base
<1>12. ASSUME NEW j \in Jobs, DisableLog(j) PROVE Goal
  BY <1>12 DEF DisableLog, base, locals, bounds, Want, Base
<1>13. ASSUME NEW j \in Jobs, Collect(j) PROVE Goal
  BY <1>13 DEF Collect, base, server, bounds, Want, Base
<1>14. ASSUME NEW j \in Jobs, Undo(j) PROVE Goal
  <2>1. /\ k # j /\ conn' = conn /\ pc[k] \in InStage /\ pc[j] = "undo"
        /\ stage'[k] = stage[k]
    BY <1>14 DEF Undo
  <2>2. Want(k)' = Want(k) /\ Base(k) \in Databases /\ Base(j) \in Databases
    BY <2>1, JobsAssumption DEF Want, Base
  <2>3. maker[Base(k)][Want(k)] = k /\ Want(k) \in Indexes
    BY <2>1, <2>2, Wanted DEF CreatedInv
  <2>4. CASE j \in created /\ DropIndexSucceeds(j)
    <3>1. Want(j) # None /\ stage[j] <= Len(Plan[j]) /\ j \in conn
      BY <2>1, <2>4 DEF CreatedInv, Inner, DropIndexSucceeds
    <3>2. maker[Base(j)][Want(j)] = j /\ Want(j) \in Indexes
      BY <2>1, <3>1, Wanted
    <3>3. maker' = [maker EXCEPT ![Base(j)][Want(j)] = None]
      BY <1>14, <2>4 DEF Undo, Undone
    <3> QED BY <2>1, <2>2, <2>3, <3>2, <3>3, SetEntry DEF Base
  <2>5. CASE ~(j \in created /\ DropIndexSucceeds(j))
    <3>1. maker' = maker
      BY <1>14, <2>5 DEF Undo, Undone
    <3> QED BY <2>2, <2>3, <3>1 DEF Base
  <2> QED BY <2>4, <2>5
<1>15. ASSUME NEW j \in Jobs, EndPass(j) PROVE Goal
  BY <1>15 DEF EndPass, base, server, locals, bounds, Want, Base
<1>16. ASSUME NEW j \in Jobs, Close(j) PROVE Goal
  BY <1>16 DEF Close, base, server, bounds, Want, Base
<1>17. ASSUME NEW j \in Jobs, Fault(j) PROVE Goal
  BY <1>17 DEF Fault, Mishap, base, Want, Base
<1>18. ASSUME NEW j \in Jobs, Crash(j) PROVE Goal
  BY <1>18 DEF Crash, Mishap, base, server, Want, Base
<1> QED
  BY <1>1, <1>2, <1>3, <1>4, <1>5, <1>6, <1>7, <1>8, <1>9, <1>10, <1>11, <1>12,
     <1>13, <1>14, <1>15, <1>16, <1>17, <1>18 DEF Next

\* A sequence and one more element.
LEMMA OneMore ==
    ASSUME NEW R, NEW s \in Seq(R), NEW e
    PROVE  /\ s \in Seq(R \cup {e}) /\ Append(s, e) \in Seq(R \cup {e})
           /\ \A n \in DOMAIN Append(s, e) :
                  \/ n \in DOMAIN s /\ Append(s, e)[n] = s[n]
                  \/ Append(s, e)[n] = e
OBVIOUS

LEMMA ReportsInit == Init => ReportsInv
<1> SUFFICES ASSUME Init PROVE ReportsInv
  OBVIOUS
<1>1. CreatedInv /\ OwnInv
  BY DEF Init, CreatedInv, OwnInv, InStage, Inner
<1>2. reports \in [Jobs -> Seq({})] /\ \A j \in Jobs : DOMAIN reports[j] = {}
  BY DEF Init
<1> QED BY <1>1, <1>2 DEF ReportsInv, Sequences, LostIndexIsNoticed

LEMMA ReportsStep == Types /\ ReportsInv /\ [Next]_vars => ReportsInv'
<1> SUFFICES ASSUME Types, ReportsInv, [Next]_vars PROVE (Sequences /\ LostIndexIsNoticed)'
  BY CreatedStep, OwnStep DEF ReportsInv
<1>1. engine' = engine
  BY DEF Next, vars, bounds, Start, Drop, Create, Build, BeginPlain, BeginIndexed, Analyze, Reset,
         EnableLog, Load, DisableLog, Collect, Undo, EndPass, Close, Fault, Crash, Mishap
<1>2. CASE reports' = reports
  BY <1>1, <1>2 DEF ReportsInv, Sequences, LostIndexIsNoticed
<1>3. ASSUME NEW j \in Jobs, Undo(j), reports' # reports PROVE (Sequences /\ LostIndexIsNoticed)'
  <2> DEFINE r == Report(j)
  <2>1. /\ reports' = [reports EXCEPT ![j] = Append(@, r)]
        /\ pc[j] = "undo" /\ (j \in created => DropIndexSucceeds(j))
    BY <1>3 DEF Undo, Undone
  <2>2. r.stage = stage[j] /\ r.dropped = IF j \in created THEN maker[Base(j)][Want(j)] ELSE None
    BY DEF Report
  <2>3. Want(j) # None => r.dropped # None /\ (engine = "postgres" => r.dropped = j)
    BY <2>1, <2>2, JobsAssumption
    DEF ReportsInv, CreatedInv, OwnInv, Types, InStage, Inner, DropIndexSucceeds, Present
  <2> HIDE DEF r
  <2>4. PICK R : reports \in [Jobs -> Seq(R)]
    BY DEF ReportsInv, Sequences
  <2>5. /\ reports'[j] = Append(reports[j], r)
        /\ \A k \in Jobs \ {j} : reports'[k] = reports[k]
    BY <2>1, <2>4
  <2>6. reports' \in [Jobs -> Seq(R \cup {r})]
    <3>1. ASSUME NEW k \in Jobs PROVE reports'[k] \in Seq(R \cup {r})
      <4>1. reports[k] \in Seq(R)
        BY <2>4
      <4>2. reports[k] \in Seq(R \cup {r}) /\ Append(reports[k], r) \in Seq(R \cup {r})
        BY <4>1, OneMore
      <4>3. reports'[k] = reports[k] \/ reports'[k] = Append(reports[k], r)
        BY <2>5
      <4> QED BY <4>2, <4>3
    <3> QED BY <2>1, <2>4, <3>1
  <2>7. ASSUME NEW k \in Jobs, NEW n \in DOMAIN reports'[k], Plan[k][reports'[k][n].stage] # None
        PROVE  /\ reports'[k][n].dropped # None
               /\ engine = "postgres" => reports'[k][n].dropped = k
    <3>1. CASE n \in DOMAIN reports[k] /\ reports'[k][n] = reports[k][n]
      BY <2>7, <3>1 DEF ReportsInv, LostIndexIsNoticed
    <3>2. CASE k = j /\ reports'[k][n] = r
      BY <2>2, <2>3, <2>7, <3>2 DEF Want
    <3>3. CASE k # j
      BY <2>5, <2>7, <3>1, <3>3
    <3>4. CASE k = j
      <4>1. reports[j] \in Seq(R)
        BY <2>4
      <4>2. n \in DOMAIN Append(reports[j], r)
        BY <2>5, <2>7, <3>4
      <4>3. \/ n \in DOMAIN reports[j] /\ Append(reports[j], r)[n] = reports[j][n]
            \/ Append(reports[j], r)[n] = r
        BY <4>1, <4>2, OneMore
      <4> QED BY <2>5, <3>1, <3>2, <3>4, <4>3
    <3> QED BY <3>3, <3>4
  <2> QED BY <1>1, <2>6, <2>7 DEF Sequences, LostIndexIsNoticed
<1> QED
  BY <1>2, <1>3
  DEF Next, vars, Start, Drop, Create, Build, BeginPlain, BeginIndexed, Analyze, Reset,
      EnableLog, Load, DisableLog, Collect, EndPass, Close, Fault, Crash, Mishap
-----------------------------------------------------------------------------
(* What a job measures that has the server to itself. *)

Measurement == [part : Nat, saw : SUBSET SUBSET Indexes, logged : Nat, statements : [Jobs -> Nat]]

\* A stage starts measuring from nothing, and only lab runs read the counters
\* of the server and write its log.
MeasuredInv ==
    /\ counted \in [Jobs -> Nat]
    /\ got \in [Jobs -> Measurement]
    /\ \A j \in Jobs :
          /\ \/ pc[j] \in {"idle", "drop", "create", "build", "stage", "analyze", "reset", "enable"}
             \/ pc[j] = "close" /\ j \notin raised
             => got[j] = Nothing
          /\ pc[j] \in {"reset", "enable", "disable", "collect"} => j \in Labs

Own(j)        == IF Want(j) = None THEN {} ELSE {Want(j)}
OnlyOwn(j, n) == [k \in Jobs |-> IF k = j THEN n ELSE 0]

\* The load of the stage is over, and nothing has failed.
Measured(j) == pc[j] = "collect" \/ (pc[j] \in {"disable", "undo"} /\ j \notin raised)

OwnIndex(j) ==
    /\ pc[j] \in {"create", "build", "stage"} => \A i \in Indexes : ~Present(j, i)
    /\ pc[j] = "build" => Base(j) \in there
    /\ pc[j] \in {"stage"} \cup InStage => Tables(j)
    /\ pc[j] \in InStage => \A i \in Indexes : Present(j, i) <=> i = Want(j)

OwnCounted(j) ==
    /\ pc[j] = "enable" => counted = OnlyOwn(j, 0)
    /\ pc[j] = "load" => counted = OnlyOwn(j, got[j].part)
    /\ pc[j] = "collect" \/ (pc[j] = "disable" /\ j \notin raised) => counted = OnlyOwn(j, Parts)
    /\ pc[j] = "undo" /\ j \notin raised => got[j].statements = OnlyOwn(j, Parts)

OwnMeasured(j) ==
    /\ pc[j] = "load" =>
          /\ got[j].part < Parts
          /\ got[j].saw = IF got[j].part = 0 THEN {} ELSE {Own(j)}
          /\ Logs(j) => slow = j /\ got[j].logged = got[j].part
    /\ Measured(j) => got[j].saw = {Own(j)} /\ (Logs(j) => got[j].logged = Parts)

Lone(j) ==
    /\ \A k \in Jobs \ {j} : ~Active(k)
    /\ OwnIndex(j)
    /\ j \in Labs => OwnCounted(j)
    /\ OwnMeasured(j)

\* Why AloneMeasuresItsOwn holds: who has not shared the server has nobody at
\* its side now, and finds on its database, in the counters and in the log what
\* it has put there itself.
LoneInv == \A j \in Jobs \ company : Active(j) => Lone(j)

\* Replacing the measurement of one job.
LEMMA MeasurementSet ==
    ASSUME NEW g \in [Jobs -> Measurement], NEW k \in Jobs, NEW m \in Measurement
    PROVE  [g EXCEPT ![k] = m] \in [Jobs -> Measurement]
OBVIOUS

\* What a step of the load does to the measurement of its job.
LEMMA LoadMeasures ==
    ASSUME got \in [Jobs -> Measurement], NEW k \in Jobs, Load(k)
    PROVE  /\ got' \in [Jobs -> Measurement] /\ \A u \in Jobs \ {k} : got'[u] = got[u]
           /\ Tables(k) /\ got' # got =>
                 /\ got'[k].part = got[k].part + 1
                 /\ got'[k].saw = got[k].saw \cup {{i \in Indexes : Present(k, i)}}
                 /\ got'[k].logged = got[k].logged + (IF slow = k THEN 1 ELSE 0)
<1> DEFINE s == {i \in Indexes : Present(k, i)}
           n == IF slow = k THEN 1 ELSE 0
<1>1. s \in SUBSET Indexes /\ n \in Nat
  OBVIOUS
<1>2. CASE Tables(k) /\ got' = [got EXCEPT ![k].part = @ + 1, ![k].saw = @ \cup {s}, ![k].logged = @ + n]
  <2> DEFINE m == [part |-> got[k].part + 1, saw |-> got[k].saw \cup {s}, logged |-> got[k].logged + n,
                   statements |-> got[k].statements]
  <2> HIDE DEF s, n
  <2>1. got[k] \in Measurement
    OBVIOUS
  <2>2. m \in Measurement
    BY <1>1, <2>1 DEF Measurement
  <2>3. got'[k] = m
    BY <1>2 DEF Measurement
  <2>4. got' = [got EXCEPT ![k] = m]
    BY <1>2, <2>3
  <2>5. /\ got'[k].part = got[k].part + 1 /\ got'[k].saw = got[k].saw \cup {s}
        /\ got'[k].logged = got[k].logged + n
    BY <2>3
  <2> HIDE DEF m
  <2>6. got' \in [Jobs -> Measurement] /\ \A u \in Jobs \ {k} : got'[u] = got[u]
    BY <2>2, <2>4
  <2> QED BY <2>5, <2>6 DEF s, n
<1>3. CASE ~Tables(k) /\ got' = [got EXCEPT ![k].part = @ + 1]
  <2> DEFINE m == [part |-> got[k].part + 1, saw |-> got[k].saw, logged |-> got[k].logged,
                   statements |-> got[k].statements]
  <2>1. got[k] \in Measurement
    OBVIOUS
  <2>2. m \in Measurement
    BY <2>1 DEF Measurement
  <2>3. got'[k] = m
    BY <1>3 DEF Measurement
  <2>4. got' = [got EXCEPT ![k] = m]
    BY <1>3, <2>3
  <2> HIDE DEF m
  <2> QED BY <1>3, <2>2, <2>4, MeasurementSet
<1>4. CASE got' = got
  BY <1>4
<1> QED BY <1>2, <1>3, <1>4 DEF Load

\* What reading the counters does to it.
LEMMA CollectMeasures ==
    ASSUME got \in [Jobs -> Measurement], counted \in [Jobs -> Nat], NEW k \in Jobs, Collect(k)
    PROVE  /\ got' \in [Jobs -> Measurement] /\ \A u \in Jobs \ {k} : got'[u] = got[u]
           /\ got'[k].part = got[k].part /\ got'[k].saw = got[k].saw /\ got'[k].logged = got[k].logged
           /\ got' # got => got'[k].statements =
                 [u \in Jobs |-> IF DatabaseOf[u] = Base(k) THEN counted[u] ELSE 0]
<1> DEFINE f == [u \in Jobs |-> IF DatabaseOf[u] = Base(k) THEN counted[u] ELSE 0]
<1>1. f \in [Jobs -> Nat]
  OBVIOUS
<1>2. CASE got' = got
  BY <1>2
<1>3. CASE got' = [got EXCEPT ![k].statements = f]
  <2> HIDE DEF f
  <2>1. [got[k] EXCEPT !.statements = f] \in Measurement
    BY <1>1 DEF Measurement
  <2>2. got'[k] = [got[k] EXCEPT !.statements = f]
    BY <1>3
  <2>3. got'[k].part = got[k].part /\ got'[k].saw = got[k].saw /\ got'[k].logged = got[k].logged
        /\ got'[k].statements = f
    BY <2>2 DEF Measurement
  <2>4. got' \in [Jobs -> Measurement] /\ \A u \in Jobs \ {k} : got'[u] = got[u]
    BY <1>3, <2>1
  <2> QED BY <2>3, <2>4 DEF f
<1> QED BY <1>2, <1>3 DEF Collect

LEMMA MeasuredStep == Types /\ MeasuredInv /\ [Next]_vars => MeasuredInv'
<1> SUFFICES ASSUME Types, MeasuredInv, [Next]_vars PROVE MeasuredInv'
  OBVIOUS
<1> USE JobsAssumption DEF Types, MeasuredInv, Go, Raise, Measure
<1>1. CASE UNCHANGED vars
  BY <1>1 DEF vars, base, server, locals, bounds
<1>2. ASSUME NEW k \in Jobs, Start(k) PROVE MeasuredInv'
  BY <1>2 DEF Start, base, server, locals, bounds
<1>3. ASSUME NEW k \in Jobs, Drop(k) PROVE MeasuredInv'
  BY <1>3 DEF Drop, server, bounds
<1>4. ASSUME NEW k \in Jobs, Create(k) PROVE MeasuredInv'
  BY <1>4 DEF Create, server, bounds
<1>5. ASSUME NEW k \in Jobs, Build(k) PROVE MeasuredInv'
  BY <1>5 DEF Build, server, bounds
<1>6. ASSUME NEW k \in Jobs, BeginPlain(k) PROVE MeasuredInv'
  BY <1>6 DEF BeginPlain, base, server, locals, bounds
<1>7. ASSUME NEW k \in Jobs, BeginIndexed(k) PROVE MeasuredInv'
  BY <1>7 DEF BeginIndexed, server, bounds
<1>8. ASSUME NEW k \in Jobs, Analyze(k) PROVE MeasuredInv'
  BY <1>8 DEF Analyze, base, server, bounds
<1>9. ASSUME NEW k \in Jobs, Reset(k) PROVE MeasuredInv'
  <2>1. got' = got /\ \A u \in Jobs \ {k} : u \in raised' <=> u \in raised
    BY <1>9 DEF Reset
  <2>2. counted' \in [Jobs -> Nat]
    <3>1. counted' = counted \/ counted' = [u \in Jobs |-> 0]
      BY <1>9 DEF Reset, CountedAfterReset
    <3>2. [u \in Jobs |-> 0] \in [Jobs -> Nat]
      OBVIOUS
    <3> QED BY <3>1, <3>2
  <2>3. pc[k] = "reset" /\ \A u \in Jobs \ {k} : pc'[u] = pc[u]
    BY <1>9 DEF Reset
  <2>4. pc'[k] \in {"enable", "load", "undo"}
    BY <1>9 DEF Reset
  <2> QED BY <2>1, <2>3, <2>4, <2>2
<1>10. ASSUME NEW k \in Jobs, EnableLog(k) PROVE MeasuredInv'
  BY <1>10 DEF EnableLog, base, locals, bounds
<1>11. ASSUME NEW k \in Jobs, Load(k) PROVE MeasuredInv'
  <2>1. counted' \in [Jobs -> Nat]
    <3>1. \A n \in Nat : [counted EXCEPT ![k] = n] \in [Jobs -> Nat]
      OBVIOUS
    <3>2. counted' = counted \/ counted' = [counted EXCEPT ![k] = counted[k] + 1]
                             \/ counted' = [counted EXCEPT ![k] = counted[k]]
      BY <1>11 DEF Load
    <3>3. counted[k] \in Nat /\ counted[k] + 1 \in Nat
      OBVIOUS
    <3> QED BY <3>1, <3>2, <3>3
  <2>2. got' \in [Jobs -> Measurement] /\ \A u \in Jobs \ {k} : got'[u] = got[u]
    BY <1>11, LoadMeasures
  <2>3. pc[k] = "load" /\ \A u \in Jobs \ {k} : pc'[u] = pc[u] /\ (u \in raised' <=> u \in raised)
    BY <1>11 DEF Load
  <2>4. pc'[k] \in {"load", "disable", "collect", "undo"} /\ (pc'[k] \in {"disable", "collect"} => k \in Labs)
    BY <1>11 DEF Load, AfterPart, Logs
  <2> QED BY <2>1, <2>2, <2>3, <2>4
<1>12. ASSUME NEW k \in Jobs, DisableLog(k) PROVE MeasuredInv'
  BY <1>12 DEF DisableLog, base, locals, bounds
<1>13. ASSUME NEW k \in Jobs, Collect(k) PROVE MeasuredInv'
  <2>1. got' \in [Jobs -> Measurement] /\ \A u \in Jobs \ {k} : got'[u] = got[u]
    BY <1>13, CollectMeasures
  <2>2. pc[k] = "collect" /\ pc' = [pc EXCEPT ![k] = "undo"]
        /\ \A u \in Jobs \ {k} : (u \in raised <=> u \in raised')
    BY <1>13 DEF Collect
  <2> QED BY <1>13, <2>1, <2>2 DEF Collect, server
<1>14. ASSUME NEW k \in Jobs, Undo(k) PROVE MeasuredInv'
  <2>1. Nothing \in Measurement
    BY DEF Nothing, Measurement
  <2> QED BY <1>14, <2>1 DEF Undo, server, bounds
<1>15. ASSUME NEW k \in Jobs, EndPass(k) PROVE MeasuredInv'
  BY <1>15 DEF EndPass, base, server, locals, bounds
<1>16. ASSUME NEW k \in Jobs, Close(k) PROVE MeasuredInv'
  BY <1>16 DEF Close, base, server, bounds
<1>17. ASSUME NEW k \in Jobs, Fault(k) PROVE MeasuredInv'
  BY <1>17 DEF Fault, Mishap, base, Logs
<1>18. ASSUME NEW k \in Jobs, Crash(k) PROVE MeasuredInv'
  BY <1>18 DEF Crash, Mishap, base, server
<1> QED
  BY <1>1, <1>2, <1>3, <1>4, <1>5, <1>6, <1>7, <1>8, <1>9, <1>10,
     <1>11, <1>12, <1>13, <1>14, <1>15, <1>16, <1>17, <1>18 DEF Next

\* Nobody acts beside a job that has the server to itself.
LEMMA ActsAlone ==
    ASSUME Types, LoneInv, NEW j \in Jobs, j \notin company', Active(j)',
           NEW k \in Jobs, Active(k), NEW where, Go(k, where), company' = company
    PROVE  k = j /\ Lone(j) /\ \A u \in Jobs \ {j} : ~Active(u)'
<1>1. \A u \in Jobs : pc'[u] = IF u = k THEN where ELSE pc[u]
  BY DEF Types, Go
<1>2. k = j
  <2>1. CASE k # j
    BY <1>1, <2>1 DEF LoneInv, Lone, Active
  <2> QED BY <2>1
<1>3. Lone(j)
  BY <1>2 DEF LoneInv
<1> QED BY <1>1, <1>2, <1>3 DEF Lone, Active

LEMMA LoneStep == Types /\ CreatedInv /\ MeasuredInv /\ LoneInv /\ [Next]_vars => LoneInv'
<1> SUFFICES ASSUME Types, CreatedInv, MeasuredInv, LoneInv, [Next]_vars,
                    NEW j \in Jobs, j \notin company', Active(j)'
             PROVE  Lone(j)'
  BY DEF LoneInv
<1>0. Base(j) \in Databases /\ None \notin Indexes \cup Jobs /\ Percona \subseteq Labs
  BY JobsAssumption DEF Base
<1>1. CASE UNCHANGED vars
  BY <1>1 DEF vars, base, server, locals, bounds, LoneInv, Lone, Active, OwnIndex, OwnCounted,
     OwnMeasured, Measured, Present, Tables, Want, Logs, InStage, Own
<1>2. ASSUME NEW k \in Jobs, Start(k) PROVE Lone(j)'
  <2>1. k = j /\ \A u \in Jobs \ {j} : ~Active(u)
    BY <1>2 DEF Start, Go, Types, Active
  <2>2. pc'[j] = "drop" /\ \A u \in Jobs \ {j} : pc'[u] = pc[u]
    BY <1>2, <2>1 DEF Start, Go, Types
  <2> QED BY <2>1, <2>2 DEF Lone, Active, OwnIndex, OwnCounted, OwnMeasured, Measured, InStage
<1>3. ASSUME NEW k \in Jobs, Drop(k) PROVE Lone(j)'
  <2>1. k = j /\ Lone(j) /\ \A u \in Jobs \ {j} : ~Active(u)'
    BY <1>3, ActsAlone DEF Drop, Active, Raise
  <2>2. OwnIndex(j)'
    <3>1. pc'[j] = "create"
      BY <1>3, <2>1 DEF Drop, Go, Types
    <3>2. maker'[Base(j)] = NoIndex
      BY <1>0, <1>3, <2>1 DEF Drop, Types
    <3> QED BY <3>1, <3>2 DEF OwnIndex, InStage, Present, NoIndex, Base
  <2>3. j \in Labs => OwnCounted(j)'
    BY <1>3, <2>1 DEF Drop, server, bounds, Lone, OwnCounted, MeasuredInv, Go, Raise, Measure, Types
  <2>4. OwnMeasured(j)'
    BY <1>3, <2>1 DEF Drop, server, bounds, Lone, OwnMeasured, Measured, MeasuredInv, Nothing, Go, Raise, Measure, Types, Logs, Own, Want
  <2> QED BY <2>1, <2>2, <2>3, <2>4 DEF Lone
<1>4. ASSUME NEW k \in Jobs, Create(k) PROVE Lone(j)'
  <2>1. k = j /\ Lone(j) /\ \A u \in Jobs \ {j} : ~Active(u)'
    BY <1>4, ActsAlone DEF Create, Active, Raise
  <2>2. OwnIndex(j)'
    BY <1>0, <1>4, <2>1 DEF Create, server, bounds, Lone, OwnIndex, Go, Raise, Measure, Types, InStage, Present, Tables, Want, Base
  <2>3. j \in Labs => OwnCounted(j)'
    BY <1>4, <2>1 DEF Create, server, bounds, Lone, OwnCounted, MeasuredInv, Go, Raise, Measure, Types
  <2>4. OwnMeasured(j)'
    BY <1>4, <2>1 DEF Create, server, bounds, Lone, OwnMeasured, Measured, MeasuredInv, Nothing, Go, Raise, Measure, Types, Logs, Own, Want
  <2> QED BY <2>1, <2>2, <2>3, <2>4 DEF Lone
<1>5. ASSUME NEW k \in Jobs, Build(k) PROVE Lone(j)'
  <2>1. k = j /\ Lone(j) /\ \A u \in Jobs \ {j} : ~Active(u)'
    BY <1>5, ActsAlone DEF Build, Active, Raise
  <2>2. OwnIndex(j)'
    BY <1>0, <1>5, <2>1 DEF Build, server, bounds, Lone, OwnIndex, Go, Raise, Measure, Types, InStage, Present, Tables, Want, Base
  <2>3. j \in Labs => OwnCounted(j)'
    BY <1>5, <2>1 DEF Build, server, bounds, Lone, OwnCounted, MeasuredInv, Go, Raise, Measure, Types
  <2>4. OwnMeasured(j)'
    BY <1>5, <2>1 DEF Build, server, bounds, Lone, OwnMeasured, Measured, MeasuredInv, Nothing, Go, Raise, Measure, Types, Logs, Own, Want
  <2> QED BY <2>1, <2>2, <2>3, <2>4 DEF Lone
<1>6. ASSUME NEW k \in Jobs, BeginPlain(k) PROVE Lone(j)'
  <2>1. k = j /\ Lone(j) /\ \A u \in Jobs \ {j} : ~Active(u)'
    BY <1>6, ActsAlone DEF BeginPlain, Active, Raise
  <2>2. OwnIndex(j)'
    BY <1>0, <1>6, <2>1 DEF BeginPlain, base, server, locals, bounds, Lone, OwnIndex, Go, Raise, Measure, Types, InStage, Present, Tables, Want, Base
  <2>3. j \in Labs => OwnCounted(j)'
    BY <1>6, <2>1 DEF BeginPlain, base, server, locals, bounds, Lone, OwnCounted, MeasuredInv, Go, Raise, Measure, Types
  <2>4. OwnMeasured(j)'
    <3>1. got'[j] = Nothing
      BY <1>6, <2>1 DEF BeginPlain, locals, MeasuredInv
    <3>2. pc'[j] \in {"reset", "load", "close"} /\ (pc'[j] = "load" => j \notin Labs)
      BY <1>6, <2>1 DEF BeginPlain, Go, Raise, Measure, Types
    <3>3. pass' = pass
      BY <1>6 DEF BeginPlain, locals
    <3> QED BY <1>0, <3>1, <3>2, <3>3 DEF OwnMeasured, Measured, Nothing, Parts, Logs
  <2> QED BY <2>1, <2>2, <2>3, <2>4 DEF Lone
<1>7. ASSUME NEW k \in Jobs, BeginIndexed(k) PROVE Lone(j)'
  <2>1. k = j /\ Lone(j) /\ \A u \in Jobs \ {j} : ~Active(u)'
    BY <1>7, ActsAlone DEF BeginIndexed, Active, Raise
  <2>2. OwnIndex(j)'
    BY <1>0, <1>7, <2>1 DEF BeginIndexed, server, bounds, Lone, OwnIndex, Go, Raise, Measure, Types, InStage, Present, Tables, Want, Base
  <2>3. j \in Labs => OwnCounted(j)'
    BY <1>7, <2>1 DEF BeginIndexed, server, bounds, Lone, OwnCounted, MeasuredInv, Go, Raise, Measure, Types
  <2>4. OwnMeasured(j)'
    BY <1>7, <2>1 DEF BeginIndexed, server, bounds, Lone, OwnMeasured, Measured, MeasuredInv, Nothing, Go, Raise, Measure, Types, Logs, Own, Want
  <2> QED BY <2>1, <2>2, <2>3, <2>4 DEF Lone
<1>8. ASSUME NEW k \in Jobs, Analyze(k) PROVE Lone(j)'
  <2>1. k = j /\ Lone(j) /\ \A u \in Jobs \ {j} : ~Active(u)'
    BY <1>8, ActsAlone DEF Analyze, Active, Raise
  <2>2. OwnIndex(j)'
    BY <1>0, <1>8, <2>1 DEF Analyze, base, server, bounds, Lone, OwnIndex, Go, Raise, Measure, Types, InStage, Present, Tables, Want, Base
  <2>3. j \in Labs => OwnCounted(j)'
    BY <1>8, <2>1 DEF Analyze, base, server, bounds, Lone, OwnCounted, MeasuredInv, Go, Raise, Measure, Types
  <2>4. OwnMeasured(j)'
    <3>1. got'[j] = Nothing
      BY <1>8, <2>1 DEF Analyze, locals, MeasuredInv
    <3>2. pc'[j] \in {"reset", "load", "close"} /\ (pc'[j] = "load" => j \notin Labs)
      BY <1>8, <2>1 DEF Analyze, Go, Raise, Measure, Types
    <3>3. pass' = pass
      BY <1>8 DEF Analyze, locals
    <3> QED BY <1>0, <3>1, <3>2, <3>3 DEF OwnMeasured, Measured, Nothing, Parts, Logs
  <2> QED BY <2>1, <2>2, <2>3, <2>4 DEF Lone
<1>9. ASSUME NEW k \in Jobs, Reset(k) PROVE Lone(j)'
  <2>1. k = j /\ Lone(j) /\ \A u \in Jobs \ {j} : ~Active(u)'
    BY <1>9, ActsAlone DEF Reset, Active, Raise
  <2>2. OwnIndex(j)'
    BY <1>0, <1>9, <2>1 DEF Reset, base, bounds, Lone, OwnIndex, Go, Raise, Measure, Types, InStage, Present, Tables, Want, Base
  <2>3. got'[j] = Nothing /\ pc'[j] \in {"enable", "load", "undo"} /\ (pc'[j] = "undo" => j \in raised')
    BY <1>9, <2>1 DEF Reset, Go, Raise, Types, MeasuredInv
  <2>4. pc'[j] # "undo" => counted' = [u \in Jobs |-> 0]
    BY <1>9, <2>1 DEF Reset, CountedAfterReset, Go, Raise, Types
  <2>5. j \in Labs => OwnCounted(j)'
    BY <2>3, <2>4 DEF OwnCounted, OnlyOwn, Nothing
  <2>6. OwnMeasured(j)'
    <3>1. pass' = pass /\ (Logs(j) => pc'[j] # "load")
      BY <1>9, <2>1 DEF Reset, Go, Raise, Types
    <3> QED BY <2>3, <3>1 DEF OwnMeasured, Measured, Nothing, Parts, Logs
  <2> QED BY <2>1, <2>2, <2>5, <2>6 DEF Lone
<1>10. ASSUME NEW k \in Jobs, EnableLog(k) PROVE Lone(j)'
  <2>1. k = j /\ Lone(j) /\ \A u \in Jobs \ {j} : ~Active(u)'
    BY <1>10, ActsAlone DEF EnableLog, Active, Raise
  <2>2. OwnIndex(j)'
    BY <1>0, <1>10, <2>1 DEF EnableLog, base, locals, bounds, Lone, OwnIndex, Go, Raise, Measure, Types, InStage, Present, Tables, Want, Base
  <2>3. got'[j] = Nothing /\ pc'[j] = "load" /\ slow' = j /\ counted' = counted /\ pc[j] = "enable"
    BY <1>10, <2>1 DEF EnableLog, locals, Go, Types, MeasuredInv
  <2>4. j \in Labs => OwnCounted(j)'
    BY <2>1, <2>3 DEF Lone, OwnCounted, OnlyOwn, Nothing
  <2>5. OwnMeasured(j)'
    BY <2>3 DEF OwnMeasured, Measured, Nothing, Parts
  <2> QED BY <2>1, <2>2, <2>4, <2>5 DEF Lone
<1>11. ASSUME NEW k \in Jobs, Load(k) PROVE Lone(j)'
  <2>1. k = j /\ Lone(j) /\ \A u \in Jobs \ {j} : ~Active(u)'
    BY <1>11, ActsAlone DEF Load, Active, Raise
  <2>2. OwnIndex(j)'
    BY <1>0, <1>11, <2>1 DEF Load, AfterPart, base, bounds, Lone, OwnIndex, Go, Raise, Measure, Types, InStage, Present, Tables, Want, Base
  <2>3. Tables(j) /\ pc[j] = "load" /\ {i \in Indexes : Present(j, i)} = Own(j)
    <3>1. pc[j] = "load" /\ stage[j] <= Len(Plan[j])
      BY <1>11, <2>1 DEF Load, CreatedInv, InStage
    <3>2. Want(j) = None \/ Want(j) \in Indexes
      BY <3>1, Wanted
    <3> QED BY <1>0, <2>1, <3>1, <3>2 DEF Lone, OwnIndex, InStage, Own
  <2>4. Own(j)' = Own(j) /\ (Logs(j)' <=> Logs(j)) /\ slow' = slow
    BY <1>11 DEF Load, Own, Want, Logs
  <2>5. got[j].part \in Nat
    BY DEF MeasuredInv, Measurement
  <2>6. CASE got' = got
    <3> DEFINE s == {i \in Indexes : Present(j, i)}
               n == IF slow = j THEN 1 ELSE 0
    <3>1. got' # [got EXCEPT ![j].part = @ + 1, ![j].saw = @ \cup {s}, ![j].logged = @ + n]
      <4>1. got \in [Jobs -> Measurement] /\ got[j] \in Measurement
        BY DEF MeasuredInv
      <4> HIDE DEF s, n
      <4> DEFINE h == [got EXCEPT ![j].part = @ + 1, ![j].saw = @ \cup {s}, ![j].logged = @ + n]
      <4>2. h[j].part = got[j].part + 1
        BY <4>1 DEF Measurement
      <4> HIDE DEF h
      <4>3. h # got
        BY <2>5, <4>2
      <4> QED BY <2>6, <4>3 DEF h
    <3>2. j \notin Labs /\ pc'[j] = "undo" /\ j \in raised'
      BY <1>11, <2>1, <2>3, <3>1 DEF Load, Go, Raise, Types
    <3> QED BY <2>1, <2>2, <3>2 DEF Lone, OwnMeasured, Measured
  <2>7. CASE got' # got
    <3> DEFINE p == got[j].part
    <3>1. /\ got'[j].part = p + 1 /\ got'[j].saw = got[j].saw \cup {Own(j)}
          /\ got'[j].logged = got[j].logged + (IF slow = j THEN 1 ELSE 0)
      BY <1>11, <2>1, <2>3, <2>7, LoadMeasures DEF MeasuredInv
    <3>2. /\ pc'[j] = AfterPart(j) /\ raised' = raised
          /\ counted' = [counted EXCEPT ![j] = IF @ < Parts THEN @ + 1 ELSE @]
      BY <1>11, <2>1, <2>3, <2>7 DEF Load, Go, Types
    <3>3. p < Parts /\ got[j].saw = (IF p = 0 THEN {} ELSE {Own(j)})
          /\ (Logs(j) => slow = j /\ got[j].logged = p)
      BY <2>1, <2>3 DEF Lone, OwnMeasured
    <3>4. got'[j].saw = {Own(j)} /\ (Logs(j) => got'[j].logged = p + 1)
      BY <3>1, <3>3
    <3>5. j \in Labs => counted' = OnlyOwn(j, p + 1)
      <4>1. ASSUME j \in Labs PROVE counted' = OnlyOwn(j, p + 1)
        <5>1. counted = OnlyOwn(j, p)
          BY <2>1, <2>3, <4>1 DEF Lone, OwnCounted
        <5>2. counted' = [counted EXCEPT ![j] = p + 1]
          BY <3>2, <3>3, <5>1 DEF OnlyOwn
        <5> QED BY <5>1, <5>2 DEF OnlyOwn
      <4> QED BY <4>1
    <3> HIDE DEF p
    <3>6. \/ pc'[j] = "load" /\ p + 1 < Parts
          \/ pc'[j] \in {"disable", "collect", "undo"} /\ p + 1 = Parts /\ (pc'[j] = "undo" => j \notin Labs)
      BY <1>0, <2>5, <3>2, <3>3 DEF AfterPart, Logs, Parts, p
    <3>7. j \in Labs => OwnCounted(j)'
      BY <3>1, <3>5, <3>6 DEF OwnCounted, OnlyOwn
    <3>8. OwnMeasured(j)'
      BY <2>4, <2>5, <3>1, <3>3, <3>4, <3>6 DEF OwnMeasured, Measured, p
    <3> QED BY <2>1, <2>2, <3>7, <3>8 DEF Lone
  <2> QED BY <2>6, <2>7
<1>12. ASSUME NEW k \in Jobs, DisableLog(k) PROVE Lone(j)'
  <2>1. k = j /\ Lone(j) /\ \A u \in Jobs \ {j} : ~Active(u)'
    BY <1>12, ActsAlone DEF DisableLog, Active, Raise
  <2>2. OwnIndex(j)'
    BY <1>0, <1>12, <2>1 DEF DisableLog, base, locals, bounds, Lone, OwnIndex, Go, Raise, Measure, Types, InStage, Present, Tables, Want, Base
  <2>3. j \in Labs => OwnCounted(j)'
    BY <1>12, <2>1 DEF DisableLog, base, locals, bounds, Lone, OwnCounted, MeasuredInv, Go, Raise, Measure, Types
  <2>4. OwnMeasured(j)'
    BY <1>12, <2>1 DEF DisableLog, base, locals, bounds, Lone, OwnMeasured, Measured, MeasuredInv, Nothing, Go, Raise, Measure, Types, Logs, Own, Want
  <2> QED BY <2>1, <2>2, <2>3, <2>4 DEF Lone
<1>13. ASSUME NEW k \in Jobs, Collect(k) PROVE Lone(j)'
  <2>1. k = j /\ Lone(j) /\ \A u \in Jobs \ {j} : ~Active(u)'
    BY <1>13, ActsAlone DEF Collect, Active, Raise
  <2>2. OwnIndex(j)'
    BY <1>0, <1>13, <2>1 DEF Collect, base, server, bounds, Lone, OwnIndex, Go, Raise, Measure, Types, InStage, Present, Tables, Want, Base
  <2>3. /\ got'[j].part = got[j].part /\ got'[j].saw = got[j].saw /\ got'[j].logged = got[j].logged
        /\ got' # got => got'[j].statements =
               [u \in Jobs |-> IF DatabaseOf[u] = Base(j) THEN counted[u] ELSE 0]
    BY <1>13, <2>1, CollectMeasures DEF MeasuredInv
  <2>4. pc[j] = "collect" /\ pc'[j] = "undo" /\ (j \in Labs <=> TRUE)
    BY <1>13, <2>1 DEF Collect, Go, Raise, Types, MeasuredInv
  <2>5. j \in Labs => OwnCounted(j)'
    <3>1. CASE j \in raised'
      BY <2>4, <3>1 DEF OwnCounted
    <3>2. CASE j \notin raised'
      <4>1. got' = [got EXCEPT ![j].statements =
                        [u \in Jobs |-> IF DatabaseOf[u] = Base(j) THEN counted[u] ELSE 0]]
        BY <1>13, <2>1, <3>2 DEF Collect, Raise
      <4>2. got'[j].statements = [u \in Jobs |-> IF DatabaseOf[u] = Base(j) THEN counted[u] ELSE 0]
        BY <4>1 DEF MeasuredInv, Measurement
      <4>3. counted = OnlyOwn(j, Parts)
        BY <2>1, <2>4 DEF Lone, OwnCounted
      <4>4. got'[j].statements = OnlyOwn(j, Parts)
        BY <4>2, <4>3 DEF OnlyOwn, Base
      <4> QED BY <2>4, <4>4 DEF OwnCounted, OnlyOwn
    <3> QED BY <3>1, <3>2
  <2>6. OwnMeasured(j)'
    <3>1. Own(j)' = Own(j) /\ (Logs(j)' <=> Logs(j))
      BY <1>13 DEF Collect, Own, Want, Logs
    <3> QED BY <2>1, <2>3, <2>4, <3>1 DEF Lone, OwnMeasured, Measured
  <2> QED BY <2>1, <2>2, <2>5, <2>6 DEF Lone
<1>14. ASSUME NEW k \in Jobs, Undo(k) PROVE Lone(j)'
  <2>1. k = j /\ Lone(j) /\ \A u \in Jobs \ {j} : ~Active(u)'
    BY <1>14, ActsAlone DEF Undo, Active, Raise
  <2>2. OwnIndex(j)'
    <3>1. pc'[j] \in {"stage", "close"} /\ there' = there /\ built' = built /\ pc[j] = "undo"
      BY <1>14, <2>1 DEF Undo, Go, Raise, Types
    <3>2. Tables(j) /\ \A i \in Indexes : Present(j, i) <=> i = Want(j)
      BY <2>1, <3>1 DEF Lone, OwnIndex, InStage
    <3>3. CASE j \in created /\ DropIndexSucceeds(j)
      <4>1. maker' = [maker EXCEPT ![Base(j)][Want(j)] = None]
        BY <1>14, <2>1, <3>3 DEF Undo, Undone
      <4>2. Want(j) \in Indexes
        BY <2>1, <3>1, <3>3, Wanted DEF CreatedInv, InStage, Inner
      <4>3. \A i \in Indexes : maker'[Base(j)][i] = None
        BY <1>0, <3>2, <4>1, <4>2, SetEntry DEF Types, Present
      <4> QED BY <3>1, <3>2, <4>3 DEF OwnIndex, Present, Tables, Base, InStage
    <3>4. CASE j \notin created
      <4>1. maker' = maker
        BY <1>14, <2>1, <3>4 DEF Undo, Undone
      <4>2. Want(j) = None
        BY <3>1, <3>4 DEF CreatedInv, InStage, Inner
      <4> QED BY <1>0, <3>1, <3>2, <4>1, <4>2 DEF OwnIndex, Present, Tables, Base, InStage
    <3>5. CASE j \in created /\ ~DropIndexSucceeds(j)
      <4>1. pc'[j] = "close"
        BY <1>14, <2>1, <3>5 DEF Undo, Undone, Raise, Go, Types
      <4> QED BY <4>1 DEF OwnIndex, InStage
    <3> QED BY <3>3, <3>4, <3>5
  <2>3. j \in Labs => OwnCounted(j)'
    BY <1>14, <2>1 DEF Undo, server, bounds, Lone, OwnCounted, MeasuredInv, Go, Raise, Measure, Types
  <2>4. OwnMeasured(j)'
    BY <1>14, <2>1 DEF Undo, server, bounds, Lone, OwnMeasured, Measured, MeasuredInv, Nothing, Go, Raise, Measure, Types, Logs, Own, Want
  <2> QED BY <2>1, <2>2, <2>3, <2>4 DEF Lone
<1>15. ASSUME NEW k \in Jobs, EndPass(k) PROVE Lone(j)'
  <2>1. k = j /\ Lone(j) /\ \A u \in Jobs \ {j} : ~Active(u)'
    BY <1>15, ActsAlone DEF EndPass, Active, Raise
  <2>2. OwnIndex(j)'
    BY <1>0, <1>15, <2>1 DEF EndPass, base, server, locals, bounds, Lone, OwnIndex, Go, Raise, Measure, Types, InStage, Present, Tables, Want, Base
  <2>3. j \in Labs => OwnCounted(j)'
    BY <1>15, <2>1 DEF EndPass, base, server, locals, bounds, Lone, OwnCounted, MeasuredInv, Go, Raise, Measure, Types
  <2>4. OwnMeasured(j)'
    BY <1>15, <2>1 DEF EndPass, base, server, locals, bounds, Lone, OwnMeasured, Measured, MeasuredInv, Nothing, Go, Raise, Measure, Types, Logs, Own, Want
  <2> QED BY <2>1, <2>2, <2>3, <2>4 DEF Lone
<1>16. ASSUME NEW k \in Jobs, Close(k) PROVE Lone(j)'
  <2>1. k = j /\ Lone(j) /\ \A u \in Jobs \ {j} : ~Active(u)'
    BY <1>16, ActsAlone DEF Close, Active, Raise
  <2>2. OwnIndex(j)'
    BY <1>0, <1>16, <2>1 DEF Close, base, server, bounds, Lone, OwnIndex, Go, Raise, Measure, Types, InStage, Present, Tables, Want, Base
  <2>3. j \in Labs => OwnCounted(j)'
    BY <1>16, <2>1 DEF Close, base, server, bounds, Lone, OwnCounted, MeasuredInv, Go, Raise, Measure, Types
  <2>4. OwnMeasured(j)'
    BY <1>16, <2>1 DEF Close, base, server, bounds, Lone, OwnMeasured, Measured, MeasuredInv, Nothing, Go, Raise, Measure, Types, Logs, Own, Want
  <2> QED BY <2>1, <2>2, <2>3, <2>4 DEF Lone
<1>17. ASSUME NEW k \in Jobs, Fault(k) PROVE Lone(j)'
  <2>1. k = j /\ Lone(j) /\ \A u \in Jobs \ {j} : ~Active(u)'
    BY <1>17, ActsAlone DEF Fault, Active, Raise
  <2>2. OwnIndex(j)'
    BY <1>0, <1>17, <2>1 DEF Fault, Mishap, base, Lone, OwnIndex, Go, Raise, Measure, Types, InStage, Present, Tables, Want, Base
  <2>3. j \in Labs => OwnCounted(j)'
    BY <1>17, <2>1 DEF Fault, Mishap, base, Lone, OwnCounted, MeasuredInv, Go, Raise, Measure, Types
  <2>4. OwnMeasured(j)'
    BY <1>17, <2>1 DEF Fault, Mishap, base, Lone, OwnMeasured, Measured, MeasuredInv, Nothing, Go, Raise, Measure, Types, Logs, Own, Want
  <2> QED BY <2>1, <2>2, <2>3, <2>4 DEF Lone
<1>18. ASSUME NEW k \in Jobs, Crash(k) PROVE Lone(j)'
  <2>1. k = j /\ Lone(j) /\ \A u \in Jobs \ {j} : ~Active(u)'
    BY <1>18, ActsAlone DEF Crash, Active, Raise
  <2>2. OwnIndex(j)'
    BY <1>0, <1>18, <2>1 DEF Crash, Mishap, base, server, Lone, OwnIndex, Go, Raise, Measure, Types, InStage, Present, Tables, Want, Base
  <2>3. j \in Labs => OwnCounted(j)'
    BY <1>18, <2>1 DEF Crash, Mishap, base, server, Lone, OwnCounted, MeasuredInv, Go, Raise, Measure, Types
  <2>4. OwnMeasured(j)'
    BY <1>18, <2>1 DEF Crash, Mishap, base, server, Lone, OwnMeasured, Measured, MeasuredInv, Nothing, Go, Raise, Measure, Types, Logs, Own, Want
  <2> QED BY <2>1, <2>2, <2>3, <2>4 DEF Lone
<1> QED
  BY <1>1, <1>2, <1>3, <1>4, <1>5, <1>6, <1>7, <1>8, <1>9, <1>10,
     <1>11, <1>12, <1>13, <1>14, <1>15, <1>16, <1>17, <1>18 DEF Next

LEMMA AloneStep ==
    Types /\ ReportsInv /\ MeasuredInv /\ LoneInv /\ AloneMeasuresItsOwn /\ [Next]_vars
        => AloneMeasuresItsOwn'
<1> SUFFICES ASSUME Types, ReportsInv, MeasuredInv, LoneInv, AloneMeasuresItsOwn, [Next]_vars
             PROVE  AloneMeasuresItsOwn'
  OBVIOUS
<1>1. company \subseteq company'
  BY DEF Next, vars, Start, Drop, Create, Build, BeginPlain, BeginIndexed, Analyze, Reset,
         EnableLog, Load, DisableLog, Collect, Undo, EndPass, Close, Fault, Crash
<1>2. CASE reports' = reports
  BY <1>1, <1>2 DEF AloneMeasuresItsOwn
<1>3. ASSUME NEW j \in Jobs, Undo(j), reports' # reports PROVE AloneMeasuresItsOwn'
  <2> DEFINE r == Report(j)
             Fits(k, e) == LET want == Plan[k][e.stage]
                           IN  /\ e.saw = {IF want = None THEN {} ELSE {want}}
                               /\ k \in Labs => e.statements = OnlyOwn(k, Parts)
                               /\ (k \in Percona /\ e.pass = 1) => e.logged = Parts
  <2>1. /\ reports' = [reports EXCEPT ![j] = Append(@, r)]
        /\ pc[j] = "undo" /\ j \notin raised
    BY <1>3 DEF Undo
  <2>2. j \notin company => Fits(j, r)
    <3>1. ASSUME j \notin company PROVE Fits(j, r)
      <4>1. Lone(j)
        BY <2>1, <3>1 DEF LoneInv, Active
      <4>2. got[j].saw = {Own(j)} /\ (Logs(j) => got[j].logged = Parts)
        BY <2>1, <4>1 DEF Lone, OwnMeasured, Measured
      <4>3. j \in Labs => got[j].statements = OnlyOwn(j, Parts)
        BY <2>1, <4>1 DEF Lone, OwnCounted
      <4>4. /\ r.stage = stage[j] /\ r.saw = got[j].saw /\ r.pass = pass[j]
            /\ r.statements = got[j].statements /\ r.logged = got[j].logged
        BY DEF Report
      <4> QED BY <4>2, <4>3, <4>4 DEF Own, Want, Logs
    <3> QED BY <3>1
  <2>3. \A k \in Jobs \ company : \A n \in DOMAIN reports[k] : Fits(k, reports[k][n])
    BY DEF AloneMeasuresItsOwn, OnlyOwn
  <2> HIDE DEF r, Fits
  <2>4. PICK R : reports \in [Jobs -> Seq(R)]
    BY DEF ReportsInv, Sequences
  <2>5. ASSUME NEW k \in Jobs \ company', NEW n \in DOMAIN reports'[k] PROVE Fits(k, reports'[k][n])
    <3>1. CASE k # j
      <4>1. reports'[k] = reports[k]
        BY <2>1, <2>4, <3>1
      <4> QED BY <1>1, <2>3, <2>5, <4>1
    <3>2. CASE k = j
      <4>1. reports'[j] = Append(reports[j], r) /\ reports[j] \in Seq(R)
        BY <2>1, <2>4
      <4>2. \/ n \in DOMAIN reports[j] /\ reports'[j][n] = reports[j][n]
            \/ reports'[j][n] = r
        BY <2>5, <3>2, <4>1, OneMore
      <4> QED BY <1>1, <2>2, <2>3, <2>5, <3>2, <4>2
    <3> QED BY <3>1, <3>2
  <2> QED BY <2>5 DEF Fits, AloneMeasuresItsOwn, OnlyOwn
<1> QED
  BY <1>2, <1>3
  DEF Next, vars, Start, Drop, Create, Build, BeginPlain, BeginIndexed, Analyze, Reset,
      EnableLog, Load, DisableLog, Collect, EndPass, Close, Fault, Crash, Mishap
-----------------------------------------------------------------------------
\* Outside a phase of its last user the slow log of the server is off, unless
\* that user died or failed while switching it.
THEOREM SlowLogIsTemporary == Spec => []LogIsTemporary
<1>1. Init => Types /\ LogInv
  BY TypesInit DEF Init, LogInv
<1>2. Types /\ LogInv /\ [Next]_vars => (Types /\ LogInv)'
  BY TypesStep, LogStep
<1>3. Types /\ LogInv => LogIsTemporary
  BY DEF LogInv, LogIsTemporary
<1> QED
  BY <1>1, <1>2, <1>3, PTL DEF Spec

\* An index outlives the stage it was created for only if its job died, or
\* failed inside create_index or in dropping it.
THEOREM IndexesAreDropped == Spec => []IndexesAreTemporary
<1>1. Init => Types /\ IndexInv
  BY TypesInit, JobsAssumption DEF Init, IndexInv, NoIndex
<1>2. Types /\ IndexInv /\ [Next]_vars => (Types /\ IndexInv)'
  BY TypesStep, IndexStep
<1>3. Types /\ IndexInv => IndexesAreTemporary
  BY DEF Types, IndexInv, IndexesAreTemporary, Held, Excused, InStage
<1> QED
  BY <1>1, <1>2, <1>3, PTL DEF Spec

\* A stage that lost its index is never reported, and on PostgreSQL a job only
\* ever drops its own, however many jobs rebuild one database under each other.
THEOREM LostIndexesAreNoticed == Spec => []LostIndexIsNoticed
<1>1. Init => Types /\ ReportsInv
  BY TypesInit, ReportsInit
<1>2. Types /\ ReportsInv /\ [Next]_vars => (Types /\ ReportsInv)'
  BY TypesStep, ReportsStep
<1> QED
  BY <1>1, <1>2, PTL DEF Spec, ReportsInv

\* A job that never shared the server has measured its own stages: under their
\* index and no other, all of its statements and nobody else's, whatever jobs
\* before it left behind on its database, in the counters and in the slow log.
THEOREM AloneJobsMeasureTheirOwn == Spec => []AloneMeasuresItsOwn
<1> DEFINE IInv == Types /\ ReportsInv /\ MeasuredInv /\ LoneInv /\ AloneMeasuresItsOwn
<1>1. Init => IInv
  <2> SUFFICES ASSUME Init PROVE IInv
    OBVIOUS
  <2>1. MeasuredInv
    BY DEF Init, MeasuredInv, Measurement, Nothing
  <2>2. LoneInv /\ AloneMeasuresItsOwn
    <3>1. \A j \in Jobs : ~Active(j) /\ DOMAIN reports[j] = {}
      BY DEF Init, Active
    <3> QED BY <3>1 DEF LoneInv, AloneMeasuresItsOwn
  <2> QED BY <2>1, <2>2, TypesInit, ReportsInit
<1>2. IInv /\ [Next]_vars => IInv'
  BY TypesStep, ReportsStep, MeasuredStep, LoneStep, AloneStep DEF ReportsInv
<1> QED
  BY <1>1, <1>2, PTL DEF Spec
=============================================================================
