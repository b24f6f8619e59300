------------------------------ MODULE LabPhase ------------------------------
(***************************************************************************)
(* One phase of a lab run: run_phase of lab/workload.py.  The main thread  *)
(* fills a queue with the scheduled calls and one None per worker, workers *)
(* execute the calls on connections of their own, and a batch job keeps    *)
(* updating the same rows until it is told to stop.                        *)
(*                                                                         *)
(* The database is external: a row lock is granted when it is free, and a  *)
(* statement that waits for one is granted it or fails (lock timeout, or   *)
(* victim of a deadlock); a lost connection gives its locks back.  Latency *)
(* and the sampler thread, which touches nothing the others use, are left  *)
(* out.                                                                    *)
(***************************************************************************)
EXTENDS Integers, Sequences, FiniteSets

CONSTANTS
    Workers, Batch,  \* the threads
    Calls, Writes,   \* length of the schedule; the calls that are checkouts
    Rows,            \* what transactions lock
    CheckoutRows,    \* the rows a checkout locks, in its order
    BatchRows,       \* the rows a batch chunk locks, in its order
    MaxLosses,       \* how many connections are lost
    Nobody

Threads == Workers \cup {Batch}
Pill    == 0   \* the None of the queue

ASSUME ThreadsAssumption == Batch \notin Workers /\ Nobody \notin Threads
ASSUME CallsAssumption   == Calls \in Nat /\ Writes \subseteq 1..Calls /\ MaxLosses \in Nat
ASSUME RowsAssumption    == CheckoutRows \in Seq(Rows) /\ BatchRows \in Seq(Rows)

VARIABLES
    main,      \* where run_phase is
    fed,       \* how much was put into the queue
    queue,     \* work
    stop,      \* the stop event
    at,        \* where each thread is
    item,      \* the call a worker has taken
    need,      \* the rows a transaction has yet to lock
    holder,    \* who has each row locked
    lost,      \* threads whose connection is lost
    measured,  \* how often each call is in result.calls
    late       \* history: chunks begun after run_phase returned (2 for more)

phaseVars == <<main, fed, queue, stop, at, item, need, holder, lost, measured, late>>
-----------------------------------------------------------------------------
PhaseInit ==
    /\ main = "feed" /\ fed = 0 /\ queue = <<>> /\ stop = FALSE
    /\ at = [t \in Threads |-> "new"]
    /\ item = [w \in Workers |-> Pill]
    /\ need = [t \in Threads |-> <<>>]
    /\ holder = [r \in Rows |-> Nobody]
    /\ lost = {}
    /\ measured = [c \in 1..Calls |-> 0]
    /\ late = 0

GoTo(t, where) == at' = [at EXCEPT ![t] = where]

\* conn_info.connect(): a refusal ends the thread.
Connect(t) ==
    /\ at[t] = "new"
    /\ \E where \in {"ready", "dead"} : GoTo(t, where)
    /\ UNCHANGED <<main, fed, queue, stop, item, need, holder, lost, measured, late>>

\* Mutant: one None too few.
PillsOneShort == Cardinality(Workers) - 1

Pills == Cardinality(Workers)

\* work.put: the schedule, then the end marks.
Feed ==
    /\ main = "feed"
    /\ fed < Calls + Pills
    /\ fed' = fed + 1
    /\ queue' = Append(queue, IF fed < Calls THEN fed + 1 ELSE Pill)
    /\ UNCHANGED <<main, stop, at, item, need, holder, lost, measured, late>>

\* work.get() finds the end mark ...
End(w) ==
    /\ at[w] = "ready" /\ queue # <<>> /\ Head(queue) = Pill
    /\ queue' = Tail(queue)
    /\ GoTo(w, "done")
    /\ UNCHANGED <<main, fed, stop, item, need, holder, lost, measured, late>>

\* ... or a call.  On a lost connection the first statement fails.
Take(w) ==
    /\ at[w] = "ready" /\ queue # <<>> /\ Head(queue) # Pill
    /\ queue' = Tail(queue)
    /\ item' = [item EXCEPT ![w] = Head(queue)]
    /\ IF w \in lost THEN GoTo(w, "record") /\ UNCHANGED need
       ELSE IF Head(queue) \in Writes
            THEN GoTo(w, "locking") /\ need' = [need EXCEPT ![w] = CheckoutRows]
            ELSE GoTo(w, "reading") /\ UNCHANGED need
    /\ UNCHANGED <<main, fed, stop, holder, lost, measured, late>>

ReadDone(w) ==
    /\ at[w] = "reading"
    /\ GoTo(w, "record")
    /\ UNCHANGED <<main, fed, queue, stop, item, need, holder, lost, measured, late>>

\* A statement of the transaction locks its row.
Lock(t) ==
    /\ at[t] = "locking" /\ need[t] # <<>>
    /\ holder[Head(need[t])] \in {Nobody, t}
    /\ holder' = [holder EXCEPT ![Head(need[t])] = t]
    /\ need' = [need EXCEPT ![t] = Tail(@)]
    /\ UNCHANGED <<main, fed, queue, stop, at, item, lost, measured, late>>

\* It waits for another's lock and fails.
Refused(t) ==
    /\ at[t] = "locking" /\ need[t] # <<>>
    /\ holder[Head(need[t])] \notin {Nobody, t}
    /\ GoTo(t, "rollback")
    /\ UNCHANGED <<main, fed, queue, stop, item, need, holder, lost, measured, late>>

Unlocked(t) == [r \in Rows |-> IF holder[r] = t THEN Nobody ELSE holder[r]]

\* Where a transaction leads: a worker's call is recorded, the batch goes on.
After(t) == IF t = Batch THEN "ready" ELSE "record"

Commit(t) ==
    /\ at[t] = "locking" /\ need[t] = <<>>
    /\ holder' = Unlocked(t)
    /\ GoTo(t, After(t))
    /\ UNCHANGED <<main, fed, queue, stop, item, need, lost, measured, late>>

\* Mutant: the error is recorded and the transaction left open.
RollbackForgotten(t) ==
    /\ at[t] = "rollback"
    /\ need' = [need EXCEPT ![t] = <<>>]
    /\ GoTo(t, After(t))
    /\ UNCHANGED <<main, fed, queue, stop, item, holder, lost, measured, late>>

\* except: ROLLBACK
Rollback(t) ==
    /\ at[t] = "rollback"
    /\ holder' = Unlocked(t)
    /\ need' = [need EXCEPT ![t] = <<>>]
    /\ GoTo(t, After(t))
    /\ UNCHANGED <<main, fed, queue, stop, item, lost, measured, late>>

\* Mutant: an error of the ROLLBACK ends a worker too.
AfterLossDead(t) == "dead"

\* The ROLLBACK fails as well: a worker records the call as failed, the batch
\* job ends with the exception.
AfterLoss(t) == IF t = Batch THEN "dead" ELSE "record"

Lose(t) ==
    /\ at[t] \in {"locking", "rollback", "reading"}
    /\ Cardinality(lost) < MaxLosses
    /\ lost' = lost \cup {t}
    /\ holder' = Unlocked(t)
    /\ need' = [need EXCEPT ![t] = <<>>]
    /\ GoTo(t, AfterLoss(t))
    /\ UNCHANGED <<main, fed, queue, stop, item, measured, late>>

\* result.calls.append(call), with its error if it had one
RecordCall(w) ==
    /\ at[w] = "record"
    /\ measured' = [measured EXCEPT ![item[w]] = @ + 1]
    /\ GoTo(w, "ready")
    /\ UNCHANGED <<main, fed, queue, stop, item, need, holder, lost, late>>

\* Mutant: the event is not looked at between two chunks.
CheckStopNever ==
    /\ at[Batch] = "ready"
    /\ GoTo(Batch, "begin")
    /\ UNCHANGED <<main, fed, queue, stop, item, need, holder, lost, measured, late>>

\* Before each chunk the batch job looks whether it shall stop ...
CheckStop ==
    /\ at[Batch] = "ready"
    /\ GoTo(Batch, IF stop THEN "done" ELSE "begin")
    /\ UNCHANGED <<main, fed, queue, stop, item, need, holder, lost, measured, late>>

\* ... and then begins it.
BeginChunk ==
    /\ at[Batch] = "begin"
    /\ GoTo(Batch, "locking")
    /\ need' = [need EXCEPT ![Batch] = BatchRows]
    /\ late' = IF main = "returned" /\ late < 2 THEN late + 1 ELSE late
    /\ UNCHANGED <<main, fed, queue, stop, item, holder, lost, measured>>

Over(t) == at[t] \in {"dead", "done"}

\* t.join() of every worker, then stop.set()
JoinWorkers ==
    /\ main = "feed" /\ fed = Calls + Pills
    /\ \A w \in Workers : Over(w)
    /\ main' = "side"
    /\ stop' = TRUE
    /\ UNCHANGED <<fed, queue, at, item, need, holder, lost, measured, late>>

\* t.join(timeout=...) of the others: they have ended or the time is up.
JoinSide ==
    /\ main = "side"
    /\ main' = "returned"
    /\ UNCHANGED <<fed, queue, stop, at, item, need, holder, lost, measured, late>>

\* An exception in the main thread (a thread that cannot be started, Ctrl-C at
\* the command line): run_phase has no finally that would set stop.
Interrupt ==
    /\ main \in {"feed", "side"}
    /\ main' = "raised"
    /\ UNCHANGED <<fed, queue, stop, at, item, need, holder, lost, measured, late>>

Main == Feed \/ JoinWorkers \/ JoinSide

Work(w) ==
    \/ Connect(w) \/ End(w)    \/ Take(w)     \/ ReadDone(w) \/ Lock(w)
    \/ Refused(w) \/ Commit(w) \/ Rollback(w) \/ RecordCall(w)

BatchJob ==
    \/ Connect(Batch) \/ CheckStop     \/ BeginChunk \/ Lock(Batch)
    \/ Refused(Batch) \/ Commit(Batch) \/ Rollback(Batch)

PhaseNext ==
    \/ Main \/ Interrupt \/ BatchJob
    \/ \E w \in Workers : Work(w)
    \/ \E t \in Threads : Lose(t)

\* Each thread that can go on does, and a statement that waits for a lock does
\* not wait for ever: set_lock_timeout sees to that.
Fairness == WF_phaseVars(Main) /\ WF_phaseVars(BatchJob) /\ \A w \in Workers : WF_phaseVars(Work(w))

PhaseSpec == PhaseInit /\ [][PhaseNext]_phaseVars /\ Fairness
-----------------------------------------------------------------------------
\* No call of the schedule is counted twice, and none is lost, whatever fails
\* on the way: as long as one worker lives to the end, all are measured
\* (workload.py:187-217).
CallsMeasured ==
    /\ \A c \in 1..Calls : measured[c] <= 1
    /\ stop /\ (\E w \in Workers : at[w] = "done") =>
           \A c \in 1..Calls : measured[c] = 1

\* An error leaves no transaction open: a thread outside a transaction holds no
\* lock that others would wait for (workload.py:162-172, 232-240).
ErrorsReleaseLocks ==
    \A r \in Rows : holder[r] # Nobody => at[holder[r]] \in {"locking", "rollback"}

\* The batch job of a phase reaches at most one chunk into the next one: it may
\* outlive run_phase, whose join has a timeout, but begins no second chunk
\* (workload.py:226-231, 264-266).
InterferenceBounded == late <= 1

\* Unless the main thread raises, the phase ends and its batch job after it,
\* whoever deadlocks with whom and whichever workers never connect
\* (workload.py:252-268).
PhaseEnds == <>(main = "raised" \/ (main = "returned" /\ Over(Batch)))
=============================================================================
