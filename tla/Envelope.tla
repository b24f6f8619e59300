------------------------------ MODULE Envelope ------------------------------
(***************************************************************************)
(* The workload envelope, history/envelope.py, over the samples of one     *)
(* metric of one node.  A load goes by, collections store what a period    *)
(* has shown so far (the first collection of a period wins,                *)
(* history/store.py:183-199), and at any time the envelope is built from   *)
(* the stored samples.                                                     *)
(*                                                                         *)
(* Time is counted in sample periods.  Shares and ratios are rounded where *)
(* the code rounds them, and counted in the last digit that is kept.  The  *)
(* decay of a sample with its age is a table, one with the usual half-life *)
(* and one with the short half-life used after a level shift.              *)
(***************************************************************************)
EXTENDS Integers, Sequences, FiniteSets, FiniteSetsExt, SequencesExt

CONSTANTS Levels,              \* what a period may reach
          Hour, Day, Week,     \* periods of an hour and of a day, days of a week
          SlotLength,          \* periods of a slot; divides a day
          Window,              \* window_days, in periods
          Weight,              \* Weight[short, age]
          FullWeeks, MinDays, ThinDays,
          MinCoverage, GoodCoverage,                \* in ten-thousandths
          ThinSlotShare, DriftUp, DriftDown,        \* in thousandths
          MinRecentSlots, MinBaselineSlots,
          Spans,               \* how far back a collection looks
          MaxTime, MaxCollections

ASSUME TimesAssumption ==
    /\ {Hour, Day, Week, SlotLength, Window} \subseteq Nat \ {0}
    /\ Day % SlotLength = 0 /\ Day % Hour = 0
    /\ Spans \subseteq Nat /\ {MaxTime, MaxCollections} \subseteq Nat
ASSUME LevelsAssumption == Levels \subseteq Nat \ {0} /\ Levels # {}
ASSUME WeightAssumption ==
    \A short \in BOOLEAN, age \in 0..(Window + Hour) : Weight[short, age] \in Nat \ {0}
ASSUME GradesAssumption ==
    /\ {FullWeeks, MinDays, ThinDays, MinCoverage, GoodCoverage, ThinSlotShare} \subseteq Nat
    /\ MinCoverage <= 10000

VARIABLES now,          \* the period under way
          level,        \* the highest level of each period so far
          held,         \* the sample stored for a period, 0 when there is none
          collections   \* how many collections ran
vars == <<now, level, held, collections>>

Periods == 0..MaxTime
Lowest == Min(Levels)

-----------------------------------------------------------------------------
(* The program: what is stored, and how it is read.                        *)

Init ==
    /\ now = 0
    /\ level = [t \in Periods |-> Lowest]
    /\ held = [t \in Periods |-> 0]
    /\ collections = 0

\* External: the load of the period under way rises, or the next period begins.
Rise == \E l \in Levels :
    /\ l > level[now]
    /\ level' = [level EXCEPT ![now] = l]
    /\ UNCHANGED <<now, held, collections>>

Tick ==
    /\ now < MaxTime
    /\ now' = now + 1
    /\ UNCHANGED <<level, held, collections>>

\* Mutant: a period is given the level of the one under way.
CollectShifted == \E span \in Spans :
    /\ collections < MaxCollections
    /\ held' = [t \in Periods |-> IF t \in (now - span)..now /\ held[t] = 0 THEN level[now] ELSE held[t]]
    /\ collections' = collections + 1
    /\ UNCHANGED <<now, level>>

\* A collection asks for a stretch that ends now; what is already held is left as it was.
Collect == \E span \in Spans :
    /\ collections < MaxCollections
    /\ held' = [t \in Periods |-> IF t \in (now - span)..now /\ held[t] = 0 THEN level[t] ELSE held[t]]
    /\ collections' = collections + 1
    /\ UNCHANGED <<now, level>>

Next == Rise \/ Tick \/ Collect
Spec == Init /\ [][Next]_vars

-----------------------------------------------------------------------------
(* build_envelope, now.                                                    *)

Samples == {t \in Periods : now - Window <= t /\ t <= now /\ held[t] > 0}

\* round(): the nearest, of two as near the higher.
Nearest(a, b) == (2 * a + b) \div (2 * b)

\* _slot_values: rolled back by the minute of the hour; the periods of a slot, by its start, and the highest of them.
SlotOf(t) == t - ((t % Hour) % SlotLength)
SlotStarts == {SlotOf(t) : t \in Samples}
SlotMax(s) == Max({held[t] : t \in {x \in Samples : SlotOf(x) = s}})

\* _weighted_quantile over [slot, value, weight]: the first value, going up, whose running weight reaches the target.
Quantile(pairs, percent) ==
    LET total(S) == MapThenSumSet(LAMBDA p : p.weight, S)
        reached(p) == total({q \in pairs : q.value <= p.value}) * 100 >= total(pairs) * percent
    IN  Min({p.value : p \in {q \in pairs : reached(q)}})

Pair(s, w) == [slot |-> s, value |-> SlotMax(s), weight |-> w]
High95(slots) == Quantile({Pair(s, 1) : s \in slots}, 95)

\* Mutant: only a rise counts as a shift.
DriftUpwards ==
    LET recent == {s \in SlotStarts : s >= now - Day}
        older == SlotStarts \ recent
    IN  /\ Cardinality(recent) >= MinRecentSlots /\ Cardinality(older) >= MinBaselineSlots
        /\ Nearest(High95(recent) * 1000, High95(older)) >= DriftUp

\* _detect_drift: the last day against everything before it.
Drift ==
    LET recent == {s \in SlotStarts : s >= now - Day}
        older == SlotStarts \ recent
    IN  /\ Cardinality(recent) >= MinRecentSlots /\ Cardinality(older) >= MinBaselineSlots
        /\ \E ratio \in {Nearest(High95(recent) * 1000, High95(older))} : ratio >= DriftUp \/ ratio <= DriftDown

Weekday(t) == (t \div Day) % Week
WholeSlots(t) == ((t % Day) \div SlotLength) * SlotLength

\* Mutant: the time of day is not rolled back to a whole slot.
GroupByStart(s) == <<Weekday(s), s % Day>>

\* _slots: the slots of one weekday and time of day.
GroupOf(s) == <<Weekday(s), WholeSlots(s)>>
Groups == {GroupOf(s) : s \in SlotStarts}
Members(g) == {s \in SlotStarts : GroupOf(s) = g}
Peak(g) == Max({SlotMax(s) : s \in Members(g)})

\* Envelope.at: where the slot that covers a moment is looked up.
At(t) == <<Weekday(t), WholeSlots(t)>>

DaysOf(S) == Cardinality({t \div Day : t \in S})

Group(g) ==
    LET short == Drift
        pairs == {Pair(s, Weight[short, now - s]) : s \in Members(g)}
    IN  [typical |-> Quantile(pairs, 50), high |-> Quantile(pairs, 95)]

ThinGroups == {g \in Groups : DaysOf(Members(g)) < ThinDays}

\* History.coverage: every sample covers its period, and both ends of the window may hold one.
Coverage == Min({Nearest(Cardinality(Samples) * 10000, Window), 10000})

\* hold: one reason that is insufficient decides the grade, whatever is found before or after it.
Grade(reasons) ==
    IF "insufficient" \in reasons THEN "insufficient"
    ELSE IF reasons = {} THEN "ready" ELSE "provisional"

When(condition, grade) == IF condition THEN {grade} ELSE {}

\* Mutant: a shift disqualifies.
ReasonsStrict(daysAhead) ==
    LET days == DaysOf(Samples)
    IN  When(days < MinDays \/ Coverage < MinCoverage \/ Drift, "insufficient") \cup When(days < FullWeeks, "provisional")

\* Envelope.readiness: the grades of the reasons that hold it back.
Reasons(daysAhead) ==
    LET days == DaysOf(Samples)
    IN  When(days < MinDays, "insufficient")
        \cup When(days \in MinDays..(FullWeeks - 1), "provisional")
        \cup When(Coverage < MinCoverage, "insufficient")
        \cup When(Coverage \in MinCoverage..(GoodCoverage - 1), "provisional")
        \cup When(Nearest(Cardinality(ThinGroups) * 1000, Cardinality(Groups)) > ThinSlotShare, "provisional")
        \cup When(Drift, "provisional")
        \cup When(2 * daysAhead > days, "insufficient")

Readiness(daysAhead) == IF Samples = {} THEN "insufficient" ELSE Grade(Reasons(daysAhead))

-----------------------------------------------------------------------------
(* Properties.                                                             *)

\* What a collection stores of a period under way is kept for good, as its first collection wins.  That is the
\* only way a sample differs from what its period reached: each collection spoils at most one, and a spoilt sample
\* understates (store.py:183-199).
PartialsUnderstate ==
    /\ \A t \in Periods : held[t] <= level[t]
    /\ Cardinality({t \in Periods : held[t] # 0 /\ held[t] # level[t]}) <= collections

\* What has been collected can be found: the slot an envelope gives for a moment of the window that is held is one
\* that saw it, and its peak covers it, although a sample is rolled back twice, by the minute of its hour and by the
\* minute of its day, and a moment that is looked up once (envelope.py:163-167, 275-282, 320-325).
CollectedIsFound == \A t \in Samples : At(t) \in Groups /\ Peak(At(t)) >= held[t]

\* Every slot of the last day is far above every earlier one, or every earlier one far above it.
MovedInTheLastDay ==
    LET recent == {s \in SlotStarts : s >= now - Day}
        older == SlotStarts \ recent
        apart(S, T) == \A s \in S, t \in T : SlotMax(s) * 1000 >= DriftUp * SlotMax(t)
    IN  /\ Cardinality(recent) >= MinRecentSlots /\ Cardinality(older) >= MinBaselineSlots
        /\ apart(recent, older) \/ apart(older, recent)

\* A load that moved to another level for the last day is never planned on as if it had not, once both sides hold
\* enough slots; and the envelope follows that day: every slot of the week it showed has it as its typical and as its
\* high level, whatever the weeks before reached, which is what the short half-life is short enough for
\* (envelope.py:299-317).
ShiftIsFollowed ==
    /\ MovedInTheLastDay => Readiness(0) # "ready"
    /\ Drift => \A s \in {x \in SlotStarts : x > now - Day} :
                    LET group == Group(GroupOf(s))
                    IN  group.typical = SlotMax(s) /\ group.high = SlotMax(s)

\* Collecting more never takes a history below what can be planned on: it may open thin slots or show a shift, which
\* leave it provisional, but a history that was not insufficient does not become so (envelope.py:188-225).
MoreNeverDisqualifies ==
    [][collections' > collections /\ Readiness(0) # "insufficient" => Readiness(0)' # "insufficient"]_vars
=============================================================================
