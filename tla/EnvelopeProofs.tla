--------------------------- MODULE EnvelopeProofs ---------------------------
(***************************************************************************)
(* What stored samples and the readiness of an envelope are worth, for any *)
(* load, any window and any thresholds.                                    *)
(***************************************************************************)
EXTENDS Envelope, FiniteSetTheorems, TLAPS

Types ==
    /\ now \in Periods
    /\ level \in [Periods -> Levels]
    /\ held \in [Periods -> Nat]
    /\ collections \in Nat

\* A set of naturals that is not empty has a lowest member.
LEMMA LowestThereIs ==
    ASSUME NEW S \in SUBSET Nat, S # {}
    PROVE  Min(S) \in S /\ \A x \in S : Min(S) <= x
<1>1. PICK top \in S : TRUE
  OBVIOUS
<1> DEFINE Below == {0..x : x \in {y \in S : y <= top}}
<1>2. IsFiniteSet(0..top)
  BY <1>1, FS_Interval
<1>3. IsWellFoundedOn(StrictSubsetOrdering(0..top), SUBSET (0..top))
  <2>1. IsWellFoundedOn(StrictSubsetOrdering(0..top), FiniteSubsetsOf(0..top))
    BY FS_StrictSubsetOrderingWellFounded
  <2>2. FiniteSubsetsOf(0..top) = SUBSET (0..top)
    BY <1>2, FS_FiniteSubsetsOfFinite
  <2> QED BY <2>1, <2>2
<1>4. Below \subseteq SUBSET (0..top) /\ Below # {}
  <2>1. 0..top \in Below
    BY <1>1
  <2>2. \A x \in S : x <= top => 0..x \subseteq 0..top
    BY <1>1
  <2> QED BY <2>1, <2>2
<1>5. PICK T \in Below : \A U \in Below : ~ (<<U, T>> \in StrictSubsetOrdering(0..top))
  <2> HIDE DEF Below
  <2> QED BY <1>3, <1>4, WFMin
<1>6. PICK x \in S : x <= top /\ T = 0..x
  BY <1>5
<1>7. \A y \in S : x <= y
  <2> SUFFICES ASSUME NEW y \in S, y < x PROVE FALSE
    OBVIOUS
  <2>1. y <= top /\ 0..y \in Below
    BY <1>1, <1>6
  <2>2. 0..y \subseteq T /\ x \in T /\ x \notin 0..y
    BY <1>6
  <2>3. 0..y \in SUBSET (0..top) /\ T \in SUBSET (0..top)
    BY <1>4, <1>5, <2>1
  <2>4. <<0..y, T>> \in StrictSubsetOrdering(0..top)
    BY <2>2, <2>3 DEF StrictSubsetOrdering
  <2> QED BY <1>5, <2>1, <2>4
<1> QED BY <1>7 DEF Min

LEMMA TypesInit == Init => Types
<1>1. Lowest \in Levels
  BY LowestThereIs, LevelsAssumption DEF Lowest
<1> QED BY <1>1, TimesAssumption DEF Init, Types, Periods

LEMMA TypesStep == Types /\ [Next]_vars => Types'
<1> SUFFICES ASSUME Types, [Next]_vars PROVE Types'
  OBVIOUS
<1>1. CASE Rise
  BY <1>1 DEF Rise, Types
<1>2. CASE Tick
  BY <1>2, TimesAssumption DEF Tick, Types, Periods
<1>3. CASE Collect
  <2>1. \A t \in Periods : level[t] \in Nat /\ held[t] \in Nat
    BY LevelsAssumption DEF Types
  <2>2. held' \in [Periods -> Nat]
    BY <1>3, <2>1 DEF Collect
  <2> QED BY <1>3, <2>2 DEF Collect, Types
<1>4. CASE UNCHANGED vars
  BY <1>4 DEF vars, Types
<1> QED BY <1>1, <1>2, <1>3, <1>4 DEF Next

\* Every period has one of the levels, and at most one sample is held of it, whatever
\* stretches the collections ask for (store.py:183-199).
THEOREM TypesAlways == Spec => []Types
BY TypesInit, TypesStep, PTL DEF Spec
-----------------------------------------------------------------------------
(* Partial samples. *)

\* What is understated, or may still come to be.
Partial == {t \in Periods : held[t] # 0 /\ (t = now \/ held[t] # level[t])}

PartialInv ==
    /\ \A t \in Periods : held[t] <= level[t]
    /\ \A t \in Periods : t > now => held[t] = 0
    /\ Cardinality(Partial) <= collections

LEMMA PeriodsAreFinite == IsFiniteSet(Periods)
BY FS_Interval, TimesAssumption DEF Periods

LEMMA PartialInit == Init => PartialInv
<1> SUFFICES ASSUME Init PROVE PartialInv
  OBVIOUS
<1>1. Partial = {}
  BY DEF Init, Partial
<1>2. Lowest \in Nat
  BY LowestThereIs, LevelsAssumption DEF Lowest
<1> QED BY <1>1, <1>2, FS_EmptySet DEF Init, PartialInv

\* No period more may be partial, and no fewer collections ran.
LEMMA PartialFewer ==
    ASSUME Types, PartialInv, Partial' \subseteq Partial, collections' = collections
    PROVE  Cardinality(Partial') <= collections'
<1>1. IsFiniteSet(Partial)
  BY PeriodsAreFinite, FS_Subset DEF Partial
<1>2. Cardinality(Partial') <= Cardinality(Partial)
      /\ Cardinality(Partial) \in Nat /\ Cardinality(Partial') \in Nat
  BY <1>1, FS_Subset, FS_CardinalityType
<1> QED BY <1>2 DEF PartialInv, Types

LEMMA PartialStep == Types /\ Types' /\ PartialInv /\ [Next]_vars => PartialInv'
<1> SUFFICES ASSUME Types, Types', PartialInv, [Next]_vars PROVE PartialInv'
  OBVIOUS
<1>1. /\ now \in Nat /\ now \in Periods
      /\ \A t \in Periods : t \in Nat /\ held[t] \in Nat /\ level[t] \in Nat /\ level'[t] \in Nat
  <2>1. Periods \subseteq Nat /\ Levels \subseteq Nat
    BY LevelsAssumption, TimesAssumption DEF Periods
  <2>2. \A t \in Periods : level[t] \in Levels /\ level'[t] \in Levels /\ held[t] \in Nat
    BY DEF Types
  <2> QED BY <2>1, <2>2 DEF Types
<1>2. CASE Rise
  <2>1. PICK l \in Levels : l > level[now] /\ level' = [level EXCEPT ![now] = l]
                            /\ UNCHANGED <<now, held, collections>>
    BY <1>2 DEF Rise
  <2>2. \A t \in Periods : level'[t] = IF t = now THEN l ELSE level[t]
    BY <2>1 DEF Types
  <2>3. l \in Nat
    BY LevelsAssumption
  <2>4. \A t \in Periods : held'[t] <= level'[t]
    BY <1>1, <2>1, <2>2, <2>3 DEF PartialInv
  <2>5. Partial' \subseteq Partial
    BY <2>1, <2>2 DEF Partial
  <2> QED BY <2>1, <2>4, <2>5, PartialFewer DEF PartialInv
<1>3. CASE Tick
  <2>1. now' = now + 1 /\ UNCHANGED <<level, held, collections>>
    BY <1>3 DEF Tick
  <2>2. held[now + 1] = 0
    BY <1>1, <1>3, TimesAssumption DEF Tick, PartialInv, Periods
  <2>3. Partial' \subseteq Partial
    BY <2>1, <2>2 DEF Partial
  <2>4. \A t \in Periods : t > now' => t > now
    BY <1>1, <2>1
  <2> QED BY <2>1, <2>3, <2>4, PartialFewer DEF PartialInv
<1>4. CASE Collect
  <2>1. PICK span \in Spans :
            /\ held' = [t \in Periods |-> IF t \in (now - span)..now /\ held[t] = 0
                                          THEN level[t] ELSE held[t]]
            /\ collections' = collections + 1 /\ UNCHANGED <<now, level>>
    BY <1>4 DEF Collect
  <2>2. span \in Nat
    BY TimesAssumption
  <2>3. \A t \in Periods : /\ held'[t] = held[t] \/ (held'[t] = level[t] /\ t <= now)
    BY <1>1, <2>1, <2>2
  <2>4. \A t \in Periods : held'[t] <= level'[t]
    BY <1>1, <2>1, <2>3 DEF PartialInv
  <2>5. \A t \in Periods : t > now' => held'[t] = 0
    BY <1>1, <2>1, <2>3 DEF PartialInv
  <2>6. Partial' \subseteq Partial \cup {now}
    BY <2>1, <2>3 DEF Partial
  <2>7. Cardinality(Partial') <= collections'
    <3>1. IsFiniteSet(Partial) /\ IsFiniteSet(Partial \cup {now})
      <4>1. IsFiniteSet(Partial)
        BY PeriodsAreFinite, FS_Subset DEF Partial
      <4> QED BY <4>1, FS_AddElement
    <3>2. Cardinality(Partial \cup {now}) <= Cardinality(Partial) + 1
          /\ Cardinality(Partial) \in Nat /\ Cardinality(Partial \cup {now}) \in Nat
      <4>1. Cardinality(Partial) \in Nat /\ Cardinality(Partial \cup {now}) \in Nat
        BY <3>1, FS_CardinalityType
      <4>2. Cardinality(Partial \cup {now}) = IF now \in Partial THEN Cardinality(Partial)
                                              ELSE Cardinality(Partial) + 1
        BY <3>1, FS_AddElement
      <4> QED BY <4>1, <4>2
    <3>3. Cardinality(Partial') <= Cardinality(Partial \cup {now}) /\ Cardinality(Partial') \in Nat
      BY <2>6, <3>1, FS_Subset, FS_CardinalityType
    <3> QED BY <2>1, <3>2, <3>3 DEF PartialInv, Types
  <2> QED BY <2>4, <2>5, <2>7 DEF PartialInv
<1>5. CASE UNCHANGED vars
  BY <1>5 DEF vars, PartialInv, Partial
<1> QED BY <1>2, <1>3, <1>4, <1>5 DEF Next

\* A sample never tells more than its period reached, and at most one in each
\* collection tells less: the one of the period that was under way
\* (store.py:183-199).
THEOREM PartialsAreFew == Spec => []PartialsUnderstate
<1>1. Types /\ PartialInv => PartialsUnderstate
  <2> SUFFICES ASSUME Types, PartialInv PROVE PartialsUnderstate
    OBVIOUS
  <2> DEFINE spoilt == {t \in Periods : held[t] # 0 /\ held[t] # level[t]}
  <2>1. spoilt \subseteq Partial /\ IsFiniteSet(Partial)
    BY PeriodsAreFinite, FS_Subset DEF Partial
  <2>2. Cardinality(spoilt) <= Cardinality(Partial)
        /\ Cardinality(spoilt) \in Nat /\ Cardinality(Partial) \in Nat
    BY <2>1, FS_Subset, FS_CardinalityType
  <2>3. Cardinality(spoilt) <= collections
    BY <2>2 DEF PartialInv, Types
  <2> QED BY <2>3 DEF PartialsUnderstate, PartialInv
<1>2. Types /\ PartialInv /\ [Next]_vars => (Types /\ PartialInv)'
  BY TypesStep, PartialStep
<1> QED BY <1>1, <1>2, TypesInit, PartialInit, PTL DEF Spec
-----------------------------------------------------------------------------
(* Readiness. *)

\* The days with samples and the groups of slots are finitely many.
LEMMA SetsAreFinite ==
    /\ IsFiniteSet(Samples) /\ DaysOf(Samples) \in Nat
    /\ Cardinality(Groups) \in Nat /\ Cardinality(ThinGroups) \in Nat
<1>1. IsFiniteSet(Samples)
  BY PeriodsAreFinite, FS_Subset DEF Samples
<1> DEFINE days == {t \div Day : t \in Samples}
           f == [t \in Samples |-> t \div Day]
           g == [t \in Samples |-> SlotOf(t)]
           h == [s \in SlotStarts |-> GroupOf(s)]
<1>2. IsFiniteSet(days)
  <2>1. f \in Surjection(Samples, days)
    BY DEF Surjection
  <2> HIDE DEF f, days
  <2> QED BY <1>1, <2>1, FS_Surjection
<1>3. IsFiniteSet(SlotStarts)
  <2>1. g \in Surjection(Samples, SlotStarts)
    BY DEF Surjection, SlotStarts
  <2> HIDE DEF g
  <2> QED BY <1>1, <2>1, FS_Surjection
<1>4. IsFiniteSet(Groups)
  <2>1. h \in Surjection(SlotStarts, Groups)
    BY DEF Surjection, Groups
  <2> HIDE DEF h
  <2> QED BY <1>3, <2>1, FS_Surjection
<1>5. IsFiniteSet(ThinGroups)
  BY <1>4, FS_Subset DEF ThinGroups
<1> QED BY <1>1, <1>2, <1>4, <1>5, FS_CardinalityType DEF DaysOf

\* The lower of two.
LEMMA MinOfTwo ==
    ASSUME NEW a \in Int, NEW b \in Int
    PROVE  Min({a, b}) = IF a <= b THEN a ELSE b
<1> DEFINE least == IF a <= b THEN a ELSE b
<1>1. least \in {a, b} /\ \A y \in {a, b} : least <= y
  OBVIOUS
<1>2. \A x \in {a, b} : (\A y \in {a, b} : x <= y) => x = least
  OBVIOUS
<1> HIDE DEF least
<1>3. Min({a, b}) = least
  BY <1>1, <1>2 DEF Min
<1> QED BY <1>3 DEF least

LEMMA DivLower ==
    ASSUME NEW n \in Nat, NEW w \in Nat \ {0}
    PROVE  n \div w \in Nat
OBVIOUS

LEMMA NearestIsNatural ==
    ASSUME NEW n \in Nat, NEW w \in Nat \ {0}
    PROVE  Nearest(n, w) \in Nat
<1>1. 2 * n + w \in Nat /\ 2 * w \in Nat \ {0}
  OBVIOUS
<1> QED BY <1>1, DivLower DEF Nearest

LEMMA CoverageIs ==
    /\ Nearest(Cardinality(Samples) * 10000, Window) \in Nat
    /\ Coverage \in Nat /\ Coverage <= 10000
    /\ Coverage <= Nearest(Cardinality(Samples) * 10000, Window)
    /\ \A m \in Nat : m <= 10000 /\ m <= Nearest(Cardinality(Samples) * 10000, Window) => m <= Coverage
<1> DEFINE share == Nearest(Cardinality(Samples) * 10000, Window)
<1>1. share \in Nat
  <2>1. Cardinality(Samples) * 10000 \in Nat /\ Window \in Nat \ {0}
    BY SetsAreFinite, FS_CardinalityType, TimesAssumption
  <2> QED BY <2>1, NearestIsNatural
<1>2. Coverage = Min({share, 10000})
  BY DEF Coverage
<1> HIDE DEF share
<1>3. Coverage = IF share <= 10000 THEN share ELSE 10000
  BY <1>1, <1>2, MinOfTwo
<1>4. /\ share \in Nat /\ Coverage \in Nat /\ Coverage <= 10000 /\ Coverage <= share
      /\ \A m \in Nat : m <= 10000 /\ m <= share => m <= Coverage
  BY <1>1, <1>3
<1> QED BY <1>4 DEF share

\* What makes an envelope too poor to plan on.
TooPoor == Samples = {} \/ DaysOf(Samples) < MinDays \/ Coverage < MinCoverage

LEMMA InsufficientWhen == Readiness(0) = "insufficient" <=> TooPoor
<1>1. ~(2 * 0 > DaysOf(Samples))
  BY SetsAreFinite
<1> QED BY <1>1 DEF Readiness, Grade, Reasons, When, TooPoor

LEMMA DivMonotonic ==
    ASSUME NEW a \in Nat, NEW b \in Nat, NEW w \in Nat \ {0}, a <= b
    PROVE  a \div w <= b \div w
OBVIOUS

LEMMA NearestMonotonic ==
    ASSUME NEW a \in Nat, NEW b \in Nat, NEW w \in Nat \ {0}, a <= b
    PROVE  Nearest(a, w) <= Nearest(b, w)
<1>1. 2 * a + w \in Nat /\ 2 * b + w \in Nat /\ 2 * w \in Nat \ {0} /\ 2 * a + w <= 2 * b + w
  OBVIOUS
<1> QED BY <1>1, DivMonotonic DEF Nearest

\* A finite set is at least as large as its parts.
LEMMA PartIsSmaller ==
    ASSUME NEW S, NEW T, IsFiniteSet(T), S \subseteq T
    PROVE  Cardinality(S) \in Nat /\ Cardinality(T) \in Nat /\ Cardinality(S) <= Cardinality(T)
BY FS_Subset, FS_CardinalityType

\* With the samples there are, days and coverage grow.
LEMMA MoreIsNotPoorer ==
    ASSUME Collect, TooPoor'
    PROVE  TooPoor
<1>1. Samples \subseteq Samples'
  BY DEF Collect, Samples
<1>2. IsFiniteSet(Samples') /\ IsFiniteSet({t \div Day : t \in Samples'})
  <2>1. IsFiniteSet(Samples)'
    BY SetsAreFinite, PTL
  <2> DEFINE T == Samples'
             days == {t \div Day : t \in T}
             f == [t \in T |-> t \div Day]
  <2>2. f \in Surjection(T, days)
    BY DEF Surjection
  <2> HIDE DEF T, days, f
  <2>3. IsFiniteSet(T)
    BY <2>1 DEF T
  <2>4. IsFiniteSet(days)
    BY <2>2, <2>3, FS_Surjection
  <2> QED BY <2>3, <2>4 DEF days, T
<1>3. /\ DaysOf(Samples) \in Nat /\ DaysOf(Samples') \in Nat
      /\ DaysOf(Samples) <= DaysOf(Samples')
  <2> DEFINE S == {t \div Day : t \in Samples}
             T == {t \div Day : t \in Samples'}
  <2>1. S \subseteq T /\ IsFiniteSet(T)
    BY <1>1, <1>2
  <2> HIDE DEF S, T
  <2>2. Cardinality(S) \in Nat /\ Cardinality(T) \in Nat /\ Cardinality(S) <= Cardinality(T)
    BY <2>1, PartIsSmaller
  <2> QED BY <2>2 DEF S, T, DaysOf
<1>4. Coverage \in Nat /\ Coverage' \in Nat /\ Coverage <= Coverage'
  <2> DEFINE share == Nearest(Cardinality(Samples) * 10000, Window)
  <2>1. /\ Coverage \in Nat /\ Coverage <= 10000 /\ Coverage <= share /\ share \in Nat
    BY CoverageIs
  <2>2. /\ Coverage' \in Nat /\ share' \in Nat
        /\ \A m \in Nat : m <= 10000 /\ m <= share' => m <= Coverage'
    <3>1. (/\ Nearest(Cardinality(Samples) * 10000, Window) \in Nat
           /\ Coverage \in Nat /\ Coverage <= 10000
           /\ Coverage <= Nearest(Cardinality(Samples) * 10000, Window)
           /\ \A m \in Nat : m <= 10000 /\ m <= Nearest(Cardinality(Samples) * 10000, Window)
                                 => m <= Coverage)'
      BY CoverageIs, PTL
    <3> QED BY <3>1
  <2>3. share <= share'
    <3> DEFINE a == Cardinality(Samples) * 10000
               b == Cardinality(Samples') * 10000
    <3>1. a \in Nat /\ b \in Nat /\ a <= b
      BY <1>1, <1>2, PartIsSmaller
    <3>2. Window \in Nat \ {0}
      BY TimesAssumption
    <3> HIDE DEF a, b
    <3>3. Nearest(a, Window) <= Nearest(b, Window)
      BY <3>1, <3>2, NearestMonotonic
    <3> QED BY <3>3 DEF a, b
  <2> HIDE DEF share
  <2> QED BY <2>1, <2>2, <2>3
<1>5. MinDays \in Nat /\ MinCoverage \in Nat
  BY GradesAssumption
<1>6. TooPoor' <=> Samples' = {} \/ DaysOf(Samples') < MinDays \/ Coverage' < MinCoverage
  BY DEF TooPoor, DaysOf
<1> QED BY <1>1, <1>3, <1>4, <1>5, <1>6 DEF TooPoor

\* A collection never makes a history too poor to plan on that was not
\* (envelope.py:188-225).
THEOREM MoreIsNeverLess == Spec => MoreNeverDisqualifies
<1>1. ASSUME Types, [Next]_vars, collections' > collections, Readiness(0) # "insufficient"
      PROVE  Readiness(0)' # "insufficient"
  <2>1. Collect
    <3>1. collections' # collections
      BY <1>1 DEF Types
    <3> QED BY <1>1, <3>1 DEF Next, Rise, Tick, vars
  <2>2. (Readiness(0) = "insufficient" <=> TooPoor)'
    BY InsufficientWhen, PTL
  <2> QED BY <1>1, <2>1, <2>2, InsufficientWhen, MoreIsNotPoorer
<1> QED BY <1>1, TypesAlways, PTL DEF Spec, MoreNeverDisqualifies
=============================================================================
