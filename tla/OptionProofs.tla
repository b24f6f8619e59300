---------------------------- MODULE OptionProofs ----------------------------
(***************************************************************************)
(* The options of a scenario and the turns scripted roles take on them:    *)
(* the first part is about ScriptedTeam, the second about Capacity.  Both  *)
(* pick the best or the first of finite sets, by the lemmas on least       *)
(* elements that come first.                                               *)
(***************************************************************************)
EXTENDS Capacity, ScriptedTeam, FiniteSetTheorems, WellFoundedInduction, TLAPS

-----------------------------------------------------------------------------
(* Least elements. *)

\* An order, as a set of pairs, that compares any two elements.
Linear(R, S) ==
    /\ \A a \in S : <<a, a>> \notin R
    /\ \A a, b \in S : a # b => <<a, b>> \in R \/ <<b, a>> \in R
    /\ \A a, b, c \in S : <<a, b>> \in R /\ <<b, c>> \in R => <<a, c>> \in R

\* A finite set has a least element.
LEMMA LeastExists ==
    ASSUME NEW S, IsFiniteSet(S), S # {}, NEW R, Linear(R, S)
    PROVE  \E m \in S : \A x \in S \ {m} : <<m, x>> \in R
<1> DEFINE Bad == {T \in SUBSET S : T # {} /\ ~ \E m \in T : \A x \in T \ {m} : <<m, x>> \in R}
<1> SUFFICES ASSUME Bad # {} PROVE FALSE
  OBVIOUS
<1>1. IsWellFoundedOn(StrictSubsetOrdering(S), SUBSET S)
  <2>1. IsWellFoundedOn(StrictSubsetOrdering(S), FiniteSubsetsOf(S))
    BY FS_StrictSubsetOrderingWellFounded
  <2>2. FiniteSubsetsOf(S) = SUBSET S
    BY FS_FiniteSubsetsOfFinite
  <2> QED BY <2>1, <2>2
<1>2. PICK T \in Bad : \A U \in Bad : ~ (<<U, T>> \in StrictSubsetOrdering(S))
  <2>1. Bad \subseteq SUBSET S
    OBVIOUS
  <2> HIDE DEF Bad
  <2> QED BY <1>1, <2>1, WFMin
<1>3. PICK a \in T : TRUE
  BY <1>2
<1>4. T \ {a} \notin Bad
  <2>1. T \ {a} \subseteq T /\ T \ {a} # T /\ T \subseteq S
    BY <1>2, <1>3
  <2>2. <<T \ {a}, T>> \in StrictSubsetOrdering(S)
    BY <2>1 DEF StrictSubsetOrdering
  <2> QED BY <1>2, <2>2
<1>5. CASE T \ {a} = {}
  BY <1>2, <1>3, <1>5
<1>6. CASE T \ {a} # {}
  <2>1. PICK m \in T \ {a} : \A x \in (T \ {a}) \ {m} : <<m, x>> \in R
    BY <1>2, <1>4, <1>6
  <2>2. a \in S /\ m \in S /\ a # m /\ T \subseteq S
    BY <1>2, <1>3, <2>1
  <2>3. CASE <<m, a>> \in R
    BY <1>2, <2>1, <2>3
  <2>4. CASE <<a, m>> \in R
    <3>1. ASSUME NEW x \in T \ {a} PROVE <<a, x>> \in R
      BY <2>1, <2>2, <2>4, <3>1 DEF Linear
    <3> QED BY <1>2, <1>3, <3>1
  <2> QED BY <2>2, <2>3, <2>4 DEF Linear
<1> QED BY <1>5, <1>6

LEMMA LeastNumber ==
    ASSUME NEW S \in SUBSET Nat, S # {}
    PROVE  \E m \in S : \A k \in S : m <= k
<1>1. PICK n \in S : TRUE
  OBVIOUS
<1> DEFINE T == {k \in S : k <= n}
           R == {p \in Nat \X Nat : p[1] < p[2]}
<1>2. T \in SUBSET Nat /\ n \in T /\ \A k \in T : k <= n
  <2>1. n \in Nat /\ n <= n
    BY <1>1
  <2> QED BY <1>1, <2>1
<1>3. IsFiniteSet(T)
  <2> HIDE DEF T
  <2> QED BY <1>1, <1>2, FS_BoundedSetOfNaturals
<1>4. \A a, b \in Nat : <<a, b>> \in R <=> a < b
  OBVIOUS
<1>5. Linear(R, T)
  <2> HIDE DEF R
  <2> QED BY <1>2, <1>4 DEF Linear
<1>6. PICK m \in T : \A x \in T \ {m} : <<m, x>> \in R
  <2> HIDE DEF T, R
  <2> QED BY <1>2, <1>3, <1>5, LeastExists
<1>7. ASSUME NEW k \in S PROVE m <= k
  <2>1. m \in Nat /\ k \in Nat /\ n \in Nat /\ m <= n
    BY <1>1, <1>6
  <2>2. CASE k \in T \ {m}
    <3>1. <<m, k>> \in R
      BY <1>6, <2>2
    <3> HIDE DEF R
    <3> QED BY <1>4, <2>1, <3>1
  <2>3. CASE k \notin T \ {m}
    <3>1. k = m \/ ~(k <= n)
      BY <2>3
    <3> QED BY <2>1, <3>1
  <2> QED BY <2>2, <2>3
<1> QED BY <1>6, <1>7

\* A set of numbers up to some number has a highest one.
LEMMA MaxIn ==
    ASSUME NEW S \in SUBSET Nat, S # {}, NEW n \in Nat, \A k \in S : k <= n
    PROVE  Max(S) \in S /\ \A k \in S : k <= Max(S)
<1> DEFINE T == {n - k : k \in S}
<1>1. T \in SUBSET Nat /\ T # {}
  <2>1. \A k \in S : n - k \in Nat
    OBVIOUS
  <2> QED BY <2>1
<1>2. PICK m \in T : \A k \in T : m <= k
  <2> HIDE DEF T
  <2> QED BY <1>1, LeastNumber
<1>3. PICK x \in S : m = n - x
  BY <1>2
<1>4. \A k \in S : x >= k
  BY <1>2, <1>3
<1> QED BY <1>3, <1>4 DEF Max

LEMMA MinOfTwo ==
    ASSUME NEW a \in Int, NEW b \in Int
    PROVE  Min({a, b}) = IF a <= b THEN a ELSE b
<1> DEFINE least == IF a <= b THEN a ELSE b
<1>1. least \in {a, b} /\ \A y \in {a, b} : least <= y
  OBVIOUS
<1>2. \A x \in {a, b} : (\A y \in {a, b} : x <= y) => x = least
  OBVIOUS
<1> HIDE DEF least
<1>3. Min({a, b}) = least
  BY <1>1, <1>2 DEF Min
<1> QED BY <1>3 DEF least
-----------------------------------------------------------------------------
(* Filtering a sequence. *)

\* f goes on from start by the steps.
Follows(f, start, step, n) == f[0] = start /\ \A i \in 1..n : f[i] = step[i][f[i - 1]]

\* A function defined from each number to the next exists.
LEMMA StepsExist ==
    ASSUME NEW V, NEW start \in V, NEW n \in Nat, NEW step \in [1..n -> [V -> V]]
    PROVE  \E f \in [0..n -> V] : Follows(f, start, step, n)
<1> DEFINE Fits(f, m) == f[0] = start /\ \A i \in 1..m : f[i] = step[i][f[i - 1]]
           Bad == {m \in 0..n : ~ \E f \in [0..m -> V] : Fits(f, m)}
<1> SUFFICES Bad = {}
  <2>1. n \in 0..n
    OBVIOUS
  <2>2. \A f : Fits(f, n) <=> Follows(f, start, step, n)
    BY DEF Follows
  <2> HIDE DEF Fits
  <2> QED BY <2>1, <2>2
<1> SUFFICES ASSUME Bad # {} PROVE FALSE
  OBVIOUS
<1>1. PICK m \in Bad : \A k \in Bad : m <= k
  <2>1. Bad \in SUBSET Nat
    OBVIOUS
  <2> HIDE DEF Bad
  <2> QED BY <2>1, LeastNumber
<1>2. CASE m = 0
  <2> DEFINE f == [i \in 0..0 |-> start]
  <2>1. f \in [0..0 -> V] /\ Fits(f, 0)
    OBVIOUS
  <2> HIDE DEF f
  <2> QED BY <1>1, <1>2, <2>1
<1>3. CASE m # 0
  <2>1. m \in 0..n /\ m - 1 \in 0..n /\ m \in 1..n
    BY <1>1, <1>3
  <2>2. m - 1 \notin Bad
    <3>1. ~(m <= m - 1)
      BY <2>1
    <3> HIDE DEF Bad
    <3> QED BY <1>1, <3>1
  <2>3. PICK g \in [0..(m - 1) -> V] : Fits(g, m - 1)
    BY <2>1, <2>2
  <2> DEFINE f == [i \in 0..m |-> IF i = m THEN step[m][g[m - 1]] ELSE g[i]]
  <2>4. f \in [0..m -> V]
    BY <2>1, <2>3
  <2>5. f[0] = start
    BY <2>1, <2>3
  <2>6. ASSUME NEW i \in 1..m PROVE f[i] = step[i][f[i - 1]]
    <3>1. i - 1 \in 0..(m - 1) /\ f[i - 1] = g[i - 1]
      BY <2>1
    <3>2. CASE i = m
      BY <2>1, <3>1, <3>2
    <3>3. CASE i # m
      <4>1. i \in 1..(m - 1) /\ f[i] = g[i]
        BY <2>1, <3>3
      <4> QED BY <2>3, <3>1, <4>1
    <3> QED BY <3>2, <3>3
  <2> HIDE DEF f
  <2>7. Fits(f, m)
    BY <2>5, <2>6
  <2> QED BY <1>1, <2>1, <2>4, <2>7
<1> QED BY <1>2, <1>3

\* The function by which Only goes through a sequence.
Filters(s, S, g) ==
    g = [n \in 0..Len(s) |-> IF n = 0 THEN <<>> ELSE IF s[n] \in S THEN Append(g[n - 1], s[n]) ELSE g[n - 1]]

LEMMA OnlyIsChosen == \A s, S : Only(s, S) = (CHOOSE g : Filters(s, S, g))[Len(s)]
BY DEF Only, Filters

LEMMA OnlyRuns ==
    ASSUME NEW V, NEW s \in Seq(V), NEW S
    PROVE  \E g \in [0..Len(s) -> Seq(V \cap S)] : Filters(s, S, g) /\ Only(s, S) = g[Len(s)]
<1> DEFINE W == Seq(V \cap S)
           step == [i \in 1..Len(s) |-> [w \in W |-> IF s[i] \in S THEN Append(w, s[i]) ELSE w]]
           g == CHOOSE h : Filters(s, S, h)
<1>1. Len(s) \in Nat /\ \A i \in 1..Len(s) : s[i] \in V
  OBVIOUS
<1>2. step \in [1..Len(s) -> [W -> W]]
  BY <1>1
<1>3. \E h : Filters(s, S, h)
  <2> DEFINE n == Len(s)
             empty == <<>>
  <2>1. empty \in W
    OBVIOUS
  <2>2. PICK h \in [0..n -> W] : Follows(h, empty, step, n)
    <3>1. n \in Nat /\ step \in [1..n -> [W -> W]]
      BY <1>1, <1>2
    <3> HIDE DEF W, step, g, n, empty
    <3> QED BY <2>1, <3>1, StepsExist
  <2>3. ASSUME NEW i \in 0..n
        PROVE  h[i] = IF i = 0 THEN <<>> ELSE IF s[i] \in S THEN Append(h[i - 1], s[i]) ELSE h[i - 1]
    <3>1. i # 0 => i \in 1..n /\ i - 1 \in 0..n
      BY <1>1
    <3>2. i # 0 => h[i - 1] \in W
      BY <2>2, <3>1
    <3>3. i # 0 => step[i][h[i - 1]] = IF s[i] \in S THEN Append(h[i - 1], s[i]) ELSE h[i - 1]
      BY <3>1, <3>2
    <3>4. h[0] = <<>> /\ (i # 0 => h[i] = step[i][h[i - 1]])
      <4> HIDE DEF step, W
      <4> QED BY <2>2, <3>1 DEF Follows
    <3> QED BY <3>3, <3>4
  <2>4. h = [i \in 0..Len(s) |-> h[i]]
    BY <2>2
  <2>5. Filters(s, S, h)
    BY <2>3, <2>4 DEF Filters
  <2> QED BY <2>5
<1>4. Filters(s, S, g)
  BY <1>3
<1> DEFINE Bad == {i \in 0..Len(s) : g[i] \notin W}
<1>5. Bad = {}
  <2> SUFFICES ASSUME Bad # {} PROVE FALSE
    OBVIOUS
  <2>1. PICK m \in Bad : \A k \in Bad : m <= k
    <3>1. Bad \in SUBSET Nat
      OBVIOUS
    <3> HIDE DEF Bad
    <3> QED BY <3>1, LeastNumber
  <2> HIDE DEF g, step
  <2>2. g[m] = IF m = 0 THEN <<>> ELSE IF s[m] \in S THEN Append(g[m - 1], s[m]) ELSE g[m - 1]
    BY <1>4, <2>1 DEF Filters
  <2>3. m # 0
    <3>1. <<>> \in W
      OBVIOUS
    <3> HIDE DEF W
    <3> QED BY <2>1, <2>2, <3>1
  <2>4. m \in 1..Len(s) /\ m - 1 \in 0..Len(s) /\ ~(m <= m - 1)
    BY <1>1, <2>1, <2>3
  <2>5. g[m - 1] \in W
    BY <2>1, <2>4
  <2>6. g[m] \in W
    BY <1>1, <2>2, <2>3, <2>4, <2>5
  <2> QED BY <2>1, <2>6
<1>6. g \in [0..Len(s) -> W]
  <2>1. g = [i \in 0..Len(s) |-> g[i]]
    <3> HIDE DEF g, W, step
    <3> QED BY <1>4 DEF Filters
  <2>2. \A i \in 0..Len(s) : g[i] \in W
    <3> HIDE DEF g, W, step
    <3> QED BY <1>5
  <2> HIDE DEF g, W, step
  <2> QED BY <2>1, <2>2
<1>7. Only(s, S) = g[Len(s)]
  BY OnlyIsChosen
<1> HIDE DEF g
<1> QED BY <1>4, <1>6, <1>7

\* What it keeps are elements of the sequence and of the set.
LEMMA OnlyKeeps ==
    ASSUME NEW V, NEW s \in Seq(V), NEW S
    PROVE  Only(s, S) \in Seq(V \cap S)
<1>1. Len(s) \in 0..Len(s)
  OBVIOUS
<1> QED BY <1>1, OnlyRuns

\* Nothing, flattened, is nothing.
Flattens(s, g) == g = [i \in 1..Len(s) |-> IF i = 1 THEN s[i] ELSE g[i - 1] \o s[i]]

LEMMA FlattenIsChosen ==
    \A s : FlattenSeq(s) = IF Len(s) = 0 THEN s ELSE (CHOOSE g : Flattens(s, g))[Len(s)]
BY DEF FlattenSeq, Flattens

LEMMA FlattenNothing ==
    ASSUME NEW s, Len(s) \in Nat \ {0}, \A i \in 1..Len(s) : s[i] = <<>>
    PROVE  FlattenSeq(s) = <<>>
<1> DEFINE h == [i \in 1..Len(s) |-> <<>>]
           g == CHOOSE f : Flattens(s, f)
           Bad == {i \in 1..Len(s) : g[i] # <<>>}
<1>1. Flattens(s, h)
  <2>1. \A i \in 1..Len(s) : h[i] = IF i = 1 THEN s[i] ELSE h[i - 1] \o s[i]
    <3>1. \A i \in 1..Len(s) : h[i] = <<>> /\ s[i] = <<>> /\ (i # 1 => h[i - 1] = <<>>)
      OBVIOUS
    <3>2. <<>> \o <<>> = <<>>
      OBVIOUS
    <3> HIDE DEF h
    <3> QED BY <3>1, <3>2
  <2>2. h = [i \in 1..Len(s) |-> h[i]]
    OBVIOUS
  <2> HIDE DEF h
  <2> QED BY <2>1, <2>2 DEF Flattens
<1>2. Flattens(s, g)
  <2> HIDE DEF h
  <2> QED BY <1>1
<1>3. Bad = {}
  <2> SUFFICES ASSUME Bad # {} PROVE FALSE
    OBVIOUS
  <2>1. PICK m \in Bad : \A k \in Bad : m <= k
    <3>1. Bad \in SUBSET Nat
      OBVIOUS
    <3> HIDE DEF Bad
    <3> QED BY <3>1, LeastNumber
  <2> HIDE DEF g
  <2>2. g[m] = IF m = 1 THEN s[m] ELSE g[m - 1] \o s[m]
    BY <1>2, <2>1 DEF Flattens
  <2>3. s[m] = <<>> /\ m # 1
    BY <2>1, <2>2
  <2>4. m - 1 \in 1..Len(s) /\ ~(m <= m - 1)
    BY <2>1, <2>3
  <2>5. g[m - 1] = <<>>
    BY <2>1, <2>4
  <2>6. <<>> \o <<>> = <<>>
    OBVIOUS
  <2> QED BY <2>1, <2>2, <2>3, <2>5, <2>6
<1> HIDE DEF g
<1>4. g[Len(s)] = <<>>
  BY <1>3
<1> QED BY <1>4, FlattenIsChosen DEF g
-----------------------------------------------------------------------------
(* What a policy decides. *)

LEMMA BeforeIsLinear ==
    ASSUME NEW n \in Nat, NEW S, NEW key, \A o \in S : key[o] \in [1..n -> Int],
           \A o, p \in S : key[o] = key[p] => o = p
    PROVE  Linear({q \in S \X S : Before(key[q[1]], key[q[2]])}, S)
<1> DEFINE R == {q \in S \X S : Before(key[q[1]], key[q[2]])}
<1>1. \A a, b \in S : <<a, b>> \in R <=> Before(key[a], key[b])
  OBVIOUS
<1>2. \A a \in S : ~ Before(key[a], key[a])
  BY DEF Before
<1>3. ASSUME NEW a \in S, NEW b \in S, a # b
      PROVE  Before(key[a], key[b]) \/ Before(key[b], key[a])
  <2> DEFINE D == {i \in 1..n : key[a][i] # key[b][i]}
  <2>1. D # {}
    <3> DEFINE x == key[a]
               y == key[b]
    <3>1. x # y /\ x \in [1..n -> Int] /\ y \in [1..n -> Int]
      BY <1>3
    <3> SUFFICES \E i \in 1..n : x[i] # y[i]
      OBVIOUS
    <3> HIDE DEF x, y, D
    <3> QED BY <3>1
  <2>2. PICK m \in D : \A k \in D : m <= k
    <3>1. D \in SUBSET Nat
      OBVIOUS
    <3> HIDE DEF D
    <3> QED BY <2>1, <3>1, LeastNumber
  <2>3. m \in 1..n /\ key[a][m] \in Int /\ key[b][m] \in Int /\ key[a][m] # key[b][m]
    BY <2>2
  <2>4. ASSUME NEW j \in 1..m - 1 PROVE key[a][j] = key[b][j]
    <3>1. j \in 1..n /\ ~(m <= j)
      BY <2>3
    <3>2. j \notin D
      <4> HIDE DEF D
      <4> QED BY <2>2, <3>1
    <3> QED BY <3>1, <3>2
  <2>5. DOMAIN key[a] = 1..n /\ DOMAIN key[b] = 1..n
    OBVIOUS
  <2>6. key[a][m] < key[b][m] \/ key[b][m] < key[a][m]
    BY <2>3
  <2> HIDE DEF D
  <2> QED BY <2>3, <2>4, <2>5, <2>6 DEF Before
<1>4. ASSUME NEW a \in S, NEW b \in S, NEW c \in S, Before(key[a], key[b]), Before(key[b], key[c])
      PROVE  Before(key[a], key[c])
  <2>1. PICK i \in 1..n : key[a][i] < key[b][i] /\ \A j \in 1..i - 1 : key[a][j] = key[b][j]
    BY <1>4 DEF Before
  <2>2. PICK k \in 1..n : key[b][k] < key[c][k] /\ \A j \in 1..k - 1 : key[b][j] = key[c][j]
    BY <1>4 DEF Before
  <2>3. \A o \in S, j \in 1..n : key[o][j] \in Int
    OBVIOUS
  <2>4. DOMAIN key[a] = 1..n
    OBVIOUS
  <2>5. CASE i <= k
    <3>1. key[a][i] < key[c][i]
      <4>1. i \in Int /\ k \in Int /\ (i < k => i \in 1..k - 1)
        OBVIOUS
      <4>2. i < k => key[b][i] = key[c][i]
        BY <2>2, <4>1
      <4>3. i = k \/ i < k
        BY <2>5, <4>1
      <4>4. key[a][i] < key[b][i] /\ key[b][k] < key[c][k]
        BY <2>1, <2>2
      <4>5. key[a][i] \in Int /\ key[b][i] \in Int /\ key[c][i] \in Int
        BY <2>3
      <4> QED BY <4>2, <4>3, <4>4, <4>5
    <3>2. \A j \in 1..i - 1 : key[a][j] = key[c][j]
      BY <2>1, <2>2, <2>5
    <3> QED BY <2>4, <3>1, <3>2 DEF Before
  <2>6. CASE k < i
    <3>1. key[a][k] < key[c][k]
      <4>1. key[a][k] = key[b][k]
        BY <2>1, <2>6
      <4> QED BY <2>2, <4>1
    <3>2. \A j \in 1..k - 1 : key[a][j] = key[c][j]
      BY <2>1, <2>2, <2>6
    <3> QED BY <2>4, <3>1, <3>2 DEF Before
  <2> QED BY <2>5, <2>6
<1> HIDE DEF R
<1>5. Linear(R, S)
  BY <1>1, <1>2, <1>3, <1>4 DEF Linear
<1> QED BY <1>5 DEF R

\* It decides for the first of the options it accepts, or not at all when it accepts none.
LEMMA BestIn ==
    ASSUME NEW n \in Nat, NEW S, IsFiniteSet(S), NEW key, DOMAIN key = S, \A o \in S : key[o] \in [1..n -> Int],
           \A o, p \in S : key[o] = key[p] => o = p
    PROVE  IF S = {} THEN Best(key) = Undecided
           ELSE Best(key) \in S /\ \A p \in S \ {Best(key)} : Before(key[Best(key)], key[p])
<1>1. CASE S = {}
  BY <1>1 DEF Best
<1>2. CASE S # {}
  <2> DEFINE R == {q \in S \X S : Before(key[q[1]], key[q[2]])}
  <2>1. Linear(R, S)
    BY BeforeIsLinear
  <2>2. \A a, b \in S : <<a, b>> \in R <=> Before(key[a], key[b])
    OBVIOUS
  <2> HIDE DEF R
  <2>3. PICK m \in S : \A x \in S \ {m} : <<m, x>> \in R
    <3>1. IsFiniteSet(S) /\ S # {}
      BY <1>2
    <3> QED BY ONLY <2>1, <3>1, LeastExists
  <2>4. \A p \in S \ {m} : Before(key[m], key[p])
    BY <2>2, <2>3
  <2> QED BY <1>2, <2>4 DEF Best
<1> QED BY <1>1, <1>2

OptionSet == {"keep", "scale", "index", "rewrite", "move"}

LEMMA OptionsAre == Range(Options) = OptionSet /\ IsFiniteSet(OptionSet)
<1>1. Range(Options) = OptionSet
  BY DEF Range, Options, OptionSet
<1>2. IsFiniteSet({"keep"} \cup {"scale"} \cup {"index"} \cup {"rewrite"} \cup {"move"})
  BY FS_Singleton, FS_Union
<1>3. OptionSet = {"keep"} \cup {"scale"} \cup {"index"} \cup {"rewrite"} \cup {"move"}
  BY DEF OptionSet
<1> QED BY <1>1, <1>2, <1>3

\* No two options have one rank.
LEMMA RankIs ==
    ASSUME NEW o \in OptionSet
    PROVE  /\ Rank(Options, o) \in 1..5 /\ Options[Rank(Options, o)] = o
           /\ Rank(ById, o) \in 1..5 /\ ById[Rank(ById, o)] = o
<1>1. \E i \in DOMAIN Options : Options[i] = o
  <2>1. DOMAIN Options = 1..5 /\ Options[1] = "keep" /\ Options[2] = "scale" /\ Options[3] = "index"
        /\ Options[4] = "rewrite" /\ Options[5] = "move"
    BY DEF Options
  <2> QED BY <2>1 DEF OptionSet
<1>2. \E i \in DOMAIN ById : ById[i] = o
  <2>1. DOMAIN ById = 1..5 /\ ById[1] = "index" /\ ById[2] = "keep" /\ ById[3] = "move"
        /\ ById[4] = "rewrite" /\ ById[5] = "scale"
    BY DEF ById
  <2> QED BY <2>1 DEF OptionSet
<1>3. DOMAIN Options = 1..5 /\ DOMAIN ById = 1..5
  BY DEF Options, ById
<1> QED BY <1>1, <1>2, <1>3 DEF Rank

LEMMA OutcomeIs ==
    ASSUME world \in Worlds, NEW o \in OptionSet, NEW E
    PROVE  LET out == Outcome(o, E) IN
           out.over \in Int /\ out.unknowns \in Int /\ out.months \in Int /\ out.events \in Int
<1>1. world.grade["keep"] \in Nat /\ world.grade[o] \in Nat
  <2>1. "keep" \in OptionSet
    BY DEF OptionSet
  <2> QED BY <2>1, WorldsAssumption, OptionsAre
<1>2. Grade(o, E) \in Nat
  BY <1>1 DEF Grade
<1> QED BY <1>2 DEF Outcome

LEMMA Tuples ==
    ASSUME NEW a \in Int, NEW b \in Int, NEW c \in Int, NEW d \in Int, NEW e \in Int
    PROVE  <<a, b, c>> \in [1..3 -> Int] /\ <<a, b, c, d>> \in [1..4 -> Int] /\ <<a, b, c, d, e>> \in [1..5 -> Int]
OBVIOUS

\* The options in S have keys of n numbers, of which the last is their rank.
Ranked(key, S, order, n) ==
    DOMAIN key = S /\ \A o \in S : key[o] \in [1..n -> Int] /\ key[o][n] = Rank(order, o)

\* A policy whose keys end with the rank of the option finds its best one.
LEMMA Decides ==
    ASSUME NEW order \in {Options, ById}, NEW n \in Nat \ {0}, NEW S \in SUBSET OptionSet, NEW key,
           Ranked(key, S, order, n)
    PROVE  Best(key) \in Range(Options) \cup {Undecided}
<1>1. IsFiniteSet(S) /\ S \subseteq Range(Options)
  BY OptionsAre, FS_Subset
<1>2. \A o, p \in S : key[o] = key[p] => o = p
  <2>1. ASSUME NEW o \in S PROVE order[Rank(order, o)] = o
    BY RankIs
  <2> QED BY <2>1 DEF Ranked
<1>3. Best(key) \in S \cup {Undecided}
  BY <1>1, <1>2, BestIn DEF Ranked
<1> QED BY <1>1, <1>3

\* What a forecast says of the options are numbers.
Forecasted(out) ==
    \A o \in OptionSet :
        out[o].over \in Int /\ out[o].unknowns \in Int /\ out[o].months \in Int /\ out[o].events \in Int

LEMMA OutcomesAre == ASSUME world \in Worlds, NEW E PROVE Forecasted(Outcomes(E))
<1>1. \A o \in OptionSet : Outcomes(E)[o] = Outcome(o, E)
  BY OptionsAre DEF Outcomes
<1> QED BY <1>1, OutcomeIs DEF Forecasted

LEMMA EngineerDecides ==
    ASSUME NEW out, Forecasted(out), NEW tested
    PROVE  EngineerPosition(out, tested) \in Range(Options) \cup {Undecided}
<1> DEFINE S == {x \in Range(Options) : out[x].over = 0}
           key == [o \in S |->
                     <<IF tested /\ out[o].built THEN 0 ELSE 1, out[o].unknowns, out[o].months, out[o].over, Rank(Options, o)>>]
<1>1. S \in SUBSET OptionSet /\ DOMAIN key = S
  BY OptionsAre
<1>2. ASSUME NEW o \in S PROVE key[o] \in [1..5 -> Int] /\ key[o][5] = Rank(Options, o)
  <2>1. /\ out[o].over \in Int /\ out[o].unknowns \in Int /\ out[o].months \in Int
        /\ out[o].events \in Int /\ Rank(Options, o) \in Int
    BY <1>1, RankIs DEF Forecasted
  <2> QED BY <2>1, Tuples
<1>3. EngineerPosition(out, tested) = Best(key)
  BY DEF EngineerPosition
<1> HIDE DEF S, key
<1>4. Ranked(key, S, Options, 5)
  BY <1>1, <1>2 DEF Ranked
<1> QED BY <1>1, <1>3, <1>4, Decides

LEMMA ApplicationDecides ==
    ASSUME NEW out, Forecasted(out)
    PROVE  ApplicationPosition(out) \in Range(Options) \cup {Undecided}
<1> DEFINE S == {x \in Range(Options) : out[x].safe /\ ~out[x].late}
           key == [o \in S |->
                     <<out[o].over, out[o].events, Rank(ById, o)>>]
<1>1. S \in SUBSET OptionSet /\ DOMAIN key = S
  BY OptionsAre
<1>2. ASSUME NEW o \in S PROVE key[o] \in [1..3 -> Int] /\ key[o][3] = Rank(ById, o)
  <2>1. /\ out[o].over \in Int /\ out[o].unknowns \in Int /\ out[o].months \in Int
        /\ out[o].events \in Int /\ Rank(ById, o) \in Int
    BY <1>1, RankIs DEF Forecasted
  <2> QED BY <2>1, Tuples
<1>3. ApplicationPosition(out) = Best(key)
  BY DEF ApplicationPosition
<1> HIDE DEF S, key
<1>4. Ranked(key, S, ById, 3)
  BY <1>1, <1>2 DEF Ranked
<1> QED BY <1>1, <1>3, <1>4, Decides

LEMMA ReliabilityDecides ==
    ASSUME NEW out, Forecasted(out)
    PROVE  ReliabilityPosition(out) \in Range(Options) \cup {Undecided}
<1> DEFINE S == {x \in Range(Options) : out[x].safe}
           key == [o \in S |->
                     <<out[o].over, out[o].unknowns + (IF out[o].built THEN 1 ELSE 0), out[o].over, Rank(Options, o)>>]
<1>1. S \in SUBSET OptionSet /\ DOMAIN key = S
  BY OptionsAre
<1>2. ASSUME NEW o \in S PROVE key[o] \in [1..4 -> Int] /\ key[o][4] = Rank(Options, o)
  <2>1. /\ out[o].over \in Int /\ out[o].unknowns \in Int /\ out[o].months \in Int
        /\ out[o].events \in Int /\ Rank(Options, o) \in Int
    BY <1>1, RankIs DEF Forecasted
  <2> QED BY <2>1, Tuples
<1>3. ReliabilityPosition(out) = Best(key)
  BY DEF ReliabilityPosition
<1> HIDE DEF S, key
<1>4. Ranked(key, S, Options, 4)
  BY <1>1, <1>2 DEF Ranked
<1> QED BY <1>1, <1>3, <1>4, Decides

LEMMA FinopsDecides ==
    ASSUME NEW out, Forecasted(out), NEW strict
    PROVE  FinopsPosition(out, strict) \in Range(Options) \cup {Undecided}
<1> DEFINE S == {x \in Range(Options) : out[x].safe /\ (out[x].over = 0 \/ ~strict)}
           key == [o \in S |->
                     <<out[o].months, out[o].over, Rank(Options, o)>>]
<1>1. S \in SUBSET OptionSet /\ DOMAIN key = S
  BY OptionsAre
<1>2. ASSUME NEW o \in S PROVE key[o] \in [1..3 -> Int] /\ key[o][3] = Rank(Options, o)
  <2>1. /\ out[o].over \in Int /\ out[o].unknowns \in Int /\ out[o].months \in Int
        /\ out[o].events \in Int /\ Rank(Options, o) \in Int
    BY <1>1, RankIs DEF Forecasted
  <2> QED BY <2>1, Tuples
<1>3. FinopsPosition(out, strict) = Best(key)
  BY DEF FinopsPosition
<1> HIDE DEF S, key
<1>4. Ranked(key, S, Options, 3)
  BY <1>1, <1>2 DEF Ranked
<1> QED BY <1>1, <1>3, <1>4, Decides

LEMMA TenantDecides ==
    ASSUME NEW out, Forecasted(out)
    PROVE  TenantPosition(out) \in Range(Options) \cup {Undecided}
<1> DEFINE S == {x \in Range(Options) : out[x].safe}
           key == [o \in S |->
                     <<out[o].over, out[o].unknowns, Rank(Options, o)>>]
<1>1. S \in SUBSET OptionSet /\ DOMAIN key = S
  BY OptionsAre
<1>2. ASSUME NEW o \in S PROVE key[o] \in [1..3 -> Int] /\ key[o][3] = Rank(Options, o)
  <2>1. /\ out[o].over \in Int /\ out[o].unknowns \in Int /\ out[o].months \in Int
        /\ out[o].events \in Int /\ Rank(Options, o) \in Int
    BY <1>1, RankIs DEF Forecasted
  <2> QED BY <2>1, Tuples
<1>3. TenantPosition(out) = Best(key)
  BY DEF TenantPosition
<1> HIDE DEF S, key
<1>4. Ranked(key, S, Options, 3)
  BY <1>1, <1>2 DEF Ranked
<1> QED BY <1>1, <1>3, <1>4, Decides

LEMMA SingleDecides ==
    ASSUME NEW out, Forecasted(out)
    PROVE  SinglePosition(out) \in Range(Options) \cup {Undecided}
<1> DEFINE S == {x \in Range(Options) : out[x].over = 0}
           key == [o \in S |->
                     <<out[o].unknowns, out[o].months, out[o].over, Rank(Options, o)>>]
<1>1. S \in SUBSET OptionSet /\ DOMAIN key = S
  BY OptionsAre
<1>2. ASSUME NEW o \in S PROVE key[o] \in [1..4 -> Int] /\ key[o][4] = Rank(Options, o)
  <2>1. /\ out[o].over \in Int /\ out[o].unknowns \in Int /\ out[o].months \in Int
        /\ out[o].events \in Int /\ Rank(Options, o) \in Int
    BY <1>1, RankIs DEF Forecasted
  <2> QED BY <2>1, Tuples
<1>3. SinglePosition(out) = Best(key)
  BY DEF SinglePosition
<1> HIDE DEF S, key
<1>4. Ranked(key, S, Options, 4)
  BY <1>1, <1>2 DEF Ranked
<1> QED BY <1>1, <1>3, <1>4, Decides

\* A policy decides for an option of the scenario, or not at all.
LEMMA PositionIs ==
    ASSUME NEW out, Forecasted(out), NEW r \in Roles, NEW tested, NEW strict
    PROVE  Position(r, out, tested, strict) \in Range(Options) \cup {Undecided}
BY EngineerDecides, ApplicationDecides, ReliabilityDecides, FinopsDecides, TenantDecides, SingleDecides
   DEF Position, Roles
-----------------------------------------------------------------------------
(* The invariant. *)

\* A sequence, of whatever it holds.
IsSeq(s) == \E T : s \in Seq(T)

Types ==
    /\ world \in Worlds /\ limits \in Limits /\ team \in Teams
    /\ round \in Nat \ {0} /\ who \in Nat \ {0}
    /\ IsSeq(turns) /\ IsSeq(items) /\ IsSeq(records)

\* Turns are in the order of their rounds, and a later one has seen no less.
ClockInv ==
    /\ \A t \in Range(turns) : t.role \in Roles /\ t.round \in 1..round /\ t.seen \in 0..Len(items)
    /\ \A i, j \in DOMAIN turns :
        i <= j => turns[i].round <= turns[j].round /\ turns[i].seen <= turns[j].seen

\* In each round that is over the whole team has spoken.
SpokenInv ==
    /\ \A k \in 1..round - 1 : \A r \in Range(team) : \E t \in Range(turns) : t.role = r /\ t.round = k
    /\ \A n \in DOMAIN team : n < who => \E t \in Range(turns) : t.role = team[n] /\ t.round = round
    /\ status = "executing" => who > Len(team)

\* What its author could see of the results, and the forecast and the latest
\* result of a tool among them.
Saw(t) == {k \in 1..t.seen : Kind(items[k].call) \in Sees[t.role]}
ForecastIn(V) ==
    LET base == {i \in V : items[i].call = "forecast"}
        measured == {i \in base : items[i].effects # {}}
    IN  Max({0} \cup IF measured # {} THEN measured ELSE base)
LatestIn(V, c) == Max({0} \cup {i \in V : Tool(items[i].call) = Tool(c)})

\* Whether reliability challenged its author in a round before it.
StrictFor(t) == \E u \in Range(turns) : u.round < t.round /\ u.role = "reliability" /\ t.role \in u.challenges

\* Every position is what its policy makes of what could be seen then.
Stand(t) ==
    IF ForecastIn(Saw(t)) = 0 THEN Undecided
    ELSE Position(t.role, Outcomes(items[ForecastIn(Saw(t))].effects), LatestIn(Saw(t), "index") # 0, StrictFor(t))
PositionsInv == \A t \in Range(turns) : t.position = Stand(t)

\* What it takes for validate_turn to find nothing.
Supported(t, kinds, results) ==
    /\ kinds \subseteq world.bundle \cap Sees[t.role]
    /\ \A i \in results : i \in 1..t.seen /\ Kind(items[i].call) \in Sees[t.role]
Sound(t) ==
    /\ t.position \in Range(Options) \cup {Undecided}
    /\ Supported(t, t.cites.kinds, t.cites.results)
    /\ \A p \in t.proposals :
        /\ Supported(t, p.support, p.results)
        /\ p.status = "measured_local" => \E i \in p.results : Kind(items[i].call) = "experiment"
    /\ \A k \in DOMAIN t.requests : Tool(t.requests[k]) \in MayUse[t.role]
    /\ t.challenges \subseteq Roles
SoundInv == \A t \in Range(turns) : Sound(t)

\* A changed position has a reason, nothing is asked for in the last round, and no request is refused in it.
Reasoned(t) == t.revised => t.causes.fresh # {} \/ t.causes.challengers # {}
ReasonsInv == \A t \in Range(turns) : Reasoned(t)
RequestsInv == \A t \in Range(turns) : t.round = limits.rounds => t.requests = <<>>
RecordsInv == \A i \in DOMAIN records : records[i].status \in {"ok", "error", "budget"}
-----------------------------------------------------------------------------
(* What a step leaves as it was. *)

\* A sequence with one more element.
IsMore(s, e, m) ==
    /\ Len(s) \in Nat /\ DOMAIN s = 1..Len(s) /\ DOMAIN m = 1..Len(s) + 1 /\ Len(m) = Len(s) + 1
    /\ m[Len(s) + 1] = e /\ \A i \in 1..Len(s) : m[i] = s[i]

LEMMA OneMore ==
    ASSUME NEW s, NEW e, IsSeq(s)
    PROVE  IsSeq(Append(s, e)) /\ IsMore(s, e, Append(s, e))
<1>1. PICK T : s \in Seq(T)
  BY DEF IsSeq
<1> DEFINE U == T \cup {e}
<1>2. s \in Seq(U) /\ e \in U
  BY <1>1
<1> HIDE DEF U
<1>3. Append(s, e) \in Seq(U)
  BY <1>2
<1>4. Len(Append(s, e)) = Len(s) + 1 /\ Append(s, e)[Len(s) + 1] = e /\ \A i \in 1..Len(s) : Append(s, e)[i] = s[i]
  BY <1>2
<1>5. Len(s) \in Nat /\ DOMAIN s = 1..Len(s) /\ DOMAIN Append(s, e) = 1..Len(s) + 1
  BY <1>2, <1>3, <1>4
<1> QED BY <1>3, <1>4, <1>5 DEF IsSeq, IsMore

LEMMA SequencesAre == ASSUME NEW s, IsSeq(s) PROVE Len(s) \in Nat /\ DOMAIN s = 1..Len(s) /\ s \in Seq(Range(s))
<1>1. PICK T : s \in Seq(T)
  BY DEF IsSeq
<1>2. Len(s) \in Nat /\ DOMAIN s = 1..Len(s)
  BY <1>1
<1>3. \A i \in 1..Len(s) : s[i] \in Range(s)
  BY <1>2 DEF Range
<1>4. s = [i \in 1..Len(s) |-> s[i]]
  BY <1>1
<1> QED BY <1>2, <1>3, <1>4

\* Nothing is kept of the requests of the last round, for none are made.
LEMMA NothingKept ==
    ASSUME Types, RequestsInv, round = limits.rounds
    PROVE  Kept = <<>>
<1> DEFINE said == ThisRound
           asked == [i \in DOMAIN said |->
                        [k \in 1..Min({limits.perTurn, Len(said[i].requests)}) |->
                            [call |-> said[i].requests[k], role |-> said[i].role]]]
           V == Range(turns) \cap {t \in Range(turns) : t.round = round}
<1>1. said \in Seq(V)
  BY SequencesAre, OnlyKeeps DEF ThisRound, Types
<1>2. \A t \in V : t.requests = <<>>
  BY DEF RequestsInv, Range
<1>3. limits.perTurn \in Nat
  BY LimitsAssumption DEF Types
<1>4. \A i \in DOMAIN said : asked[i] = <<>>
  <2>1. ASSUME NEW i \in DOMAIN said PROVE said[i].requests = <<>>
    <3> HIDE DEF said, V
    <3> QED BY <1>1, <1>2
  <2>2. Min({limits.perTurn, 0}) = 0
    <3>1. 0 \in Int /\ limits.perTurn \in Int /\ (limits.perTurn <= 0 => limits.perTurn = 0)
      BY <1>3
    <3> QED BY <3>1, MinOfTwo
  <2>3. ASSUME NEW i \in DOMAIN said PROVE Min({limits.perTurn, Len(said[i].requests)}) = 0
    BY <2>1, <2>2
  <2> HIDE DEF said
  <2>4. ASSUME NEW i \in DOMAIN said PROVE asked[i] = <<>>
    BY <2>3
  <2> QED BY <2>4
<1>5. Len(asked) = Len(said) /\ Len(said) \in Nat /\ DOMAIN said = 1..Len(said)
  <2> HIDE DEF said, V
  <2> QED BY <1>1
<1>6. Kept = FlattenSeq(asked)
  BY DEF Kept
<1>7. CASE Len(said) = 0
  <2>1. asked = <<>>
    <3> HIDE DEF said
    <3> QED BY <1>5, <1>7
  <2> HIDE DEF asked, said
  <2> QED BY <1>6, <1>5, <1>7, <2>1, FlattenIsChosen
<1>8. CASE Len(said) # 0
  <2> HIDE DEF asked, said
  <2> QED BY <1>4, <1>5, <1>6, <1>8, FlattenNothing
<1> QED BY <1>7, <1>8
-----------------------------------------------------------------------------
(* What a step leaves as it was. *)

LEMMA TypesInit == Init => Types
<1> SUFFICES ASSUME Init PROVE Types
  OBVIOUS
<1>1. IsSeq(<<>>)
  <2>1. <<>> \in Seq({})
    OBVIOUS
  <2> QED BY <2>1 DEF IsSeq
<1> QED BY <1>1 DEF Init, Types

\* The end of a round leaves the records as they are.
LEMMA NoMoreRecords == ASSUME Types, RequestsInv, EndRound PROVE records' = records
<1>1. CASE UNCHANGED records
  BY <1>1
<1>2. CASE Kept = <<>> /\ records' = records \o [i \in DOMAIN Kept |-> Skip([call |-> Kept[i].call, by |-> {Kept[i].role}], "final_round")]
  <2>1. [i \in DOMAIN Kept |-> Skip([call |-> Kept[i].call, by |-> {Kept[i].role}], "final_round")] = <<>>
    <3>1. DOMAIN Kept = {}
      BY <1>2
    <3> QED BY <3>1
  <2>2. records \o <<>> = records
    <3>1. PICK T : records \in Seq(T)
      BY DEF Types, IsSeq
    <3> QED BY <3>1
  <2> QED BY <1>2, <2>1, <2>2
<1> QED BY <1>1, <1>2, NothingKept DEF EndRound

\* The inputs stay, and the results and the records only grow.
Grown ==
    /\ world' = world /\ limits' = limits /\ team' = team
    /\ IsSeq(items') /\ Len(items) <= Len(items') /\ \A k \in 1..Len(items) : items'[k] = items[k]
    /\ IsSeq(records')

LEMMA StepGrows == ASSUME Types, RequestsInv, [Next]_vars PROVE Grown
<1>1. Len(items) \in Nat /\ Len(items) <= Len(items)
  BY SequencesAre DEF Types
<1>2. CASE UNCHANGED <<items, records>> /\ UNCHANGED inputs
  BY <1>1, <1>2 DEF Grown, Types, inputs
<1>3. CASE UNCHANGED vars
  BY <1>2, <1>3 DEF vars
<1>4. CASE Speak
  BY <1>2, <1>4 DEF Speak
<1>5. CASE EndRound
  BY <1>2, <1>5, NoMoreRecords DEF EndRound
<1>6. CASE RunTool
  <2>1. CASE items' = items /\ \E e : records' = Append(records, e)
    BY <1>1, <1>6, <2>1, OneMore DEF RunTool, Grown, Types, inputs
  <2>2. CASE \E e : items' = Append(items, e) /\ \E d : records' = Append(records, d)
    <3>1. PICK e : items' = Append(items, e) /\ \E d : records' = Append(records, d)
      BY <2>2
    <3>2. IsSeq(items') /\ IsMore(items, e, items') /\ IsSeq(records')
      BY <3>1, OneMore DEF Types
    <3>3. Len(items) <= Len(items') /\ \A k \in 1..Len(items) : items'[k] = items[k]
      BY <1>1, <3>2 DEF IsMore
    <3> QED BY <1>6, <3>2, <3>3 DEF RunTool, Grown, inputs
  <2> QED BY <1>6, <2>1, <2>2 DEF RunTool
<1>7. CASE NextRound
  BY <1>2, <1>7 DEF NextRound
<1> QED BY <1>3, <1>4, <1>5, <1>6, <1>7 DEF Next

LEMMA TypesStep == ASSUME Types, RequestsInv, [Next]_vars PROVE Types'
<1>1. Grown
  BY StepGrows
<1>2. IsSeq(turns')
  <2>1. CASE Speak
    BY <2>1, OneMore DEF Types, Speak
  <2>2. CASE turns' = turns
    BY <2>2 DEF Types
  <2> QED BY <2>1, <2>2 DEF Next, EndRound, RunTool, NextRound, vars
<1>3. round' \in Nat \ {0} /\ who' \in Nat \ {0}
  <2>1. round + 1 \in Nat \ {0} /\ who + 1 \in Nat \ {0}
    BY DEF Types
  <2> QED BY <2>1 DEF Types, Next, Speak, EndRound, RunTool, NextRound, vars
<1> QED BY <1>1, <1>2, <1>3 DEF Types, Grown
-----------------------------------------------------------------------------
(* A position stays what its policy made of what could be seen then. *)

\* What a turn rests on: the results seen, the forecast read among them and the
\* effects in it, whether the index was seen measured, and a challenge by reliability.
RestsOn(t, V, f, e, tested, strict) ==
    /\ V = Saw(t) /\ f = ForecastIn(V) /\ (f # 0 => e = items[f].effects)
    /\ tested = (LatestIn(V, "index") # 0) /\ strict = StrictFor(t)

Stands ==
    \A t, V, f, e, tested, strict : RestsOn(t, V, f, e, tested, strict) =>
        Stand(t) = IF f = 0 THEN Undecided ELSE Position(t.role, Outcomes(e), tested, strict)

LEMMA StandIs == Stands
BY DEF Stands, RestsOn, Stand

LEMMA RestsOnSomething == \A t : \E V, f, e, tested, strict : RestsOn(t, V, f, e, tested, strict)
BY DEF RestsOn

LEMMA OutcomesStay == ASSUME world' = world, NEW E PROVE Outcomes(E)' = Outcomes(E)
<1> DEFINE x == Outcomes(E)
           y == Outcomes(E)'
<1>1. ASSUME NEW o \in Range(Options) PROVE Outcome(o, E)' = Outcome(o, E)
  BY DEF Outcome, Grade
<1>2. x = [o \in Range(Options) |-> x[o]] /\ y = [o \in Range(Options) |-> y[o]]
  BY DEF Outcomes
<1>3. \A o \in Range(Options) : x[o] = y[o]
  BY <1>1 DEF Outcomes
<1> HIDE DEF x, y
<1>4. x = y
  BY <1>2, <1>3
<1> QED BY <1>4 DEF x, y

LEMMA RestsStay ==
    ASSUME Types, Grown, NEW t, t.seen \in 0..Len(items), StrictFor(t)' = StrictFor(t),
           NEW V, NEW f, NEW e, NEW tested, NEW strict, RestsOn(t, V, f, e, tested, strict)
    PROVE  RestsOn(t, V, f, e, tested, strict)'
<1>1. Len(items) \in Nat /\ \A k \in 1..t.seen : k \in 1..Len(items)
  BY SequencesAre DEF Types
<1>2. \A k \in 1..t.seen : items'[k] = items[k]
  BY <1>1 DEF Grown
<1>3. V = Saw(t)'
  <2>1. V = {k \in 1..t.seen : Kind(items[k].call) \in Sees[t.role]}
    BY DEF RestsOn, Saw
  <2>2. \A k : k \in V <=> k \in 1..t.seen /\ Kind(items'[k].call) \in Sees[t.role]
    BY <1>2, <2>1
  <2>3. V = {k \in 1..t.seen : Kind(items'[k].call) \in Sees[t.role]}
    BY <2>2
  <2> QED BY <2>3 DEF Saw
<1>4. V \subseteq 1..Len(items) /\ \A k \in V : items'[k] = items[k]
  BY <1>1, <1>2 DEF RestsOn, Saw
<1>5. ForecastIn(V)' = ForecastIn(V)
  <2> DEFINE base == {i \in V : items[i].call = "forecast"}
             measured == {i \in base : items[i].effects # {}}
             later == {i \in V : items'[i].call = "forecast"}
             gauged == {i \in later : items'[i].effects # {}}
  <2>1. base = later
    BY <1>4
  <2>2. measured = gauged
    BY <1>4
  <2>3. ForecastIn(V) = Max({0} \cup IF measured # {} THEN measured ELSE base)
    BY DEF ForecastIn
  <2>4. ForecastIn(V)' = Max({0} \cup IF gauged # {} THEN gauged ELSE later)
    BY DEF ForecastIn
  <2> HIDE DEF base, measured, later, gauged
  <2> QED BY <2>1, <2>2, <2>3, <2>4
<1>6. LatestIn(V, "index")' = LatestIn(V, "index")
  <2> DEFINE old == {i \in V : Tool(items[i].call) = Tool("index")}
             new == {i \in V : Tool(items'[i].call) = Tool("index")}
  <2>1. old = new
    BY <1>4
  <2>2. LatestIn(V, "index") = Max({0} \cup old) /\ LatestIn(V, "index")' = Max({0} \cup new)
    BY DEF LatestIn
  <2> HIDE DEF old, new
  <2> QED BY <2>1, <2>2
<1>7. f # 0 => f \in V
  <2> DEFINE W == {0} \cup IF {i \in {j \in V : items[j].call = "forecast"} : items[i].effects # {}} # {}
                           THEN {i \in {j \in V : items[j].call = "forecast"} : items[i].effects # {}}
                           ELSE {j \in V : items[j].call = "forecast"}
  <2>1. W \subseteq {0} \cup V /\ W # {} /\ \A k \in W : k <= Len(items)
    BY <1>1, <1>4
  <2>2. f = Max(W)
    BY DEF RestsOn, ForecastIn
  <2> HIDE DEF W
  <2>3. Max(W) \in W
    <3>1. W \in SUBSET Nat
      BY <1>1, <1>4, <2>1
    <3> QED BY <1>1, <2>1, <3>1, MaxIn
  <2> QED BY <2>1, <2>2, <2>3
<1> QED BY <1>3, <1>4, <1>5, <1>6, <1>7 DEF RestsOn

LEMMA StandStays ==
    ASSUME Types, Grown, NEW t, t.seen \in 0..Len(items), StrictFor(t)' = StrictFor(t)
    PROVE  Stand(t)' = Stand(t)
<1>1. PICK V, f, e, tested, strict : RestsOn(t, V, f, e, tested, strict)
  BY RestsOnSomething
<1>2. RestsOn(t, V, f, e, tested, strict)'
  BY <1>1, RestsStay
<1>3. Stand(t)' = IF f = 0 THEN Undecided ELSE Position(t.role, Outcomes(e)', tested, strict)
  <2>1. Stands'
    BY StandIs, PTL
  <2> QED BY <1>2, <2>1 DEF Stands
<1>4. Stand(t) = IF f = 0 THEN Undecided ELSE Position(t.role, Outcomes(e), tested, strict)
  BY <1>1, StandIs DEF Stands
<1>5. Outcomes(e)' = Outcomes(e)
  BY OutcomesStay DEF Grown
<1> QED BY <1>3, <1>4, <1>5

LEMMA SoundStays ==
    ASSUME Types, Grown, NEW t, t.seen \in 0..Len(items), Sound(t)
    PROVE  Sound(t)'
<1>1. \A k \in 1..t.seen : items'[k] = items[k]
  BY SequencesAre DEF Types, Grown
<1>2. ASSUME NEW kinds, NEW results, Supported(t, kinds, results)
      PROVE  Supported(t, kinds, results)'
  BY <1>1, <1>2 DEF Supported, Grown
<1>3. ASSUME NEW p \in t.proposals, p.status = "measured_local"
      PROVE  \E i \in p.results : Kind(items'[i].call) = "experiment"
  <2>1. PICK i \in p.results : Kind(items[i].call) = "experiment"
    BY <1>3 DEF Sound
  <2>2. i \in 1..t.seen
    BY DEF Sound, Supported
  <2> QED BY <1>1, <2>1, <2>2
<1> QED BY <1>2, <1>3 DEF Sound

LEMMA RolesSee == DOMAIN Sees = Roles
BY DEF Sees, Roles

\* validate_turn finds nothing wrong with a sound turn.
LEMMA SoundFindsNothing ==
    ASSUME NEW t, t.seen \in Nat, Sound(t)
    PROVE  Findings(t) = {}
<1>1. ASSUME NEW c \in {t.cites} \cup {[kinds |-> p.support, results |-> p.results] : p \in t.proposals}
      PROVE  c.kinds \subseteq world.bundle \cap Sees[t.role]
             /\ \A i \in c.results : ~(i > t.seen) /\ Kind(items[i].call) \in Sees[t.role]
  BY DEF Sound, Supported
<1>2. ASSUME NEW p \in t.proposals, p.status = "measured_local"
      PROVE  \E i \in p.results : Kind(items[i].call) = "experiment"
  BY <1>2 DEF Sound
<1>3. \A k \in DOMAIN t.requests : Tool(t.requests[k]) \in MayUse[t.role]
  BY DEF Sound
<1>4. t.position \in Range(Options) \cup {Undecided} /\ t.challenges \subseteq DOMAIN Sees
  BY RolesSee DEF Sound
<1> QED BY <1>1, <1>2, <1>3, <1>4 DEF Findings
-----------------------------------------------------------------------------
(* A new turn. *)

LEMMA VisibleIs == ASSUME Types, NEW r PROVE Visible(r) \in SUBSET (1..Len(items)) /\ Len(items) \in Nat
BY SequencesAre DEF Types, Visible

\* The latest result of a tool is one of those the role sees, or none.
LEMMA LatestIsSeen ==
    ASSUME Types, NEW r, NEW c, Latest(r, c) # 0
    PROVE  Latest(r, c) \in Visible(r) /\ Tool(items[Latest(r, c)].call) = Tool(c)
<1> DEFINE W == {i \in Visible(r) : Tool(items[i].call) = Tool(c)}
<1>1. W \subseteq 1..Len(items) /\ Len(items) \in Nat
  BY VisibleIs
<1>2. Latest(r, c) = Max({0} \cup W)
  BY DEF Latest
<1>3. Max({0} \cup W) \in {0} \cup W
  <2> HIDE DEF W
  <2>1. {0} \cup W \in SUBSET Nat /\ {0} \cup W # {} /\ \A k \in {0} \cup W : k <= Len(items)
    BY <1>1
  <2> QED BY <1>1, <2>1, MaxIn
<1>4. Latest(r, c) \in W
  <2> HIDE DEF W
  <2> QED BY <1>2, <1>3
<1> QED BY <1>4

LEMMA CitedIsSeen ==
    ASSUME Types, NEW r, NEW S, NEW i \in Cited(r, S)
    PROVE  i \in 1..Len(items) /\ Kind(items[i].call) \in Sees[r] /\ \E c \in S : Tool(items[i].call) = Tool(c)
<1>1. PICK c \in S : i = Latest(r, c) /\ i # 0
  BY DEF Cited
<1>2. i \in Visible(r) /\ Tool(items[i].call) = Tool(c)
  BY <1>1, LatestIsSeen
<1> QED BY <1>2, VisibleIs DEF Visible

LEMMA CitesAreSupported ==
    ASSUME Types, NEW r \in Roles, NEW t, t.role = r, t.seen = Len(items)
    PROVE  Supported(t, Cites(r).kinds, Cites(r).results)
<1>1. \E basis : Cites(r) = [kinds |-> {k \in basis : Has(r, k)}, results |-> Cited(r, basis)]
  BY DEF Cites
<1>2. PICK basis : Cites(r).kinds = {k \in basis : Has(r, k)} /\ Cites(r).results = Cited(r, basis)
  BY <1>1
<1>3. \A i \in Cited(r, basis) : i \in 1..t.seen /\ Kind(items[i].call) \in Sees[r]
  BY CitedIsSeen
<1>4. {k \in basis : Has(r, k)} \subseteq world.bundle \cap Sees[r]
  BY DEF Has
<1> QED BY <1>2, <1>3, <1>4 DEF Supported

LEMMA ProposalsAreSupported ==
    ASSUME Types, NEW r \in Roles, NEW t, t.role = r, t.seen = Len(items), NEW p \in Proposals(r)
    PROVE  /\ Supported(t, p.support, p.results)
           /\ p.status = "measured_local" => \E i \in p.results : Kind(items[i].call) = "experiment"
<1>1. /\ p.status = IF Latest(r, "index") # 0 THEN "measured_local" ELSE "not_tested"
      /\ p.support = {k \in {"digest", "plan"} : Has(r, k)} /\ p.results = Cited(r, {"index"})
  BY DEF Proposals
<1>2. \A i \in Cited(r, {"index"}) : i \in 1..t.seen /\ Kind(items[i].call) \in Sees[r]
  BY CitedIsSeen
<1>3. p.support \subseteq world.bundle \cap Sees[r]
  BY <1>1 DEF Has
<1>4. ASSUME p.status = "measured_local"
      PROVE  \E i \in p.results : Kind(items[i].call) = "experiment"
  <2>1. Latest(r, "index") # 0
    BY <1>1, <1>4
  <2>2. Latest(r, "index") \in p.results
    BY <1>1, <2>1 DEF Cited
  <2>3. Tool(items[Latest(r, "index")].call) = Tool("index")
    BY <2>1, LatestIsSeen
  <2>4. Tool("index") = "index"
    BY DEF Tool
  <2>5. \A c : Tool(c) = "index" => Kind(c) = "experiment"
    BY DEF Kind
  <2> QED BY <2>2, <2>3, <2>4, <2>5
<1> QED BY <1>1, <1>2, <1>3, <1>4 DEF Supported

LEMMA ShortSequences == ASSUME NEW V PROVE <<>> \in Seq(V) /\ \A x, y \in V : <<x>> \in Seq(V) /\ <<x, y>> \in Seq(V)
OBVIOUS

Names == {"bottleneck", "forecast", "cost", "estimate", "explain", "index", "growth", "rewrite", "nights",
          "sensitivity", "top", "night", "skew"}

\* The requests a policy would make are a sequence.
LEMMA WantsAre == ASSUME NEW r \in Roles PROVE Wants(r) \in Seq(Names)
<1> DEFINE Q == Seq(Names)
<1>1. ASSUME NEW a \in Q, NEW b \in Q PROVE a \o b \in Q
  OBVIOUS
<1>2. ASSUME NEW b, NEW s \in Q PROVE When(b, s) \in Q
  <2>1. <<>> \in Q
    BY ShortSequences
  <2> QED BY <2>1 DEF When
<1>3. \A x, y \in Names : <<x>> \in Q /\ <<x, y>> \in Q
  BY ShortSequences
<1> HIDE DEF Q
<1>4. <<"bottleneck">> \in Q /\ <<"forecast">> \in Q /\ <<"cost">> \in Q /\ <<"estimate">> \in Q /\ <<"explain">> \in Q
      /\ <<"index">> \in Q /\ <<"growth">> \in Q /\ <<"rewrite">> \in Q /\ <<"nights">> \in Q /\ <<"sensitivity">> \in Q
      /\ <<"top">> \in Q /\ <<"night">> \in Q
  BY <1>3 DEF Names
<1>5. <<"forecast", "bottleneck">> \in Q /\ <<"cost", "forecast">> \in Q /\ <<"forecast", "skew">> \in Q
  BY <1>3 DEF Names
<1>6. EngineerWants(r) \in Q
  BY <1>1, <1>2, <1>4 DEF EngineerWants
<1>7. ApplicationWants(r) \in Q
  BY <1>1, <1>2, <1>4 DEF ApplicationWants
<1>8. ReliabilityWants \in Q /\ FinopsWants(r) \in Q
  BY <1>1, <1>2, <1>4, <1>5 DEF ReliabilityWants, FinopsWants
<1>9. SingleWants(r) \in Q
  BY <1>1, <1>2, <1>4, <1>6 DEF SingleWants
<1>10. Wants(r) \in Q
  BY <1>5, <1>6, <1>7, <1>8, <1>9 DEF Wants, Roles
<1> QED BY <1>10 DEF Q

\* It makes those its role may make, and none in the last round.
LEMMA RequestsAre ==
    ASSUME Types, NEW r \in Roles
    PROVE  /\ \A k \in DOMAIN Requests(r) : Tool(Requests(r)[k]) \in MayUse[r]
           /\ round = limits.rounds => Requests(r) = <<>>
<1> DEFINE V == Names \cap {c \in Range(Wants(r)) \ Asked(r) : Tool(c) \in MayUse[r]}
           only == Only(Wants(r), {c \in Range(Wants(r)) \ Asked(r) : Tool(c) \in MayUse[r]})
<1>1. only \in Seq(V)
  BY WantsAre, OnlyKeeps
<1>2. \A c \in V : Tool(c) \in MayUse[r]
  OBVIOUS
<1>3. Room \in Int
  <2>1. Len(items) \in Nat /\ limits.perTurn \in Nat /\ limits.calls \in Nat
    BY SequencesAre, LimitsAssumption DEF Types
  <2>2. 0 \in Int /\ limits.calls - Len(items) \in Int /\ limits.perTurn \in Int
    BY <2>1
  <2>3. Max({0, limits.calls - Len(items)}) \in Int
    <3> DEFINE n == limits.calls - Len(items)
               most == IF n > 0 THEN n ELSE 0
    <3>1. most \in {0, n} /\ \A y \in {0, n} : most >= y
      BY <2>2
    <3>2. \A x \in {0, n} : (\A y \in {0, n} : x >= y) => x = most
      BY <2>2
    <3>3. most \in Int
      BY <2>2
    <3> HIDE DEF most, n
    <3>4. Max({0, n}) = most
      BY <3>1, <3>2 DEF Max
    <3> QED BY <3>3, <3>4 DEF n
  <2> QED BY <2>2, <2>3, MinOfTwo DEF Room
<1>4. ASSUME NEW k \in DOMAIN Take(only, Room) PROVE Take(only, Room)[k] \in V
  <2> HIDE DEF only, V
  <2>1. Len(only) \in Nat
    BY <1>1
  <2>2. Min({Room, Len(only)}) \in Int /\ Min({Room, Len(only)}) <= Len(only)
    BY <1>3, <2>1, MinOfTwo
  <2> DEFINE m == Min({Room, Len(only)})
  <2>3. m \in Int /\ m <= Len(only) /\ Take(only, Room) = SubSeq(only, 1, m)
    BY <2>2 DEF Take
  <2> HIDE DEF m
  <2> QED BY <1>1, <1>4, <2>1, <2>3
<1>5. Requests(r) = IF round < limits.rounds THEN Take(only, Room) ELSE <<>>
  BY DEF Requests, When
<1> HIDE DEF only, V
<1>6. round \in Nat
  BY DEF Types
<1> QED BY <1>2, <1>4, <1>5, <1>6

LEMMA ChallengesAre ==
    ASSUME Types, NEW r \in Roles, NEW E, NEW position
    PROVE  Challenges(r, E, position) \subseteq Roles /\ EngineerChallenges(r, E, position) \subseteq Roles
<1>1. Range(team) \subseteq Roles
  BY TeamsAssumption DEF Types, Range
<1>2. EngineerChallenges(r, E, position) \subseteq Roles
  BY DEF EngineerChallenges, Roles
<1>3. ApplicationChallenges(r, E, position) \subseteq Roles /\ TenantChallenges(r, E, position) \subseteq Roles
  BY DEF ApplicationChallenges, TenantChallenges, Roles
<1>4. ReliabilityChallenges(E, position) \subseteq Roles /\ FinopsChallenges(E, position) \subseteq Roles
  BY <1>1 DEF ReliabilityChallenges, FinopsChallenges
<1> QED BY <1>2, <1>3, <1>4 DEF Challenges, Roles

\* The parts of a turn.
IsTurn(t, r) ==
    /\ t.role = r /\ t.round = round /\ t.seen = Len(items) /\ t.read = Forecast(r) /\ t.requests = Requests(r)
    /\ t.cites = Cites(r) /\ t.proposals = Proposals(r)
    /\ t.position = IF Forecast(r) = 0 THEN Undecided
                    ELSE Position(r, Outcomes(items[Forecast(r)].effects), Latest(r, "index") # 0, Strict(r))
    /\ \/ t.challenges \subseteq EngineerChallenges(r, {}, Undecided)
       \/ \E E : t.challenges = Challenges(r, E, t.position)
    /\ t.revised = (PositionOf(r) \notin {"none", t.position})
    /\ t.causes.fresh = Fresh(r) /\ t.causes.challengers = Challengers(r)

LEMMA TurnIs == ASSUME NEW r PROVE IsTurn(Turn(r), r)
<1> DEFINE E == IF Forecast(r) = 0 THEN {} ELSE items[Forecast(r)].effects
           position == IF Forecast(r) = 0 THEN Undecided ELSE Position(r, Outcomes(E), Latest(r, "index") # 0, Strict(r))
           t == Turn(r)
<1>1. /\ t.role = r /\ t.round = round /\ t.seen = Len(items) /\ t.read = Forecast(r) /\ t.requests = Requests(r)
      /\ t.cites = Cites(r) /\ t.proposals = Proposals(r) /\ t.position = position
      /\ t.challenges = IF Forecast(r) = 0 THEN IF r = "engineer" THEN EngineerChallenges(r, {}, Undecided) ELSE {}
                        ELSE Challenges(r, E, position)
      /\ t.revised = (PositionOf(r) \notin {"none", position})
      /\ t.causes.fresh = Fresh(r) /\ t.causes.challengers = Challengers(r)
  BY DEF Turn
<1>2. Forecast(r) # 0 => position = Position(r, Outcomes(items[Forecast(r)].effects), Latest(r, "index") # 0, Strict(r))
  OBVIOUS
<1>3. Forecast(r) = 0 => position = Undecided
  OBVIOUS
<1> HIDE DEF t, position, E
<1> QED BY <1>1, <1>2, <1>3 DEF IsTurn, t

\* It is sound, and asks for nothing in the last round.
LEMMA NewIsSound ==
    ASSUME Types, NEW r \in Roles, NEW t, IsTurn(t, r)
    PROVE  Sound(t) /\ (t.round = limits.rounds => t.requests = <<>>)
<1>1. t.position \in Range(Options) \cup {Undecided}
  <2>1. CASE Forecast(r) = 0
    BY <2>1 DEF IsTurn
  <2>2. CASE Forecast(r) # 0
    <3> DEFINE out == Outcomes(items[Forecast(r)].effects)
    <3>1. Forecasted(out)
      BY OutcomesAre DEF Types
    <3>2. t.position = Position(r, out, Latest(r, "index") # 0, Strict(r))
      BY <2>2 DEF IsTurn
    <3> HIDE DEF out
    <3>3. Position(r, out, Latest(r, "index") # 0, Strict(r)) \in Range(Options) \cup {Undecided}
      BY <3>1, PositionIs
    <3> QED BY <3>2, <3>3
  <2> QED BY <2>1, <2>2
<1>2. t.role = r /\ t.round = round /\ t.seen = Len(items) /\ t.requests = Requests(r) /\ t.cites = Cites(r) /\ t.proposals = Proposals(r)
  BY DEF IsTurn
<1>3. Supported(t, t.cites.kinds, t.cites.results)
  BY <1>2, CitesAreSupported
<1>4. \A p \in t.proposals :
        /\ Supported(t, p.support, p.results)
        /\ p.status = "measured_local" => \E i \in p.results : Kind(items[i].call) = "experiment"
  BY <1>2, ProposalsAreSupported
<1>5. (\A k \in DOMAIN t.requests : Tool(t.requests[k]) \in MayUse[t.role]) /\ (t.round = limits.rounds => t.requests = <<>>)
  BY <1>2, RequestsAre
<1>6. t.challenges \subseteq Roles
  BY ChallengesAre DEF IsTurn
<1> QED BY <1>1, <1>3, <1>4, <1>5, <1>6 DEF Sound

\* What a new turn rests on is what its author sees.
LEMMA NewSaw ==
    ASSUME Types, NEW r, NEW t, IsTurn(t, r)
    PROVE  Saw(t) = Visible(r) /\ StrictFor(t) = Strict(r)
<1>1. DOMAIN items = 1..t.seen /\ t.role = r /\ t.round = round
  BY SequencesAre DEF Types, IsTurn
<1>2. Saw(t) = Visible(r)
  BY <1>1 DEF Saw, Visible
<1>3. StrictFor(t) <=> Strict(r)
  BY <1>1 DEF StrictFor, Strict, ChallengedBy, Own, Prior, Range
<1> QED BY <1>2, <1>3 DEF StrictFor, Strict, ChallengedBy

LEMMA NewStands ==
    ASSUME Types, NEW r, NEW t, IsTurn(t, r)
    PROVE  t.position = Stand(t)
<1>1. Forecast(r) = ForecastIn(Visible(r))
  BY DEF Forecast, ForecastIn
<1>2. Latest(r, "index") = LatestIn(Visible(r), "index")
  BY DEF Latest, LatestIn
<1>3. t.position = IF Forecast(r) = 0 THEN Undecided
                   ELSE Position(r, Outcomes(items[Forecast(r)].effects), Latest(r, "index") # 0, Strict(r))
  BY DEF IsTurn
<1>4. t.role = r
  BY DEF IsTurn
<1>5. Stand(t) = IF ForecastIn(Saw(t)) = 0 THEN Undecided
                 ELSE Position(t.role, Outcomes(items[ForecastIn(Saw(t))].effects), LatestIn(Saw(t), "index") # 0, StrictFor(t))
  BY DEF Stand
<1>6. Saw(t) = Visible(r) /\ StrictFor(t) = Strict(r)
  BY NewSaw
<1> QED BY <1>1, <1>2, <1>3, <1>4, <1>5, <1>6

\* The last turn of a role before this round.
LEMMA LastOwn ==
    ASSUME Types, NEW r, Own(r) # {}
    PROVE  Max(Own(r)) \in Own(r) /\ \A j \in Own(r) : j <= Max(Own(r))
<1>1. DOMAIN turns = 1..Len(turns) /\ Len(turns) \in Nat
  BY SequencesAre DEF Types
<1>2. Own(r) \in SUBSET Nat /\ \A j \in Own(r) : j <= Len(turns)
  BY <1>1 DEF Own, Prior
<1> QED BY <1>1, <1>2, MaxIn

\* A changed position has a reason: with nothing new to see and no challenge in
\* the last round, the policy reads what it read then and decides as it did.
LEMMA NewIsReasoned ==
    ASSUME Types, ClockInv, SpokenInv, PositionsInv, NEW r \in Range(team), NEW t, IsTurn(t, r)
    PROVE  Reasoned(t)
<1> SUFFICES ASSUME t.revised, Fresh(r) = {}, Challengers(r) = {} PROVE FALSE
  BY DEF Reasoned, IsTurn
<1>1. Own(r) # {} /\ turns[Max(Own(r))].position # t.position
  BY DEF IsTurn, PositionOf
<1> DEFINE last == Max(Own(r))
<1>2. last \in Own(r) /\ \A j \in Own(r) : j <= last
  BY <1>1, LastOwn
<1>3. PICK u \in Range(turns) : u = turns[last]
  BY <1>2 DEF Own, Prior, Range
<1>4. u.role = r /\ u.round < round /\ u.round \in 1..round /\ u.seen \in 0..Len(items) /\ round \in Nat /\ Len(items) \in Nat
  BY <1>2, <1>3, SequencesAre DEF Own, Prior, ClockInv, Types
<1> HIDE DEF last
<1>5. \A j \in Own(r) : turns[j].round <= u.round /\ turns[j].seen <= u.seen
  BY <1>2, <1>3 DEF ClockInv, Own, Prior
<1>6. u.round = round - 1
  <2>1. round - 1 \in 1..round - 1
    BY <1>4
  <2>2. PICK v \in Range(turns) : v.role = r /\ v.round = round - 1
    BY <2>1 DEF SpokenInv
  <2>3. PICK j \in DOMAIN turns : v = turns[j]
    BY <2>2 DEF Range
  <2>4. j \in Own(r)
    BY <1>4, <2>2, <2>3 DEF Own, Prior
  <2> QED BY <1>4, <1>5, <2>2, <2>3, <2>4
<1>7. Saw(u) = Saw(t)
  <2>1. Saw(t) = Visible(r)
    BY NewSaw
  <2>2. DOMAIN items = 1..Len(items)
    BY SequencesAre DEF Types
  <2>3. \A i \in Visible(r) : i \in 1..Len(items) /\ \E j \in Own(r) : ~(i > turns[j].seen)
    BY <2>2 DEF Fresh, Visible
  <2>4. \A j \in Own(r) : turns[j].seen \in 0..Len(items)
    BY DEF ClockInv, Own, Prior, Range
  <2>5. \A i \in Visible(r) : i \in 1..u.seen
    BY <1>4, <1>5, <2>3, <2>4
  <2>6. \A i : i \in Saw(u) <=> i \in Visible(r)
    BY <1>4, <2>2, <2>5 DEF Saw, Visible
  <2> QED BY <2>1, <2>6
<1>8. StrictFor(u) <=> StrictFor(t)
  <2>1. t.role = r /\ t.round = round
    BY DEF IsTurn
  <2>2. ASSUME NEW v \in Range(turns), v.role = "reliability", r \in v.challenges
        PROVE  v.round # round - 1
    <3>1. PICK j \in DOMAIN turns : v = turns[j]
      BY DEF Range
    <3> QED BY <2>2, <3>1 DEF Challengers
  <2>3. \A v \in Range(turns) : v.round \in 1..round
    BY DEF ClockInv
  <2>4. \A v \in Range(turns) : v.role = "reliability" /\ r \in v.challenges => (v.round < round <=> v.round < u.round)
    BY <1>4, <1>6, <2>2, <2>3
  <2> QED BY <1>4, <2>1, <2>4 DEF StrictFor
<1>9. StrictFor(u) = StrictFor(t)
  BY <1>8 DEF StrictFor
<1>10. Stand(u) = Stand(t)
  <2>1. t.role = r
    BY DEF IsTurn
  <2> QED BY <1>4, <1>7, <1>9, <2>1 DEF Stand
<1>11. u.position = Stand(u) /\ t.position = Stand(t)
  BY NewStands DEF PositionsInv
<1> QED BY <1>1, <1>3, <1>10, <1>11 DEF last
-----------------------------------------------------------------------------
(* Every step keeps the invariant. *)

Inv == Types /\ ClockInv /\ SpokenInv /\ PositionsInv /\ SoundInv /\ ReasonsInv /\ RequestsInv /\ RecordsInv

\* In any other step than a speech nothing is said.
LEMMA OnlySpeechSpeaks == [Next]_vars => Speak \/ turns' = turns
BY DEF Next, EndRound, RunTool, NextRound, vars

\* In a speech one turn is added, of the next one in the team.
Spoken(t) ==
    /\ status = "deliberating" /\ who \in DOMAIN team /\ IsTurn(t, team[who]) /\ team[who] \in Roles \cap Range(team)
    /\ IsMore(turns, t, turns') /\ Range(turns') = Range(turns) \cup {t}
    /\ who' = who + 1 /\ UNCHANGED <<inputs, round, queue, records, items, effects, status>>

LEMMA SpeakIs == ASSUME Types, Speak PROVE \E t : Spoken(t)
<1>1. who \in 1..Len(team) /\ Len(team) \in Nat /\ team \in Seq(Roles)
  BY TeamsAssumption DEF Types, Speak
<1>2. who \in DOMAIN team /\ team[who] \in Roles \cap Range(team)
  BY <1>1 DEF Range
<1>3. PICK t : t = Turn(team[who])
  OBVIOUS
<1>4. IsTurn(t, team[who])
  BY <1>3, TurnIs
<1>5. turns' = Append(turns, t)
  BY <1>3 DEF Speak
<1>6. IsMore(turns, t, turns')
  BY <1>5, OneMore DEF Types
<1>7. Range(turns') = Range(turns) \cup {t}
  <2>1. DOMAIN turns' = DOMAIN turns \cup {Len(turns) + 1}
    BY <1>6 DEF IsMore
  <2>2. \A x : x \in Range(turns') <=> x \in Range(turns) \cup {t}
    <3>1. \A i \in DOMAIN turns : turns'[i] = turns[i]
      BY <1>6 DEF IsMore
    <3>2. turns'[Len(turns) + 1] = t
      BY <1>6 DEF IsMore
    <3> QED BY <2>1, <3>1, <3>2 DEF Range
  <2> QED BY <2>2
<1> QED BY <1>2, <1>4, <1>6, <1>7 DEF Spoken, Speak

LEMMA ClockStep == ASSUME Types, ClockInv, Grown, [Next]_vars PROVE ClockInv'
<1>1. Len(items) \in Nat /\ Len(items') \in Nat /\ Len(items) <= Len(items') /\ round \in Nat \ {0}
  BY SequencesAre DEF Types, Grown
<1>2. round' \in Nat /\ round <= round'
  BY <1>1 DEF Next, Speak, EndRound, RunTool, NextRound, vars
<1>3. CASE turns' = turns
  BY <1>1, <1>2, <1>3 DEF ClockInv
<1>4. CASE Speak
  <2>1. PICK t : Spoken(t)
    BY <1>4, SpeakIs
  <2>2. t.role \in Roles /\ t.round = round /\ t.seen = Len(items) /\ round' = round /\ items' = items
    BY <2>1 DEF Spoken, IsTurn
  <2>3. \A u \in Range(turns') : u.role \in Roles /\ u.round \in 1..round' /\ u.seen \in 0..Len(items')
    BY <1>1, <2>1, <2>2 DEF Spoken, ClockInv
  <2>4. ASSUME NEW i \in DOMAIN turns', NEW j \in DOMAIN turns', i <= j
        PROVE  turns'[i].round <= turns'[j].round /\ turns'[i].seen <= turns'[j].seen
    <3>1. IsMore(turns, t, turns')
      BY <2>1 DEF Spoken
    <3>2. CASE j = Len(turns) + 1
      <4>1. turns'[j] = t /\ turns'[i] \in Range(turns')
        BY <3>1, <3>2 DEF IsMore, Range
      <4> QED BY <1>1, <2>2, <2>3, <4>1
    <3>3. CASE j # Len(turns) + 1
      <4>1. i \in DOMAIN turns /\ j \in DOMAIN turns /\ turns'[i] = turns[i] /\ turns'[j] = turns[j]
        BY <2>4, <3>1, <3>3 DEF IsMore
      <4> QED BY <2>4, <4>1 DEF ClockInv
    <3> QED BY <3>2, <3>3
  <2> QED BY <2>3, <2>4 DEF ClockInv
<1> QED BY <1>3, <1>4, OnlySpeechSpeaks

LEMMA SpokenStep == ASSUME Types, SpokenInv, Grown, [Next]_vars PROVE SpokenInv'
<1>1. round \in Nat \ {0} /\ who \in Nat \ {0} /\ team' = team /\ Len(team) \in Nat /\ DOMAIN team = 1..Len(team)
  BY TeamsAssumption DEF Types, Grown
<1>2. CASE UNCHANGED <<turns, round, who, status>>
  BY <1>1, <1>2 DEF SpokenInv
<1>3. CASE Speak
  <2>1. PICK t : Spoken(t)
    BY <1>3, SpeakIs
  <2>2. t.role = team[who] /\ t.round = round /\ round' = round /\ who' = who + 1 /\ status' = status
        /\ status = "deliberating" /\ Range(turns') = Range(turns) \cup {t}
    BY <2>1 DEF Spoken, IsTurn
  <2>3. ASSUME NEW n \in DOMAIN team, n < who + 1
        PROVE  \E u \in Range(turns') : u.role = team[n] /\ u.round = round
    <3>1. n = who \/ n < who
      BY <1>1, <2>3
    <3> QED BY <2>2, <3>1 DEF SpokenInv
  <2> QED BY <1>1, <2>2, <2>3 DEF SpokenInv
<1>4. CASE EndRound
  BY <1>1, <1>4 DEF SpokenInv, EndRound
<1>5. CASE RunTool
  BY <1>2, <1>5 DEF RunTool
<1>6. CASE NextRound
  <2>1. round' = round + 1 /\ who' = 1 /\ turns' = turns /\ status' = "deliberating" /\ who > Len(team)
    BY <1>6 DEF NextRound, SpokenInv
  <2>2. ASSUME NEW r \in Range(team) PROVE \E t \in Range(turns) : t.role = r /\ t.round = round
    <3>1. PICK n \in DOMAIN team : r = team[n]
      BY DEF Range
    <3>2. n < who
      BY <1>1, <2>1, <3>1
    <3> QED BY <3>1, <3>2 DEF SpokenInv
  <2>3. \A k \in 1..round' - 1 : k = round \/ k \in 1..round - 1
    BY <1>1, <2>1
  <2>4. \A k \in 1..round' - 1 : \A r \in Range(team) : \E t \in Range(turns) : t.role = r /\ t.round = k
    BY <2>2, <2>3 DEF SpokenInv
  <2>5. \A n \in DOMAIN team : ~(n < 1)
    BY <1>1
  <2> QED BY <1>1, <2>1, <2>4, <2>5 DEF SpokenInv
<1>7. CASE UNCHANGED vars
  BY <1>2, <1>7 DEF vars
<1> QED BY <1>3, <1>4, <1>5, <1>6, <1>7 DEF Next

\* What was said before a step is challenged by no one later.
LEMMA StrictStays ==
    ASSUME Types, ClockInv, [Next]_vars, NEW t, t.round \in 1..round
    PROVE  StrictFor(t)' = StrictFor(t)
<1>1. CASE turns' = turns
  BY <1>1 DEF StrictFor
<1>2. CASE Speak
  <2>1. PICK n : Spoken(n)
    BY <1>2, SpeakIs
  <2>2. Range(turns') = Range(turns) \cup {n} /\ n.round = round
    BY <2>1 DEF Spoken, IsTurn
  <2>3. ~(n.round < t.round)
    BY <2>2 DEF Types
  <2>4. StrictFor(t)' <=> StrictFor(t)
    BY <2>2, <2>3 DEF StrictFor
  <2> QED BY <2>4 DEF StrictFor
<1> QED BY <1>1, <1>2, OnlySpeechSpeaks

LEMMA TurnsStep == ASSUME Inv, Grown, [Next]_vars PROVE PositionsInv' /\ SoundInv' /\ ReasonsInv' /\ RequestsInv'
<1>1. \A t \in Range(turns) : t.round \in 1..round /\ t.seen \in 0..Len(items)
  BY DEF Inv, ClockInv
<1>2. ASSUME NEW t \in Range(turns) PROVE t.position = Stand(t)' /\ Sound(t)'
  <2>1. t.round \in 1..round /\ t.seen \in 0..Len(items) /\ t.position = Stand(t) /\ Sound(t)
    BY <1>1 DEF Inv, PositionsInv, SoundInv
  <2>2. Stand(t)' = Stand(t)
    BY <2>1, StrictStays, StandStays DEF Inv
  <2>3. Sound(t)'
    BY <2>1, SoundStays DEF Inv
  <2> QED BY <2>1, <2>2, <2>3
<1>3. CASE turns' = turns
  BY <1>2, <1>3 DEF Inv, PositionsInv, SoundInv, ReasonsInv, RequestsInv, Grown
<1>4. CASE Speak
  <2>1. PICK n : Spoken(n)
    BY <1>4, SpeakIs DEF Inv
  <2>2. /\ Range(turns') = Range(turns) \cup {n} /\ IsTurn(n, team[who]) /\ team[who] \in Roles /\ team[who] \in Range(team)
        /\ n.seen = Len(items) /\ n.round = round
    BY <2>1 DEF Spoken, IsTurn
  <2>3. n.round \in 1..round /\ n.seen \in 0..Len(items)
    BY <2>2, SequencesAre DEF Inv, Types
  <2>4. Sound(n) /\ (n.round = limits.rounds => n.requests = <<>>)
    <3> HIDE <1>4
    <3> QED BY <2>2, NewIsSound DEF Inv
  <2>5. n.position = Stand(n) /\ Reasoned(n)
    BY <2>2, NewStands, NewIsReasoned DEF Inv
  <2>6. Stand(n)' = Stand(n)
    BY <2>3, StrictStays, StandStays DEF Inv
  <2>7. Sound(n)'
    BY <2>3, <2>4, SoundStays DEF Inv
  <2> QED BY <1>2, <2>2, <2>4, <2>5, <2>6, <2>7 DEF Inv, PositionsInv, SoundInv, ReasonsInv, RequestsInv, Grown
<1> QED BY <1>3, <1>4, OnlySpeechSpeaks

LEMMA RecordsStep == ASSUME Types, RequestsInv, RecordsInv, [Next]_vars PROVE RecordsInv'
<1>1. CASE records' = records
  BY <1>1 DEF RecordsInv
<1>2. CASE RunTool
  <2>1. PICK why \in {"ok", "error", "budget"} : records' = Append(records, Skip(Head(queue), why))
    BY <1>2 DEF RunTool
  <2> DEFINE e == Skip(Head(queue), why)
  <2>2. e.status = why
    BY DEF Skip
  <2> HIDE DEF e
  <2>3. IsMore(records, e, records')
    BY <2>1, OneMore DEF Types, e
  <2>4. \A i \in DOMAIN records' : i = Len(records) + 1 \/ i \in DOMAIN records
    BY <2>3 DEF IsMore
  <2> QED BY <2>2, <2>3, <2>4 DEF IsMore, RecordsInv
<1> QED BY <1>1, <1>2, NoMoreRecords DEF Next, Speak, NextRound, vars

LEMMA InvInit == Init => Inv
<1> SUFFICES ASSUME Init PROVE Inv
  OBVIOUS
<1>1. Types
  BY TypesInit
<1>2. Range(turns) = {} /\ DOMAIN turns = {} /\ DOMAIN records = {}
  BY DEF Init, Range
<1>3. SpokenInv
  <2>1. DOMAIN team = 1..Len(team) /\ Len(team) \in Nat
    BY <1>1, TeamsAssumption DEF Types
  <2>2. round = 1 /\ who = 1 /\ status = "deliberating"
    BY DEF Init
  <2> QED BY <2>1, <2>2 DEF SpokenInv
<1> QED BY <1>1, <1>2, <1>3 DEF Inv, ClockInv, PositionsInv, SoundInv, ReasonsInv, RequestsInv, RecordsInv

LEMMA InvStep == Inv /\ [Next]_vars => Inv'
<1> SUFFICES ASSUME Inv, [Next]_vars PROVE Inv'
  OBVIOUS
<1>1. Grown /\ Types'
  BY StepGrows, TypesStep DEF Inv
<1>2. ClockInv' /\ SpokenInv' /\ RecordsInv'
  BY <1>1, ClockStep, SpokenStep, RecordsStep DEF Inv
<1>3. PositionsInv' /\ SoundInv' /\ ReasonsInv' /\ RequestsInv'
  BY <1>1, TurnsStep
<1> QED BY <1>1, <1>2, <1>3 DEF Inv

LEMMA InvStandsUp == Inv => TurnsStandUp
<1> SUFFICES ASSUME Inv PROVE TurnsStandUp
  OBVIOUS
<1>1. ASSUME NEW i \in DOMAIN turns
      PROVE  Findings(turns[i]) = {} /\ (turns[i].revised => turns[i].causes.fresh # {} \/ turns[i].causes.challengers # {})
  <2>1. PICK t \in Range(turns) : t = turns[i]
    BY DEF Range
  <2>2. Sound(t) /\ Reasoned(t) /\ t.seen \in Nat
    BY SequencesAre DEF Inv, SoundInv, ReasonsInv, ClockInv, Types
  <2>3. Findings(t) = {}
    BY <2>2, SoundFindsNothing
  <2> QED BY <2>1, <2>2, <2>3 DEF Reasoned
<1> QED BY <1>1 DEF TurnsStandUp, Inv, RecordsInv

\* A scripted turn stands up, whatever the evidence collected, the tools that
\* fail, the grades of the options, the limits and the team (mock.py:100-154).
THEOREM ScriptedTurnsStandUp == Spec => []TurnsStandUp
<1>1. Init => Inv
  BY InvInit
<1>2. Inv /\ [Next]_vars => Inv'
  BY InvStep
<1>3. Inv => TurnsStandUp
  BY InvStandsUp
<1> QED BY <1>1, <1>2, <1>3, PTL DEF Spec
-----------------------------------------------------------------------------
(* Selecting from a sequence, and joining sequences. *)

\* o is the elements of s at the positions h, in their order: those that are in S.
Selects(h, s, n, S, o) ==
    /\ Len(o) \in Nat /\ DOMAIN o = 1..Len(o) /\ h \in [1..Len(o) -> 1..n]
    /\ \A k \in 1..Len(o) : o[k] = s[h[k]] /\ o[k] \in S
    /\ \A k, l \in 1..Len(o) : k < l => h[k] < h[l]
    /\ \A i \in 1..n : s[i] \in S => \E k \in 1..Len(o) : h[k] = i

LEMMA OnlySelects ==
    ASSUME NEW V, NEW s \in Seq(V), NEW S
    PROVE  \E h : Selects(h, s, Len(s), S, Only(s, S))
<1> DEFINE n == Len(s)
           W == Seq(V \cap S)
<1>1. n \in Nat /\ \A i \in 1..n : s[i] \in V
  OBVIOUS
<1>2. PICK g \in [0..n -> W] : Filters(s, S, g) /\ Only(s, S) = g[n]
  BY OnlyRuns
<1> DEFINE Bad == {m \in 0..n : ~ \E h : Selects(h, s, m, S, g[m])}
<1> SUFFICES Bad = {}
  <2>1. n \in 0..n
    BY <1>1
  <2> HIDE DEF n, W
  <2> QED BY <1>2, <2>1
<1> SUFFICES ASSUME Bad # {} PROVE FALSE
  OBVIOUS
<1>3. PICK m \in Bad : \A k \in Bad : m <= k
  <2>1. Bad \in SUBSET Nat
    OBVIOUS
  <2> HIDE DEF Bad
  <2> QED BY <2>1, LeastNumber
<1>4. m \in 0..n /\ ~ \E h : Selects(h, s, m, S, g[m])
  BY <1>3
<1> HIDE DEF n
<1>5. g[m] = IF m = 0 THEN <<>> ELSE IF s[m] \in S THEN Append(g[m - 1], s[m]) ELSE g[m - 1]
  BY <1>2, <1>4 DEF Filters, n
<1>6. CASE m = 0
  <2>1. g[m] = <<>>
    BY <1>5, <1>6
  <2>2. Selects(<<>>, s, 0, S, <<>>)
    <3>1. <<>> \in [1..0 -> 1..0] /\ Len(<<>>) = 0 /\ DOMAIN <<>> = 1..0 /\ 1..0 = {}
      OBVIOUS
    <3> QED BY <3>1 DEF Selects
  <2> QED BY <1>4, <1>6, <2>1, <2>2
<1>7. CASE m # 0
  <2>1. m \in 1..n /\ m - 1 \in 0..n /\ ~(m <= m - 1) /\ m \in Nat
    BY <1>1, <1>4, <1>7
  <2>2. PICK h : Selects(h, s, m - 1, S, g[m - 1])
    <3>1. m - 1 \notin Bad
      <4> HIDE DEF Bad
      <4> QED BY <1>3, <2>1
    <3> QED BY <2>1, <3>1
  <2> DEFINE o == g[m - 1]
             p == Len(o)
  <2>3. /\ p \in Nat /\ DOMAIN o = 1..p /\ h \in [1..p -> 1..(m - 1)]
        /\ \A k \in 1..p : o[k] = s[h[k]] /\ o[k] \in S
        /\ \A k, l \in 1..p : k < l => h[k] < h[l]
        /\ \A i \in 1..(m - 1) : s[i] \in S => \E k \in 1..p : h[k] = i
    BY <2>2 DEF Selects
  <2>4. o \in Seq(V \cap S) /\ s[m] \in V
    BY <1>1, <1>2, <2>1 DEF n
  <2>5. CASE s[m] \notin S
    <3>1. g[m] = o
      BY <1>5, <1>7, <2>5
    <3> HIDE DEF o, Bad
    <3>2. h \in [1..p -> 1..m]
      BY <2>1, <2>3
    <3>3. \A i \in 1..m : i = m \/ i \in 1..(m - 1)
      BY <2>1
    <3>4. Selects(h, s, m, S, o)
      BY <2>3, <2>5, <3>2, <3>3 DEF Selects
    <3> QED BY <1>4, <3>1, <3>4
  <2>6. CASE s[m] \in S
    <3>1. g[m] = Append(o, s[m])
      BY <1>5, <1>7, <2>6
    <3> HIDE DEF Bad
    <3> DEFINE q == Append(o, s[m])
               f == [k \in 1..(p + 1) |-> IF k = p + 1 THEN m ELSE h[k]]
    <3> HIDE DEF o, W
    <3>2. Len(q) = p + 1 /\ DOMAIN q = 1..(p + 1) /\ q[p + 1] = s[m] /\ \A k \in 1..p : q[k] = o[k]
      BY <2>3, <2>4
    <3> HIDE DEF p, q
    <3>3. \A k \in 1..(p + 1) : k = p + 1 \/ (k \in 1..p /\ k # p + 1)
      BY <2>3
    <3>4. f[p + 1] = m /\ \A k \in 1..p : f[k] = h[k] /\ h[k] \in 1..(m - 1)
      BY <2>3
    <3>5. f \in [1..(p + 1) -> 1..m]
      BY <2>1, <2>3
    <3> HIDE DEF f
    <3>6. \A k \in 1..(p + 1) : q[k] = s[f[k]] /\ q[k] \in S
      BY <2>3, <2>6, <3>2, <3>3, <3>4
    <3>7. ASSUME NEW k \in 1..(p + 1), NEW l \in 1..(p + 1), k < l PROVE f[k] < f[l]
      <4>1. k \in 1..p
        BY <2>3, <3>7
      <4>2. CASE l = p + 1
        BY <2>1, <3>4, <4>1, <4>2
      <4>3. CASE l # p + 1
        BY <2>3, <3>3, <3>4, <3>7, <4>1, <4>3
      <4> QED BY <4>2, <4>3
    <3>8. ASSUME NEW i \in 1..m, s[i] \in S PROVE \E k \in 1..(p + 1) : f[k] = i
      <4>1. CASE i = m
        BY <2>3, <3>4, <4>1
      <4>2. CASE i # m
        <5>1. i \in 1..(m - 1)
          BY <2>1, <4>2
        <5>2. PICK k \in 1..p : h[k] = i
          BY <2>3, <3>8, <5>1
        <5> QED BY <2>3, <3>4, <5>2
      <4> QED BY <4>1, <4>2
    <3>9. Selects(f, s, m, S, q)
      <4>1. Len(q) \in Nat /\ DOMAIN q = 1..Len(q) /\ f \in [1..Len(q) -> 1..m] /\ Len(q) = p + 1
        BY <2>3, <3>2, <3>5
      <4> QED BY <3>6, <3>7, <3>8, <4>1 DEF Selects
    <3> QED BY <1>4, <3>1, <3>9 DEF q
  <2> QED BY <2>5, <2>6
<1> QED BY <1>6, <1>7

\* A flattened sequence begins with the first of the sequences, and has their elements and no others.
Joins(ss, n, f) ==
    /\ Len(ss[1]) <= Len(f) /\ \A k \in 1..Len(ss[1]) : f[k] = ss[1][k]
    /\ \A k \in 1..Len(f) : \E i \in 1..n : \E l \in 1..Len(ss[i]) : f[k] = ss[i][l]
    /\ \A i \in 1..n : \A l \in 1..Len(ss[i]) : \E k \in 1..Len(f) : f[k] = ss[i][l]

LEMMA FlattenRuns ==
    ASSUME NEW V, NEW ss \in Seq(Seq(V)), Len(ss) # 0
    PROVE  \E g \in [1..Len(ss) -> Seq(V)] : Flattens(ss, g) /\ FlattenSeq(ss) = g[Len(ss)]
<1> DEFINE n == Len(ss)
           W == Seq(V)
           step == [i \in 1..n |-> [w \in W |-> w \o ss[i]]]
           empty == <<>>
<1>1. n \in Nat \ {0} /\ \A i \in 1..n : ss[i] \in Seq(V)
  OBVIOUS
<1>2. step \in [1..n -> [W -> W]]
  BY <1>1
<1>3. empty \in W
  OBVIOUS
<1>4. PICK h \in [0..n -> W] : Follows(h, empty, step, n)
  <2> HIDE DEF W, step, n, empty
  <2> QED BY <1>1, <1>2, <1>3, StepsExist
<1> DEFINE f == [i \in 1..n |-> h[i]]
<1>5. ASSUME NEW i \in 1..n PROVE f[i] = IF i = 1 THEN ss[i] ELSE f[i - 1] \o ss[i]
  <2>1. i - 1 \in 0..n /\ (i # 1 => i - 1 \in 1..n)
    BY <1>1
  <2>2. h[i] = step[i][h[i - 1]] /\ h[0] = <<>> /\ h[i - 1] \in W
    BY <1>4, <2>1 DEF Follows
  <2>3. h[i] = h[i - 1] \o ss[i]
    BY <2>2
  <2>4. i = 1 => h[i - 1] = <<>> /\ <<>> \o ss[i] = ss[i]
    BY <1>1, <2>2
  <2>5. f[i] = h[i] /\ (i # 1 => f[i - 1] = h[i - 1])
    BY <2>1
  <2> HIDE DEF f, step, W
  <2> QED BY <2>3, <2>4, <2>5
<1>6. f = [i \in 1..n |-> f[i]]
  OBVIOUS
<1> HIDE DEF f
<1>7. Flattens(ss, f)
  BY <1>5, <1>6 DEF Flattens
<1> DEFINE g == CHOOSE x : Flattens(ss, x)
           Bad == {i \in 1..n : g[i] \notin W}
<1>8. Flattens(ss, g)
  BY <1>7
<1> HIDE DEF g
<1>9. Bad = {}
  <2> SUFFICES ASSUME Bad # {} PROVE FALSE
    OBVIOUS
  <2>1. PICK m \in Bad : \A k \in Bad : m <= k
    <3>1. Bad \in SUBSET Nat
      BY <1>1
    <3> HIDE DEF Bad
    <3> QED BY <3>1, LeastNumber
  <2>2. g[m] = IF m = 1 THEN ss[m] ELSE g[m - 1] \o ss[m]
    BY <1>8, <2>1 DEF Flattens
  <2>3. m # 1 /\ m \in 1..n /\ ss[m] \in W
    BY <1>1, <2>1, <2>2
  <2>4. m - 1 \in 1..n /\ ~(m <= m - 1)
    BY <1>1, <2>3
  <2>5. g[m - 1] \in W
    BY <2>1, <2>4
  <2>6. g[m] \in W
    BY <2>2, <2>3, <2>5
  <2> QED BY <2>1, <2>6
<1>10. g \in [1..n -> W]
  <2>1. g = [i \in 1..n |-> g[i]]
    BY <1>8 DEF Flattens
  <2> HIDE DEF n, W
  <2>2. \A i \in 1..n : g[i] \in W
    BY <1>9
  <2> QED BY <2>1, <2>2
<1>11. FlattenSeq(ss) = g[n]
  BY <1>1, FlattenIsChosen DEF g
<1> QED BY <1>8, <1>10, <1>11

LEMMA Joined ==
    ASSUME NEW V, NEW a \in Seq(V), NEW b \in Seq(V)
    PROVE  /\ a \o b \in Seq(V) /\ Len(a) \in Nat /\ Len(b) \in Nat /\ Len(a \o b) = Len(a) + Len(b)
           /\ \A k \in 1..Len(a) : (a \o b)[k] = a[k]
           /\ \A k \in 1..Len(b) : (a \o b)[Len(a) + k] = b[k]
<1>1. a \o b \in Seq(V) /\ Len(a) \in Nat /\ Len(b) \in Nat /\ Len(a \o b) = Len(a) + Len(b)
  OBVIOUS
<1>2. ASSUME NEW k \in 1..Len(a) PROVE (a \o b)[k] = a[k]
  OBVIOUS
<1>3. ASSUME NEW k \in 1..Len(b) PROVE (a \o b)[Len(a) + k] = b[k]
  OBVIOUS
<1> QED BY <1>1, <1>2, <1>3

LEMMA FlattenJoins ==
    ASSUME NEW V, NEW ss \in Seq(Seq(V)), Len(ss) # 0
    PROVE  FlattenSeq(ss) \in Seq(V) /\ Joins(ss, Len(ss), FlattenSeq(ss))
<1> DEFINE n == Len(ss)
           W == Seq(V)
<1>1. n \in Nat \ {0} /\ \A i \in 1..n : ss[i] \in W
  OBVIOUS
<1>2. PICK g \in [1..n -> W] : Flattens(ss, g) /\ FlattenSeq(ss) = g[n]
  BY FlattenRuns
<1> DEFINE Bad == {m \in 1..n : ~ Joins(ss, m, g[m])}
<1>3. n \in 1..n
  BY <1>1
<1> SUFFICES Bad = {}
  BY <1>2, <1>3
<1> SUFFICES ASSUME Bad # {} PROVE FALSE
  OBVIOUS
<1>4. PICK m \in Bad : \A k \in Bad : m <= k
  <2>1. Bad \in SUBSET Nat
    BY <1>1
  <2> HIDE DEF Bad
  <2> QED BY <2>1, LeastNumber
<1>5. m \in 1..n /\ ~ Joins(ss, m, g[m])
  BY <1>4
<1>6. g[m] = IF m = 1 THEN ss[m] ELSE g[m - 1] \o ss[m]
  BY <1>2, <1>5 DEF Flattens
<1>7. CASE m = 1
  <2>1. g[m] = ss[1] /\ Len(ss[1]) \in Nat
    BY <1>1, <1>3, <1>6, <1>7
  <2>2. Joins(ss, 1, ss[1])
    BY <2>1 DEF Joins
  <2> QED BY <1>5, <1>7, <2>1, <2>2
<1>8. CASE m # 1
  <2>1. m - 1 \in 1..n /\ ~(m <= m - 1) /\ m \in Nat
    BY <1>1, <1>5, <1>8
  <2>2. Joins(ss, m - 1, g[m - 1])
    <3>1. m - 1 \notin Bad
      <4> HIDE DEF Bad
      <4> QED BY <1>4, <2>1
    <3> QED BY <2>1, <3>1
  <2>3. g[m - 1] \in W /\ ss[m] \in W /\ ss[1] \in W
    <3> HIDE DEF W, n, Bad
    <3> QED BY <1>1, <1>2, <1>3, <1>5, <2>1
  <2>4. PICK a \in W, b \in W : a = g[m - 1] /\ b = ss[m]
    BY <2>3
  <2> DEFINE f == a \o b
  <2>5. /\ Len(a) \in Nat /\ Len(b) \in Nat /\ Len(f) = Len(a) + Len(b)
        /\ \A k \in 1..Len(a) : f[k] = a[k]
        /\ \A k \in 1..Len(b) : f[Len(a) + k] = b[k]
    <3>1. a \in Seq(V) /\ b \in Seq(V)
      OBVIOUS
    <3>2. f = a \o b
      OBVIOUS
    <3> HIDE DEF Bad, n, W, f
    <3> QED BY <3>1, <3>2, Joined
  <2>6. \A k \in 1..Len(f) : k \in 1..Len(a) \/ k - Len(a) \in 1..Len(b)
    <3> HIDE DEF f
    <3> QED BY <2>5
  <2>7. f = g[m - 1] \o ss[m]
    BY <2>4
  <2> HIDE DEF f, W, n, Bad
  <2>8. g[m] = f
    BY <1>6, <1>8, <2>7
  <2>9. Len(ss[1]) \in Nat
    BY <2>3 DEF W
  <2>10. Joins(ss, m, f)
    <3>1. Len(ss[1]) <= Len(f) /\ \A k \in 1..Len(ss[1]) : f[k] = ss[1][k]
      <4>1. Len(ss[1]) <= Len(a) /\ \A k \in 1..Len(ss[1]) : a[k] = ss[1][k]
        BY <2>2, <2>4 DEF Joins
      <4>2. \A k \in 1..Len(ss[1]) : k \in 1..Len(a)
        BY <2>5, <2>9, <4>1
      <4> QED BY <2>5, <2>9, <4>1, <4>2
    <3>2. ASSUME NEW k \in 1..Len(f) PROVE \E i \in 1..m : \E l \in 1..Len(ss[i]) : f[k] = ss[i][l]
      <4>1. CASE k \in 1..Len(a)
        <5>1. PICK i \in 1..(m - 1) : \E l \in 1..Len(ss[i]) : a[k] = ss[i][l]
          BY <2>2, <2>4, <4>1 DEF Joins
        <5>2. i \in 1..m /\ f[k] = a[k]
          BY <2>1, <2>5, <4>1
        <5> QED BY <5>1, <5>2
      <4>2. CASE k - Len(a) \in 1..Len(b)
        <5>1. k = Len(a) + (k - Len(a)) /\ m \in 1..m
          BY <2>1, <2>5
        <5>2. f[k] = b[k - Len(a)]
          BY <2>5, <4>2, <5>1
        <5> QED BY <2>4, <4>2, <5>1, <5>2
      <4> QED BY <2>6, <4>1, <4>2
    <3>3. ASSUME NEW i \in 1..m, NEW l \in 1..Len(ss[i]) PROVE \E k \in 1..Len(f) : f[k] = ss[i][l]
      <4>1. CASE i = m
        <5>1. ss[i] = b
          BY <2>4, <4>1
        <5>2. l \in 1..Len(b)
          BY <5>1
        <5>3. Len(a) + l \in 1..Len(f)
          BY <2>5, <5>2
        <5> QED BY <2>5, <5>1, <5>2, <5>3
      <4>2. CASE i # m
        <5>1. i \in 1..(m - 1)
          BY <2>1, <4>2
        <5>2. PICK k \in 1..Len(a) : a[k] = ss[i][l]
          BY <2>2, <2>4, <5>1 DEF Joins
        <5>3. k \in 1..Len(f) /\ f[k] = a[k]
          BY <2>5
        <5> QED BY <5>2, <5>3
      <4> QED BY <4>1, <4>2
    <3> QED BY <3>1, <3>2, <3>3 DEF Joins
  <2> QED BY <1>5, <2>8, <2>10
<1> QED BY <1>7, <1>8
-----------------------------------------------------------------------------
(* Requests in the order of ranks. *)

\* s names what is in S, each once, in the order of the ranks, which are from lo to hi.
Ascends(s, rank, lo, hi, S) ==
    /\ s \in Seq(Names) /\ Range(s) = S
    /\ \A i \in 1..Len(s) : rank[s[i]] \in lo..hi
    /\ \A i, j \in 1..Len(s) : i < j => rank[s[i]] < rank[s[j]]

LEMMA AscendsOn ==
    ASSUME NEW rank \in [Names -> Nat], NEW lo \in Nat, NEW mid \in Nat, NEW next \in Nat, NEW hi \in Nat,
           NEW a, NEW b, NEW A, NEW B, lo <= mid, mid < next, next <= hi,
           Ascends(a, rank, lo, mid, A), Ascends(b, rank, next, hi, B)
    PROVE  Ascends(a \o b, rank, lo, hi, A \cup B)
<1> DEFINE f == a \o b
           m == Len(a)
           n == Len(b)
<1>1. a \in Seq(Names) /\ b \in Seq(Names) /\ Range(a) = A /\ Range(b) = B
  BY DEF Ascends
<1>2. /\ f \in Seq(Names) /\ m \in Nat /\ n \in Nat /\ Len(f) = m + n
      /\ \A k \in 1..m : f[k] = a[k]
      /\ \A k \in 1..n : f[m + k] = b[k]
  <2> HIDE DEF Names
  <2> QED BY <1>1, Joined
<1>3. DOMAIN f = 1..m + n /\ DOMAIN a = 1..m /\ DOMAIN b = 1..n
  <2> HIDE DEF f
  <2> QED BY <1>1, <1>2
<1>4. \A k \in 1..m : rank[a[k]] \in lo..mid
  BY DEF Ascends
<1>5. \A k \in 1..n : rank[b[k]] \in next..hi
  BY DEF Ascends
<1>6. \A i, j \in 1..m : i < j => rank[a[i]] < rank[a[j]]
  BY DEF Ascends
<1>7. \A i, j \in 1..n : i < j => rank[b[i]] < rank[b[j]]
  BY DEF Ascends
<1> HIDE DEF f, m, n
<1>8. ASSUME NEW k \in 1..m + n
      PROVE  \/ k \in 1..m /\ f[k] = a[k]
             \/ k - m \in 1..n /\ f[k] = b[k - m] /\ ~(k \in 1..m)
  <2>1. CASE k \in 1..m
    BY <1>2, <2>1
  <2>2. CASE k \notin 1..m
    <3>1. k - m \in 1..n /\ m + (k - m) = k
      BY <1>2, <2>2
    <3> QED BY <1>2, <2>2, <3>1
  <2> QED BY <2>1, <2>2
<1>9. Range(f) = A \cup B
  <2>1. \A k \in 1..m : k \in 1..m + n
    BY <1>2
  <2>2. \A k \in 1..n : m + k \in 1..m + n
    BY <1>2
  <2>3. A \subseteq Range(f) /\ B \subseteq Range(f)
    BY <1>1, <1>2, <1>3, <2>1, <2>2 DEF Range
  <2>4. Range(f) \subseteq A \cup B
    BY <1>1, <1>3, <1>8 DEF Range
  <2> QED BY <2>3, <2>4
<1>10. \A k \in 1..m + n : rank[f[k]] \in lo..hi
  BY <1>4, <1>5, <1>8
<1>11. ASSUME NEW i \in 1..m + n, NEW j \in 1..m + n, i < j PROVE rank[f[i]] < rank[f[j]]
  <2>1. CASE j \in 1..m
    <3>1. i \in 1..m
      BY <1>2, <1>11, <2>1
    <3> QED BY <1>2, <1>6, <1>11, <2>1, <3>1
  <2>2. CASE j \notin 1..m /\ i \in 1..m
    <3>1. j - m \in 1..n /\ f[j] = b[j - m] /\ f[i] = a[i]
      BY <1>8, <1>2, <2>2
    <3> QED BY <1>4, <1>5, <2>2, <3>1
  <2>3. CASE i \notin 1..m /\ j \notin 1..m
    <3>1. j - m \in 1..n /\ f[j] = b[j - m] /\ i - m \in 1..n /\ f[i] = b[i - m]
      BY <1>8, <2>3
    <3>2. i - m < j - m
      BY <1>2, <1>11
    <3> QED BY <1>7, <3>1, <3>2
  <2> QED BY <2>1, <2>2, <2>3, <1>2, <1>11
<1>12. Ascends(f, rank, lo, hi, A \cup B)
  BY <1>2, <1>9, <1>10, <1>11 DEF Ascends
<1> QED BY <1>12 DEF f

LEMMA OneAscends ==
    ASSUME NEW rank \in [Names -> Nat], NEW x \in Names
    PROVE  Ascends(<<x>>, rank, rank[x], rank[x], {x})
<1>1. <<x>> \in Seq(Names) /\ Len(<<x>>) = 1 /\ DOMAIN <<x>> = 1..1 /\ <<x>>[1] = x
  OBVIOUS
<1>2. \A i \in 1..1 : i = 1
  OBVIOUS
<1>3. Range(<<x>>) = {x}
  BY <1>1, <1>2 DEF Range
<1>4. rank[x] \in rank[x]..rank[x]
  OBVIOUS
<1> DEFINE s == <<x>>
<1>5. s \in Seq(Names) /\ Len(s) = 1 /\ s[1] = x /\ Range(s) = {x}
  BY <1>1, <1>3
<1> HIDE DEF s
<1>6. Ascends(s, rank, rank[x], rank[x], {x})
  BY <1>2, <1>4, <1>5 DEF Ascends
<1> QED BY <1>6 DEF s

LEMMA WhenAscends ==
    ASSUME NEW rank \in [Names -> Nat], NEW x \in Names, NEW b
    PROVE  Ascends(When(b, <<x>>), rank, rank[x], rank[x], IF b THEN {x} ELSE {})
<1>1. CASE b
  BY <1>1, OneAscends DEF When
<1>2. CASE ~b
  <2>1. <<>> \in Seq(Names) /\ Len(<<>>) = 0 /\ DOMAIN <<>> = {} /\ 1..0 = {}
    OBVIOUS
  <2>2. Range(<<>>) = {}
    BY <2>1 DEF Range
  <2>3. Ascends(<<>>, rank, rank[x], rank[x], {})
    BY <2>1, <2>2 DEF Ascends
  <2> QED BY <1>2, <2>3 DEF When
<1> QED BY <1>1, <1>2

LEMMA TwoAscend ==
    ASSUME NEW rank \in [Names -> Nat], NEW x \in Names, NEW y \in Names, rank[x] < rank[y]
    PROVE  Ascends(<<x, y>>, rank, rank[x], rank[y], {x, y})
<1> DEFINE s == <<x, y>>
<1>1. s \in Seq(Names) /\ Len(s) = 2 /\ DOMAIN s = 1..2 /\ s[1] = x /\ s[2] = y
  OBVIOUS
<1> HIDE DEF s
<1>2. \A i \in 1..2 : i = 1 \/ i = 2
  OBVIOUS
<1>3. Range(s) = {x, y}
  <2>1. 1 \in 1..2 /\ 2 \in 1..2
    OBVIOUS
  <2> QED BY <1>1, <1>2, <2>1 DEF Range
<1>4. rank[x] \in rank[x]..rank[y] /\ rank[y] \in rank[x]..rank[y]
  OBVIOUS
<1>5. ASSUME NEW i \in 1..2, NEW j \in 1..2, i < j PROVE rank[s[i]] < rank[s[j]]
  <2>1. i = 1 /\ j = 2
    BY <1>5
  <2> QED BY <1>1, <2>1
<1>6. Ascends(s, rank, rank[x], rank[y], {x, y})
  BY <1>1, <1>2, <1>3, <1>4, <1>5 DEF Ascends
<1> QED BY <1>6 DEF s
-----------------------------------------------------------------------------
(* The orders of the policies. *)

\* The order in which those who measure ask, and in which the others do.
LeadRank ==
    [c \in Names |-> CASE c = "estimate" -> 1 [] c = "explain" -> 2 [] c = "bottleneck" -> 3 [] c = "index" -> 4
                       [] c = "growth" -> 5 [] c = "forecast" -> 6 [] c = "rewrite" -> 7 [] c = "cost" -> 8
                       [] c = "night" -> 9 [] OTHER -> 0]
OtherRank ==
    [c \in Names |-> CASE c = "nights" -> 1 [] c = "sensitivity" -> 2 [] c = "top" -> 3 [] c = "cost" -> 4
                       [] c = "forecast" -> 5 [] c = "bottleneck" -> 6 [] c = "night" -> 7 [] c = "growth" -> 8
                       [] c = "skew" -> 9 [] OTHER -> 0]

LEMMA LeadRankIs ==
    /\ LeadRank \in [Names -> Nat]
    /\ LeadRank["estimate"] = 1 /\ LeadRank["explain"] = 2 /\ LeadRank["bottleneck"] = 3 /\ LeadRank["index"] = 4
    /\ LeadRank["growth"] = 5 /\ LeadRank["forecast"] = 6 /\ LeadRank["rewrite"] = 7 /\ LeadRank["cost"] = 8
    /\ LeadRank["night"] = 9
<1>1. \A c \in Names : LeadRank[c] \in Nat
  BY DEF LeadRank
<1>2. LeadRank = [c \in Names |-> LeadRank[c]]
  BY DEF LeadRank
<1>3. LeadRank \in [Names -> Nat]
  BY <1>1, <1>2
<1> QED BY <1>3 DEF LeadRank, Names

LEMMA OtherRankIs ==
    /\ OtherRank \in [Names -> Nat]
    /\ OtherRank["nights"] = 1 /\ OtherRank["sensitivity"] = 2 /\ OtherRank["top"] = 3 /\ OtherRank["cost"] = 4
    /\ OtherRank["forecast"] = 5 /\ OtherRank["bottleneck"] = 6 /\ OtherRank["night"] = 7 /\ OtherRank["growth"] = 8
    /\ OtherRank["skew"] = 9
<1>1. \A c \in Names : OtherRank[c] \in Nat
  BY DEF OtherRank
<1>2. OtherRank = [c \in Names |-> OtherRank[c]]
  BY DEF OtherRank
<1>3. OtherRank \in [Names -> Nat]
  BY <1>1, <1>2
<1> QED BY <1>3 DEF OtherRank, Names

NamesAre ==
    {"bottleneck", "forecast", "cost", "estimate", "explain", "index", "growth", "rewrite", "nights",
     "sensitivity", "top", "night", "skew"} \subseteq Names

\* What has to be asked for before the forecast, when the statement at the root has a fixture.
Opening == IF "plan" \in world.bundle THEN "estimate" ELSE "explain"
Early == {Opening, "bottleneck", "index"}

LEMMA EngineerAscends ==
    ASSUME NEW r \in Measurers
    PROVE  \E S : /\ Ascends(EngineerWants(r), LeadRank, 1, 7, S) /\ "forecast" \in S
                  /\ ("index" \in S \/ "rewrite" \in S => Rooted)
                  /\ (Rooted => Early \subseteq S)
<1>1. NamesAre
  BY DEF NamesAre, Names
<1>2. LeadRank \in [Names -> Nat]
  BY LeadRankIs
<1> DEFINE p1 == Has(r, "plan")
           p2 == ~Has(r, "plan") /\ Rooted
           p3 == Has(r, "tables")
           p4 == Rooted /\ Latest(r, "index") # 0
           s1 == When(p1, <<"estimate">>)
           s2 == When(p2, <<"explain">>)
           s3 == When(Rooted, <<"index">>)
           s4 == When(p3, <<"growth">>)
           s5 == When(p4, <<"rewrite">>)
           S1 == IF p1 THEN {"estimate"} ELSE {}
           S2 == IF p2 THEN {"explain"} ELSE {}
           S3 == IF Rooted THEN {"index"} ELSE {}
           S4 == IF p3 THEN {"growth"} ELSE {}
           S5 == IF p4 THEN {"rewrite"} ELSE {}
           S == S1 \cup S2 \cup {"bottleneck"} \cup S3 \cup S4 \cup {"forecast"} \cup S5
<1>3. EngineerWants(r) = s1 \o s2 \o <<"bottleneck">> \o s3 \o s4 \o <<"forecast">> \o s5
  BY DEF EngineerWants
<1>4. /\ Ascends(s1, LeadRank, 1, 1, S1) /\ Ascends(s2, LeadRank, 2, 2, S2)
      /\ Ascends(<<"bottleneck">>, LeadRank, 3, 3, {"bottleneck"})
      /\ Ascends(s3, LeadRank, 4, 4, S3) /\ Ascends(s4, LeadRank, 5, 5, S4)
      /\ Ascends(<<"forecast">>, LeadRank, 6, 6, {"forecast"}) /\ Ascends(s5, LeadRank, 7, 7, S5)
  <2>1. \A x \in Names : Ascends(<<x>>, LeadRank, LeadRank[x], LeadRank[x], {x})
    BY <1>2, LeadRankIs, OneAscends
  <2>2. \A x \in Names : \A b : Ascends(When(b, <<x>>), LeadRank, LeadRank[x], LeadRank[x], IF b THEN {x} ELSE {})
    BY <1>2, LeadRankIs, WhenAscends
  <2>3. Ascends(s1, LeadRank, 1, 1, S1)
    BY <1>1, <2>2, LeadRankIs DEF NamesAre
  <2>4. Ascends(s2, LeadRank, 2, 2, S2)
    BY <1>1, <2>2, LeadRankIs DEF NamesAre
  <2>5. Ascends(s3, LeadRank, 4, 4, S3)
    BY <1>1, <2>2, LeadRankIs DEF NamesAre
  <2>6. Ascends(s4, LeadRank, 5, 5, S4)
    BY <1>1, <2>2, LeadRankIs DEF NamesAre
  <2>7. Ascends(s5, LeadRank, 7, 7, S5)
    BY <1>1, <2>2, LeadRankIs DEF NamesAre
  <2>8. Ascends(<<"bottleneck">>, LeadRank, 3, 3, {"bottleneck"}) /\ Ascends(<<"forecast">>, LeadRank, 6, 6, {"forecast"})
    BY <1>1, <2>1, LeadRankIs DEF NamesAre
  <2> QED BY <2>3, <2>4, <2>5, <2>6, <2>7, <2>8
<1>5. /\ "index" \in S \/ "rewrite" \in S => Rooted
      /\ "forecast" \in S
      /\ Rooted => Early \subseteq S
  <2>1. Has(r, "plan") <=> "plan" \in world.bundle
    BY DEF Has, Sees, Measurers
  <2> QED BY <2>1 DEF Early, Opening
<1> HIDE DEF s1, s2, s3, s4, s5, S1, S2, S3, S4, S5
<1>6. Ascends(s1 \o s2, LeadRank, 1, 2, S1 \cup S2)
  BY <1>2, <1>4, AscendsOn
<1>7. Ascends(s1 \o s2 \o <<"bottleneck">>, LeadRank, 1, 3, S1 \cup S2 \cup {"bottleneck"})
  BY <1>2, <1>4, <1>6, AscendsOn
<1>8. Ascends(s1 \o s2 \o <<"bottleneck">> \o s3, LeadRank, 1, 4, S1 \cup S2 \cup {"bottleneck"} \cup S3)
  BY <1>2, <1>4, <1>7, AscendsOn
<1>9. Ascends(s1 \o s2 \o <<"bottleneck">> \o s3 \o s4, LeadRank, 1, 5, S1 \cup S2 \cup {"bottleneck"} \cup S3 \cup S4)
  BY <1>2, <1>4, <1>8, AscendsOn
<1>10. Ascends(s1 \o s2 \o <<"bottleneck">> \o s3 \o s4 \o <<"forecast">>, LeadRank, 1, 6,
              S1 \cup S2 \cup {"bottleneck"} \cup S3 \cup S4 \cup {"forecast"})
  BY <1>2, <1>4, <1>9, AscendsOn
<1>11. Ascends(s1 \o s2 \o <<"bottleneck">> \o s3 \o s4 \o <<"forecast">> \o s5, LeadRank, 1, 7,
               S1 \cup S2 \cup {"bottleneck"} \cup S3 \cup S4 \cup {"forecast"} \cup S5)
  BY <1>2, <1>4, <1>10, AscendsOn
<1>12. Ascends(EngineerWants(r), LeadRank, 1, 7, S)
  BY <1>3, <1>11
<1> HIDE DEF S
<1> QED BY <1>5, <1>12

\* Who measures asks for the forecast, before it for what a fixture allows, and after it for the rewrites.
LEMMA LeadAscends ==
    ASSUME NEW r \in Measurers
    PROVE  \E S : /\ Ascends(Wants(r), LeadRank, 1, 9, S) /\ "forecast" \in S
                  /\ ("index" \in S \/ "rewrite" \in S => Rooted)
                  /\ (Rooted => Early \subseteq S)
<1>1. PICK S : /\ Ascends(EngineerWants(r), LeadRank, 1, 7, S) /\ "forecast" \in S
               /\ ("index" \in S \/ "rewrite" \in S => Rooted)
               /\ (Rooted => Early \subseteq S)
  BY EngineerAscends
<1>2. NamesAre
  BY DEF NamesAre, Names
<1>3. LeadRank \in [Names -> Nat]
  BY LeadRankIs
<1>4. Ascends(<<"cost">>, LeadRank, 8, 8, {"cost"})
  BY <1>3, <1>2, LeadRankIs, OneAscends DEF NamesAre
<1> DEFINE N == IF world.batch THEN {"night"} ELSE {}
           e == EngineerWants(r)
           n == When(world.batch, <<"night">>)
           T == S \cup {"cost"} \cup N
<1>5. Ascends(n, LeadRank, 9, 9, N)
  BY <1>3, <1>2, LeadRankIs, WhenAscends DEF NamesAre
<1>6. /\ Wants(r) = e \/ Wants(r) = e \o <<"cost">> \o n
      /\ S \subseteq T /\ \A c \in {"index", "rewrite"} : c \in T => c \in S
  BY DEF Wants, Measurers, SingleWants
<1> HIDE DEF N, e, n, T
<1>7. Ascends(e, LeadRank, 1, 7, S)
  BY <1>1 DEF e
<1>8. Ascends(e \o <<"cost">>, LeadRank, 1, 8, S \cup {"cost"})
  BY <1>3, <1>4, <1>7, AscendsOn
<1>9. Ascends(e \o <<"cost">> \o n, LeadRank, 1, 9, S \cup {"cost"} \cup N)
  BY <1>3, <1>5, <1>8, AscendsOn
<1>10. Ascends(e, LeadRank, 1, 9, S)
  <2>1. \A i \in 1..7 : i \in 1..9
    OBVIOUS
  <2> QED BY <1>7, <2>1 DEF Ascends
<1>11. CASE Wants(r) = e
  BY <1>1, <1>10, <1>11
<1>12. CASE Wants(r) = e \o <<"cost">> \o n
  <2>1. Ascends(Wants(r), LeadRank, 1, 9, T)
    BY <1>9, <1>12 DEF T
  <2> QED BY <1>1, <1>6, <2>1
<1> QED BY <1>6, <1>11, <1>12

\* What the others may ask for before the forecast.
Prelude(r) == IF r = "application" THEN {"nights", "sensitivity", "top"} ELSE {"cost"}

LEMMA Widened ==
    ASSUME NEW rank \in [Names -> Nat], NEW s, NEW S, NEW lo \in Nat, NEW hi \in Nat, 1 <= lo, hi <= 9, Ascends(s, rank, lo, hi, S)
    PROVE  Ascends(s, rank, 1, 9, S)
<1>1. \A i \in lo..hi : i \in 1..9
  OBVIOUS
<1> QED BY <1>1 DEF Ascends

LEMMA OtherAscends ==
    ASSUME NEW r \in Roles \ Measurers
    PROVE  \E S : /\ Ascends(Wants(r), OtherRank, 1, 9, S) /\ "forecast" \in S /\ "index" \notin S /\ "rewrite" \notin S
                  /\ \A c \in S : OtherRank[c] < 5 => c \in Prelude(r)
<1>1. NamesAre
  BY DEF NamesAre, Names
<1>2. OtherRank \in [Names -> Nat]
  BY OtherRankIs
<1>3. \A x \in Names : Ascends(<<x>>, OtherRank, OtherRank[x], OtherRank[x], {x})
  BY <1>2, OtherRankIs, OneAscends
<1>4. \A x \in Names : \A b : Ascends(When(b, <<x>>), OtherRank, OtherRank[x], OtherRank[x], IF b THEN {x} ELSE {})
  BY <1>2, OtherRankIs, WhenAscends
<1>5. \A x, y \in Names : OtherRank[x] < OtherRank[y] => Ascends(<<x, y>>, OtherRank, OtherRank[x], OtherRank[y], {x, y})
  BY <1>2, OtherRankIs, TwoAscend
<1>6. CASE r = "application"
  <2> DEFINE p1 == Has(r, "schedule")
             p2 == world.disputed
             p3 == Has(r, "digest")
             s1 == When(p1, <<"nights">>)
             s2 == When(p2, <<"sensitivity">>)
             s3 == When(p3, <<"top">>)
             S1 == IF p1 THEN {"nights"} ELSE {}
             S2 == IF p2 THEN {"sensitivity"} ELSE {}
             S3 == IF p3 THEN {"top"} ELSE {}
             S == S1 \cup S2 \cup S3 \cup {"forecast"}
  <2>1. Wants(r) = s1 \o s2 \o s3 \o <<"forecast">>
    BY <1>6 DEF Wants, ApplicationWants
  <2>2. Ascends(s1, OtherRank, 1, 1, S1)
    BY <1>1, <1>4, OtherRankIs DEF NamesAre
  <2>3. Ascends(s2, OtherRank, 2, 2, S2)
    BY <1>1, <1>4, OtherRankIs DEF NamesAre
  <2>4. Ascends(s3, OtherRank, 3, 3, S3)
    BY <1>1, <1>4, OtherRankIs DEF NamesAre
  <2>5. Ascends(<<"forecast">>, OtherRank, 5, 5, {"forecast"})
    BY <1>1, <1>3, OtherRankIs DEF NamesAre
  <2>6. S1 \subseteq {"nights"} /\ S2 \subseteq {"sensitivity"} /\ S3 \subseteq {"top"}
    OBVIOUS
  <2> HIDE DEF s1, s2, s3, S1, S2, S3
  <2>7. Ascends(s1 \o s2, OtherRank, 1, 2, S1 \cup S2)
    BY <1>2, <2>2, <2>3, AscendsOn
  <2>8. Ascends(s1 \o s2 \o s3, OtherRank, 1, 3, S1 \cup S2 \cup S3)
    BY <1>2, <2>4, <2>7, AscendsOn
  <2>9. Ascends(s1 \o s2 \o s3 \o <<"forecast">>, OtherRank, 1, 5, S1 \cup S2 \cup S3 \cup {"forecast"})
    BY <1>2, <2>5, <2>8, AscendsOn
  <2>10. Ascends(Wants(r), OtherRank, 1, 9, S)
    BY <1>2, <2>1, <2>9, Widened
  <2>11. "forecast" \in S /\ S \subseteq {"nights", "sensitivity", "top", "forecast"}
    BY <2>6
  <2>12. \A c \in S : c # "forecast" => c \in Prelude(r)
    BY <1>6, <2>11 DEF Prelude
  <2> HIDE DEF S
  <2>13. \A c \in S : OtherRank[c] < 5 => c \in Prelude(r)
    <3>1. ~(OtherRank["forecast"] < 5)
      BY OtherRankIs
    <3> QED BY <2>12, <3>1
  <2>14. "index" \notin S /\ "rewrite" \notin S
    BY <2>11
  <2> QED BY <2>10, <2>11, <2>13, <2>14
<1>7. CASE r = "reliability"
  <2> DEFINE p == world.batch
             s == When(p, <<"night">>)
             N == IF p THEN {"night"} ELSE {}
             S == {"forecast", "bottleneck"} \cup N
  <2>1. Wants(r) = <<"forecast", "bottleneck">> \o s
    BY <1>7 DEF Wants, ReliabilityWants
  <2>2. Ascends(<<"forecast", "bottleneck">>, OtherRank, 5, 6, {"forecast", "bottleneck"})
    BY <1>1, <1>5, OtherRankIs DEF NamesAre
  <2>3. Ascends(s, OtherRank, 7, 7, N)
    BY <1>1, <1>4, OtherRankIs DEF NamesAre
  <2>4. S \subseteq {"forecast", "bottleneck", "night"}
    OBVIOUS
  <2> HIDE DEF s, N
  <2>5. Ascends(<<"forecast", "bottleneck">> \o s, OtherRank, 5, 7, {"forecast", "bottleneck"} \cup N)
    BY <1>2, <2>2, <2>3, AscendsOn
  <2>6. Ascends(Wants(r), OtherRank, 1, 9, S)
    BY <1>2, <2>1, <2>5, Widened
  <2>7. "forecast" \in S
    OBVIOUS
  <2> HIDE DEF S
  <2>8. \A c \in S : OtherRank[c] < 5 => c \in Prelude(r)
    <3>1. \A c \in {"forecast", "bottleneck", "night"} : ~(OtherRank[c] < 5)
      BY OtherRankIs
    <3> QED BY <2>4, <3>1
  <2>9. "index" \notin S /\ "rewrite" \notin S
    BY <2>4
  <2> QED BY <2>6, <2>7, <2>8, <2>9
<1>8. CASE r = "finops"
  <2> DEFINE p == Has(r, "tables")
             s == When(p, <<"growth">>)
             N == IF p THEN {"growth"} ELSE {}
             S == {"cost", "forecast"} \cup N
  <2>1. Wants(r) = <<"cost", "forecast">> \o s
    BY <1>8 DEF Wants, FinopsWants
  <2>2. Ascends(<<"cost", "forecast">>, OtherRank, 4, 5, {"cost", "forecast"})
    BY <1>1, <1>5, OtherRankIs DEF NamesAre
  <2>3. Ascends(s, OtherRank, 8, 8, N)
    BY <1>1, <1>4, OtherRankIs DEF NamesAre
  <2>4. S \subseteq {"cost", "forecast", "growth"}
    OBVIOUS
  <2> HIDE DEF s, N
  <2>5. Ascends(<<"cost", "forecast">> \o s, OtherRank, 4, 8, {"cost", "forecast"} \cup N)
    BY <1>2, <2>2, <2>3, AscendsOn
  <2>6. Ascends(Wants(r), OtherRank, 1, 9, S)
    BY <1>2, <2>1, <2>5, Widened
  <2>7. "forecast" \in S
    OBVIOUS
  <2>8. "cost" \in Prelude(r)
    BY <1>8 DEF Prelude
  <2> HIDE DEF S
  <2>9. \A c \in S : OtherRank[c] < 5 => c \in Prelude(r)
    <3>1. \A c \in {"forecast", "growth"} : ~(OtherRank[c] < 5)
      BY OtherRankIs
    <3> QED BY <2>4, <2>8, <3>1
  <2>10. "index" \notin S /\ "rewrite" \notin S
    BY <2>4
  <2> QED BY <2>6, <2>7, <2>9, <2>10
<1>9. CASE r = "tenant"
  <2>1. Wants(r) = <<"forecast", "skew">>
    BY <1>9 DEF Wants
  <2>2. Ascends(<<"forecast", "skew">>, OtherRank, 5, 9, {"forecast", "skew"})
    BY <1>1, <1>5, OtherRankIs DEF NamesAre
  <2>3. Ascends(Wants(r), OtherRank, 1, 9, {"forecast", "skew"})
    BY <1>2, <2>1, <2>2, Widened
  <2> QED BY <2>3, OtherRankIs
<1> QED BY <1>6, <1>7, <1>8, <1>9 DEF Roles, Measurers
-----------------------------------------------------------------------------
(* What a role asks for. *)

\* q names n of S, or all of S when there are fewer, the first in the order of the ranks.
Asks(q, rank, S, n) ==
    /\ q \in Seq(Names) /\ Len(q) <= n /\ Range(q) \subseteq S
    /\ \A i, j \in 1..Len(q) : i < j => rank[q[i]] < rank[q[j]]
    /\ \A x \in Range(q) : \A y \in S : rank[y] < rank[x] => y \in Range(q)
    /\ \A y \in S : y \in Range(q) \/ Len(q) = n

LEMMA TakeIs ==
    ASSUME NEW V, NEW o \in Seq(V), NEW n \in Nat
    PROVE  \E m \in Nat : /\ m <= n /\ m <= Len(o) /\ (m = n \/ m = Len(o))
                          /\ Take(o, n) \in Seq(V) /\ Len(Take(o, n)) = m /\ \A k \in 1..m : Take(o, n)[k] = o[k]
<1> DEFINE m == Min({n, Len(o)})
<1>1. Len(o) \in Nat
  OBVIOUS
<1>2. m \in Nat /\ m <= n /\ m <= Len(o) /\ (m = n \/ m = Len(o))
  BY <1>1, MinOfTwo
<1>3. Take(o, n) = SubSeq(o, 1, m)
  BY DEF Take
<1> HIDE DEF m
<1>4. SubSeq(o, 1, m) \in Seq(V) /\ Len(SubSeq(o, 1, m)) = m /\ \A k \in 1..m : SubSeq(o, 1, m)[k] = o[k]
  BY <1>1, <1>2
<1> QED BY <1>2, <1>3, <1>4

LEMMA TakenAsk ==
    ASSUME NEW rank \in [Names -> Nat], NEW W, NEW R, Ascends(W, rank, 1, 9, R), NEW S \in SUBSET R, NEW n \in Nat
    PROVE  Asks(Take(Only(W, S), n), rank, S, n)
<1>1. W \in Seq(Names) /\ Range(W) = R /\ \A i, j \in 1..Len(W) : i < j => rank[W[i]] < rank[W[j]]
  BY DEF Ascends
<1>2. PICK o : o = Only(W, S)
  OBVIOUS
<1>3. o \in Seq(Names \cap S)
  BY <1>1, <1>2, OnlyKeeps
<1>4. PICK h : Selects(h, W, Len(W), S, o)
  BY <1>1, <1>2, OnlySelects
<1>5. PICK q : q = Take(o, n)
  OBVIOUS
<1> DEFINE V == Names \cap S
<1>6. PICK m \in Nat : /\ m <= n /\ m <= Len(o) /\ (m = n \/ m = Len(o))
                       /\ q \in Seq(V) /\ Len(q) = m /\ \A k \in 1..m : q[k] = o[k]
  <2>1. o \in Seq(V)
    BY <1>3
  <2>2. n \in Nat
    OBVIOUS
  <2> HIDE DEF V
  <2>3. PICK m \in Nat : /\ m <= n /\ m <= Len(o) /\ (m = n \/ m = Len(o))
                         /\ Take(o, n) \in Seq(V) /\ Len(Take(o, n)) = m /\ \A k \in 1..m : Take(o, n)[k] = o[k]
    BY ONLY <2>1, <2>2, TakeIs
  <2> QED BY ONLY <1>5, <2>3
<1>7. /\ Len(o) \in Nat /\ Len(W) \in Nat /\ h \in [1..Len(o) -> 1..Len(W)]
      /\ \A k \in 1..Len(o) : o[k] = W[h[k]] /\ o[k] \in S
      /\ \A k, l \in 1..Len(o) : k < l => h[k] < h[l]
      /\ \A i \in 1..Len(W) : W[i] \in S => \E k \in 1..Len(o) : h[k] = i
  BY <1>1, <1>4 DEF Selects
<1>8. \A k \in 1..m : k \in 1..Len(o)
  BY <1>6, <1>7
<1>9. q \in Seq(Names) /\ DOMAIN q = 1..m /\ Range(q) \subseteq S
  <2>1. q \in Seq(Names)
    BY <1>6
  <2>2. DOMAIN q = 1..m
    <3> HIDE DEF V
    <3> QED BY <1>6
  <2>3. Range(q) \subseteq S
    BY <1>6, <1>7, <1>8, <2>2 DEF Range
  <2> QED BY <2>1, <2>2, <2>3
<1>10. ASSUME NEW k \in 1..Len(o), NEW l \in 1..Len(o), k < l PROVE rank[o[k]] < rank[o[l]]
  <2>1. h[k] \in 1..Len(W) /\ h[l] \in 1..Len(W) /\ h[k] < h[l]
    BY <1>7, <1>10
  <2>2. rank[W[h[k]]] < rank[W[h[l]]]
    BY <1>1, <2>1
  <2>3. o[k] = W[h[k]] /\ o[l] = W[h[l]]
    BY <1>7
  <2> QED BY <2>2, <2>3
<1>11. ASSUME NEW y \in S PROVE \E l \in 1..Len(o) : o[l] = y
  <2>1. PICK i \in 1..Len(W) : W[i] = y
    <3>1. y \in Range(W) /\ DOMAIN W = 1..Len(W)
      BY <1>1
    <3> QED BY <3>1 DEF Range
  <2> QED BY <1>7, <2>1
<1>12. ASSUME NEW i \in 1..m, NEW j \in 1..m, i < j PROVE rank[q[i]] < rank[q[j]]
  BY <1>6, <1>8, <1>10, <1>12
<1>13. ASSUME NEW x \in Range(q), NEW y \in S, rank[y] < rank[x] PROVE y \in Range(q)
  <2>1. PICK k \in 1..m : q[k] = x
    BY <1>9 DEF Range
  <2>2. PICK l \in 1..Len(o) : o[l] = y
    BY <1>11
  <2>3. CASE l \in 1..m
    BY <1>6, <1>9, <2>2, <2>3 DEF Range
  <2>4. CASE l \notin 1..m
    <3>1. k < l /\ k \in 1..Len(o)
      BY <1>6, <1>7, <1>8, <2>4
    <3>2. rank[o[k]] < rank[o[l]] /\ o[k] = x
      BY <1>6, <1>10, <2>1, <3>1
    <3>3. rank[x] \in Nat /\ rank[y] \in Nat
      BY <1>6, <2>1, <2>2, <1>3, <1>7
    <3> QED BY <1>13, <2>2, <3>2, <3>3
  <2> QED BY <2>3, <2>4
<1>14. ASSUME NEW y \in S, m # n PROVE y \in Range(q)
  <2>1. PICK l \in 1..Len(o) : o[l] = y
    BY <1>11
  <2>2. l \in 1..m
    BY <1>6, <1>14
  <2> QED BY <1>6, <1>9, <2>1, <2>2 DEF Range
<1>15. Asks(q, rank, S, n)
  BY <1>6, <1>9, <1>12, <1>13, <1>14 DEF Asks
<1> QED BY <1>2, <1>5, <1>15

LEMMA RoomIs ==
    ASSUME Types
    PROVE  Room \in Nat /\ Room <= limits.perTurn /\ (Len(items) >= limits.calls => Room = 0)
<1>1. Len(items) \in Nat /\ limits.perTurn \in Nat /\ limits.calls \in Nat
  BY SequencesAre, LimitsAssumption DEF Types
<1> DEFINE n == limits.calls - Len(items)
           most == IF n > 0 THEN n ELSE 0
<1>2. n \in Int /\ most \in Nat
  BY <1>1
<1>3. Max({0, n}) = most
  <2>1. most \in {0, n} /\ \A y \in {0, n} : most >= y
    BY <1>2
  <2>2. \A x \in {0, n} : (\A y \in {0, n} : x >= y) => x = most
    BY <1>2
  <2> HIDE DEF most, n
  <2> QED BY <2>1, <2>2 DEF Max
<1>4. Len(items) >= limits.calls => most = 0
  BY <1>1
<1>5. Room = Min({limits.perTurn, Max({0, n})})
  BY DEF Room
<1> HIDE DEF most, n
<1>6. Min({limits.perTurn, most}) = IF limits.perTurn <= most THEN limits.perTurn ELSE most
  BY <1>1, <1>2, MinOfTwo
<1>7. Room = Min({limits.perTurn, most})
  BY <1>3, <1>5
<1> HIDE DEF n
<1> QED BY <1>1, <1>2, <1>4, <1>6, <1>7

\* What a role may still ask for, and the order in which it does.
Free(r) == {c \in Range(Wants(r)) \ Asked(r) : Tool(c) \in MayUse[r]}
RankFor(r) == IF r \in Measurers THEN LeadRank ELSE OtherRank

LEMMA Requested ==
    ASSUME Types, NEW r \in Roles, round < limits.rounds
    PROVE  RankFor(r) \in [Names -> Nat] /\ Asks(Requests(r), RankFor(r), Free(r), Room)
<1>1. RankFor(r) \in [Names -> Nat] /\ Ascends(Wants(r), RankFor(r), 1, 9, Range(Wants(r)))
  <2>1. CASE r \in Measurers
    <3>1. PICK S : Ascends(Wants(r), LeadRank, 1, 9, S)
      BY <2>1, LeadAscends
    <3>2. S = Range(Wants(r))
      BY <3>1 DEF Ascends
    <3> QED BY <2>1, <3>1, <3>2, LeadRankIs DEF RankFor
  <2>2. CASE r \notin Measurers
    <3>1. PICK S : Ascends(Wants(r), OtherRank, 1, 9, S)
      BY <2>2, OtherAscends
    <3>2. S = Range(Wants(r))
      BY <3>1 DEF Ascends
    <3> QED BY <2>2, <3>1, <3>2, OtherRankIs DEF RankFor
  <2> QED BY <2>1, <2>2
<1>2. Free(r) \in SUBSET Range(Wants(r))
  BY DEF Free
<1>3. Requests(r) = Take(Only(Wants(r), Free(r)), Room)
  BY DEF Requests, When, Free
<1> QED BY <1>1, <1>2, <1>3, RoomIs, TakenAsk
-----------------------------------------------------------------------------
(* The groups of equal requests. *)

Askers(kept, c) == {kept[j].role : j \in {k \in DOMAIN kept : kept[k].call = c}}

\* g has one group for each call of kept, where it is first asked for, at f, by all who ask for it.
Gathers(g, kept, f) ==
    /\ IsSeq(g) /\ f \in [1..Len(g) -> 1..Len(kept)]
    /\ Len(g) \in Nat /\ DOMAIN g = 1..Len(g)
    /\ \A a \in 1..Len(g) :
        /\ g[a].call = kept[f[a]].call /\ \A j \in 1..f[a] - 1 : kept[j].call # g[a].call
        /\ g[a].by = Askers(kept, g[a].call)
    /\ \A a, b \in 1..Len(g) : a < b => f[a] < f[b]
    /\ \A k \in 1..Len(kept) : \E a \in 1..Len(g) : g[a].call = kept[k].call

LEMMA GroupsAre ==
    ASSUME NEW kept, Len(kept) \in Nat, DOMAIN kept = 1..Len(kept)
    PROVE  \E f : Gathers(Groups(kept), kept, f)
<1> DEFINE n == Len(kept)
           id == [i \in DOMAIN kept |-> i]
           S == {i \in DOMAIN kept : \A j \in 1..i - 1 : kept[j].call # kept[i].call}
           f == Only(id, S)
           g == [a \in DOMAIN f |-> [call |-> kept[f[a]].call, by |-> Askers(kept, kept[f[a]].call)]]
<1>1. Groups(kept) = g
  BY DEF Groups, Askers
<1>2. n \in Nat /\ DOMAIN kept = 1..n
  OBVIOUS
<1> HIDE DEF n
<1>3. id \in Seq(1..n) /\ Len(id) = n /\ \A i \in 1..n : id[i] = i
  <2>1. id = [i \in 1..n |-> i]
    BY <1>2
  <2>2. n \in Nat
    BY <1>2
  <2>3. [i \in 1..n |-> i] \in Seq(1..n) /\ Len([i \in 1..n |-> i]) = n
    BY <2>2
  <2> QED BY <2>1, <2>3
<1>4. PICK h : Selects(h, id, Len(id), S, f)
  <2> HIDE DEF id, S
  <2> QED BY <1>3, OnlySelects
<1> HIDE DEF f, id
<1>5. f \in Seq(1..n)
  <2> DEFINE V == 1..n
  <2>1. id \in Seq(V)
    BY <1>3
  <2>2. f \in Seq(V \cap S)
    <3> HIDE DEF V, S
    <3> QED BY <2>1, OnlyKeeps DEF f
  <2>3. \A i \in 1..Len(f) : f[i] \in V
    <3> HIDE DEF V, S
    <3> QED BY <2>2
  <2>4. Len(f) \in Nat /\ f = [i \in 1..Len(f) |-> f[i]]
    <3> HIDE DEF V, S
    <3> QED BY <2>2
  <2>5. f \in Seq(V)
    <3> HIDE DEF V, S
    <3> QED BY <2>3, <2>4
  <2> QED BY <2>5
<1>6. /\ Len(f) \in Nat /\ DOMAIN f = 1..Len(f) /\ h \in [1..Len(f) -> 1..n]
      /\ \A k \in 1..Len(f) : f[k] = id[h[k]] /\ f[k] \in S
      /\ \A k, l \in 1..Len(f) : k < l => h[k] < h[l]
      /\ \A i \in 1..n : id[i] \in S => \E k \in 1..Len(f) : h[k] = i
  <2> HIDE DEF S
  <2> QED BY <1>3, <1>4 DEF Selects
<1>7. \A k \in 1..Len(f) : f[k] = h[k] /\ f[k] \in 1..n
  <2> HIDE DEF S
  <2> QED BY <1>3, <1>6
<1>8. IsSeq(g) /\ Len(g) = Len(f) /\ DOMAIN g = 1..Len(f)
  <2>1. DOMAIN g = 1..Len(f)
    BY <1>6
  <2>2. g \in Seq(Range(g))
    <3>1. \A a \in 1..Len(f) : g[a] \in Range(g)
      BY <2>1 DEF Range
    <3>2. g = [a \in 1..Len(f) |-> g[a]]
      BY <2>1
    <3> HIDE DEF g
    <3> QED BY <1>6, <3>1, <3>2
  <2> HIDE DEF g
  <2> QED BY <1>6, <2>1, <2>2 DEF IsSeq
<1>9. ASSUME NEW a \in 1..Len(f)
      PROVE  /\ g[a].call = kept[f[a]].call /\ \A j \in 1..f[a] - 1 : kept[j].call # g[a].call
             /\ g[a].by = Askers(kept, g[a].call)
  <2>1. g[a] = [call |-> kept[f[a]].call, by |-> Askers(kept, kept[f[a]].call)]
    BY <1>6, <1>9
  <2>2. g[a].call = kept[f[a]].call
    BY <2>1
  <2>3. g[a].by = Askers(kept, g[a].call)
    BY <2>1, <2>2
  <2>4. \A j \in 1..f[a] - 1 : kept[j].call # kept[f[a]].call
    BY <1>6, <1>9
  <2> HIDE DEF g
  <2> QED BY <2>2, <2>3, <2>4
<1> HIDE DEF g
<1>10. ASSUME NEW a \in 1..Len(f), NEW b \in 1..Len(f), a < b PROVE f[a] < f[b]
  <2> HIDE DEF S
  <2> QED BY <1>6, <1>7, <1>10
<1>11. ASSUME NEW k \in 1..n PROVE \E a \in 1..Len(f) : g[a].call = kept[k].call
  <2> DEFINE Same == {i \in 1..n : kept[i].call = kept[k].call}
  <2>1. Same \in SUBSET Nat /\ Same # {}
    BY <1>2
  <2>2. PICK i \in Same : \A j \in Same : i <= j
    <3> HIDE DEF Same, S
    <3> QED BY <2>1, LeastNumber
  <2>3. i \in S
    <3>1. i \in 1..n /\ kept[i].call = kept[k].call
      BY <2>2
    <3>2. ASSUME NEW j \in 1..i - 1 PROVE kept[j].call # kept[i].call
      <4>1. j \in 1..n /\ ~(i <= j)
        BY <1>2, <3>1
      <4> QED BY <2>2, <3>1, <4>1
    <3> QED BY <1>2, <3>1, <3>2
  <2>4. PICK a \in 1..Len(f) : h[a] = i
    <3> HIDE DEF S
    <3> QED BY <1>3, <1>6, <2>2, <2>3
  <2>5. f[a] = i
    BY <1>7, <2>4
  <2> QED BY <1>9, <2>2, <2>5
<1>12. f \in [1..Len(f) -> 1..n]
  <2>1. f = [a \in 1..Len(f) |-> f[a]]
    BY <1>5
  <2> QED BY <1>7, <2>1
<1>13. Gathers(g, kept, f)
  BY <1>6, <1>8, <1>9, <1>10, <1>11, <1>12 DEF Gathers, n
<1> QED BY <1>1, <1>13
-----------------------------------------------------------------------------
(* What is kept of a round. *)

LEMMA AskedFor ==
    ASSUME Types, NEW r \in Roles
    PROVE  Requests(r) \in Seq(Names) /\ Len(Requests(r)) \in Nat /\ Len(Requests(r)) <= limits.perTurn
<1>1. limits.perTurn \in Nat /\ round \in Nat /\ limits.rounds \in Nat
  BY LimitsAssumption DEF Types
<1>2. CASE round < limits.rounds
  <2>1. Requests(r) \in Seq(Names) /\ Len(Requests(r)) <= Room
    BY <1>2, Requested DEF Asks
  <2>2. Len(Requests(r)) \in Nat
    <3> HIDE DEF Names
    <3> QED BY <2>1
  <2> QED BY <1>1, <2>1, <2>2, RoomIs
<1>3. CASE ~(round < limits.rounds)
  <2>1. Requests(r) = <<>>
    BY <1>3 DEF Requests, When
  <2> QED BY <1>1, <2>1, ShortSequences
<1> QED BY <1>2, <1>3

\* While the round is open a turn has the requests its role would still make, its first turn is that of the
\* first of the team, and nothing is queued.
RoundInv ==
    /\ status = "deliberating" => \A t \in Range(turns) : t.round = round => t.requests = Requests(t.role)
    /\ \A t \in Range(turns) : t.role \in Range(team)
    /\ \A j \in DOMAIN turns : \E i \in 1..j : turns[i].round = turns[j].round /\ turns[i].role = team[1]
    /\ status # "executing" => queue = <<>>
    /\ round <= limits.rounds /\ (status = "executing" => round < limits.rounds)

\* What was said in the round: something by everyone, the first of the team first.
SaidBy(said) ==
    /\ Len(said) \in Nat /\ DOMAIN said = 1..Len(said)
    /\ \A i \in 1..Len(said) : said[i].role \in Range(team) /\ said[i].requests = Requests(said[i].role)
    /\ \A r \in Range(team) : \E i \in 1..Len(said) : said[i].role = r
    /\ Len(said) # 0 => said[1].role = team[1]

LEMMA SaidIs ==
    ASSUME Inv, RoundInv, status = "deliberating", who > Len(team)
    PROVE  SaidBy(ThisRound)
<1> DEFINE S == {t \in Range(turns) : t.round = round}
<1>1. turns \in Seq(Range(turns)) /\ DOMAIN turns = 1..Len(turns) /\ Len(turns) \in Nat
  BY SequencesAre DEF Inv, Types
<1>2. PICK said : said = ThisRound
  OBVIOUS
<1>3. PICK h : Selects(h, turns, Len(turns), S, said)
  <2>1. said = Only(turns, S)
    BY <1>2 DEF ThisRound
  <2> HIDE DEF S
  <2> QED BY <1>1, <2>1, OnlySelects
<1>4. /\ Len(said) \in Nat /\ DOMAIN said = 1..Len(said) /\ h \in [1..Len(said) -> 1..Len(turns)]
      /\ \A k \in 1..Len(said) : said[k] = turns[h[k]] /\ said[k] \in S
      /\ \A k, l \in 1..Len(said) : k < l => h[k] < h[l]
      /\ \A i \in 1..Len(turns) : turns[i] \in S => \E k \in 1..Len(said) : h[k] = i
  <2> HIDE DEF S
  <2> QED BY <1>3 DEF Selects
<1>5. ASSUME NEW i \in 1..Len(said) PROVE said[i].role \in Range(team) /\ said[i].requests = Requests(said[i].role)
  <2>1. said[i] \in Range(turns) /\ said[i].round = round
    BY <1>4
  <2> QED BY <2>1 DEF RoundInv
<1>6. ASSUME NEW r \in Range(team) PROVE \E i \in 1..Len(said) : said[i].role = r
  <2>1. PICK n \in DOMAIN team : team[n] = r
    BY DEF Range
  <2>2. n < who
    BY TeamsAssumption DEF Inv, Types
  <2>3. PICK t \in Range(turns) : t.role = r /\ t.round = round
    BY <2>1, <2>2 DEF Inv, SpokenInv
  <2>4. PICK i \in 1..Len(turns) : turns[i] = t
    BY <1>1 DEF Range
  <2>5. PICK k \in 1..Len(said) : h[k] = i
    BY <1>4, <2>3, <2>4
  <2> QED BY <1>4, <2>3, <2>4, <2>5
<1>7. ASSUME Len(said) # 0 PROVE said[1].role = team[1]
  <2>1. 1 \in 1..Len(said) /\ \A k \in 1..Len(said) : k = 1 \/ 1 < k
    BY <1>4, <1>7
  <2>2. h[1] \in 1..Len(turns) /\ turns[h[1]] = said[1] /\ said[1].round = round
    BY <1>4, <2>1
  <2>3. PICK i \in 1..h[1] : turns[i].round = round /\ turns[i].role = team[1]
    BY <1>1, <2>2 DEF RoundInv
  <2>4. i \in 1..Len(turns) /\ turns[i] \in S
    <3>1. i \in 1..Len(turns)
      BY <1>1, <2>2
    <3> QED BY <1>1, <2>3, <3>1 DEF Range
  <2>5. PICK k \in 1..Len(said) : h[k] = i
    <3> HIDE DEF S
    <3> QED BY <1>4, <2>4
  <2>6. i = h[1]
    <3>1. k = 1 \/ h[1] < h[k]
      <4> HIDE DEF S
      <4> QED BY <1>4, <2>1
    <3> QED BY <2>2, <2>5, <3>1
  <2> QED BY <2>2, <2>3, <2>6
<1> HIDE DEF S
<1> QED BY <1>2, <1>4, <1>5, <1>6, <1>7 DEF SaidBy

\* What is kept of a round is what was asked for in it, first by the first of the team.
Collected(kept) ==
    /\ Len(kept) \in Nat /\ DOMAIN kept = 1..Len(kept)
    /\ \A k \in 1..Len(kept) : kept[k].role \in Range(team) /\ kept[k].call \in Range(Requests(kept[k].role))
    /\ \A r \in Range(team) : \A c \in Range(Requests(r)) : \E k \in 1..Len(kept) : kept[k].call = c /\ kept[k].role = r
    /\ Len(team) # 0 =>
        /\ Len(Requests(team[1])) <= Len(kept)
        /\ \A k \in 1..Len(Requests(team[1])) : kept[k].call = Requests(team[1])[k]

LEMMA KeptIs ==
    ASSUME Types, NEW said, said = ThisRound, SaidBy(said)
    PROVE  Collected(Kept)
<1> DEFINE n == Len(said)
           V == [call : Names, role : Roles]
           of(i) == [k \in 1..Min({limits.perTurn, Len(said[i].requests)}) |-> [call |-> said[i].requests[k], role |-> said[i].role]]
           ss == [i \in DOMAIN said |-> of(i)]
<1>1. Range(team) \subseteq Roles /\ Len(team) \in Nat /\ DOMAIN team = 1..Len(team)
  BY TeamsAssumption DEF Types, Range
<1>2. /\ n \in Nat /\ DOMAIN said = 1..n
      /\ \A i \in 1..n : said[i].role \in Range(team) /\ said[i].requests = Requests(said[i].role)
      /\ \A r \in Range(team) : \E i \in 1..n : said[i].role = r
      /\ n # 0 => said[1].role = team[1]
  BY DEF SaidBy
<1>3. Kept = FlattenSeq(ss)
  BY DEF Kept
<1> HIDE DEF n
<1>4. ASSUME NEW i \in 1..n
      PROVE  LET r == said[i].role
                 q == Requests(r) IN
             /\ r \in Range(team) /\ q \in Seq(Names) /\ Len(q) \in Nat /\ DOMAIN q = 1..Len(q)
             /\ ss[i] \in Seq(V) /\ Len(ss[i]) = Len(q)
             /\ \A k \in 1..Len(q) : ss[i][k].call = q[k] /\ ss[i][k].role = r
  <2> DEFINE r == said[i].role
             q == Requests(r)
  <2>1. r \in Range(team) /\ r \in Roles /\ said[i].requests = q
    BY <1>1, <1>2
  <2> HIDE DEF r
  <2>2. q \in Seq(Names) /\ Len(q) \in Nat /\ Len(q) <= limits.perTurn
    BY <2>1, AskedFor
  <2>3. limits.perTurn \in Nat
    BY LimitsAssumption DEF Types
  <2> HIDE DEF q
  <2>4. Min({limits.perTurn, Len(q)}) = Len(q)
    BY <2>2, <2>3, MinOfTwo
  <2>5. ss[i] = [k \in 1..Len(q) |-> [call |-> q[k], role |-> r]]
    BY <1>2, <2>1, <2>4 DEF r
  <2>6. DOMAIN q = 1..Len(q) /\ \A k \in 1..Len(q) : q[k] \in Names
    <3> HIDE DEF Names
    <3> QED BY <2>2
  <2> HIDE DEF ss
  <2>7. ss[i] \in Seq(V) /\ Len(ss[i]) = Len(q)
    <3>1. \A k \in 1..Len(q) : [call |-> q[k], role |-> r] \in V
      BY <2>1, <2>6
    <3> HIDE DEF V
    <3> QED BY <2>2, <2>5, <3>1
  <2>8. \A k \in 1..Len(q) : ss[i][k].call = q[k] /\ ss[i][k].role = r
    BY <2>5
  <2> HIDE DEF V
  <2> QED BY <2>1, <2>2, <2>6, <2>7, <2>8 DEF r, q
<1>5. ss \in Seq(Seq(V)) /\ Len(ss) = n
  <2> DEFINE U == Seq(V)
  <2>1. \A i \in 1..n : ss[i] \in U
    BY <1>4
  <2>2. ss = [i \in 1..n |-> ss[i]]
    BY <1>2
  <2> HIDE DEF ss, U
  <2>3. ss \in Seq(U) /\ Len(ss) = n
    BY <1>2, <2>1, <2>2
  <2> QED BY <2>3 DEF U
<1> HIDE DEF ss, V
<1> DEFINE kept == FlattenSeq(ss)
<1>6. CASE n = 0
  <2>1. Range(team) = {}
    BY <1>2, <1>6
  <2>2. Len(team) = 0
    <3>1. Len(team) # 0 => 1 \in DOMAIN team
      BY <1>1
    <3>2. 1 \in DOMAIN team => team[1] \in Range(team)
      BY DEF Range
    <3> QED BY <2>1, <3>1, <3>2
  <2>3. kept = <<>>
    <3>1. ss = <<>>
      BY <1>5, <1>6
    <3> QED BY <3>1, FlattenIsChosen
  <2>4. Len(kept) = 0 /\ DOMAIN kept = {} /\ 1..0 = {}
    BY <2>3
  <2> HIDE DEF kept
  <2>5. Collected(kept)
    BY <2>1, <2>2, <2>4 DEF Collected
  <2> QED BY <1>3, <2>5 DEF kept
<1>7. CASE n # 0
  <2>1. kept \in Seq(V) /\ Joins(ss, n, kept)
    BY <1>5, <1>7, FlattenJoins
  <2>2. Len(kept) \in Nat /\ DOMAIN kept = 1..Len(kept)
    <3> HIDE DEF kept
    <3> QED BY <2>1
  <2> HIDE DEF kept
  <2>3. /\ Len(ss[1]) <= Len(kept) /\ \A k \in 1..Len(ss[1]) : kept[k] = ss[1][k]
        /\ \A k \in 1..Len(kept) : \E i \in 1..n : \E l \in 1..Len(ss[i]) : kept[k] = ss[i][l]
        /\ \A i \in 1..n : \A l \in 1..Len(ss[i]) : \E k \in 1..Len(kept) : kept[k] = ss[i][l]
    BY <2>1 DEF Joins
  <2>4. ASSUME NEW k \in 1..Len(kept) PROVE kept[k].role \in Range(team) /\ kept[k].call \in Range(Requests(kept[k].role))
    <3>1. PICK i \in 1..n : \E l \in 1..Len(ss[i]) : kept[k] = ss[i][l]
      BY <2>3
    <3>2. PICK l \in 1..Len(ss[i]) : kept[k] = ss[i][l]
      BY <3>1
    <3> DEFINE r == said[i].role
               q == Requests(r)
    <3>3. r \in Range(team) /\ DOMAIN q = 1..Len(q) /\ l \in 1..Len(q) /\ ss[i][l].call = q[l] /\ ss[i][l].role = r
      BY <1>4
    <3>4. q[l] \in Range(q)
      <4> HIDE DEF q, r
      <4> QED BY <3>3 DEF Range
    <3> QED BY <3>3, <3>4, <3>2
  <2>5. ASSUME NEW r \in Range(team), NEW c \in Range(Requests(r))
        PROVE  \E k \in 1..Len(kept) : kept[k].call = c /\ kept[k].role = r
    <3>1. PICK i \in 1..n : said[i].role = r
      BY <1>2
    <3> DEFINE q == Requests(r)
    <3>2. DOMAIN q = 1..Len(q) /\ Len(ss[i]) = Len(q) /\ \A l \in 1..Len(q) : ss[i][l].call = q[l] /\ ss[i][l].role = r
      BY <1>4, <3>1
    <3>3. PICK l \in 1..Len(q) : q[l] = c
      <4>1. c \in Range(q)
        OBVIOUS
      <4> HIDE DEF q
      <4> QED BY <3>2, <4>1 DEF Range
    <3>4. PICK k \in 1..Len(kept) : kept[k] = ss[i][l]
      BY <2>3, <3>2, <3>3
    <3> QED BY <3>2, <3>3, <3>4
  <2>6. /\ Len(Requests(team[1])) <= Len(kept)
        /\ \A k \in 1..Len(Requests(team[1])) : kept[k].call = Requests(team[1])[k]
    <3> DEFINE q == Requests(team[1])
    <3>1. 1 \in 1..n /\ said[1].role = team[1]
      BY <1>2, <1>7
    <3>2. Len(ss[1]) = Len(q) /\ \A l \in 1..Len(q) : ss[1][l].call = q[l]
      BY <1>4, <3>1
    <3> HIDE DEF q
    <3>3. Len(q) <= Len(kept) /\ \A k \in 1..Len(q) : kept[k].call = q[k]
      BY <2>3, <3>2
    <3> QED BY <3>3 DEF q
  <2>7. Collected(kept)
    BY <2>2, <2>4, <2>5, <2>6 DEF Collected
  <2> QED BY <1>3, <2>7 DEF kept
<1> QED BY <1>6, <1>7
-----------------------------------------------------------------------------
(* What the one who measures and the others ask for. *)

LEMMA RangeSize ==
    ASSUME NEW q, Len(q) \in Nat, q \in [1..Len(q) -> Range(q)], DOMAIN q = 1..Len(q)
    PROVE  /\ IsFiniteSet(Range(q)) /\ Cardinality(Range(q)) \in Nat /\ Cardinality(Range(q)) <= Len(q)
           /\ (\A i, j \in 1..Len(q) : q[i] = q[j] => i = j) => Cardinality(Range(q)) = Len(q)
<1>1. q \in Surjection(1..Len(q), Range(q))
  BY DEF Surjection, Range
<1>2. IsFiniteSet(1..Len(q)) /\ Cardinality(1..Len(q)) = Len(q)
  <2>1. Len(q) \in Int /\ 1 \in Int /\ (IF 1 > Len(q) THEN 0 ELSE Len(q) - 1 + 1) = Len(q)
    OBVIOUS
  <2> QED BY <2>1, FS_Interval
<1>3. /\ IsFiniteSet(Range(q)) /\ Cardinality(Range(q)) <= Cardinality(1..Len(q))
      /\ Cardinality(Range(q)) = Cardinality(1..Len(q)) <=> q \in Injection(1..Len(q), Range(q))
  BY <1>1, <1>2, FS_Surjection
<1>4. Cardinality(Range(q)) \in Nat
  BY <1>3, FS_CardinalityType
<1>5. ASSUME \A i, j \in 1..Len(q) : q[i] = q[j] => i = j PROVE q \in Injection(1..Len(q), Range(q))
  BY <1>5 DEF Injection, IsInjective
<1> QED BY <1>2, <1>3, <1>4, <1>5

LEMMA NamesAreFinite == ASSUME NEW S \in SUBSET Names PROVE IsFiniteSet(S) /\ Cardinality(S) \in Nat
<1>1. IsFiniteSet({})
  BY FS_EmptySet
<1>2. ASSUME NEW x, NEW y, NEW z, NEW u PROVE IsFiniteSet({x, y, z, u})
  <2>1. IsFiniteSet({x})
    BY FS_Singleton
  <2>2. IsFiniteSet({x} \cup {y})
    BY <2>1, FS_AddElement
  <2>3. IsFiniteSet({x} \cup {y} \cup {z})
    BY <2>2, FS_AddElement
  <2>4. IsFiniteSet({x} \cup {y} \cup {z} \cup {u})
    BY <2>3, FS_AddElement
  <2>5. {x} \cup {y} \cup {z} \cup {u} = {x, y, z, u}
    OBVIOUS
  <2> QED BY <2>4, <2>5
<1> DEFINE A == {"bottleneck", "forecast", "cost", "estimate"}
           B == {"explain", "index", "growth", "rewrite"}
           C == {"nights", "sensitivity", "top", "night"}
           D == {"skew", "skew", "skew", "skew"}
<1>3. IsFiniteSet(A) /\ IsFiniteSet(B) /\ IsFiniteSet(C) /\ IsFiniteSet(D)
  BY <1>2
<1>4. Names = A \cup B \cup C \cup D
  BY DEF Names
<1> HIDE DEF A, B, C, D
<1>5. IsFiniteSet(Names)
  <2>1. IsFiniteSet(A \cup B)
    BY <1>3, FS_Union
  <2>2. IsFiniteSet(A \cup B \cup C)
    BY <1>3, <2>1, FS_Union
  <2>3. IsFiniteSet(A \cup B \cup C \cup D)
    BY <1>3, <2>2, FS_Union
  <2> QED BY <1>4, <2>3
<1> QED BY <1>5, FS_Subset, FS_CardinalityType

LEMMA EarlyAreFour == Cardinality({Opening, "bottleneck", "index", "forecast"}) = 4
<1>1. Opening \in {"estimate", "explain"}
  BY DEF Opening
<1>2. PICK w, x, y, z : w = Opening /\ x = "bottleneck" /\ y = "index" /\ z = "forecast"
  OBVIOUS
<1>3. IsFiniteSet({w}) /\ Cardinality({w}) = 1 /\ x \notin {w}
  BY <1>1, <1>2, FS_Singleton
<1>4. PICK S : S = {w} \cup {x}
  OBVIOUS
<1>5. IsFiniteSet(S) /\ Cardinality(S) = 2 /\ y \notin S
  BY <1>1, <1>2, <1>3, <1>4, FS_AddElement
<1>6. PICK T : T = S \cup {y}
  OBVIOUS
<1>7. IsFiniteSet(T) /\ Cardinality(T) = 3 /\ z \notin T
  BY <1>1, <1>2, <1>4, <1>5, <1>6, FS_AddElement
<1>8. Cardinality(T \cup {z}) = 4
  BY <1>7, FS_AddElement
<1>9. T \cup {z} = {Opening, "bottleneck", "index", "forecast"}
  BY <1>2, <1>4, <1>6
<1> QED BY <1>8, <1>9

LEMMA PreludeIsAtMostThree ==
    ASSUME NEW r
    PROVE  IsFiniteSet(Prelude(r)) /\ Cardinality(Prelude(r)) \in Nat /\ Cardinality(Prelude(r)) <= 3
<1>1. PICK x, y, z : x = "nights" /\ y = "sensitivity" /\ z = "top"
  OBVIOUS
<1>2. IsFiniteSet({x}) /\ Cardinality({x}) = 1
  BY FS_Singleton
<1>3. IsFiniteSet({x} \cup {y}) /\ Cardinality({x} \cup {y}) \in {1, 2}
  BY <1>2, FS_AddElement
<1>4. PICK S : S = {x} \cup {y}
  OBVIOUS
<1>5. IsFiniteSet(S \cup {z}) /\ Cardinality(S \cup {z}) \in {1, 2, 3}
  BY <1>3, <1>4, FS_AddElement
<1>6. S \cup {z} = {"nights", "sensitivity", "top"}
  BY <1>1, <1>4
<1>7. IsFiniteSet({"cost"}) /\ Cardinality({"cost"}) = 1
  BY FS_Singleton
<1>8. CASE r = "application"
  BY <1>5, <1>6, <1>8 DEF Prelude
<1>9. CASE r # "application"
  BY <1>7, <1>9 DEF Prelude
<1> QED BY <1>8, <1>9

\* Who measures is alone in doing so, and first in the team.
LEMMA OneLead ==
    ASSUME Types, NEW m \in Range(team) \cap Measurers
    PROVE  Len(team) # 0 /\ m = team[1] /\ \A r \in Range(team) \cap Measurers : r = m
<1>1. \A n \in DOMAIN team : team[n] \in Measurers => n = 1
  BY LeadAssumption DEF Types
<1>2. \A r \in Range(team) \cap Measurers : r = team[1] /\ 1 \in DOMAIN team
  BY <1>1 DEF Range
<1>3. DOMAIN team = 1..Len(team) /\ Len(team) \in Nat
  BY TeamsAssumption DEF Types
<1> QED BY <1>2, <1>3

\* What who measures is free to ask for.
LEMMA LeadIsFree ==
    ASSUME NEW m \in Measurers
    PROVE  /\ "forecast" \in Asked(m) \cup Free(m) /\ Free(m) \cap Asked(m) = {}
           /\ ("index" \in Free(m) \/ "rewrite" \in Free(m) => Rooted)
           /\ (Rooted => Early \subseteq Asked(m) \cup Free(m))
<1>1. PICK S : /\ Ascends(Wants(m), LeadRank, 1, 9, S) /\ "forecast" \in S
               /\ ("index" \in S \/ "rewrite" \in S => Rooted)
               /\ (Rooted => Early \subseteq S)
  BY LeadAscends
<1>2. S = Range(Wants(m))
  BY <1>1 DEF Ascends
<1>3. \A c \in {"forecast", "estimate", "explain", "bottleneck", "index"} : Tool(c) \in MayUse[m]
  BY DEF Tool, MayUse, Measurers
<1>4. Early \subseteq {"estimate", "explain", "bottleneck", "index"}
  BY DEF Early, Opening
<1> QED BY <1>1, <1>2, <1>3, <1>4 DEF Free

\* And what the others are.
LEMMA OtherIsFree ==
    ASSUME NEW r \in Roles \ Measurers
    PROVE  /\ "forecast" \in Asked(r) \cup Free(r) /\ Free(r) \cap Asked(r) = {}
           /\ "index" \notin Free(r) /\ "rewrite" \notin Free(r)
           /\ \A c \in Free(r) : c # "forecast" /\ ~(OtherRank["forecast"] < OtherRank[c]) => c \in Prelude(r)
<1>1. PICK S : /\ Ascends(Wants(r), OtherRank, 1, 9, S) /\ "forecast" \in S /\ "index" \notin S /\ "rewrite" \notin S
               /\ \A c \in S : OtherRank[c] < 5 => c \in Prelude(r)
  BY OtherAscends
<1>2. S = Range(Wants(r)) /\ S \subseteq Names
  BY <1>1 DEF Ascends, Range
<1>3. Tool("forecast") \in MayUse[r]
  BY DEF Tool, MayUse, Roles, Measurers
<1>4. ASSUME NEW c \in Free(r), c # "forecast", ~(OtherRank["forecast"] < OtherRank[c]) PROVE c \in Prelude(r)
  <2>1. c \in S /\ c \in Names
    BY <1>2 DEF Free
  <2>2. OtherRank["forecast"] = 5 /\ OtherRank[c] \in Nat
    BY <2>1, OtherRankIs
  <2>3. OtherRank[c] # 5
    BY <2>1, <1>4 DEF OtherRank, Names
  <2>4. OtherRank[c] < 5
    BY <1>4, <2>2, <2>3
  <2> QED BY <1>1, <2>1, <2>4
<1> QED BY <1>1, <1>2, <1>3, <1>4 DEF Free
-----------------------------------------------------------------------------
(* The one who measures keeps an order, and the others keep pace. *)

\* What is queued for a role, and what it has asked for or will have.
Pending(r) == {queue[k].call : k \in {j \in DOMAIN queue : r \in queue[j].by}}
Claimed(r) == Asked(r) \cup Pending(r)
Leads == Range(team) \cap Measurers

\* While there are calls left, who measures has asked for the forecast after what a fixture allows, and for the
\* rewrites after the forecast.
LeadKeeps(A) ==
    /\ "forecast" \in A /\ Rooted => Early \subseteq A
    /\ "rewrite" \in A => Rooted /\ "forecast" \in A

\* The others, who ask for the forecast early, have it or have asked for as much as the one who measures.
Paces(A, B, r) == "forecast" \in B \/ (B \subseteq Prelude(r) /\ Cardinality(A) <= Cardinality(B))

CallsLeft == Len(items) < limits.calls
LeadInv == CallsLeft => \A m \in Leads : LeadKeeps(Claimed(m))
PaceInv == CallsLeft => \A m \in Leads : \A r \in Range(team) \ Measurers : Paces(Claimed(m), Claimed(r), r)

LEMMA LeadAsks ==
    ASSUME Types, round < limits.rounds, NEW m \in Leads, LeadKeeps(Asked(m))
    PROVE  LeadKeeps(Asked(m) \cup Range(Requests(m)))
<1>1. m \in Roles /\ m \in Measurers
  BY DEF Leads, Roles, Measurers
<1>2. PICK q : q = Requests(m)
  OBVIOUS
<1>3. /\ Range(q) \subseteq Free(m)
      /\ \A x \in Range(q) : \A y \in Free(m) : LeadRank[y] < LeadRank[x] => y \in Range(q)
  BY <1>1, <1>2, Requested DEF Asks, RankFor
<1>4. ASSUME "forecast" \in Range(q), Rooted, NEW y \in Early PROVE y \in Asked(m) \cup Range(q)
  <2>1. y \in Asked(m) \cup Free(m)
    BY <1>1, <1>4, LeadIsFree
  <2>2. LeadRank[y] < LeadRank["forecast"]
    BY LeadRankIs DEF Early, Opening
  <2> QED BY <1>3, <1>4, <2>1, <2>2
<1>5. ASSUME "rewrite" \in Range(q) PROVE Rooted /\ "forecast" \in Asked(m) \cup Range(q)
  <2>1. Rooted /\ "forecast" \in Asked(m) \cup Free(m)
    BY <1>1, <1>3, <1>5, LeadIsFree
  <2>2. LeadRank["forecast"] < LeadRank["rewrite"]
    BY LeadRankIs
  <2> QED BY <1>3, <1>5, <2>1, <2>2
<1> QED BY <1>2, <1>4, <1>5 DEF LeadKeeps

LEMMA OthersAsk ==
    ASSUME Types, round < limits.rounds, NEW m \in Leads, NEW r \in Range(team) \ Measurers,
           Asked(m) \subseteq Names, Asked(r) \subseteq Names, Paces(Asked(m), Asked(r), r)
    PROVE  Paces(Asked(m) \cup Range(Requests(m)), Asked(r) \cup Range(Requests(r)), r)
<1>1. m \in Roles /\ r \in Roles \ Measurers
  BY TeamsAssumption DEF Leads, Roles, Measurers, Types, Range
<1>2. PICK p, q : p = Requests(m) /\ q = Requests(r)
  OBVIOUS
<1>3. /\ Asks(p, RankFor(m), Free(m), Room) /\ Asks(q, OtherRank, Free(r), Room)
      /\ OtherRank \in [Names -> Nat] /\ Room \in Nat
  BY <1>1, <1>2, Requested, RoomIs DEF RankFor
<1>4. /\ p \in Seq(Names) /\ Len(p) <= Room /\ q \in Seq(Names) /\ Len(q) <= Room /\ Range(q) \subseteq Free(r)
      /\ \A i, j \in 1..Len(q) : i < j => OtherRank[q[i]] < OtherRank[q[j]]
      /\ \A x \in Range(q) : \A y \in Free(r) : OtherRank[y] < OtherRank[x] => y \in Range(q)
      /\ \A y \in Free(r) : y \in Range(q) \/ Len(q) = Room
  BY <1>3 DEF Asks
<1> SUFFICES ASSUME "forecast" \notin Asked(r), "forecast" \notin Range(q)
             PROVE  /\ Asked(r) \cup Range(q) \subseteq Prelude(r)
                    /\ Cardinality(Asked(m) \cup Range(p)) <= Cardinality(Asked(r) \cup Range(q))
  BY <1>2 DEF Paces
<1>5. Asked(r) \subseteq Prelude(r) /\ Cardinality(Asked(m)) <= Cardinality(Asked(r))
  BY DEF Paces
<1>6. "forecast" \in Free(r) /\ Free(r) \cap Asked(r) = {}
  BY <1>1, OtherIsFree
<1>7. Len(q) = Room
  BY <1>4, <1>6
<1>8. Range(q) \subseteq Prelude(r)
  <2>1. ASSUME NEW c \in Range(q) PROVE c \in Prelude(r)
    <3>1. c \in Free(r) /\ c # "forecast" /\ ~(OtherRank["forecast"] < OtherRank[c])
      BY <1>4, <1>6
    <3> QED BY <1>1, <3>1, OtherIsFree
  <2> QED BY <2>1
<1>9. ASSUME NEW s \in Seq(Names)
      PROVE  Len(s) \in Nat /\ s \in [1..Len(s) -> Range(s)] /\ DOMAIN s = 1..Len(s) /\ Range(s) \subseteq Names
  <2>1. Len(s) \in Nat /\ DOMAIN s = 1..Len(s) /\ s = [i \in 1..Len(s) |-> s[i]] /\ \A i \in 1..Len(s) : s[i] \in Names
    <3> HIDE DEF Names
    <3> QED BY <1>9
  <2>2. \A i \in 1..Len(s) : s[i] \in Range(s)
    BY <2>1 DEF Range
  <2>3. s \in [1..Len(s) -> Range(s)]
    BY <2>1, <2>2
  <2> QED BY <2>1, <2>3 DEF Range
<1>10. Cardinality(Range(p)) <= Room /\ Range(p) \subseteq Names
  <2>1. Cardinality(Range(p)) <= Len(p) /\ Cardinality(Range(p)) \in Nat
    BY <1>4, <1>9, RangeSize
  <2>2. Len(p) \in Nat
    BY <1>4, <1>9
  <2> QED BY <1>3, <1>4, <1>9, <2>1, <2>2
<1>11. Cardinality(Range(q)) = Room /\ Range(q) \subseteq Names
  <2>1. \A i \in 1..Len(q) : q[i] \in Names
    <3> HIDE DEF Names
    <3> QED BY <1>4
  <2>2. ASSUME NEW i \in 1..Len(q), NEW j \in 1..Len(q), q[i] = q[j] PROVE i = j
    <3>1. OtherRank[q[i]] \in Nat /\ OtherRank[q[i]] = OtherRank[q[j]]
      BY <1>3, <2>1, <2>2
    <3>2. ~(i < j) /\ ~(j < i)
      BY <1>4, <3>1
    <3>3. Len(q) \in Nat
      BY <1>3, <1>7
    <3> QED BY <3>2, <3>3
  <2>3. Cardinality(Range(q)) = Len(q)
    BY <1>4, <1>9, <2>2, RangeSize
  <2> QED BY <1>4, <1>7, <1>9, <2>3
<1> DEFINE A == Asked(m)
           B == Asked(r)
           P == Range(p)
           Q == Range(q)
<1>12. IsFiniteSet(A) /\ IsFiniteSet(B) /\ IsFiniteSet(P) /\ IsFiniteSet(Q) /\ A \cap P \subseteq Names
  BY <1>10, <1>11, NamesAreFinite
<1>13. Cardinality(A) \in Nat /\ Cardinality(B) \in Nat /\ Cardinality(P) \in Nat /\ Cardinality(Q) \in Nat
       /\ Cardinality(A \cap P) \in Nat
  BY <1>10, <1>11, <1>12, NamesAreFinite
<1>14. B \cap Q = {}
  BY <1>4, <1>6
<1> HIDE DEF A, B, P, Q
<1>15. Cardinality(A \cup P) = Cardinality(A) + Cardinality(P) - Cardinality(A \cap P)
  BY <1>12, FS_Union
<1>16. Cardinality(B \cup Q) = Cardinality(B) + Cardinality(Q) - Cardinality(B \cap Q)
  BY <1>12, FS_Union
<1>17. Cardinality(B \cap Q) = 0
  BY <1>14, FS_EmptySet
<1>18. Cardinality(A \cup P) <= Cardinality(B \cup Q)
  <2>1. Cardinality(P) <= Room /\ Cardinality(Q) = Room /\ Cardinality(A) <= Cardinality(B)
    BY <1>5, <1>10, <1>11 DEF A, B, P, Q
  <2> QED BY <1>3, <1>13, <1>15, <1>16, <1>17, <2>1
<1> QED BY <1>5, <1>8, <1>18 DEF A, B, P, Q

\* Once who measures has the forecast, and the root has a fixture, nobody asks for it.
LEMMA NobodyAsksLate ==
    ASSUME Types, round < limits.rounds, NEW m \in Leads, Rooted, "forecast" \in Asked(m), LeadKeeps(Asked(m)),
           NEW r \in Range(team), Asked(m) \subseteq Names, r \notin Measurers => Paces(Asked(m), Asked(r), r)
    PROVE  "forecast" \notin Range(Requests(r))
<1>1. m \in Measurers /\ r \in Roles
  BY TeamsAssumption DEF Leads, Types, Range
<1>2. Range(Requests(r)) \subseteq Free(r)
  BY <1>1, Requested DEF Asks
<1>3. CASE r \in Measurers
  <2>1. r = m
    BY <1>3, OneLead DEF Leads
  <2> QED BY <1>1, <1>2, <2>1, LeadIsFree
<1>4. CASE r \notin Measurers
  <2> SUFFICES ASSUME "forecast" \in Range(Requests(r)) PROVE FALSE
    OBVIOUS
  <2>1. "forecast" \notin Asked(r)
    BY <1>1, <1>2, <1>4, OtherIsFree
  <2>2. Asked(r) \subseteq Prelude(r) /\ Cardinality(Asked(m)) <= Cardinality(Asked(r))
    BY <1>4, <2>1 DEF Paces
  <2> DEFINE F == {Opening, "bottleneck", "index", "forecast"}
  <2>3. F \subseteq Asked(m)
    BY DEF LeadKeeps, Early
  <2>4. F \subseteq Names /\ Prelude(r) \subseteq Names
    BY <2>3 DEF Prelude, Names
  <2>5. Opening \in {"estimate", "explain"}
    BY DEF Opening
  <2>6. Cardinality(F) = 4
    BY EarlyAreFour
  <2>7. IsFiniteSet(Prelude(r)) /\ Cardinality(Prelude(r)) \in Nat /\ Cardinality(Prelude(r)) <= 3
    BY PreludeIsAtMostThree
  <2> HIDE DEF F
  <2>8. IsFiniteSet(Asked(m)) /\ Cardinality(Asked(m)) \in Nat
    BY <2>4, NamesAreFinite
  <2>9. Cardinality(F) <= Cardinality(Asked(m)) /\ Cardinality(Asked(r)) <= Cardinality(Prelude(r))
    BY <2>2, <2>3, <2>7, <2>8, FS_Subset
  <2>10. Cardinality(Asked(r)) \in Nat
    <3>1. Asked(r) \subseteq Names
      BY <2>2, <2>4
    <3> QED BY <3>1, NamesAreFinite
  <2> QED BY <2>2, <2>6, <2>7, <2>8, <2>9, <2>10
<1> QED BY <1>3, <1>4
-----------------------------------------------------------------------------
(* What is queued for a round. *)

\* A request of some of the team; only who measures makes those that measure.
Proper(g) ==
    /\ g.by # {} /\ g.by \subseteq Range(team) /\ g.call \in Names
    /\ g.call \in {"index", "rewrite"} => g.by \subseteq Measurers

\* What is queued, recorded and found is properly asked for, and what is found has been asked for.
AskedInv ==
    /\ IsSeq(queue)
    /\ \A k \in DOMAIN queue : Proper(queue[k])
    /\ \A i \in DOMAIN records : Proper(records[i])
    /\ \A i \in DOMAIN items : Proper(items[i]) /\ \A r \in items[i].by : items[i].call \in Asked(r)

\* No forecast is queued behind a rewrite, and no index behind the forecast of the one who measures.
OrderedFor(m, g) ==
    /\ "rewrite" \in Asked(m) => \A k \in DOMAIN g : g[k].call # "forecast"
    /\ \A k, l \in DOMAIN g : k < l /\ g[k].call = "rewrite" => g[l].call # "forecast"
    /\ "forecast" \in Asked(m) => \A k \in DOMAIN g : g[k].call # "index"
    /\ \A k, l \in DOMAIN g : k < l /\ g[k].call = "forecast" /\ m \in g[k].by => g[l].call # "index"
QueueInv == \A m \in Leads : OrderedFor(m, queue)

LEMMA AskedAreNames == ASSUME AskedInv, NEW r PROVE Asked(r) \subseteq Names
BY DEF AskedInv, Proper, Asked

\* g has what is asked for in the round, each request once, by all who make it.
Requesting(g) ==
    /\ IsSeq(g) /\ Len(g) \in Nat /\ DOMAIN g = 1..Len(g)
    /\ \A a \in 1..Len(g) : g[a].by # {} /\ g[a].by = {r \in Range(team) : g[a].call \in Range(Requests(r))}
    /\ \A r \in Range(team) : \A c \in Range(Requests(r)) : \E a \in 1..Len(g) : g[a].call = c

LEMMA GroupsRequest ==
    ASSUME NEW kept, NEW g, NEW f, Collected(kept), Gathers(g, kept, f)
    PROVE  Requesting(g)
<1>1. /\ IsSeq(g) /\ Len(g) \in Nat /\ DOMAIN g = 1..Len(g) /\ f \in [1..Len(g) -> 1..Len(kept)]
      /\ \A a \in 1..Len(g) : g[a].call = kept[f[a]].call /\ g[a].by = Askers(kept, g[a].call)
      /\ \A k \in 1..Len(kept) : \E a \in 1..Len(g) : g[a].call = kept[k].call
  BY DEF Gathers
<1>2. /\ Len(kept) \in Nat /\ DOMAIN kept = 1..Len(kept)
      /\ \A k \in 1..Len(kept) : kept[k].role \in Range(team) /\ kept[k].call \in Range(Requests(kept[k].role))
      /\ \A r \in Range(team) : \A c \in Range(Requests(r)) : \E k \in 1..Len(kept) : kept[k].call = c /\ kept[k].role = r
  BY DEF Collected
<1>3. ASSUME NEW a \in 1..Len(g)
      PROVE  g[a].by # {} /\ g[a].by = {r \in Range(team) : g[a].call \in Range(Requests(r))}
  <2>1. PICK c : c = g[a].call
    OBVIOUS
  <2>2. f[a] \in 1..Len(kept) /\ kept[f[a]].call = c
    BY <1>1, <2>1
  <2>3. kept[f[a]].role \in Askers(kept, c)
    BY <1>2, <2>2 DEF Askers
  <2>4. ASSUME NEW r PROVE r \in Askers(kept, c) <=> r \in Range(team) /\ c \in Range(Requests(r))
    <3>1. ASSUME r \in Askers(kept, c) PROVE r \in Range(team) /\ c \in Range(Requests(r))
      <4>1. PICK j \in 1..Len(kept) : kept[j].call = c /\ kept[j].role = r
        BY <1>2, <3>1 DEF Askers
      <4> QED BY <1>2, <4>1
    <3>2. ASSUME r \in Range(team) /\ c \in Range(Requests(r)) PROVE r \in Askers(kept, c)
      <4>1. PICK j \in 1..Len(kept) : kept[j].call = c /\ kept[j].role = r
        BY <1>2, <3>2
      <4> QED BY <1>2, <4>1 DEF Askers
    <3> QED BY <3>1, <3>2
  <2>5. Askers(kept, c) = {r \in Range(team) : c \in Range(Requests(r))}
    BY <2>4
  <2> QED BY <1>1, <2>1, <2>3, <2>5
<1>4. ASSUME NEW r \in Range(team), NEW c \in Range(Requests(r)) PROVE \E a \in 1..Len(g) : g[a].call = c
  BY <1>1, <1>2
<1> QED BY <1>1, <1>3, <1>4 DEF Requesting

\* Of what the first of the team asks for, what it asks for first is executed first.
LEMMA LeadIsFirst ==
    ASSUME Types, round < limits.rounds, NEW m \in Leads, NEW kept, NEW g, NEW f, Collected(kept), Gathers(g, kept, f),
           NEW x \in Range(Requests(m)), NEW y \in Range(Requests(m)), LeadRank[x] < LeadRank[y],
           NEW a \in DOMAIN g, NEW b \in DOMAIN g, g[a].call = x, g[b].call = y
    PROVE  a < b
<1>1. m = team[1] /\ Len(team) # 0 /\ m \in Roles /\ m \in Measurers
  BY OneLead DEF Leads, Roles, Measurers
<1>2. PICK q : q = Requests(m)
  OBVIOUS
<1>3. /\ q \in Seq(Names) /\ \A i, j \in 1..Len(q) : i < j => LeadRank[q[i]] < LeadRank[q[j]]
  BY <1>1, <1>2, Requested DEF Asks, RankFor
<1>4. Len(q) \in Nat /\ DOMAIN q = 1..Len(q) /\ \A i \in 1..Len(q) : q[i] \in Names
  <2> HIDE DEF Names
  <2> QED BY <1>3
<1>5. PICK i \in 1..Len(q) : q[i] = x
  BY <1>2, <1>4 DEF Range
<1>6. PICK j \in 1..Len(q) : q[j] = y
  BY <1>2, <1>4 DEF Range
<1>7. \A k \in 1..Len(q) : LeadRank[q[k]] \in Nat
  BY <1>4, LeadRankIs
<1>8. i < j
  <2>1. i = j \/ j < i \/ i < j
    BY <1>4
  <2> QED BY <1>3, <1>5, <1>6, <1>7, <2>1
<1>9. Len(q) <= Len(kept) /\ \A k \in 1..Len(q) : kept[k].call = q[k]
  BY <1>1, <1>2 DEF Collected
<1>10. /\ DOMAIN g = 1..Len(g) /\ Len(g) \in Nat /\ f \in [1..Len(g) -> 1..Len(kept)] /\ Len(kept) \in Nat
       /\ \A c \in 1..Len(g) : g[c].call = kept[f[c]].call /\ \A k \in 1..f[c] - 1 : kept[k].call # g[c].call
       /\ \A c, d \in 1..Len(g) : c < d => f[c] < f[d]
  BY DEF Gathers, Collected
<1>11. f[a] \in 1..Len(kept) /\ f[b] \in 1..Len(kept)
  BY <1>10
<1>12. f[a] <= i
  <2>1. i \notin 1..f[a] - 1
    BY <1>5, <1>9, <1>10
  <2> QED BY <1>4, <1>11, <2>1
<1>13. f[b] = j
  <2>1. j \notin 1..f[b] - 1
    BY <1>6, <1>9, <1>10
  <2>2. f[b] <= j
    BY <1>4, <1>11, <2>1
  <2>3. f[b] \in 1..Len(q) /\ q[f[b]] = y
    <3>1. f[b] \in 1..Len(q)
      BY <1>4, <1>11, <2>2
    <3> QED BY <1>9, <1>10, <3>1
  <2>4. ~(f[b] < j)
    BY <1>3, <1>6, <1>7, <2>3
  <2> QED BY <1>4, <1>11, <2>2, <2>4
<1>14. ~(b < a) /\ a # b
  <2>1. f[a] < f[b]
    BY <1>4, <1>8, <1>11, <1>12, <1>13
  <2> QED BY <1>10, <1>11, <2>1
<1> QED BY <1>10, <1>14
-----------------------------------------------------------------------------
(* The end of a round. *)

\* The end of a round either queues what was asked for in it, or queues nothing and ends the run.
LEMMA EndIs ==
    ASSUME Inv, RoundInv, EndRound
    PROVE  /\ queue = <<>> /\ records' = records /\ UNCHANGED <<inputs, round, who, turns, items, effects>>
           /\ \/ queue' = <<>> /\ status' = "concluded"
              \/ /\ status' = "executing" /\ round < limits.rounds
                 /\ \E kept, f : Collected(kept) /\ Gathers(queue', kept, f)
<1>1. status = "deliberating" /\ who > Len(team) /\ UNCHANGED <<inputs, round, who, turns, items, effects>>
  BY DEF EndRound
<1>2. queue = <<>> /\ records' = records
  BY <1>1, NoMoreRecords DEF RoundInv, Inv
<1>3. CASE queue' = <<>> /\ status' = "concluded"
  BY <1>1, <1>2, <1>3
<1>4. CASE round # limits.rounds /\ status' = "executing" /\ queue' = Groups(Kept)
  <2>1. round < limits.rounds
    <3>1. round <= limits.rounds /\ round \in Nat /\ limits.rounds \in Nat
      BY LimitsAssumption DEF RoundInv, Inv, Types
    <3> QED BY <1>4, <3>1
  <2>2. PICK kept : kept = Kept
    OBVIOUS
  <2>3. Collected(kept)
    BY <1>1, <2>2, SaidIs, KeptIs DEF Inv
  <2>4. \E f : Gathers(Groups(kept), kept, f)
    BY <2>3, GroupsAre DEF Collected
  <2> QED BY <1>1, <1>2, <1>4, <2>1, <2>2, <2>3, <2>4
<1> QED BY <1>1, <1>3, <1>4 DEF EndRound

\* Who asks for what.
LEMMA WhoAsks ==
    ASSUME Types, round < limits.rounds, NEW r \in Range(team)
    PROVE  /\ Range(Requests(r)) \subseteq Free(r) /\ Range(Requests(r)) \subseteq Names
           /\ ("index" \in Range(Requests(r)) \/ "rewrite" \in Range(Requests(r))) => r \in Leads /\ Rooted
<1>1. r \in Roles
  BY TeamsAssumption DEF Types, Range
<1>2. Range(Requests(r)) \subseteq Free(r) /\ Requests(r) \in Seq(Names)
  BY <1>1, Requested DEF Asks
<1>3. Range(Requests(r)) \subseteq Names
  <2> HIDE DEF Names
  <2> QED BY <1>2 DEF Range
<1>4. r \notin Measurers => "index" \notin Free(r) /\ "rewrite" \notin Free(r)
  BY <1>1, OtherIsFree
<1>5. r \in Measurers /\ ("index" \in Free(r) \/ "rewrite" \in Free(r)) => Rooted
  BY LeadIsFree
<1> QED BY <1>2, <1>3, <1>4, <1>5 DEF Leads

\* Without calls left nobody asks for anything.
LEMMA NobodyAsks ==
    ASSUME Types, round < limits.rounds, ~CallsLeft, NEW r \in Range(team)
    PROVE  Range(Requests(r)) = {}
<1>1. r \in Roles
  BY TeamsAssumption DEF Types, Range
<1>2. Room = 0
  <2>1. Len(items) \in Nat /\ limits.calls \in Nat
    BY SequencesAre, LimitsAssumption DEF Types
  <2> QED BY <2>1, RoomIs DEF CallsLeft
<1>3. Requests(r) \in Seq(Names) /\ Len(Requests(r)) <= 0
  BY <1>1, <1>2, Requested DEF Asks
<1>4. PICK q : q = Requests(r)
  OBVIOUS
<1>5. Len(q) = 0 /\ DOMAIN q = 1..Len(q) /\ 1..0 = {}
  <2> HIDE DEF Names
  <2> QED BY <1>3, <1>4
<1> QED BY <1>4, <1>5 DEF Range

\* What is asked for in a round is executed in order.
LEMMA QueuedInOrder ==
    ASSUME Types, round < limits.rounds, CallsLeft, AskedInv,
           NEW m \in Leads, LeadKeeps(Asked(m)), \A r \in Range(team) \ Measurers : Paces(Asked(m), Asked(r), r),
           NEW kept, NEW f, NEW g, Collected(kept), Gathers(g, kept, f)
    PROVE  OrderedFor(m, g)
<1>1. /\ DOMAIN g = 1..Len(g) /\ Len(g) \in Nat
      /\ \A a \in DOMAIN g : g[a].by # {} /\ g[a].by = {r \in Range(team) : g[a].call \in Range(Requests(r))}
  BY GroupsRequest DEF Requesting
<1>2. PICK q : q = Requests(m)
  OBVIOUS
<1>3. m \in Range(team) /\ m \in Measurers /\ Range(q) \subseteq Free(m) /\ \A r \in Leads : r = m
  BY <1>2, WhoAsks, OneLead DEF Leads
<1>4. ASSUME Rooted, "forecast" \in Asked(m), NEW a \in DOMAIN g PROVE g[a].call # "forecast"
  <2>1. \A r \in Range(team) : "forecast" \notin Range(Requests(r))
    BY <1>4, NobodyAsksLate, AskedAreNames
  <2> QED BY <1>1, <2>1
<1>5. ASSUME NEW a \in DOMAIN g, g[a].call \in {"index", "rewrite"} PROVE g[a].call \in Range(q) /\ Rooted
  <2>1. PICK r \in Range(team) : g[a].call \in Range(Requests(r))
    BY <1>1
  <2>2. r \in Leads /\ Rooted
    BY <1>5, <2>1, WhoAsks
  <2> QED BY <1>2, <1>3, <2>1, <2>2
<1>6. ASSUME "rewrite" \in Asked(m), NEW a \in DOMAIN g PROVE g[a].call # "forecast"
  BY <1>4, <1>6 DEF LeadKeeps
<1>7. ASSUME NEW k \in DOMAIN g, NEW l \in DOMAIN g, k < l, g[k].call = "rewrite" PROVE g[l].call # "forecast"
  <2> SUFFICES ASSUME g[l].call = "forecast" PROVE FALSE
    OBVIOUS
  <2>1. "rewrite" \in Range(q) /\ Rooted
    BY <1>5, <1>7
  <2>2. "forecast" \in Asked(m) \cup Range(q)
    BY <1>2, <2>1, LeadAsks DEF LeadKeeps
  <2>3. "forecast" \in Range(q)
    BY <1>4, <2>1, <2>2
  <2>4. LeadRank["forecast"] < LeadRank["rewrite"]
    BY LeadRankIs
  <2>5. l < k
    BY <1>2, <1>7, <2>1, <2>3, <2>4, LeadIsFirst
  <2> QED BY <1>1, <1>7, <2>5
<1>8. ASSUME "forecast" \in Asked(m), NEW a \in DOMAIN g PROVE g[a].call # "index"
  <2> SUFFICES ASSUME g[a].call = "index" PROVE FALSE
    OBVIOUS
  <2>1. "index" \in Range(q) /\ Rooted
    BY <1>5
  <2>2. "index" \in Asked(m)
    BY <1>8, <2>1 DEF LeadKeeps, Early
  <2>3. Free(m) \cap Asked(m) = {}
    BY <1>3, LeadIsFree
  <2> QED BY <1>3, <2>1, <2>2, <2>3
<1>9. ASSUME NEW k \in DOMAIN g, NEW l \in DOMAIN g, k < l, g[k].call = "forecast", m \in g[k].by PROVE g[l].call # "index"
  <2> SUFFICES ASSUME g[l].call = "index" PROVE FALSE
    OBVIOUS
  <2>1. "index" \in Range(q) /\ "forecast" \in Range(q)
    BY <1>1, <1>2, <1>5, <1>9
  <2>2. LeadRank["index"] < LeadRank["forecast"]
    BY LeadRankIs
  <2>3. l < k
    BY <1>2, <1>9, <2>1, <2>2, LeadIsFirst
  <2> QED BY <1>1, <1>9, <2>3
<1> QED BY <1>6, <1>7, <1>8, <1>9 DEF OrderedFor
-----------------------------------------------------------------------------
(* A request is executed. *)

\* The first group of the queue is recorded with a status, and leaves a result when it succeeds.
Ran(g, why) ==
    /\ why \in {"ok", "error", "budget"} /\ (why = "budget" <=> ~CallsLeft)
    /\ why # "budget" => (why = "error" <=> Tool(g.call) \in world.broken)
    /\ status = "executing" /\ 1 \in DOMAIN queue /\ g = queue[1]
    /\ IsSeq(queue') /\ \A k \in DOMAIN queue' : k \in Nat \ {0} /\ k + 1 \in DOMAIN queue /\ queue'[k] = queue[k + 1]
    /\ \A k \in DOMAIN queue : k \in Nat \ {0} /\ (k # 1 => k - 1 \in DOMAIN queue' /\ queue'[k - 1] = queue[k])
    /\ \E e : e.call = g.call /\ e.by = g.by /\ e.status = why /\ IsMore(records, e, records')
    /\ IF why = "ok"
       THEN /\ \E e : e.call = g.call /\ e.by = g.by /\ e.effects = effects /\ IsMore(items, e, items')
            /\ effects' = effects \cup Measures(g.call)
       ELSE UNCHANGED <<items, effects>>
    /\ UNCHANGED <<inputs, round, who, turns, status>>

LEMMA RunIs == ASSUME Types, IsSeq(queue), RunTool PROVE \E g, why : Ran(g, why)
<1>1. PICK g : g = Head(queue)
  OBVIOUS
<1>2. PICK T : queue \in Seq(T)
  BY DEF IsSeq
<1>3. queue # <<>> /\ queue' = Tail(queue) /\ UNCHANGED <<inputs, round, who, turns, status>> /\ status = "executing"
  BY DEF RunTool
<1>4. /\ Len(queue) \in Nat \ {0} /\ DOMAIN queue = 1..Len(queue) /\ g = queue[1] /\ queue' \in Seq(T)
      /\ Len(queue') = Len(queue) - 1 /\ DOMAIN queue' = 1..Len(queue')
      /\ \A k \in 1..Len(queue) - 1 : queue'[k] = queue[k + 1]
  BY <1>1, <1>2, <1>3
<1>5. ASSUME NEW k \in DOMAIN queue' PROVE k \in Nat \ {0} /\ k + 1 \in DOMAIN queue /\ queue'[k] = queue[k + 1]
  <2>1. k \in 1..Len(queue) - 1 /\ k + 1 \in 1..Len(queue)
    BY <1>4, <1>5
  <2> QED BY <1>4, <2>1
<1>6. ASSUME NEW k \in DOMAIN queue, k # 1 PROVE k - 1 \in DOMAIN queue' /\ queue'[k - 1] = queue[k]
  <2>1. k - 1 \in 1..Len(queue) - 1 /\ k - 1 + 1 = k
    BY <1>4, <1>6
  <2> QED BY <1>4, <2>1
<1>7. Len(items) \in Nat /\ limits.calls \in Nat
  BY SequencesAre, LimitsAssumption DEF Types
<1>8. PICK why \in {"ok", "error", "budget"} :
        /\ records' = Append(records, Skip(g, why)) /\ (why = "budget" <=> ~CallsLeft)
        /\ why # "budget" => (why = "error" <=> Tool(g.call) \in world.broken)
        /\ IF why = "ok" THEN /\ items' = Append(items, [call |-> g.call, by |-> g.by, effects |-> effects])
                              /\ effects' = effects \cup Measures(g.call)
           ELSE UNCHANGED <<items, effects>>
  BY <1>1, <1>7 DEF RunTool, CallsLeft
<1>9. \E e : e.call = g.call /\ e.by = g.by /\ e.status = why /\ IsMore(records, e, records')
  <2>1. PICK e : e = Skip(g, why)
    OBVIOUS
  <2>2. e.call = g.call /\ e.by = g.by /\ e.status = why
    BY <2>1 DEF Skip
  <2>3. IsMore(records, e, records')
    BY <1>8, <2>1, OneMore DEF Types
  <2> QED BY <2>2, <2>3
<1>10. why = "ok" => \E e : e.call = g.call /\ e.by = g.by /\ e.effects = effects /\ IsMore(items, e, items')
  <2>1. PICK e : e = [call |-> g.call, by |-> g.by, effects |-> effects]
    OBVIOUS
  <2>2. e.call = g.call /\ e.by = g.by /\ e.effects = effects
    BY <2>1
  <2>3. why = "ok" => IsMore(items, e, items')
    BY <1>8, <2>1, OneMore DEF Types
  <2> QED BY <2>2, <2>3
<1>11. IsSeq(queue') /\ 1 \in DOMAIN queue /\ \A k \in DOMAIN queue : k \in Nat \ {0}
  BY <1>4 DEF IsSeq
<1> QED BY <1>3, <1>4, <1>5, <1>6, <1>8, <1>9, <1>10, <1>11 DEF Ran

\* What a role has asked for grows by the request executed, unless no calls are left.
LEMMA AskedGrows ==
    ASSUME Types, NEW g, NEW why, Ran(g, why), NEW r
    PROVE  /\ Asked(r) \subseteq Asked(r)' /\ Asked(r)' \subseteq Asked(r) \cup {g.call}
           /\ (g.call \in Asked(r)' => g.call \in Asked(r) \/ (r \in g.by /\ why # "budget"))
           /\ (r \in g.by /\ why # "budget" => g.call \in Asked(r)')
<1>1. PICK e : e.call = g.call /\ e.by = g.by /\ e.status = why /\ IsMore(records, e, records')
  BY DEF Ran
<1>2. /\ DOMAIN records = 1..Len(records) /\ Len(records) \in Nat /\ DOMAIN records' = 1..Len(records) + 1
      /\ records'[Len(records) + 1] = e /\ \A i \in 1..Len(records) : records'[i] = records[i]
  BY <1>1 DEF IsMore
<1>3. \A i \in DOMAIN records' : i = Len(records) + 1 \/ i \in DOMAIN records
  BY <1>2
<1>4. Len(records) + 1 \in DOMAIN records' /\ \A i \in DOMAIN records : i \in DOMAIN records'
  BY <1>2
<1>5. ASSUME NEW c \in Asked(r) PROVE c \in Asked(r)'
  <2>1. PICK i \in DOMAIN records : r \in records[i].by /\ records[i].status \in {"ok", "error"} /\ records[i].call = c
    BY DEF Asked
  <2> QED BY <1>2, <1>4, <2>1 DEF Asked
<1>6. ASSUME NEW c \in Asked(r)' PROVE c \in Asked(r) \/ (c = g.call /\ r \in g.by /\ why # "budget")
  <2>1. PICK i \in DOMAIN records' : r \in records'[i].by /\ records'[i].status \in {"ok", "error"} /\ records'[i].call = c
    BY DEF Asked
  <2>2. CASE i = Len(records) + 1
    BY <1>1, <1>2, <2>1, <2>2
  <2>3. CASE i \in DOMAIN records
    BY <1>2, <2>1, <2>3 DEF Asked
  <2> QED BY <1>3, <2>2, <2>3
<1>7. r \in g.by /\ why # "budget" => g.call \in Asked(r)'
  <2>1. why # "budget" => why \in {"ok", "error"}
    BY DEF Ran
  <2> QED BY <1>1, <1>2, <1>4, <2>1 DEF Asked
<1> QED BY <1>5, <1>6, <1>7

\* What a role has claimed is the same after any other step than the end of a round, while calls are left.
LEMMA ClaimsStay ==
    ASSUME Types, AskedInv, Grown, Speak \/ RunTool \/ NextRound \/ UNCHANGED vars, CallsLeft'
    PROVE  CallsLeft /\ \A r : Claimed(r)' = Claimed(r)
<1>1. CallsLeft
  <2>1. Len(items) \in Nat /\ Len(items') \in Nat /\ limits.calls \in Nat /\ limits' = limits /\ Len(items) <= Len(items')
    BY SequencesAre, LimitsAssumption DEF Types, Grown
  <2> QED BY <2>1 DEF CallsLeft
<1>2. CASE UNCHANGED <<records, queue>>
  BY <1>1, <1>2 DEF Claimed, Asked, Pending
<1>3. CASE RunTool
  <2>1. PICK g, why : Ran(g, why)
    BY <1>3, RunIs DEF AskedInv
  <2>2. why # "budget" /\ 1 \in DOMAIN queue /\ g = queue[1]
    BY <1>1, <2>1 DEF Ran
  <2>3. ASSUME NEW r PROVE Claimed(r)' = Claimed(r)
    <3>1. ASSUME NEW c \in Pending(r) PROVE c \in Claimed(r)'
      <4>1. PICK k \in DOMAIN queue : r \in queue[k].by /\ queue[k].call = c
        BY DEF Pending
      <4>2. CASE k = 1
        BY <2>1, <2>2, <4>1, <4>2, AskedGrows DEF Claimed
      <4>3. CASE k # 1
        <5>1. k - 1 \in DOMAIN queue' /\ queue'[k - 1] = queue[k]
          BY <2>1, <4>3 DEF Ran
        <5> QED BY <4>1, <5>1 DEF Claimed, Pending
      <4> QED BY <4>2, <4>3
    <3>2. ASSUME NEW c \in Pending(r)' PROVE c \in Claimed(r)
      <4>1. PICK k \in DOMAIN queue' : r \in queue'[k].by /\ queue'[k].call = c
        BY DEF Pending
      <4>2. k + 1 \in DOMAIN queue /\ queue'[k] = queue[k + 1]
        BY <2>1 DEF Ran
      <4> QED BY <4>1, <4>2 DEF Claimed, Pending
    <3>3. Asked(r) \subseteq Claimed(r)'
      BY <2>1, AskedGrows DEF Claimed
    <3>4. ASSUME NEW c \in Asked(r)' PROVE c \in Claimed(r)
      <4>1. c \in Asked(r) \/ (c = g.call /\ r \in g.by)
        BY <2>1, AskedGrows
      <4> QED BY <2>2, <4>1 DEF Claimed, Pending
    <3>5. Claimed(r) \subseteq Claimed(r)' /\ Claimed(r)' \subseteq Claimed(r)
      BY <3>1, <3>2, <3>3, <3>4 DEF Claimed
    <3> QED BY <3>5
  <2> QED BY <1>1, <2>3
<1> QED BY <1>2, <1>3 DEF Speak, NextRound, vars
-----------------------------------------------------------------------------
(* What was found, and in which order. *)

\* The experiments in force are those of the results before.
Trail ==
    \A c \in {"index", "rewrite"} :
        /\ c \in effects <=> \E i \in DOMAIN items : items[i].call = c
        /\ \A j \in DOMAIN items : c \in items[j].effects <=> \E i \in DOMAIN items : i < j /\ items[i].call = c

\* No forecast is found after a rewrite, and no index after the forecast of the one who measures.
OrderInv ==
    \A i, j \in DOMAIN items : items[j].call = "forecast" =>
        /\ items[i].call = "rewrite" => j < i
        /\ items[i].call = "index" /\ items[j].by \cap Measurers # {} => i < j

LEMMA AskedStep ==
    ASSUME Inv, RoundInv, AskedInv, Grown, [Next]_vars
    PROVE  AskedInv'
<1>1. team' = team /\ Range(team)' = Range(team)
  BY DEF Grown
<1>2. CASE UNCHANGED <<queue, records, items>>
  BY <1>1, <1>2 DEF AskedInv, Proper, Asked
<1>3. CASE EndRound
  <2>1. UNCHANGED <<records, items>> /\ (queue' = <<>> \/ (Requesting(queue') /\ round < limits.rounds))
    <3>1. records' = records /\ items' = items
      BY <1>3, EndIs
    <3>2. CASE queue' = <<>>
      BY <3>1, <3>2
    <3>3. CASE round < limits.rounds /\ \E kept, f : Collected(kept) /\ Gathers(queue', kept, f)
      <4>1. Requesting(queue')
        BY <3>3, GroupsRequest
      <4> QED BY <3>1, <3>3, <4>1
    <3> QED BY <1>3, <3>2, <3>3, EndIs
  <2>2. IsSeq(queue') /\ \A k \in DOMAIN queue' : Proper(queue'[k])
    <3>1. CASE queue' = <<>>
      <4>1. <<>> \in Seq({}) /\ DOMAIN <<>> = {}
        OBVIOUS
      <4> QED BY <3>1, <4>1 DEF IsSeq
    <3>2. CASE Requesting(queue') /\ round < limits.rounds
      <4>1. ASSUME NEW k \in DOMAIN queue' PROVE Proper(queue'[k])
        <5>1. queue'[k].by # {} /\ queue'[k].by = {r \in Range(team) : queue'[k].call \in Range(Requests(r))}
          BY <3>2 DEF Requesting
        <5>2. \A r \in queue'[k].by : queue'[k].call \in Names /\ (queue'[k].call \in {"index", "rewrite"} => r \in Measurers)
          BY <3>2, <5>1, WhoAsks DEF Inv, Leads
        <5> QED BY <5>1, <5>2 DEF Proper
      <4>2. IsSeq(queue')
        BY <3>2 DEF Requesting
      <4> QED BY <4>1, <4>2
    <3> QED BY <2>1, <3>1, <3>2
  <2> QED BY <1>1, <2>1, <2>2 DEF AskedInv, Proper, Asked
<1>4. CASE RunTool
  <2>1. PICK g, why : Ran(g, why)
    BY <1>4, RunIs DEF Inv, AskedInv
  <2>2. Proper(g) /\ why \in {"ok", "error", "budget"}
    BY <2>1 DEF Ran, AskedInv
  <2>3. IsSeq(queue') /\ \A k \in DOMAIN queue' : Proper(queue'[k])
    BY <2>1 DEF Ran, AskedInv
  <2>4. ASSUME NEW i \in DOMAIN records' PROVE Proper(records'[i])
    <3>1. PICK e : e.call = g.call /\ e.by = g.by /\ IsMore(records, e, records')
      BY <2>1 DEF Ran
    <3>2. Proper(e)
      BY <2>2, <3>1 DEF Proper
    <3>3. records'[i] = e \/ (i \in DOMAIN records /\ records'[i] = records[i])
      BY <3>1 DEF IsMore
    <3> QED BY <3>2, <3>3 DEF AskedInv
  <2>5. ASSUME NEW i \in DOMAIN items' PROVE Proper(items'[i]) /\ \A r \in items'[i].by : items'[i].call \in Asked(r)'
    <3>1. CASE i \in DOMAIN items /\ items'[i] = items[i]
      <4>1. \A r : Asked(r) \subseteq Asked(r)'
        BY <2>1, AskedGrows DEF Inv
      <4> QED BY <3>1, <4>1 DEF AskedInv
    <3>2. CASE why = "ok" /\ items'[i].call = g.call /\ items'[i].by = g.by
      <4>1. \A r \in g.by : g.call \in Asked(r)'
        BY <2>1, <3>2, AskedGrows DEF Inv
      <4> QED BY <2>2, <3>2, <4>1 DEF Proper
    <3>3. CASE why # "ok"
      BY <2>1, <3>1, <3>3 DEF Ran
    <3>4. CASE why = "ok"
      <4>1. PICK e : e.call = g.call /\ e.by = g.by /\ IsMore(items, e, items')
        BY <2>1, <3>4 DEF Ran
      <4>2. items'[i] = e \/ (i \in DOMAIN items /\ items'[i] = items[i])
        BY <4>1 DEF IsMore
      <4> QED BY <3>1, <3>2, <3>4, <4>1, <4>2
    <3> QED BY <3>3, <3>4
  <2> QED BY <1>1, <2>3, <2>4, <2>5 DEF AskedInv, Proper
<1> QED BY <1>2, <1>3, <1>4 DEF Next, Speak, NextRound, vars

\* What is claimed at the end of a round.
LEMMA ClaimedAtEnd ==
    ASSUME Inv, RoundInv, EndRound
    PROVE  /\ \A r : Claimed(r) = Asked(r) /\ Asked(r)' = Asked(r)
           /\ \/ \A r : Claimed(r)' = Asked(r)
              \/ round < limits.rounds /\ \A r \in Range(team) : Claimed(r)' = Asked(r) \cup Range(Requests(r))
<1>1. /\ queue = <<>> /\ records' = records
      /\ queue' = <<>> \/ (round < limits.rounds /\ \E kept, f : Collected(kept) /\ Gathers(queue', kept, f))
  BY EndIs
<1>2. \A r : Claimed(r) = Asked(r) /\ Asked(r)' = Asked(r)
  <2>1. \A r : Pending(r) = {}
    BY <1>1 DEF Pending
  <2> QED BY <1>1, <2>1 DEF Claimed, Asked
<1>3. CASE queue' = <<>>
  <2>1. \A r : Pending(r)' = {}
    BY <1>3 DEF Pending
  <2> QED BY <1>2, <2>1 DEF Claimed
<1>4. CASE round < limits.rounds /\ \E kept, f : Collected(kept) /\ Gathers(queue', kept, f)
  <2>1. Requesting(queue')
    BY <1>4, GroupsRequest
  <2>2. ASSUME NEW r \in Range(team) PROVE Claimed(r)' = Asked(r) \cup Range(Requests(r))
    <3>1. /\ DOMAIN queue' = 1..Len(queue')
          /\ \A a \in 1..Len(queue') : queue'[a].by = {p \in Range(team) : queue'[a].call \in Range(Requests(p))}
          /\ \A c \in Range(Requests(r)) : \E a \in 1..Len(queue') : queue'[a].call = c
      BY <2>1 DEF Requesting
    <3>2. ASSUME NEW c \in Pending(r)' PROVE c \in Range(Requests(r))
      <4>1. PICK a \in DOMAIN queue' : r \in queue'[a].by /\ queue'[a].call = c
        BY <3>2 DEF Pending
      <4> QED BY <3>1, <4>1
    <3>3. ASSUME NEW c \in Range(Requests(r)) PROVE c \in Pending(r)'
      <4>1. PICK a \in DOMAIN queue' : queue'[a].call = c
        BY <3>1, <3>3
      <4>2. r \in queue'[a].by
        BY <3>1, <4>1
      <4> QED BY <4>1, <4>2 DEF Pending
    <3>4. Pending(r)' = Range(Requests(r))
      BY <3>2, <3>3
    <3> QED BY <1>2, <3>4 DEF Claimed
  <2> QED BY <1>2, <1>4, <2>2
<1> QED BY <1>1, <1>3, <1>4

LEMMA PaceStep ==
    ASSUME Inv, RoundInv, AskedInv, LeadInv, PaceInv, Grown, [Next]_vars
    PROVE  LeadInv' /\ PaceInv'
<1>1. team' = team /\ Leads' = Leads /\ Range(team)' = Range(team) /\ Rooted' = Rooted /\ Early' = Early
  BY DEF Grown, Leads, Rooted, Early, Opening
<1>2. SUFFICES ASSUME CallsLeft' PROVE LeadInv' /\ PaceInv'
  BY DEF LeadInv, PaceInv
<1>3. SUFFICES /\ \A m \in Leads : LeadKeeps(Claimed(m)')
               /\ \A m \in Leads : \A r \in Range(team) \ Measurers : Paces(Claimed(m)', Claimed(r)', r)
  BY <1>1 DEF LeadInv, PaceInv, LeadKeeps, Paces
<1>4. Leads \subseteq Range(team)
  BY DEF Leads
<1>5. CASE Speak \/ RunTool \/ NextRound \/ UNCHANGED vars
  <2>1. CallsLeft /\ \A r : Claimed(r)' = Claimed(r)
    BY <1>2, <1>5, ClaimsStay DEF Inv
  <2> QED BY <2>1 DEF LeadInv, PaceInv
<1>6. CASE EndRound
  <2>1. CallsLeft
    BY <1>2, <1>6 DEF EndRound, CallsLeft, inputs
  <2>2. ASSUME NEW m \in Leads PROVE LeadKeeps(Asked(m)) /\ \A r \in Range(team) \ Measurers : Paces(Asked(m), Asked(r), r)
    <3>1. \A r \in Range(team) : Claimed(r) = Asked(r)
      BY <1>6, ClaimedAtEnd
    <3> QED BY <1>4, <2>1, <3>1 DEF LeadInv, PaceInv
  <2>3. CASE \A r \in Range(team) : Claimed(r)' = Asked(r)
    BY <1>4, <2>2, <2>3
  <2>4. CASE round < limits.rounds /\ \A r \in Range(team) : Claimed(r)' = Asked(r) \cup Range(Requests(r))
    <3>1. ASSUME NEW m \in Leads PROVE LeadKeeps(Claimed(m)')
      BY <1>4, <2>2, <2>4, LeadAsks DEF Inv
    <3>2. ASSUME NEW m \in Leads, NEW r \in Range(team) \ Measurers PROVE Paces(Claimed(m)', Claimed(r)', r)
      BY <1>4, <2>2, <2>4, OthersAsk, AskedAreNames DEF Inv
    <3> QED BY <3>1, <3>2
  <2> QED BY <1>6, <2>3, <2>4, ClaimedAtEnd
<1> QED BY <1>5, <1>6 DEF Next
-----------------------------------------------------------------------------
(* The queue and the results keep their order. *)

LEMMA QueueStep ==
    ASSUME Inv, RoundInv, AskedInv, LeadInv, PaceInv, QueueInv, Grown, [Next]_vars
    PROVE  QueueInv'
<1>1. Leads' = Leads
  BY DEF Grown, Leads
<1>2. SUFFICES ASSUME NEW m \in Leads PROVE OrderedFor(m, queue)'
  BY <1>1 DEF QueueInv
<1>3. OrderedFor(m, queue)
  BY DEF QueueInv
<1>4. CASE UNCHANGED <<queue, records>>
  BY <1>3, <1>4 DEF OrderedFor, Asked
<1>5. CASE EndRound
  <2>1. (\A r : Claimed(r) = Asked(r)) /\ Asked(m)' = Asked(m)
    BY <1>5, ClaimedAtEnd
  <2>2. CASE DOMAIN queue' = {}
    BY <2>2 DEF OrderedFor
  <2>3. CASE round < limits.rounds /\ \E kept, f : Collected(kept) /\ Gathers(queue', kept, f)
    <3>1. PICK kept, f : Collected(kept) /\ Gathers(queue', kept, f)
      BY <2>3
    <3>2. CASE ~CallsLeft
      <4>1. Requesting(queue')
        BY <3>1, GroupsRequest
      <4>2. ASSUME NEW a \in DOMAIN queue' PROVE FALSE
        <5>1. PICK r \in Range(team) : queue'[a].call \in Range(Requests(r))
          BY <4>1 DEF Requesting
        <5> QED BY <2>3, <3>2, <5>1, NobodyAsks DEF Inv
      <4> QED BY <2>2, <4>2
    <3>3. CASE CallsLeft
      <4>1. LeadKeeps(Asked(m)) /\ \A r \in Range(team) \ Measurers : Paces(Asked(m), Asked(r), r)
        BY <2>1, <3>3 DEF LeadInv, PaceInv
      <4>2. PICK g : g = queue'
        OBVIOUS
      <4>3. OrderedFor(m, g)
        BY <2>3, <3>1, <3>3, <4>1, <4>2, QueuedInOrder DEF Inv
      <4> QED BY <2>1, <4>2, <4>3 DEF OrderedFor
    <3> QED BY <3>2, <3>3
  <2>4. CASE queue' = <<>>
    BY <2>2, <2>4
  <2> QED BY <1>5, <2>3, <2>4, EndIs
<1>6. CASE RunTool
  <2>1. PICK g, why : Ran(g, why)
    BY <1>6, RunIs DEF Inv, AskedInv
  <2>2. /\ 1 \in DOMAIN queue /\ g = queue[1]
        /\ \A k \in DOMAIN queue' : k \in Nat \ {0} /\ k + 1 \in DOMAIN queue /\ queue'[k] = queue[k + 1]
        /\ \A k \in DOMAIN queue : k \in Nat \ {0}
    BY <2>1 DEF Ran
  <2>3. /\ Asked(m)' \subseteq Asked(m) \cup {g.call}
        /\ g.call \in Asked(m)' => g.call \in Asked(m) \/ m \in g.by
    BY <2>1, AskedGrows DEF Inv
  <2>4. \A k \in DOMAIN queue' : 1 < k + 1
    BY <2>2
  <2>5. ASSUME "rewrite" \in Asked(m)', NEW k \in DOMAIN queue' PROVE queue'[k].call # "forecast"
    BY <1>3, <2>2, <2>3, <2>4, <2>5 DEF OrderedFor
  <2>6. ASSUME "forecast" \in Asked(m)', NEW k \in DOMAIN queue' PROVE queue'[k].call # "index"
    BY <1>3, <2>2, <2>3, <2>4, <2>6 DEF OrderedFor
  <2>7. ASSUME NEW k \in DOMAIN queue', NEW l \in DOMAIN queue', k < l
        PROVE  /\ queue'[k].call = "rewrite" => queue'[l].call # "forecast"
               /\ queue'[k].call = "forecast" /\ m \in queue'[k].by => queue'[l].call # "index"
    <3>1. k + 1 < l + 1
      BY <2>2, <2>7
    <3> QED BY <1>3, <2>2, <3>1 DEF OrderedFor
  <2> QED BY <2>5, <2>6, <2>7 DEF OrderedFor
<1> QED BY <1>4, <1>5, <1>6 DEF Next, Speak, NextRound, vars

LEMMA TrailStep == ASSUME Types, AskedInv, Trail, [Next]_vars PROVE Trail'
<1>1. CASE UNCHANGED <<items, effects>>
  BY <1>1 DEF Trail
<1>2. CASE RunTool
  <2>1. PICK g, why : Ran(g, why)
    BY <1>2, RunIs DEF AskedInv
  <2>2. CASE why # "ok"
    BY <1>1, <2>1, <2>2 DEF Ran
  <2>3. CASE why = "ok"
    <3>1. PICK e : e.call = g.call /\ e.effects = effects /\ IsMore(items, e, items') /\ effects' = effects \cup Measures(g.call)
      BY <2>1, <2>3 DEF Ran
    <3> DEFINE n == Len(items)
    <3>2. /\ n \in Nat /\ DOMAIN items = 1..n /\ DOMAIN items' = 1..n + 1
          /\ items'[n + 1] = e /\ \A i \in 1..n : items'[i] = items[i]
      BY <3>1 DEF IsMore
    <3> HIDE DEF n
    <3>3. /\ n + 1 \in DOMAIN items' /\ \A i \in DOMAIN items : i \in DOMAIN items' /\ i < n + 1 /\ items'[i] = items[i]
          /\ \A i \in DOMAIN items' : i \in DOMAIN items \/ i = n + 1
          /\ \A i \in DOMAIN items : i \in Nat
      BY <3>2
    <3>4. ASSUME NEW c \in {"index", "rewrite"}
          PROVE  /\ c \in effects' <=> \E i \in DOMAIN items' : items'[i].call = c
                 /\ \A j \in DOMAIN items' : c \in items'[j].effects <=> \E i \in DOMAIN items' : i < j /\ items'[i].call = c
      <4>1. c \in effects' <=> c \in effects \/ e.call = c
        BY <3>1 DEF Measures
      <4>2. c \in effects <=> \E i \in DOMAIN items : items[i].call = c
        BY DEF Trail
      <4>3. c \in effects' <=> \E i \in DOMAIN items' : items'[i].call = c
        BY <3>2, <3>3, <4>1, <4>2
      <4>4. ASSUME NEW j \in DOMAIN items
            PROVE  c \in items'[j].effects <=> \E i \in DOMAIN items' : i < j /\ items'[i].call = c
        <5>1. c \in items[j].effects <=> \E i \in DOMAIN items : i < j /\ items[i].call = c
          BY DEF Trail
        <5>2. ~(n + 1 < j)
          BY <3>2
        <5> QED BY <3>3, <5>1, <5>2
      <4>5. c \in items'[n + 1].effects <=> \E i \in DOMAIN items' : i < n + 1 /\ items'[i].call = c
        <5>1. ~(n + 1 < n + 1)
          BY <3>2
        <5> QED BY <3>1, <3>2, <3>3, <4>2, <5>1
      <4> QED BY <3>3, <4>3, <4>4, <4>5
    <3> QED BY <3>4 DEF Trail
  <2> QED BY <2>2, <2>3
<1> QED BY <1>1, <1>2 DEF Next, Speak, EndRound, NextRound, vars

LEMMA OrderStep == ASSUME Types, AskedInv, QueueInv, OrderInv, [Next]_vars PROVE OrderInv'
<1>1. CASE items' = items
  BY <1>1 DEF OrderInv
<1>2. CASE RunTool
  <2>1. PICK g, why : Ran(g, why)
    BY <1>2, RunIs DEF AskedInv
  <2>2. CASE why # "ok"
    BY <1>1, <2>1, <2>2 DEF Ran
  <2>3. CASE why = "ok"
    <3>1. PICK e : e.call = g.call /\ e.by = g.by /\ IsMore(items, e, items')
      BY <2>1, <2>3 DEF Ran
    <3> DEFINE n == Len(items)
    <3>2. /\ n \in Nat /\ DOMAIN items = 1..n /\ DOMAIN items' = 1..n + 1
          /\ items'[n + 1] = e /\ \A i \in 1..n : items'[i] = items[i]
      BY <3>1 DEF IsMore
    <3> HIDE DEF n
    <3>3. 1 \in DOMAIN queue /\ queue[1].call = e.call /\ queue[1].by = e.by
      BY <2>1, <3>1 DEF Ran
    <3>4. ASSUME NEW i \in DOMAIN items, items[i].call = "rewrite" PROVE e.call # "forecast"
      <4>1. PICK r \in items[i].by : r \in Leads /\ "rewrite" \in Asked(r)
        BY <3>4 DEF AskedInv, Proper, Leads
      <4> QED BY <3>3, <4>1 DEF QueueInv, OrderedFor
    <3>5. ASSUME NEW j \in DOMAIN items, items[j].call = "forecast", items[j].by \cap Measurers # {} PROVE e.call # "index"
      <4>1. PICK r \in items[j].by : r \in Leads /\ "forecast" \in Asked(r)
        BY <3>5 DEF AskedInv, Proper, Leads
      <4> QED BY <3>3, <4>1 DEF QueueInv, OrderedFor
    <3>6. ASSUME NEW i \in DOMAIN items', NEW j \in DOMAIN items', items'[j].call = "forecast"
          PROVE  /\ items'[i].call = "rewrite" => j < i
                 /\ items'[i].call = "index" /\ items'[j].by \cap Measurers # {} => i < j
      <4>1. CASE i \in 1..n /\ j \in 1..n
        BY <3>2, <3>6, <4>1 DEF OrderInv
      <4>2. CASE i \in 1..n /\ j = n + 1
        <5>1. i < j
          BY <3>2, <4>2
        <5> QED BY <3>2, <3>4, <3>6, <4>2, <5>1
      <4>3. CASE i = n + 1 /\ j \in 1..n
        <5>1. j < i
          BY <3>2, <4>3
        <5> QED BY <3>2, <3>5, <3>6, <4>3, <5>1
      <4>4. CASE i = n + 1 /\ j = n + 1
        BY <3>6, <4>4
      <4>5. (i \in 1..n \/ i = n + 1) /\ (j \in 1..n \/ j = n + 1)
        BY <3>2
      <4> QED BY <4>1, <4>2, <4>3, <4>4, <4>5
    <3> QED BY <3>6 DEF OrderInv
  <2> QED BY <2>2, <2>3
<1> QED BY <1>1, <1>2 DEF Next, Speak, EndRound, NextRound, vars
-----------------------------------------------------------------------------
(* What a turn reads. *)

\* What a role would ask for does not depend on what is said.
LEMMA RequestsStay ==
    ASSUME world' = world, limits' = limits, round' = round, items' = items, records' = records, NEW r
    PROVE  Requests(r)' = Requests(r)
<1>1. Visible(r)' = Visible(r)
  BY DEF Visible
<1>2. Latest(r, "index")' = Latest(r, "index")
  <2> DEFINE W == {i \in Visible(r) : Tool(items[i].call) = Tool("index")}
  <2>1. W' = W
    BY <1>1
  <2>2. Latest(r, "index") = Max({0} \cup W) /\ Latest(r, "index")' = Max({0} \cup W')
    BY DEF Latest
  <2> HIDE DEF W
  <2> QED BY <2>1, <2>2
<1>3. Wants(r)' = Wants(r)
  BY <1>2 DEF Wants, EngineerWants, ApplicationWants, ReliabilityWants, FinopsWants, SingleWants, Has, Rooted
<1>4. Asked(r)' = Asked(r)
  BY DEF Asked
<1>5. Room' = Room
  BY DEF Room
<1> DEFINE S == {c \in Range(Wants(r)) \ Asked(r) : Tool(c) \in MayUse[r]}
<1>6. S' = S
  BY <1>3, <1>4
<1>7. /\ Requests(r) = When(round < limits.rounds, Take(Only(Wants(r), S), Room))
      /\ Requests(r)' = When(round' < limits'.rounds, Take(Only(Wants(r)', S'), Room'))
  BY DEF Requests
<1> HIDE DEF S
<1> QED BY <1>3, <1>5, <1>6, <1>7

LEMMA RoundStep == ASSUME Inv, RoundInv, Grown, [Next]_vars PROVE RoundInv'
<1>1. /\ team' = team /\ limits' = limits /\ world' = world /\ round \in Nat \ {0} /\ limits.rounds \in Nat
      /\ \A t \in Range(turns) : t.round \in 1..round
  BY LimitsAssumption DEF Grown, Inv, Types, ClockInv
<1>2. CASE Speak
  <2>1. PICK t : Spoken(t)
    BY <1>2, SpeakIs DEF Inv
  <2>2. /\ status = "deliberating" /\ status' = status /\ round' = round /\ queue' = queue /\ items' = items /\ records' = records
        /\ t.role = team[who] /\ t.role \in Range(team) /\ t.round = round /\ t.requests = Requests(t.role)
        /\ Range(turns') = Range(turns) \cup {t} /\ who \in DOMAIN team
    BY <2>1 DEF Spoken, IsTurn
  <2>3. \A r : Requests(r)' = Requests(r)
    BY <1>1, <2>2, RequestsStay
  <2>4. \A u \in Range(turns') : u.role \in Range(team)' /\ (u.round = round' => u.requests = Requests(u.role)')
    BY <1>1, <2>2, <2>3 DEF RoundInv
  <2>5. ASSUME NEW j \in DOMAIN turns' PROVE \E i \in 1..j : turns'[i].round = turns'[j].round /\ turns'[i].role = team[1]
    <3>1. /\ DOMAIN turns = 1..Len(turns) /\ Len(turns) \in Nat /\ DOMAIN turns' = 1..Len(turns) + 1
          /\ turns'[Len(turns) + 1] = t /\ \A i \in 1..Len(turns) : turns'[i] = turns[i]
      BY <2>1 DEF Spoken, IsMore
    <3>2. CASE j \in 1..Len(turns)
      <4>1. PICK i \in 1..j : turns[i].round = turns[j].round /\ turns[i].role = team[1]
        BY <3>1, <3>2 DEF RoundInv
      <4>2. i \in 1..Len(turns)
        BY <3>1, <3>2
      <4> QED BY <3>1, <3>2, <4>1, <4>2
    <3>3. CASE j = Len(turns) + 1 /\ who = 1
      <4>1. j \in 1..j
        BY <3>1, <3>3
      <4> QED BY <2>2, <3>1, <3>3, <4>1
    <3>4. CASE j = Len(turns) + 1 /\ who # 1
      <4>1. DOMAIN team = 1..Len(team) /\ Len(team) \in Nat
        BY TeamsAssumption DEF Inv, Types
      <4>2. 1 \in DOMAIN team /\ 1 < who
        BY <2>2, <3>4, <4>1
      <4>3. PICK u \in Range(turns) : u.role = team[1] /\ u.round = round
        BY <4>2 DEF Inv, SpokenInv
      <4>4. PICK i \in 1..Len(turns) : turns[i] = u
        BY <3>1 DEF Range
      <4>5. i \in 1..j
        BY <3>1, <3>4
      <4> QED BY <2>2, <3>1, <3>4, <4>3, <4>4, <4>5
    <3> QED BY <3>1, <3>2, <3>3, <3>4
  <2> QED BY <1>1, <2>2, <2>4, <2>5 DEF RoundInv
<1>3. CASE EndRound
  <2>1. /\ UNCHANGED <<round, turns>> /\ (status' = "concluded" => queue' = <<>>)
        /\ (status' = "concluded" \/ (status' = "executing" /\ round < limits.rounds))
    BY <1>3, EndIs
  <2> QED BY <1>1, <2>1 DEF RoundInv
<1>4. CASE RunTool
  BY <1>1, <1>4 DEF RoundInv, RunTool
<1>5. CASE NextRound
  <2>1. /\ status = "executing" /\ queue = <<>> /\ status' = "deliberating" /\ round' = round + 1
        /\ turns' = turns /\ queue' = queue
    BY <1>5 DEF NextRound
  <2>2. \A t \in Range(turns) : t.round # round'
    BY <1>1, <2>1
  <2>3. round' <= limits.rounds
    BY <1>1, <2>1 DEF RoundInv
  <2> QED BY <1>1, <2>1, <2>2, <2>3 DEF RoundInv
<1>6. CASE UNCHANGED vars
  <2>1. \A r : Requests(r)' = Requests(r)
    BY <1>6, RequestsStay DEF vars, inputs
  <2> QED BY <1>1, <1>6, <2>1 DEF RoundInv, vars
<1> QED BY <1>2, <1>3, <1>4, <1>5, <1>6 DEF Next

\* Who saw the index measured, and a forecast by the one who measures, read a forecast that knows the index.
Knows(t) ==
    /\ \E k \in 1..t.seen : items[k].call = "index"
    /\ \E k \in 1..t.seen : items[k].call = "forecast" /\ items[k].by \cap Measurers # {}
    => t.read \in 1..t.seen /\ "index" \in items[t.read].effects
KnowsInv == \A t \in Range(turns) : Knows(t)

\* The forecast read is the latest of those that know an experiment, if any does.
LEMMA ForecastReads ==
    ASSUME Types, NEW r \in Roles, NEW j \in DOMAIN items, items[j].call = "forecast", items[j].effects # {}
    PROVE  LET m == Forecast(r) IN m \in DOMAIN items /\ j <= m /\ items[m].call = "forecast"
<1> DEFINE base == {i \in Visible(r) : items[i].call = "forecast"}
           measured == {i \in base : items[i].effects # {}}
<1>1. Kind("forecast") = "calculation" /\ "calculation" \in Sees[r]
  BY DEF Kind, Tool, Sees, Roles
<1>2. j \in Visible(r)
  BY <1>1 DEF Visible
<1>3. j \in measured
  BY <1>2
<1>4. Forecast(r) = Max({0} \cup measured)
  BY <1>3 DEF Forecast
<1>5. measured \subseteq 1..Len(items) /\ Len(items) \in Nat /\ DOMAIN items = 1..Len(items)
  BY VisibleIs, SequencesAre DEF Types
<1> DEFINE M == {0} \cup measured
<1>6. M \in SUBSET Nat /\ M # {} /\ (\A k \in M : k <= Len(items)) /\ j \in M /\ j # 0
  <2> HIDE DEF measured
  <2> QED BY <1>3, <1>5
<1>7. Max(M) \in M /\ j <= Max(M) /\ Max(M) \in Nat
  <2> HIDE DEF M
  <2> QED BY <1>5, <1>6, MaxIn
<1>8. Max(M) \in measured
  <2> HIDE DEF measured
  <2> QED BY <1>3, <1>5, <1>7
<1> HIDE DEF M
<1>9. Max(M) \in DOMAIN items /\ items[Max(M)].call = "forecast"
  BY <1>5, <1>8
<1> QED BY <1>4, <1>7, <1>9 DEF M

LEMMA NewKnows ==
    ASSUME Types, Trail, OrderInv, NEW r \in Roles, NEW t, IsTurn(t, r)
    PROVE  Knows(t)
<1>1. DOMAIN items = 1..t.seen /\ t.seen \in Nat /\ t.read = Forecast(r)
  BY SequencesAre DEF Types, IsTurn
<1>2. SUFFICES ASSUME NEW i \in DOMAIN items, items[i].call = "index",
                      NEW j \in DOMAIN items, items[j].call = "forecast", items[j].by \cap Measurers # {}
               PROVE  t.read \in DOMAIN items /\ "index" \in items[t.read].effects
  BY <1>1 DEF Knows
<1>3. i < j
  BY <1>2 DEF OrderInv
<1>4. "index" \in items[j].effects
  BY <1>2, <1>3 DEF Trail
<1>5. t.read \in DOMAIN items /\ j <= t.read
  BY <1>1, <1>2, <1>4, ForecastReads
<1>6. i < t.read
  BY <1>1, <1>3, <1>5
<1> QED BY <1>2, <1>5, <1>6 DEF Trail

LEMMA KnowsStep == ASSUME Inv, Trail, OrderInv, KnowsInv, Grown, [Next]_vars PROVE KnowsInv'
<1>1. Len(items) \in Nat /\ \A k \in 1..Len(items) : items'[k] = items[k]
  BY SequencesAre DEF Inv, Types, Grown
<1>2. ASSUME NEW t, t.seen \in 0..Len(items), Knows(t) PROVE Knows(t)'
  <2>1. \A k \in 1..t.seen : items'[k] = items[k]
    <3>1. \A k \in 1..t.seen : k \in 1..Len(items)
      BY <1>1, <1>2
    <3> QED BY <1>1, <3>1
  <2> QED BY <1>2, <2>1 DEF Knows
<1>3. ASSUME NEW t \in Range(turns) PROVE Knows(t)'
  BY <1>2 DEF Inv, ClockInv, KnowsInv
<1>4. CASE turns' = turns
  BY <1>3, <1>4 DEF KnowsInv
<1>5. CASE Speak
  <2>1. PICK t : Spoken(t)
    BY <1>5, SpeakIs DEF Inv
  <2>2. Range(turns') = Range(turns) \cup {t} /\ IsTurn(t, team[who]) /\ team[who] \in Roles /\ t.seen = Len(items)
    BY <2>1 DEF Spoken, IsTurn
  <2>3. Knows(t)
    <3> HIDE <1>5
    <3> QED BY <2>2, NewKnows DEF Inv
  <2>4. Knows(t)'
    BY <1>1, <1>2, <2>2, <2>3
  <2> QED BY <1>3, <2>2, <2>4 DEF KnowsInv
<1> QED BY <1>4, <1>5, OnlySpeechSpeaks

ForecastInv ==
    /\ Inv /\ RoundInv /\ AskedInv /\ LeadInv /\ PaceInv /\ QueueInv
    /\ Trail /\ OrderInv /\ KnowsInv

LEMMA ForecastInit == Init => ForecastInv
<1> SUFFICES ASSUME Init PROVE ForecastInv
  OBVIOUS
<1>1. Inv
  BY InvInit
<1>2. /\ Range(turns) = {} /\ DOMAIN turns = {} /\ DOMAIN records = {} /\ DOMAIN items = {} /\ DOMAIN queue = {}
      /\ queue = <<>> /\ effects = {} /\ round = 1 /\ status = "deliberating"
  BY DEF Init, Range
<1>3. RoundInv
  <2>1. 1 <= limits.rounds
    BY <1>1, LimitsAssumption DEF Inv, Types
  <2> QED BY <1>2, <2>1 DEF RoundInv
<1>4. AskedInv
  <2>1. IsSeq(queue)
    <3>1. <<>> \in Seq({})
      OBVIOUS
    <3> QED BY <1>2, <3>1 DEF IsSeq
  <2> QED BY <1>2, <2>1 DEF AskedInv
<1>5. \A r : Claimed(r) = {}
  BY <1>2 DEF Claimed, Asked, Pending
<1>6. LeadInv
  BY <1>5 DEF LeadInv, LeadKeeps
<1>7. PaceInv
  <2>1. Cardinality({}) = 0 /\ 0 <= 0
    BY FS_EmptySet
  <2>2. \A r : Paces({}, {}, r)
    BY <2>1 DEF Paces
  <2> QED BY <1>5, <2>2 DEF PaceInv
<1>8. QueueInv /\ Trail /\ OrderInv /\ KnowsInv
  BY <1>2 DEF QueueInv, OrderedFor, Trail, OrderInv, KnowsInv
<1> QED BY <1>1, <1>3, <1>4, <1>6, <1>7, <1>8 DEF ForecastInv

LEMMA ForecastStep == ForecastInv /\ [Next]_vars => ForecastInv'
<1> SUFFICES ASSUME ForecastInv, [Next]_vars PROVE ForecastInv'
  OBVIOUS
<1>1. /\ Inv /\ RoundInv /\ AskedInv /\ LeadInv /\ PaceInv /\ QueueInv /\ Trail /\ OrderInv /\ KnowsInv
      /\ Types
  BY DEF ForecastInv, Inv
<1>2. Grown
  BY <1>1, StepGrows DEF Inv
<1>3. Inv'
  BY <1>1, InvStep
<1>4. RoundInv' /\ AskedInv' /\ LeadInv' /\ PaceInv'
  BY <1>1, <1>2, RoundStep, AskedStep, PaceStep
<1>5. QueueInv' /\ Trail' /\ OrderInv' /\ KnowsInv'
  BY <1>1, <1>2, QueueStep, TrailStep, OrderStep, KnowsStep
<1> QED BY <1>3, <1>4, <1>5 DEF ForecastInv

LEMMA ForecastsFollow == ForecastInv => ForecastsFollowMeasurements
<1> SUFFICES ASSUME ForecastInv PROVE ForecastsFollowMeasurements
  OBVIOUS
<1>1. ASSUME NEW i \in DOMAIN turns,
             NEW k \in 1..turns[i].seen, items[k].call = "index",
             NEW l \in 1..turns[i].seen, items[l].call = "forecast", items[l].by \cap Measurers # {}
      PROVE  "index" \in items[turns[i].read].effects
  <2>1. Knows(turns[i])
    BY DEF ForecastInv, KnowsInv, Range
  <2> QED BY <1>1, <2>1 DEF Knows
<1>2. ASSUME NEW k \in DOMAIN items, items[k].call = "forecast" PROVE "rewrite" \notin items[k].effects
  <2> SUFFICES ASSUME "rewrite" \in items[k].effects PROVE FALSE
    OBVIOUS
  <2>1. PICK i \in DOMAIN items : i < k /\ items[i].call = "rewrite"
    BY DEF ForecastInv, Trail
  <2>2. k < i
    BY <1>2, <2>1 DEF ForecastInv, OrderInv
  <2>3. i \in Nat /\ k \in Nat
    BY SequencesAre DEF ForecastInv, Inv, Types
  <2> QED BY <2>1, <2>2, <2>3
<1> QED BY <1>1, <1>2 DEF ForecastsFollowMeasurements

\* The index experiment comes before the forecast of the one who measures, and
\* the rewrites after every forecast, whatever the world, the limits and the
\* team: also when the limit per turn spreads the requests of a role over
\* several rounds (mock.py:44-50, 197-209, 276, orchestrator.py:172-192).
THEOREM ForecastsKnowMeasurements == Spec => []ForecastsFollowMeasurements
<1>1. Init => ForecastInv
  BY ForecastInit
<1>2. ForecastInv /\ [Next]_vars => ForecastInv'
  BY ForecastStep
<1>3. ForecastInv => ForecastsFollowMeasurements
  BY ForecastsFollow
<1> QED BY <1>1, <1>2, <1>3, PTL DEF Spec
-----------------------------------------------------------------------------
(* The index is asked for before the forecast that needs it. *)

\* The one who measures has the index asked for by the time its forecast is executed, when there is a fixture.
FirstIndex(m, g) ==
    \A k \in DOMAIN g : g[k].call = "forecast" /\ m \in g[k].by =>
        "index" \in Asked(m) \/ \E l \in DOMAIN g : l < k /\ g[l].call = "index" /\ m \in g[l].by
IndexInv ==
    /\ CallsLeft /\ Rooted => \A m \in Leads : FirstIndex(m, queue)
    /\ Rooted => \A m \in Leads : \A j \in DOMAIN items :
        items[j].call = "forecast" /\ m \in items[j].by => "index" \in Asked(m)

\* A request fails exactly when its tool raises; what succeeds is found.
FareInv ==
    /\ \A i \in DOMAIN records :
        /\ records[i].status = "ok" => \E j \in DOMAIN items : items[j].call = records[i].call
        /\ records[i].status = "error" => Tool(records[i].call) \in world.broken
    /\ \A j \in DOMAIN items : Tool(items[j].call) \notin world.broken /\ items[j].effects \subseteq {"index", "rewrite"}
    /\ effects \subseteq {"index", "rewrite"}
    /\ status # "deliberating" => who > Len(team)

LEMMA IndexStep ==
    ASSUME Inv, RoundInv, AskedInv, LeadInv, IndexInv, Grown, [Next]_vars
    PROVE  IndexInv'
<1>1. Leads' = Leads /\ Rooted' = Rooted /\ limits' = limits
  BY DEF Grown, Leads, Rooted
<1>2. CASE UNCHANGED <<queue, records, items>>
  BY <1>1, <1>2 DEF IndexInv, FirstIndex, Asked, CallsLeft
<1>3. CASE EndRound
  <2>1. records' = records /\ items' = items /\ (CallsLeft' <=> CallsLeft) /\ \A m : Asked(m)' = Asked(m)
    BY <1>1, <1>3, EndIs DEF CallsLeft, Asked
  <2>2. CASE queue' = <<>>
    <3>1. DOMAIN queue' = {}
      BY <2>2
    <3> QED BY <1>1, <2>1, <3>1 DEF IndexInv, FirstIndex
  <2>3. CASE round < limits.rounds /\ \E kept, f : Collected(kept) /\ Gathers(queue', kept, f)
    <3>1. PICK kept, f : Collected(kept) /\ Gathers(queue', kept, f)
      BY <2>3
    <3>2. PICK g : g = queue'
      OBVIOUS
    <3>3. Requesting(g)
      BY <3>1, <3>2, GroupsRequest
    <3>4. ASSUME CallsLeft, Rooted, NEW m \in Leads, NEW k \in DOMAIN g, g[k].call = "forecast", m \in g[k].by
          PROVE  "index" \in Asked(m) \/ \E l \in DOMAIN g : l < k /\ g[l].call = "index" /\ m \in g[l].by
      <4>1. m \in Range(team) /\ "forecast" \in Range(Requests(m))
        BY <3>3, <3>4 DEF Requesting, Leads
      <4>2. LeadKeeps(Asked(m))
        <5>1. Claimed(m) = Asked(m) /\ LeadKeeps(Claimed(m))
          BY <1>3, <3>4, ClaimedAtEnd DEF LeadInv
        <5> QED BY <5>1
      <4>3. LeadKeeps(Asked(m) \cup Range(Requests(m)))
        BY <2>3, <4>2, LeadAsks DEF Inv
      <4>4. "index" \in Asked(m) \cup Range(Requests(m))
        BY <3>4, <4>1, <4>3 DEF LeadKeeps, Early
      <4>5. ASSUME "index" \in Range(Requests(m))
            PROVE  \E l \in DOMAIN g : l < k /\ g[l].call = "index" /\ m \in g[l].by
        <5>1. PICK l \in DOMAIN g : g[l].call = "index"
          BY <3>3, <4>1, <4>5 DEF Requesting
        <5>2. m \in g[l].by
          BY <3>3, <4>1, <4>5, <5>1 DEF Requesting
        <5>3. LeadRank["index"] < LeadRank["forecast"]
          BY LeadRankIs
        <5>4. l < k
          BY <2>3, <3>1, <3>2, <3>4, <4>1, <4>5, <5>1, <5>3, LeadIsFirst DEF Inv
        <5> QED BY <5>1, <5>2, <5>4
      <4> QED BY <4>4, <4>5
    <3> QED BY <1>1, <2>1, <3>2, <3>4 DEF IndexInv, FirstIndex
  <2> QED BY <1>3, <2>2, <2>3, EndIs
<1>4. CASE RunTool
  <2>1. PICK g, why : Ran(g, why)
    BY <1>4, RunIs DEF Inv, AskedInv
  <2>2. \A m : Asked(m) \subseteq Asked(m)' /\ (m \in g.by /\ why # "budget" => g.call \in Asked(m)')
    BY <2>1, AskedGrows DEF Inv
  <2>3. /\ 1 \in DOMAIN queue /\ g = queue[1] /\ (why = "budget" <=> ~CallsLeft)
        /\ \A k \in DOMAIN queue : k \in Nat \ {0} /\ (k # 1 => k - 1 \in DOMAIN queue' /\ queue'[k - 1] = queue[k])
        /\ \A k \in DOMAIN queue' : k \in Nat \ {0} /\ k + 1 \in DOMAIN queue /\ queue'[k] = queue[k + 1]
    BY <2>1 DEF Ran
  <2>4. ASSUME CallsLeft', Rooted, NEW m \in Leads, NEW k \in DOMAIN queue', queue'[k].call = "forecast", m \in queue'[k].by
        PROVE  "index" \in Asked(m)' \/ \E l \in DOMAIN queue' : l < k /\ queue'[l].call = "index" /\ m \in queue'[l].by
    <3>1. CallsLeft /\ why # "budget"
      <4>1. Len(items) \in Nat /\ Len(items') \in Nat /\ limits.calls \in Nat /\ Len(items) <= Len(items')
        BY SequencesAre, LimitsAssumption DEF Inv, Types, Grown
      <4> QED BY <1>1, <2>3, <2>4, <4>1 DEF CallsLeft
    <3>2. FirstIndex(m, queue) /\ k + 1 \in DOMAIN queue /\ queue[k + 1].call = "forecast" /\ m \in queue[k + 1].by
      BY <2>3, <2>4, <3>1 DEF IndexInv
    <3>3. CASE "index" \in Asked(m)
      BY <2>2, <3>3
    <3>4. CASE \E l \in DOMAIN queue : l < k + 1 /\ queue[l].call = "index" /\ m \in queue[l].by
      <4>1. PICK l \in DOMAIN queue : l < k + 1 /\ queue[l].call = "index" /\ m \in queue[l].by
        BY <3>4
      <4>2. CASE l = 1
        BY <2>2, <2>3, <3>1, <4>1, <4>2
      <4>3. CASE l # 1
        <5>1. l - 1 \in DOMAIN queue' /\ queue'[l - 1] = queue[l] /\ l - 1 < k
          BY <2>3, <4>1, <4>3
        <5> QED BY <4>1, <5>1
      <4> QED BY <4>2, <4>3
    <3> QED BY <3>2, <3>3, <3>4 DEF FirstIndex
  <2>5. ASSUME Rooted, NEW m \in Leads, NEW j \in DOMAIN items', items'[j].call = "forecast", m \in items'[j].by
        PROVE  "index" \in Asked(m)'
    <3>1. CASE j \in DOMAIN items /\ items'[j] = items[j]
      BY <2>2, <2>5, <3>1 DEF IndexInv
    <3>2. CASE why # "ok"
      BY <2>1, <2>5, <3>1, <3>2 DEF Ran
    <3>3. CASE why = "ok"
      <4>1. PICK e : e.call = g.call /\ e.by = g.by /\ IsMore(items, e, items')
        BY <2>1, <3>3 DEF Ran
      <4>2. items'[j] = e \/ (j \in DOMAIN items /\ items'[j] = items[j])
        BY <4>1 DEF IsMore
      <4>3. CASE items'[j] = e
        <5>1. CallsLeft /\ queue[1].call = "forecast" /\ m \in queue[1].by
          BY <2>3, <2>5, <3>3, <4>1, <4>3
        <5>2. "index" \in Asked(m) \/ \E l \in DOMAIN queue : l < 1
          BY <2>3, <2>5, <5>1 DEF IndexInv, FirstIndex
        <5> QED BY <2>2, <2>3, <5>2
      <4> QED BY <3>1, <4>2, <4>3
    <3> QED BY <3>2, <3>3
  <2> QED BY <1>1, <2>4, <2>5 DEF IndexInv, FirstIndex
<1> QED BY <1>2, <1>3, <1>4 DEF Next, Speak, NextRound, vars

LEMMA FareStep == ASSUME Inv, RoundInv, AskedInv, FareInv, Grown, [Next]_vars PROVE FareInv'
<1>1. world' = world /\ team' = team /\ who \in Nat /\ Len(team) \in Nat
  BY TeamsAssumption DEF Grown, Inv, Types
<1>2. CASE UNCHANGED <<records, items, effects>>
  <2>1. status' # "deliberating" => who' > Len(team)
    BY <1>1, <1>2 DEF FareInv, Next, Speak, EndRound, RunTool, NextRound, vars
  <2> QED BY <1>1, <1>2, <2>1 DEF FareInv
<1>3. CASE RunTool
  <2>1. PICK g, why : Ran(g, why)
    BY <1>3, RunIs DEF Inv, AskedInv
  <2>2. /\ why \in {"ok", "error", "budget"} /\ (why # "budget" => (why = "error" <=> Tool(g.call) \in world.broken))
        /\ status' = status /\ who' = who
    BY <2>1 DEF Ran
  <2>3. effects' \subseteq {"index", "rewrite"} /\ effects \subseteq effects'
    BY <2>1 DEF Ran, FareInv, Measures
  <2>4. ASSUME NEW j \in DOMAIN items'
        PROVE  Tool(items'[j].call) \notin world.broken /\ items'[j].effects \subseteq {"index", "rewrite"}
    <3>1. CASE j \in DOMAIN items /\ items'[j] = items[j]
      BY <3>1 DEF FareInv
    <3>2. CASE why # "ok"
      BY <2>1, <3>1, <3>2 DEF Ran
    <3>3. CASE why = "ok"
      <4>1. PICK e : e.call = g.call /\ e.effects = effects /\ IsMore(items, e, items')
        BY <2>1, <3>3 DEF Ran
      <4>2. items'[j] = e \/ (j \in DOMAIN items /\ items'[j] = items[j])
        BY <4>1 DEF IsMore
      <4>3. CASE items'[j] = e
        BY <2>2, <3>3, <4>1, <4>3 DEF FareInv
      <4> QED BY <3>1, <4>2, <4>3
    <3> QED BY <3>2, <3>3
  <2>5. ASSUME NEW c, \E j \in DOMAIN items : items[j].call = c PROVE \E j \in DOMAIN items' : items'[j].call = c
    <3>1. PICK j \in DOMAIN items : items[j].call = c
      BY <2>5
    <3>2. j \in 1..Len(items) /\ DOMAIN items' = 1..Len(items') /\ Len(items) \in Nat /\ Len(items') \in Nat
          /\ Len(items) <= Len(items')
      BY SequencesAre DEF Inv, Types, Grown
    <3>3. j \in DOMAIN items' /\ items'[j] = items[j]
      BY <3>2 DEF Grown
    <3> QED BY <3>1, <3>3
  <2>6. ASSUME NEW i \in DOMAIN records'
        PROVE  /\ records'[i].status = "ok" => \E j \in DOMAIN items' : items'[j].call = records'[i].call
               /\ records'[i].status = "error" => Tool(records'[i].call) \in world.broken
    <3>1. PICK e : e.call = g.call /\ e.status = why /\ IsMore(records, e, records')
      BY <2>1 DEF Ran
    <3>2. records'[i] = e \/ (i \in DOMAIN records /\ records'[i] = records[i])
      BY <3>1 DEF IsMore
    <3>3. CASE i \in DOMAIN records /\ records'[i] = records[i]
      <4>1. PICK c : c = records[i].call
        OBVIOUS
      <4>2. records[i].status = "ok" => \E j \in DOMAIN items : items[j].call = c
        BY <3>3, <4>1 DEF FareInv
      <4>3. records[i].status = "ok" => \E j \in DOMAIN items' : items'[j].call = c
        BY <2>5, <4>2
      <4>4. records[i].status = "error" => Tool(c) \in world.broken
        BY <3>3, <4>1 DEF FareInv
      <4> QED BY <3>3, <4>1, <4>3, <4>4
    <3>4. CASE records'[i] = e
      <4>1. ASSUME why = "ok" PROVE \E j \in DOMAIN items' : items'[j].call = g.call
        <5>1. PICK d : d.call = g.call /\ IsMore(items, d, items')
          BY <2>1, <4>1 DEF Ran
        <5>2. Len(items) + 1 \in DOMAIN items' /\ items'[Len(items) + 1] = d
          BY <5>1 DEF IsMore
        <5> QED BY <5>1, <5>2
      <4> QED BY <2>2, <3>1, <3>4, <4>1
    <3> QED BY <3>2, <3>3, <3>4
  <2> QED BY <1>1, <2>2, <2>3, <2>4, <2>6 DEF FareInv
<1>4. CASE EndRound
  BY <1>2, <1>4, EndIs
<1> QED BY <1>2, <1>3, <1>4 DEF Next, Speak, NextRound, vars
-----------------------------------------------------------------------------
(* What the single agent decides, and what the scoring makes of it. *)

\* What the single agent decides has headroom, and of what has it rests on the least and costs the least.
LEMMA SingleChooses ==
    ASSUME NEW out, Forecasted(out), NEW p, p = SinglePosition(out), p # Undecided
    PROVE  /\ p \in OptionSet /\ out[p].over = 0
           /\ \A o \in OptionSet : out[o].over = 0 =>
                \/ out[p].unknowns < out[o].unknowns
                \/ out[p].unknowns = out[o].unknowns /\ out[p].months <= out[o].months
<1> DEFINE S == {x \in Range(Options) : out[x].over = 0}
           key == [o \in S |-> <<out[o].unknowns, out[o].months, out[o].over, Rank(Options, o)>>]
<1>1. S \in SUBSET OptionSet /\ DOMAIN key = S /\ IsFiniteSet(S)
  BY OptionsAre, FS_Subset
<1>2. ASSUME NEW o \in S
      PROVE  /\ out[o].unknowns \in Int /\ out[o].months \in Int /\ out[o].over = 0 /\ o \in OptionSet
             /\ key[o] = <<out[o].unknowns, out[o].months, 0, Rank(Options, o)>> /\ key[o] \in [1..4 -> Int]
             /\ Options[key[o][4]] = o
  <2>1. /\ out[o].over = 0 /\ out[o].unknowns \in Int /\ out[o].months \in Int /\ Rank(Options, o) \in Int
        /\ Options[Rank(Options, o)] = o /\ o \in OptionSet
    BY <1>1, RankIs DEF Forecasted
  <2>2. key[o] = <<out[o].unknowns, out[o].months, 0, Rank(Options, o)>>
    BY <2>1
  <2> HIDE DEF key
  <2>3. 0 \in Int
    OBVIOUS
  <2> QED BY <2>1, <2>2, <2>3, Tuples
<1>3. p = Best(key)
  BY DEF SinglePosition
<1>4. \A o \in OptionSet : out[o].over = 0 => o \in S
  BY OptionsAre
<1> HIDE DEF S, key
<1>5. \A o, q \in S : key[o] = key[q] => o = q
  BY <1>2
<1>6. p \in S /\ \A o \in S \ {p} : Before(key[p], key[o])
  <2>1. PICK n \in Nat : n = 4
    OBVIOUS
  <2>2. \A o \in S : key[o] \in [1..n -> Int]
    BY <1>2, <2>1
  <2>3. IF S = {} THEN Best(key) = Undecided
        ELSE Best(key) \in S /\ \A o \in S \ {Best(key)} : Before(key[Best(key)], key[o])
    BY ONLY <1>1, <1>5, <2>2, BestIn
  <2> QED BY <1>3, <2>3
<1>7. ASSUME NEW o \in S
      PROVE  \/ out[p].unknowns < out[o].unknowns
             \/ out[p].unknowns = out[o].unknowns /\ out[p].months <= out[o].months
  <2>1. /\ key[p] = <<out[p].unknowns, out[p].months, 0, Rank(Options, p)>>
        /\ key[o] = <<out[o].unknowns, out[o].months, 0, Rank(Options, o)>>
        /\ out[p].unknowns \in Int /\ out[p].months \in Int /\ out[o].unknowns \in Int /\ out[o].months \in Int
    BY <1>2, <1>6
  <2>2. CASE o = p
    BY <2>1, <2>2
  <2>3. CASE o # p
    <3>1. PICK i \in DOMAIN key[p] : key[p][i] < key[o][i] /\ \A j \in 1..i - 1 : key[p][j] = key[o][j]
      BY <1>6, <2>3 DEF Before
    <3>2. i \in 1..4
      BY <2>1
    <3>3. CASE i = 1
      BY <2>1, <3>1, <3>3
    <3>4. CASE i # 1
      <4>1. 1 \in 1..i - 1 /\ (i # 2 => 2 \in 1..i - 1)
        BY <3>2, <3>4
      <4>2. out[p].unknowns = out[o].unknowns
        BY <2>1, <3>1, <4>1
      <4>3. out[p].months <= out[o].months
        <5>1. CASE i = 2
          BY <2>1, <3>1, <5>1
        <5>2. CASE i # 2
          BY <2>1, <3>1, <4>1, <5>2
        <5> QED BY <5>1, <5>2
      <4> QED BY <4>2, <4>3
    <3> QED BY <3>3, <3>4
  <2> QED BY <2>2, <2>3
<1> QED BY <1>2, <1>4, <1>6, <1>7

\* Such a choice fares well under the reference, if the forecast it rests on knows no more of the experiments.
LEMMA ChoiceFares ==
    ASSUME world \in Worlds, NEW E, "rewrite" \notin E, "index" \in E => "index" \in Reference,
           NEW p, p = SinglePosition(Outcomes(E)), p # Undecided
    PROVE  /\ Outcome(p, Reference).over <= Outcome(RuleBased, Reference).over
           /\ ("index" \in E <=> "index" \in Reference) /\ E \subseteq {"index", "rewrite"} /\ Eligible # {}
                => p \in ReferenceBest
<1> DEFINE out == Outcomes(E)
<1>1. \A o \in OptionSet : out[o] = Outcome(o, E)
  BY OptionsAre DEF Outcomes
<1>2. Forecasted(out)
  BY OutcomesAre
<1> HIDE DEF out
<1>3. /\ p \in OptionSet /\ Outcome(p, E).over = 0
      /\ \A o \in OptionSet : Outcome(o, E).over = 0 =>
            \/ Outcome(p, E).unknowns < Outcome(o, E).unknowns
            \/ Outcome(p, E).unknowns = Outcome(o, E).unknowns /\ Outcome(p, E).months <= Outcome(o, E).months
  BY <1>1, <1>2, SingleChooses DEF out
<1>4. "keep" \in OptionSet
  BY DEF OptionSet
<1>5. \A o \in OptionSet : world.grade[o] \in Nat
  BY OptionsAre, WorldsAssumption
<1>6. \A F : \A o \in OptionSet : /\ Outcome(o, F).over = Grade(o, F) /\ Outcome(o, F).unknowns \in {0, 1}
                                 /\ (Outcome(o, F).unknowns = 0 <=> o \notin {"scale", "rewrite"} /\ (o = "index" => o \in F))
  BY DEF Outcome
<1>7. Outcome(p, Reference).over = 0
  <2>1. ASSUME p = "rewrite" \/ (p = "index" /\ p \notin E) PROVE FALSE
    <3>1. Outcome("keep", E).over = 0 /\ Outcome("keep", E).unknowns = 0 /\ Outcome(p, E).unknowns = 1
      <4>1. Grade(p, E) = world.grade["keep"] /\ Grade("keep", E) = world.grade["keep"]
        BY <2>1 DEF Grade
      <4> QED BY <1>3, <1>4, <1>6, <2>1, <4>1
    <3> QED BY <1>3, <1>4, <3>1
  <2>2. Grade(p, E) = world.grade[p] /\ Grade(p, Reference) = world.grade[p]
    BY <2>1 DEF Grade
  <2> QED BY <1>3, <1>6, <2>2
<1>8. Outcome(RuleBased, Reference).over \in Nat
  <2>1. RuleBased \in OptionSet
    BY DEF RuleBased, OptionSet
  <2>2. Grade(RuleBased, Reference) \in Nat
    BY <1>4, <1>5, <2>1 DEF Grade
  <2> QED BY <1>6, <2>1, <2>2
<1>9. ASSUME "index" \in E <=> "index" \in Reference, E \subseteq {"index", "rewrite"}, Eligible # {}
      PROVE  p \in ReferenceBest
  <2>1. E = Reference
    BY <1>9 DEF Reference
  <2>2. PICK e \in Eligible : TRUE
    BY <1>9
  <2>3. e \in OptionSet /\ Outcome(e, E).over = 0 /\ Outcome(e, E).unknowns = 0
    BY <2>1, OptionsAre DEF Eligible
  <2>4. Outcome(p, E).unknowns = 0
    BY <1>3, <1>6, <2>3
  <2>5. p \in Eligible
    BY <1>3, <2>1, <2>4, OptionsAre DEF Eligible
  <2>6. ASSUME NEW o \in Eligible PROVE Outcome(p, Reference).months <= Outcome(o, Reference).months
    <3>1. o \in OptionSet /\ Outcome(o, E).over = 0 /\ Outcome(o, E).unknowns = 0
      BY <2>1, OptionsAre DEF Eligible
    <3>2. Outcome(p, E).months <= Outcome(o, E).months
      BY <1>3, <2>4, <3>1
    <3> QED BY <2>1, <3>2
  <2> QED BY <2>5, <2>6 DEF ReferenceBest
<1> QED BY <1>7, <1>8, <1>9

\* With one role in the team the scoring recommends what it ended with.
LEMMA OneVote ==
    ASSUME Range(team) = {"single"}, Recommendation # Undecided
    PROVE  Recommendation = FinalPosition("single") /\ Recommendation \in OptionSet
<1>1. PICK c : c = FinalPosition("single")
  OBVIOUS
<1>2. ASSUME NEW o PROVE Votes(o) = IF c = o THEN 1 ELSE 0
  <2> DEFINE W == {r \in Range(team) : FinalPosition(r) = o}
  <2>1. CASE c = o
    <3>1. W = {"single"}
      BY <1>1, <2>1
    <3> QED BY <2>1, <3>1, FS_Singleton DEF Votes
  <2>2. CASE c # o
    <3>1. W = {}
      BY <1>1, <2>2
    <3> QED BY <2>2, <3>1, FS_EmptySet DEF Votes
  <2> QED BY <2>1, <2>2
<1> DEFINE leaders == {o \in Range(Options) : Votes(o) > 0 /\ \A p \in Range(Options) : Votes(p) <= Votes(o)}
<1>3. Recommendation = IF leaders = {} THEN Undecided ELSE CHOOSE o \in leaders : \A p \in leaders : Rank(ById, o) <= Rank(ById, p)
  BY DEF Recommendation
<1>4. leaders \subseteq {c} /\ leaders \subseteq OptionSet
  BY <1>2, OptionsAre
<1> HIDE DEF leaders
<1>5. leaders = {c} /\ c \in OptionSet
  BY <1>3, <1>4
<1>6. Rank(ById, c) <= Rank(ById, c)
  BY <1>5, RankIs
<1> QED BY <1>1, <1>3, <1>5, <1>6
-----------------------------------------------------------------------------
(* The single agent and the reference. *)

\* What a turn reads is a forecast.
LEMMA ForecastIsRead ==
    ASSUME Types, NEW t, t.seen \in 0..Len(items), NEW V, V = Saw(t), NEW f, f = ForecastIn(V), f # 0
    PROVE  f \in DOMAIN items /\ items[f].call = "forecast"
<1> DEFINE base == {i \in V : items[i].call = "forecast"}
           measured == {i \in base : items[i].effects # {}}
           W == {0} \cup IF measured # {} THEN measured ELSE base
<1>1. Len(items) \in Nat /\ DOMAIN items = 1..Len(items)
  BY SequencesAre DEF Types
<1>2. \A k \in V : k \in 1..Len(items)
  BY <1>1 DEF Saw
<1>3. f = Max(W)
  BY DEF ForecastIn
<1>4. measured \subseteq base /\ base \subseteq 1..Len(items)
  BY <1>2
<1>5. \A k \in base : items[k].call = "forecast"
  OBVIOUS
<1> HIDE DEF base, measured
<1>6. W \in SUBSET Nat /\ W # {} /\ (\A k \in W : k <= Len(items)) /\ W \subseteq {0} \cup base
  BY <1>1, <1>4
<1> HIDE DEF W
<1>7. Max(W) \in W
  BY <1>1, <1>6, MaxIn
<1> QED BY <1>1, <1>3, <1>4, <1>5, <1>6, <1>7

ScoreInv == ForecastInv /\ IndexInv /\ FareInv

\* When the single agent is alone a forecast knows the index if it could be measured at all, and nothing else.
LEMMA ForecastsKnow ==
    ASSUME ScoreInv, team = <<"single">>, NEW j \in DOMAIN items, items[j].call = "forecast"
    PROVE  /\ "rewrite" \notin items[j].effects /\ items[j].effects \subseteq {"index", "rewrite"}
           /\ "index" \in items[j].effects => "index" \in Reference
           /\ Rooted => ("index" \in items[j].effects <=> "index" \in Reference)
<1>1. Range(team) = {"single"} /\ Leads = {"single"}
  BY DEF Range, Leads, Measurers
<1>2. items[j].by = {"single"}
  BY <1>1 DEF ScoreInv, ForecastInv, AskedInv, Proper
<1>3. Tool("index") = "index" /\ ("index" \in Reference <=> "index" \notin world.broken)
  BY DEF Tool, Reference
<1>4. "rewrite" \notin items[j].effects /\ items[j].effects \subseteq {"index", "rewrite"}
  BY ForecastsFollow DEF ScoreInv, ForecastsFollowMeasurements, FareInv
<1>5. ASSUME "index" \in items[j].effects PROVE "index" \in Reference
  <2>1. PICK i \in DOMAIN items : items[i].call = "index"
    BY <1>5 DEF ScoreInv, ForecastInv, Trail
  <2> QED BY <1>3, <2>1 DEF ScoreInv, FareInv
<1>6. ASSUME Rooted, "index" \in Reference PROVE "index" \in items[j].effects
  <2>1. "index" \in Asked("single")
    BY <1>1, <1>2, <1>6 DEF ScoreInv, IndexInv
  <2>2. PICK k \in DOMAIN records : records[k].status \in {"ok", "error"} /\ records[k].call = "index"
    BY <2>1 DEF Asked
  <2>3. records[k].status = "ok"
    BY <1>3, <1>6, <2>2 DEF ScoreInv, FareInv
  <2>4. PICK i \in DOMAIN items : items[i].call = "index"
    BY <2>2, <2>3 DEF ScoreInv, FareInv
  <2>5. i < j
    <3>1. items[j].by \cap Measurers # {}
      BY <1>2 DEF Measurers
    <3> QED BY <2>4, <3>1 DEF ScoreInv, ForecastInv, OrderInv
  <2> QED BY <2>4, <2>5 DEF ScoreInv, ForecastInv, Trail
<1> QED BY <1>4, <1>5, <1>6

\* What the single agent ends with is what its policy makes of such a forecast.
LEMMA SingleEnds ==
    ASSUME ScoreInv, team = <<"single">>, status = "concluded", NEW p, p = FinalPosition("single"), p # Undecided
    PROVE  \E j \in DOMAIN items : items[j].call = "forecast" /\ p = SinglePosition(Outcomes(items[j].effects))
<1> DEFINE S == {i \in DOMAIN turns : turns[i].role = "single"}
<1>1. Len(turns) \in Nat /\ DOMAIN turns = 1..Len(turns) /\ Types
  BY SequencesAre DEF ScoreInv, ForecastInv, Inv, Types
<1>2. S # {}
  <2>1. 1 \in DOMAIN team /\ team[1] = "single" /\ Len(team) = 1
    OBVIOUS
  <2>2. 1 < who
    BY <2>1 DEF ScoreInv, FareInv
  <2>3. PICK t \in Range(turns) : t.role = "single"
    BY <2>1, <2>2 DEF ScoreInv, ForecastInv, Inv, SpokenInv
  <2> QED BY <2>3 DEF Range
<1>3. Max(S) \in S
  <2>1. S \in SUBSET Nat /\ \A k \in S : k <= Len(turns)
    BY <1>1
  <2> HIDE DEF S
  <2> QED BY <1>1, <1>2, <2>1, MaxIn
<1>4. PICK t \in Range(turns) : t.role = "single" /\ p = t.position
  BY <1>3 DEF FinalPosition, Range
<1>5. p = Stand(t) /\ t.seen \in 0..Len(items)
  BY <1>4 DEF ScoreInv, ForecastInv, Inv, PositionsInv, ClockInv
<1>6. PICK V, f, e, tested, strict : RestsOn(t, V, f, e, tested, strict)
  BY RestsOnSomething
<1>7. p = IF f = 0 THEN Undecided ELSE Position("single", Outcomes(e), tested, strict)
  BY <1>4, <1>5, <1>6, StandIs DEF Stands
<1>8. f # 0 /\ p = SinglePosition(Outcomes(e))
  BY <1>7 DEF Position
<1>9. V = Saw(t) /\ f = ForecastIn(V) /\ e = items[f].effects
  BY <1>6, <1>8 DEF RestsOn
<1>10. f \in DOMAIN items /\ items[f].call = "forecast"
  BY <1>1, <1>5, <1>8, <1>9, ForecastIsRead
<1> QED BY <1>8, <1>9, <1>10

LEMMA ScoreStep == ScoreInv /\ [Next]_vars => ScoreInv'
<1> SUFFICES ASSUME ScoreInv, [Next]_vars PROVE ScoreInv'
  OBVIOUS
<1>1. ForecastInv /\ IndexInv /\ FareInv /\ Inv /\ RoundInv /\ AskedInv /\ LeadInv
  BY DEF ScoreInv, ForecastInv
<1>2. Grown
  BY <1>1, StepGrows DEF Inv
<1>3. ForecastInv'
  BY <1>1, ForecastStep
<1>4. IndexInv' /\ FareInv'
  BY <1>1, <1>2, IndexStep, FareStep
<1> QED BY <1>3, <1>4 DEF ScoreInv

LEMMA ScoreInit == Init => ScoreInv
<1> SUFFICES ASSUME Init PROVE ScoreInv
  OBVIOUS
<1>1. DOMAIN queue = {} /\ DOMAIN items = {} /\ DOMAIN records = {} /\ effects = {} /\ status = "deliberating"
  BY DEF Init
<1> QED BY <1>1, ForecastInit DEF ScoreInv, IndexInv, FirstIndex, FareInv

LEMMA NoRegret == ScoreInv => SingleHasNoRegret
<1> SUFFICES ASSUME ScoreInv, status = "concluded", team = <<"single">>, Recommendation # Undecided
             PROVE  /\ Outcome(Recommendation, Reference).over <= Outcome(RuleBased, Reference).over
                    /\ Rooted /\ Eligible # {} => Recommendation \in ReferenceBest
  BY DEF SingleHasNoRegret
<1>1. Range(team) = {"single"}
  BY DEF Range
<1>2. PICK p : p = Recommendation
  OBVIOUS
<1>3. p = FinalPosition("single") /\ p # Undecided
  BY <1>1, <1>2, OneVote
<1>4. PICK j \in DOMAIN items : items[j].call = "forecast" /\ p = SinglePosition(Outcomes(items[j].effects))
  BY <1>3, SingleEnds
<1>5. PICK E : E = items[j].effects
  OBVIOUS
<1>6. /\ "rewrite" \notin E /\ E \subseteq {"index", "rewrite"} /\ ("index" \in E => "index" \in Reference)
      /\ Rooted => ("index" \in E <=> "index" \in Reference)
  BY <1>4, <1>5, ForecastsKnow
<1>7. world \in Worlds
  BY DEF ScoreInv, ForecastInv, Inv, Types
<1>8. /\ Outcome(p, Reference).over <= Outcome(RuleBased, Reference).over
      /\ ("index" \in E <=> "index" \in Reference) /\ Eligible # {} => p \in ReferenceBest
  BY <1>3, <1>4, <1>5, <1>6, <1>7, ChoiceFares
<1> QED BY <1>2, <1>6, <1>8

\* The single agent stands comparison, whatever the evidence, the tools that
\* fail, the grades of the options and the limits: it decides by forecasts that
\* know what the reference knows (mock.py:625-638, compare.py:131-148).
THEOREM SingleStandsComparison == Spec => []SingleHasNoRegret
<1>1. Init => ScoreInv
  BY ScoreInit
<1>2. ScoreInv /\ [Next]_vars => ScoreInv'
  BY ScoreStep
<1>3. ScoreInv => SingleHasNoRegret
  BY NoRegret
<1> QED BY <1>1, <1>2, <1>3, PTL DEF Spec
-----------------------------------------------------------------------------
(* The plans of options exist: the recursion ends, since each option on the *)
(* path is there once.                                                      *)

\* The functions by which Assemble and Resolve are defined.
Assembles(sub, components, g) ==
    g = [n \in 0..Len(components) |-> IF n = 0 THEN BasePlan ELSE Combine(g[n - 1], sub[components[n]])]

LEMMA AssembleIsChosen ==
    \A sub, components : Assemble(sub, components) = (CHOOSE g : Assembles(sub, components, g))[Len(components)]
BY DEF Assemble, Assembles

\* The plans f after none, one, two, and so on of the first m components.
Assembled(sub, components, f, m) ==
    /\ f = [i \in 0..m |-> f[i]] /\ f[0] = BasePlan
    /\ \A i \in 1..m : f[i] = Combine(f[i - 1], sub[components[i]])

LEMMA AssembledExists ==
    ASSUME NEW sub, NEW components, NEW n \in Nat
    PROVE  \E f : Assembled(sub, components, f, n)
<1> DEFINE Bad == {m \in Nat : ~ \E f : Assembled(sub, components, f, m)}
<1> SUFFICES Bad = {}
  OBVIOUS
<1> SUFFICES ASSUME Bad # {} PROVE FALSE
  OBVIOUS
<1>1. PICK m \in Bad : \A k \in Bad : m <= k
  <2>1. Bad \in SUBSET Nat
    OBVIOUS
  <2> HIDE DEF Bad
  <2> QED BY <2>1, LeastNumber
<1>2. m \in Nat /\ ~ \E f : Assembled(sub, components, f, m)
  BY <1>1
<1>3. CASE m = 0
  <2> DEFINE f == [i \in 0..0 |-> BasePlan]
  <2>1. f = [i \in 0..0 |-> f[i]] /\ f[0] = BasePlan
    OBVIOUS
  <2> HIDE DEF f
  <2>2. Assembled(sub, components, f, 0)
    BY <2>1 DEF Assembled
  <2> QED BY <1>2, <1>3, <2>2
<1>4. CASE m # 0
  <2>1. m - 1 \in Nat /\ ~(m <= m - 1)
    BY <1>2, <1>4
  <2>2. PICK g : Assembled(sub, components, g, m - 1)
    BY <1>1, <2>1
  <2> DEFINE f == [i \in 0..m |-> IF i = m THEN Combine(g[m - 1], sub[components[m]]) ELSE g[i]]
  <2>3. f = [i \in 0..m |-> f[i]] /\ f[0] = BasePlan
    BY <1>2, <1>4, <2>2 DEF Assembled
  <2>4. ASSUME NEW i \in 1..m PROVE f[i] = Combine(f[i - 1], sub[components[i]])
    <3>1. i - 1 \in 0..m /\ i - 1 # m /\ f[i - 1] = g[i - 1]
      BY <1>2
    <3>2. CASE i = m
      BY <3>1, <3>2
    <3>3. CASE i # m
      <4>1. i \in 1..(m - 1) /\ f[i] = g[i]
        BY <1>2, <3>3
      <4> HIDE DEF f
      <4> QED BY <2>2, <3>1, <4>1 DEF Assembled
    <3> QED BY <3>2, <3>3
  <2> HIDE DEF f
  <2>5. Assembled(sub, components, f, m)
    BY <2>3, <2>4 DEF Assembled
  <2> QED BY <1>2, <2>5
<1> QED BY <1>3, <1>4

\* Assemble comes to the last of them.
LEMMA AssembleIs ==
    ASSUME NEW sub, NEW components, Len(components) \in Nat
    PROVE  \E f : Assembled(sub, components, f, Len(components)) /\ Assemble(sub, components) = f[Len(components)]
<1> DEFINE n == Len(components)
           g == CHOOSE h : Assembles(sub, components, h)
<1>1. PICK f : Assembled(sub, components, f, n)
  <2> HIDE DEF g
  <2> QED BY AssembledExists
<1>2. Assembles(sub, components, f)
  <2>1. \A i \in 0..n : f[i] = IF i = 0 THEN BasePlan ELSE Combine(f[i - 1], sub[components[i]])
    <3>1. \A i \in 0..n : i # 0 => i \in 1..n
      OBVIOUS
    <3> HIDE DEF n, g
    <3> QED BY <1>1, <3>1 DEF Assembled
  <2>2. f = [i \in 0..n |-> f[i]]
    BY <1>1 DEF Assembled
  <2> QED BY <2>1, <2>2 DEF Assembles
<1>3. Assembles(sub, components, g)
  <2> HIDE DEF n
  <2> QED BY <1>2
<1> HIDE DEF g
<1>4. Assembled(sub, components, g, n)
  <2>1. n \in Nat /\ 0 \in 0..n /\ \A i \in 1..n : i \in 0..n /\ i # 0
    OBVIOUS
  <2> QED BY <1>3, <2>1 DEF Assembles, Assembled
<1>5. Assemble(sub, components) = g[n]
  BY AssembleIsChosen DEF g
<1> QED BY <1>4, <1>5

\* An option that is not made of others, or that would be and does not say of which.
Single(o) == scenario.options[o].kind # "combined" \/ Missing(scenario.options[o])

\* The plan of an option, of which sub has the plans of its components.
PlanOf(sub, seen, o) ==
    IF o \in seen THEN Failed
    ELSE IF Single(o) THEN Finished(Leaf(scenario.options[o]))
    ELSE Finished(Assemble(sub, scenario.options[o].components))

Resolves(g) == g = [seen \in SUBSET OptionIds |-> [o \in OptionIds |-> PlanOf(g[seen \cup {o}], seen, o)]]

LEMMA ResolveIsChosen == Resolve = CHOOSE g : Resolves(g)
BY DEF Resolve, Resolves, PlanOf, Single

\* How many options are not on the path.
Ahead(seen) == Cardinality(OptionIds \ seen)

LEMMA AheadIs ==
    ASSUME NEW seen \in SUBSET OptionIds, NEW o \in OptionIds
    PROVE  /\ Ahead(seen) \in Nat /\ seen \cup {o} \in SUBSET OptionIds
           /\ Ahead(seen \cup {o}) = IF o \in seen THEN Ahead(seen) ELSE Ahead(seen) - 1
<1>1. IsFiniteSet(OptionIds \ seen)
  BY CapacityAssumption, FS_Subset
<1>2. OptionIds \ (seen \cup {o}) = (OptionIds \ seen) \ {o}
  OBVIOUS
<1>3. o \in seen => OptionIds \ (seen \cup {o}) = OptionIds \ seen
  OBVIOUS
<1>4. o \notin seen => Cardinality((OptionIds \ seen) \ {o}) = Cardinality(OptionIds \ seen) - 1
  BY <1>1, FS_RemoveElement
<1>5. Cardinality(OptionIds \ seen) \in Nat
  BY <1>1, FS_CardinalityType
<1> QED BY <1>2, <1>3, <1>4, <1>5 DEF Ahead

\* g has the plans of the options behind every path that leaves at most n options ahead.
Solves(g, n) ==
    \A seen \in SUBSET OptionIds : Ahead(seen) <= n =>
        g[seen] = [o \in OptionIds |-> PlanOf(g[seen \cup {o}], seen, o)]

LEMMA SolvedExists == ASSUME NEW n \in Nat PROVE \E g : g = [path \in SUBSET OptionIds |-> g[path]] /\ Solves(g, n)
<1> DEFINE Bad == {m \in Nat : ~ \E g : g = [path \in SUBSET OptionIds |-> g[path]] /\ Solves(g, m)}
<1> SUFFICES Bad = {}
  OBVIOUS
<1> SUFFICES ASSUME Bad # {} PROVE FALSE
  OBVIOUS
<1>1. PICK m \in Bad : \A k \in Bad : m <= k
  <2>1. Bad \in SUBSET Nat
    OBVIOUS
  <2> HIDE DEF Bad
  <2> QED BY <2>1, LeastNumber
<1>2. m \in Nat /\ ~ \E g : g = [path \in SUBSET OptionIds |-> g[path]] /\ Solves(g, m)
  BY <1>1
<1>3. PICK h : m # 0 => h = [path \in SUBSET OptionIds |-> h[path]] /\ Solves(h, m - 1)
  <2>1. CASE m = 0
    BY <2>1
  <2>2. CASE m # 0
    <3>1. m - 1 \in Nat /\ ~(m <= m - 1)
      BY <1>2, <2>2
    <3>2. m - 1 \notin Bad
      <4> HIDE DEF Bad
      <4> QED BY <1>1, <3>1
    <3> QED BY <3>1, <3>2
  <2> QED BY <2>1, <2>2
<1> DEFINE next(seen) == [o \in OptionIds |-> PlanOf(h[seen \cup {o}], seen, o)]
           g == [seen \in SUBSET OptionIds |-> IF Ahead(seen) <= m - 1 THEN h[seen] ELSE next(seen)]
<1>4. ASSUME NEW seen \in SUBSET OptionIds, Ahead(seen) <= m
      PROVE  g[seen] = [o \in OptionIds |-> PlanOf(g[seen \cup {o}], seen, o)]
  <2>1. ASSUME NEW o \in OptionIds PROVE PlanOf(g[seen \cup {o}], seen, o) = PlanOf(h[seen \cup {o}], seen, o)
    <3>1. CASE o \in seen
      BY <3>1 DEF PlanOf
    <3>2. CASE o \notin seen
      <4>1. Ahead(seen) \in Nat /\ seen \cup {o} \in SUBSET OptionIds /\ Ahead(seen \cup {o}) = Ahead(seen) - 1
        BY <3>2, AheadIs
      <4>2. Ahead(seen \cup {o}) <= m - 1
        BY <1>2, <1>4, <4>1
      <4>3. g[seen \cup {o}] = h[seen \cup {o}]
        BY <4>1, <4>2
      <4> HIDE DEF g
      <4> QED BY <4>3
    <3> QED BY <3>1, <3>2
  <2>2. g[seen] = next(seen)
    <3>1. CASE Ahead(seen) <= m - 1
      <4>1. m # 0
        <5>1. CASE OptionIds = {}
          <6>1. Ahead(seen) \in Nat
            BY CapacityAssumption, FS_Subset, FS_CardinalityType DEF Ahead
          <6> QED BY <1>2, <3>1, <6>1
        <5>2. CASE OptionIds # {}
          <6>1. Ahead(seen) \in Nat
            BY <5>2, AheadIs
          <6> QED BY <1>2, <3>1, <6>1
        <5> QED BY <5>1, <5>2
      <4>2. h[seen] = next(seen)
        BY <1>3, <3>1, <4>1 DEF Solves
      <4> HIDE DEF next
      <4> QED BY <3>1, <4>2
    <3>2. CASE ~(Ahead(seen) <= m - 1)
      <4> HIDE DEF next
      <4> QED BY <3>2
    <3> QED BY <3>1, <3>2
  <2> HIDE DEF g
  <2>3. next(seen) = [o \in OptionIds |-> PlanOf(g[seen \cup {o}], seen, o)]
    BY <2>1
  <2> QED BY <2>2, <2>3
<1>5. g = [path \in SUBSET OptionIds |-> g[path]]
  OBVIOUS
<1> HIDE DEF g
<1>6. Solves(g, m)
  BY <1>4 DEF Solves
<1> QED BY <1>2, <1>5, <1>6

\* Resolve is what it is defined to be.
LEMMA ResolveIs ==
    ASSUME NEW seen \in SUBSET OptionIds, NEW o \in OptionIds
    PROVE  Resolve[seen][o] = PlanOf(Resolve[seen \cup {o}], seen, o)
<1> DEFINE n == Cardinality(OptionIds)
<1>1. n \in Nat
  BY CapacityAssumption, FS_CardinalityType
<1>2. PICK g : g = [path \in SUBSET OptionIds |-> g[path]] /\ Solves(g, n)
  <2> HIDE DEF n
  <2> QED BY <1>1, SolvedExists
<1>3. ASSUME NEW path \in SUBSET OptionIds PROVE Ahead(path) <= n
  BY CapacityAssumption, FS_Subset DEF Ahead
<1>4. \A path \in SUBSET OptionIds : g[path] = [p \in OptionIds |-> PlanOf(g[path \cup {p}], path, p)]
  <2> HIDE DEF n
  <2> QED BY <1>2, <1>3 DEF Solves
<1>5. g = [path \in SUBSET OptionIds |-> g[path]]
  BY <1>2
<1>6. Resolves(g)
  BY <1>4, <1>5 DEF Resolves
<1>7. Resolves(Resolve)
  BY <1>6, ResolveIsChosen
<1>8. Resolve[seen] = [p \in OptionIds |-> PlanOf(Resolve[seen \cup {p}], seen, p)]
  BY <1>7 DEF Resolves
<1> QED BY <1>8

\* What holds behind a path if it holds behind every longer one, holds behind every path.
LEMMA PathInduction ==
    ASSUME NEW P \in SUBSET (SUBSET OptionIds),
           \A seen \in SUBSET OptionIds : (\A o \in OptionIds \ seen : seen \cup {o} \in P) => seen \in P
    PROVE  P = SUBSET OptionIds
<1> DEFINE Bad == {seen \in SUBSET OptionIds : seen \notin P}
           sizes == {Ahead(seen) : seen \in Bad}
<1> SUFFICES ASSUME Bad # {} PROVE FALSE
  OBVIOUS
<1>1. ASSUME NEW seen \in SUBSET OptionIds PROVE Ahead(seen) \in Nat
  BY CapacityAssumption, FS_Subset, FS_CardinalityType DEF Ahead
<1>2. sizes # {} /\ sizes \in SUBSET Nat
  BY <1>1
<1>3. PICK m \in sizes : \A k \in sizes : m <= k
  <2> HIDE DEF sizes
  <2> QED BY <1>2, LeastNumber
<1>4. PICK seen \in Bad : m = Ahead(seen)
  BY <1>3
<1>5. ASSUME NEW o \in OptionIds \ seen PROVE seen \cup {o} \in P
  <2>1. Ahead(seen) \in Nat /\ seen \cup {o} \in SUBSET OptionIds /\ Ahead(seen \cup {o}) = Ahead(seen) - 1
    BY <1>4, AheadIs
  <2>2. ~(m <= Ahead(seen \cup {o}))
    BY <1>4, <2>1
  <2>3. Ahead(seen \cup {o}) \notin sizes
    <3> HIDE DEF sizes, Bad
    <3> QED BY <1>3, <2>2
  <2>4. \A path \in Bad : Ahead(path) \in sizes
    <3> HIDE DEF Bad
    <3> QED OBVIOUS
  <2>5. seen \cup {o} \notin Bad
    <3> HIDE DEF Bad, sizes
    <3> QED BY <2>3, <2>4
  <2> QED BY <2>1, <2>5
<1> QED BY <1>4, <1>5
-----------------------------------------------------------------------------
(* What a plan is. *)

PlanFields == {"ok", "class", "start", "nextDay", "effects", "event", "month", "unknown", "deadline"}

\* A job moved before the horizon waits for the next day; one that was there already does not.
Timed(p) ==
    /\ p.start \in Int /\ p.nextDay \in BOOLEAN
    /\ (p.nextDay <=> p.start < HorizonStart) \/ (p.start = scenario.batch.start /\ ~p.nextDay)

Good(p) == p = Failed \/ (DOMAIN p = PlanFields /\ p.ok = TRUE /\ Timed(p))

LEMMA FailedIs == Failed.ok = FALSE /\ Good(Failed)
BY DEF Failed, Good

LEMMA GoodIsOkOrNot == ASSUME NEW p, Good(p) PROVE p.ok \in BOOLEAN /\ (~p.ok <=> p = Failed)
<1>1. p.ok \in BOOLEAN
  BY FailedIs DEF Good
<1>2. p = Failed => ~p.ok
  BY FailedIs
<1>3. p # Failed => p.ok = TRUE
  BY DEF Good
<1> QED BY <1>1, <1>2, <1>3

LEMMA BasePlanIsGood == ASSUME scenario \in Scenarios PROVE Good(BasePlan) /\ BasePlan.ok
<1>1. scenario.batch.start \in Int
  BY ScenariosAssumption
<1> QED BY <1>1 DEF Good, Timed, BasePlan, PlanFields

LEMMA AlteredIsGood ==
    ASSUME scenario \in Scenarios, NEW m,
           \/ \E class, event, month, unknown :
                m = [BasePlan EXCEPT !.class = class, !.event = event, !.month = month, !.unknown = unknown]
           \/ \E unknown : m = [BasePlan EXCEPT !.unknown = unknown]
           \/ \E e, month, unknown : m = [BasePlan EXCEPT !.effects = e, !.month = month, !.unknown = unknown]
    PROVE  Good(m) /\ m.ok
<1>1. Good(BasePlan) /\ BasePlan.ok
  BY BasePlanIsGood
<1>2. DOMAIN BasePlan = PlanFields /\ BasePlan.ok = TRUE /\ Timed(BasePlan)
  BY <1>1, FailedIs DEF Good
<1> DEFINE base == BasePlan
<1> HIDE DEF base
<1>3. \/ \E class, event, month, unknown :
          m = [base EXCEPT !.class = class, !.event = event, !.month = month, !.unknown = unknown]
      \/ \E unknown : m = [base EXCEPT !.unknown = unknown]
      \/ \E e, month, unknown : m = [base EXCEPT !.effects = e, !.month = month, !.unknown = unknown]
  BY DEF base
<1>4. DOMAIN base = PlanFields
  BY <1>2 DEF base
<1>5. DOMAIN m = PlanFields /\ m.ok = base.ok /\ m.start = base.start /\ m.nextDay = base.nextDay
  BY <1>3, <1>4 DEF PlanFields
<1> QED BY <1>2, <1>5 DEF Good, Timed, base

LEMMA MovedIsGood ==
    ASSUME scenario \in Scenarios, NEW to \in Int
    PROVE  LET m == [BasePlan EXCEPT !.start = to, !.nextDay = to < HorizonStart] IN Good(m) /\ m.ok
<1> DEFINE base == BasePlan
           late == to < HorizonStart
           m == [base EXCEPT !.start = to, !.nextDay = late]
<1>1. DOMAIN base = PlanFields /\ base.ok = TRUE
  BY BasePlanIsGood, FailedIs DEF Good
<1>2. late \in BOOLEAN
  OBVIOUS
<1> HIDE DEF base, late
<1>3. DOMAIN m = PlanFields /\ m.ok = base.ok /\ m.start = to /\ m.nextDay = late
  BY <1>1 DEF PlanFields
<1> HIDE DEF m
<1>4. Timed(m)
  BY <1>2, <1>3 DEF Timed, late
<1>5. Good(m) /\ m.ok
  BY <1>1, <1>3, <1>4 DEF Good
<1> QED BY <1>5 DEF m, base, late

\* Why a leaf raises.
Flawed(opt) ==
    \/ Missing(opt) \/ Unreadable(opt)
    \/ opt.kind \in Resizes /\ ~CanResize(opt)
    \/ opt.kind = "reschedule_batch" /\ ~scenario.batch.planned

\* What a leaf alters of the base plan.
LEMMA LeafIsGood ==
    ASSUME scenario \in Scenarios, NEW o \in OptionIds, Single(o)
    PROVE  Good(Leaf(scenario.options[o])) /\ (Leaf(scenario.options[o]).ok <=> ~Flawed(scenario.options[o]))
<1> DEFINE opt == scenario.options[o]
           kind == opt.kind
<1>1. kind \in Kinds /\ scenario.batch.start \in Int /\ HorizonStart \in Int
  BY ScenariosAssumption, CapacityAssumption
<1>2. Good(BasePlan) /\ BasePlan.ok
  BY BasePlanIsGood
<1>3. Missing(opt) \/ kind # "combined"
  BY DEF Single
<1>4. kind = "reschedule_batch" /\ ~Unreadable(opt) => opt.to \in Clock
  BY DEF Unreadable
<1> HIDE DEF opt, kind
<1> SUFFICES Good(Leaf(opt)) /\ (Leaf(opt).ok <=> ~Flawed(opt))
  BY DEF opt
<1>5. CASE Missing(opt) \/ Unreadable(opt)
  <2>1. Leaf(opt) = Failed /\ Flawed(opt)
    BY <1>5 DEF Leaf, Flawed
  <2> QED BY <2>1, FailedIs
<1>6. CASE ~Missing(opt) /\ ~Unreadable(opt) /\ kind = "keep"
  <2>1. Leaf(opt) = BasePlan /\ ~Flawed(opt)
    BY <1>6 DEF Leaf, Flawed, Resizes, kind
  <2> QED BY <1>2, <2>1
<1>7. CASE ~Missing(opt) /\ ~Unreadable(opt) /\ kind \in Resizes
  <2>1. Leaf(opt) = Resize(opt) /\ kind # "reschedule_batch"
    BY <1>7 DEF Leaf, Resizes, kind
  <2>2. CASE ~CanResize(opt)
    <3>1. Resize(opt) = Failed /\ Flawed(opt)
      BY <1>7, <2>2 DEF Resize, Flawed, kind
    <3> QED BY <2>1, <3>1, FailedIs
  <2>3. CASE CanResize(opt)
    <3>1. \E class, event, month, unknown :
            Resize(opt) = [BasePlan EXCEPT !.class = class, !.event = event, !.month = month, !.unknown = unknown]
      BY <2>3 DEF Resize
    <3>2. Good(Resize(opt)) /\ Resize(opt).ok
      BY <1>1, <3>1, AlteredIsGood
    <3>3. ~Flawed(opt)
      BY <1>7, <2>1, <2>3 DEF Flawed, kind
    <3> QED BY <2>1, <3>2, <3>3
  <2> QED BY <2>2, <2>3
<1>8. CASE ~Missing(opt) /\ ~Unreadable(opt) /\ kind \in {"optimize_index", "optimize_rewrite"}
  <2>1. Leaf(opt) = Optimize(opt) /\ ~Flawed(opt)
    BY <1>8 DEF Leaf, Flawed, Resizes, kind
  <2>2. \/ \E unknown : Optimize(opt) = [BasePlan EXCEPT !.unknown = unknown]
        \/ \E e, month, unknown : Optimize(opt) = [BasePlan EXCEPT !.effects = e, !.month = month, !.unknown = unknown]
    BY DEF Optimize
  <2>3. Good(Optimize(opt)) /\ Optimize(opt).ok
    BY <1>1, <2>2, AlteredIsGood
  <2> QED BY <2>1, <2>3
<1>9. CASE ~Missing(opt) /\ ~Unreadable(opt) /\ kind = "reschedule_batch"
  <2>1. Leaf(opt) = Reschedule(opt) /\ (Flawed(opt) <=> ~scenario.batch.planned)
    BY <1>9 DEF Leaf, Flawed, Resizes, kind
  <2>2. CASE ~scenario.batch.planned
    <3>1. Reschedule(opt) = Failed
      BY <2>2 DEF Reschedule
    <3> QED BY <1>9, <2>1, <2>2, <3>1, FailedIs
  <2>3. CASE scenario.batch.planned
    <3>1. Reschedule(opt) = [BasePlan EXCEPT !.start = opt.to, !.nextDay = opt.to < HorizonStart]
      BY <2>3 DEF Reschedule
    <3> DEFINE to == opt.to
    <3>2. to \in Int
      BY <1>4, <1>9 DEF Clock
    <3> HIDE DEF to
    <3>3. Good([BasePlan EXCEPT !.start = to, !.nextDay = to < HorizonStart])
          /\ [BasePlan EXCEPT !.start = to, !.nextDay = to < HorizonStart].ok
      BY <3>2, MovedIsGood
    <3> QED BY <2>1, <2>3, <3>1, <3>3 DEF to
  <2> QED BY <2>2, <2>3
<1> QED BY <1>1, <1>3, <1>5, <1>6, <1>7, <1>8, <1>9 DEF Kinds, Resizes

LEMMA CombineIsGood ==
    ASSUME NEW plan, NEW sub, Good(plan), Good(sub)
    PROVE  Good(Combine(plan, sub)) /\ (Combine(plan, sub).ok <=> plan.ok /\ sub.ok)
<1>1. plan.ok \in BOOLEAN /\ sub.ok \in BOOLEAN
  BY GoodIsOkOrNot
<1>2. CASE ~plan.ok \/ ~sub.ok
  BY <1>1, <1>2 DEF Combine, Good, Failed
<1>3. CASE plan.ok /\ sub.ok
  <2>1. DOMAIN plan = PlanFields /\ plan.ok = TRUE /\ Timed(plan) /\ Timed(sub)
    BY <1>3 DEF Good, Failed
  <2>2. PICK class, effs, event, month, unknown : Combine(plan, sub) =
          [plan EXCEPT !.class = class,
                       !.start = IF sub.start # scenario.batch.start THEN sub.start ELSE plan.start,
                       !.nextDay = IF sub.start # scenario.batch.start THEN sub.nextDay ELSE plan.nextDay,
                       !.effects = effs, !.event = event, !.month = month, !.unknown = unknown]
    BY <1>3 DEF Combine
  <2> DEFINE m == Combine(plan, sub)
  <2>3. /\ DOMAIN m = PlanFields /\ m.ok = TRUE
        /\ m.start = IF sub.start # scenario.batch.start THEN sub.start ELSE plan.start
        /\ m.nextDay = IF sub.start # scenario.batch.start THEN sub.nextDay ELSE plan.nextDay
    BY <2>1, <2>2 DEF PlanFields
  <2> HIDE DEF m
  <2>4. Timed(m)
    BY <2>1, <2>3 DEF Timed
  <2>5. Good(m) /\ m.ok
    BY <2>3, <2>4 DEF Good
  <2> QED BY <1>3, <2>5 DEF m
<1> QED BY <1>1, <1>2, <1>3

\* Judging a plan writes down its verdict and nothing else.
Verdict(p) ==
    IF ~scenario.batch.planned \/ BatchDuration = 0 THEN "none"
    ELSE IF BatchDeadlineOk(p.start, p.nextDay, BatchDuration) THEN "met" ELSE "missed"

LEMMA FinishedIsGood ==
    ASSUME NEW p, Good(p)
    PROVE  /\ Good(Finished(p)) /\ (Finished(p).ok <=> p.ok /\ ~JobUnreadable)
           /\ Finished(p).ok => Finished(p).deadline = Verdict(Finished(p))
<1>1. CASE p = Failed \/ JobUnreadable
  <2>1. Finished(p) = Failed
    BY <1>1 DEF Finished, Failed
  <2> QED BY <1>1, <2>1, FailedIs
<1>2. CASE DOMAIN p = PlanFields /\ p.ok = TRUE /\ Timed(p) /\ ~JobUnreadable
  <2>1. Finished(p) = [p EXCEPT !.deadline = Verdict(p)]
    BY <1>2 DEF Finished, Judged, Verdict
  <2> DEFINE m == Finished(p)
  <2>2. DOMAIN m = PlanFields /\ m.ok = TRUE /\ m.start = p.start /\ m.nextDay = p.nextDay /\ m.deadline = Verdict(p)
    BY <1>2, <2>1 DEF PlanFields
  <2> HIDE DEF m
  <2>3. Verdict(m) = Verdict(p) /\ Timed(m)
    BY <1>2, <2>2 DEF Verdict, Timed
  <2> QED BY <1>2, <2>2, <2>3 DEF Good, m
<1> QED BY <1>1, <1>2 DEF Good

LEMMA AssembleIsGood ==
    ASSUME scenario \in Scenarios, NEW components \in Seq(OptionIds), NEW sub, \A c \in OptionIds : Good(sub[c])
    PROVE  /\ Good(Assemble(sub, components))
           /\ Assemble(sub, components).ok <=> \A k \in DOMAIN components : sub[components[k]].ok
<1> DEFINE n == Len(components)
<1>1. n \in Nat /\ DOMAIN components = 1..n /\ \A i \in 1..n : components[i] \in OptionIds
  OBVIOUS
<1>2. PICK f : Assembled(sub, components, f, n) /\ Assemble(sub, components) = f[n]
  BY <1>1, AssembleIs
<1> HIDE DEF n
<1> DEFINE Right(i) == Good(f[i]) /\ (f[i].ok <=> \A k \in 1..i : sub[components[k]].ok)
           Bad == {i \in 0..n : ~ Right(i)}
<1>3. Bad = {}
  <2> SUFFICES ASSUME Bad # {} PROVE FALSE
    OBVIOUS
  <2>1. PICK m \in Bad : \A k \in Bad : m <= k
    <3>1. Bad \in SUBSET Nat
      BY <1>1
    <3> HIDE DEF Bad
    <3> QED BY <3>1, LeastNumber
  <2>2. m \in 0..n /\ ~ Right(m)
    BY <2>1
  <2>3. m # 0
    <3>1. Right(0)
      <4>1. f[0] = BasePlan /\ 1..0 = {}
        BY <1>2 DEF Assembled
      <4> QED BY <4>1, BasePlanIsGood
    <3> HIDE DEF Right
    <3> QED BY <2>2, <3>1
  <2>4. m \in 1..n /\ m - 1 \in 0..n /\ ~(m <= m - 1)
    BY <1>1, <2>2, <2>3
  <2>5. Right(m - 1)
    <3>1. m - 1 \notin Bad
      <4> HIDE DEF Bad
      <4> QED BY <2>1, <2>4
    <3> QED BY <2>4, <3>1
  <2>6. f[m] = Combine(f[m - 1], sub[components[m]])
    BY <1>2, <2>4 DEF Assembled
  <2>7. Good(sub[components[m]])
    BY <1>1, <2>4
  <2>8. Good(f[m]) /\ (f[m].ok <=> f[m - 1].ok /\ sub[components[m]].ok)
    BY <2>5, <2>6, <2>7, CombineIsGood
  <2>9. \A k : k \in 1..m <=> k \in 1..(m - 1) \/ k = m
    BY <1>1, <2>4
  <2>10. Right(m)
    BY <2>5, <2>8, <2>9
  <2> HIDE DEF Right
  <2> QED BY <2>2, <2>10
<1>4. n \in 0..n
  BY <1>1
<1>5. Right(n)
  <2> HIDE DEF Right
  <2> QED BY <1>3, <1>4
<1> QED BY <1>1, <1>2, <1>5
-----------------------------------------------------------------------------
(* What an option is made of. *)

LEMMA ComponentsAre ==
    ASSUME scenario \in Scenarios, NEW o \in OptionIds
    PROVE  /\ Components(o) \in SUBSET OptionIds
           /\ Single(o) => Components(o) = {}
           /\ ~Single(o) =>
                /\ scenario.options[o].components \in Seq(OptionIds)
                /\ \A c : c \in Components(o) <=>
                     \E k \in DOMAIN scenario.options[o].components : c = scenario.options[o].components[k]
<1>1. CASE Single(o)
  BY <1>1 DEF Components, Single
<1>2. CASE ~Single(o)
  <2>1. scenario.options[o].kind = "combined" /\ ~Missing(scenario.options[o])
    BY <1>2 DEF Single
  <2>2. "components" \in DOMAIN scenario.options[o]
    BY <2>1 DEF Missing, Required
  <2>3. scenario.options[o].components \in Seq(OptionIds)
    BY <2>1, <2>2, ScenariosAssumption
  <2> DEFINE s == scenario.options[o].components
  <2>4. Components(o) = ToSet(s)
    BY <2>1 DEF Components
  <2>5. s \in Seq(OptionIds)
    BY <2>3
  <2> HIDE DEF s
  <2>6. ToSet(s) \in SUBSET OptionIds /\ \A c : c \in ToSet(s) <=> \E k \in DOMAIN s : c = s[k]
    BY <2>5 DEF ToSet
  <2> QED BY <1>2, <2>3, <2>4, <2>6 DEF s
<1> QED BY <1>1, <1>2

Parts(o) == Below(o) \cup {o}

\* What an option refers to are its components and what they refer to.
LEMMA BelowIs ==
    ASSUME scenario \in Scenarios, NEW o \in OptionIds
    PROVE  Below(o) \in SUBSET OptionIds /\ \A x : x \in Below(o) <=> \E c \in Components(o) : x \in Parts(c)
<1>1. \A x \in OptionIds : Components(x) \in SUBSET OptionIds
  BY ComponentsAre
<1>2. \A p : Below(p) \in SUBSET OptionIds
  BY DEF Below
<1> DEFINE S == {x \in OptionIds : \E c \in Components(o) : x \in Parts(c)}
<1>3. \A p, x, T : x \in Below(p) /\ T \in SUBSET OptionIds /\ Components(p) \subseteq T /\ Closed(T) => x \in T
  BY DEF Below
<1>4. \A p, x : x \in OptionIds /\ (\A T \in SUBSET OptionIds : Components(p) \subseteq T /\ Closed(T) => x \in T) => x \in Below(p)
  BY DEF Below
<1>5. ASSUME NEW c \in Components(o), NEW x \in Parts(c) PROVE x \in Below(o)
  <2>1. c \in OptionIds /\ x \in OptionIds
    BY <1>1, <1>2 DEF Parts
  <2>2. ASSUME NEW T \in SUBSET OptionIds, Components(o) \subseteq T, Closed(T) PROVE x \in T
    <3>1. c \in T /\ Components(c) \subseteq T
      BY <2>2 DEF Closed
    <3> QED BY <1>3, <2>2, <3>1 DEF Parts
  <2> QED BY <1>4, <2>1, <2>2
<1>6. Closed(S)
  <2>1. ASSUME NEW x \in S, NEW y \in Components(x) PROVE y \in S
    <3>1. PICK c \in Components(o) : x \in Parts(c)
      OBVIOUS
    <3>2. y \in OptionIds
      BY <1>1
    <3>3. y \in Below(c)
      <4>1. ASSUME NEW T \in SUBSET OptionIds, Components(c) \subseteq T, Closed(T) PROVE y \in T
        <5>1. CASE x = c
          BY <4>1, <5>1
        <5>2. CASE x \in Below(c)
          <6>1. x \in T
            BY <1>3, <4>1, <5>2
          <6> QED BY <4>1, <6>1 DEF Closed
        <5> QED BY <3>1, <5>1, <5>2 DEF Parts
      <4> QED BY <1>4, <3>2, <4>1
    <3> QED BY <3>1, <3>2, <3>3 DEF Parts
  <2> HIDE DEF S
  <2> QED BY <2>1 DEF Closed
<1>7. Components(o) \subseteq S
  BY <1>1 DEF Parts
<1>8. ASSUME NEW x \in Below(o) PROVE x \in S
  <2> HIDE DEF S
  <2>1. S \in SUBSET OptionIds
    BY DEF S
  <2> QED BY <1>3, <1>6, <1>7, <2>1
<1> QED BY <1>2, <1>5, <1>8

LeafFine(x) == ~Raises(scenario.options[x])

\* Nothing an option refers to is on the path, refers to itself, or raises by itself.
Open(seen, o) == \A x \in Parts(o) : x \notin seen /\ x \notin Below(x) /\ LeafFine(x)

LEMMA OpenStep ==
    ASSUME scenario \in Scenarios, NEW seen, NEW o \in OptionIds, o \notin seen
    PROVE  Open(seen, o) <=> IF Single(o) THEN LeafFine(o) ELSE \A c \in Components(o) : Open(seen \cup {o}, c)
<1>1. \A x : x \in Below(o) <=> \E c \in Components(o) : x \in Parts(c)
  BY BelowIs
<1>2. \A x : x \in Parts(o) <=> x = o \/ x \in Below(o)
  BY DEF Parts
<1>3. CASE Single(o)
  <2>1. Components(o) = {}
    BY <1>3, ComponentsAre
  <2> QED BY <1>1, <1>2, <1>3, <2>1 DEF Open
<1>4. CASE ~Single(o)
  <2>1. LeafFine(o)
    BY <1>4 DEF LeafFine, Raises, Single
  <2>2. ASSUME Open(seen, o), NEW c \in Components(o) PROVE Open(seen \cup {o}, c)
    BY <1>1, <1>2, <2>2 DEF Open
  <2>3. ASSUME \A c \in Components(o) : Open(seen \cup {o}, c) PROVE Open(seen, o)
    <3>1. o \notin Below(o)
      BY <1>1, <2>3 DEF Open
    <3> QED BY <1>1, <1>2, <2>1, <2>3, <3>1 DEF Open
  <2> QED BY <1>4, <2>2, <2>3
<1> QED BY <1>3, <1>4

\* A plan behind a path is good, resolves exactly when the option is open and the times of the job can be read, and
\* has its verdict written down.
Right(seen) ==
    \A o \in OptionIds :
        LET plan == Resolve[seen][o] IN
        Good(plan) /\ (plan.ok <=> Open(seen, o) /\ ~JobUnreadable) /\ (plan.ok => plan.deadline = Verdict(plan))

LEMMA ResolveIsRight == ASSUME scenario \in Scenarios PROVE \A seen \in SUBSET OptionIds : Right(seen)
<1> DEFINE P == {seen \in SUBSET OptionIds : Right(seen)}
<1> SUFFICES P = SUBSET OptionIds
  OBVIOUS
<1>1. ASSUME NEW seen \in SUBSET OptionIds, \A o \in OptionIds \ seen : seen \cup {o} \in P
      PROVE  Right(seen)
  <2>1. ASSUME NEW o \in OptionIds
        PROVE  LET plan == Resolve[seen][o] IN
               Good(plan) /\ (plan.ok <=> Open(seen, o) /\ ~JobUnreadable) /\ (plan.ok => plan.deadline = Verdict(plan))
    <3> DEFINE plan == Resolve[seen][o]
               sub == Resolve[seen \cup {o}]
    <3>1. plan = PlanOf(sub, seen, o)
      BY ResolveIs
    <3>2. o \notin seen => \A c \in OptionIds : Good(sub[c]) /\ (sub[c].ok <=> Open(seen \cup {o}, c) /\ ~JobUnreadable)
      BY <1>1 DEF Right
    <3> HIDE DEF plan, sub
    <3> SUFFICES Good(plan) /\ (plan.ok <=> Open(seen, o) /\ ~JobUnreadable) /\ (plan.ok => plan.deadline = Verdict(plan))
      BY DEF plan
    <3>3. CASE o \in seen
      <4>1. plan = Failed
        BY <3>1, <3>3 DEF PlanOf
      <4>2. ~Open(seen, o)
        BY <3>3 DEF Open, Parts
      <4> QED BY <4>1, <4>2, FailedIs
    <3>4. CASE o \notin seen /\ Single(o)
      <4>1. plan = Finished(Leaf(scenario.options[o]))
        BY <3>1, <3>4 DEF PlanOf
      <4>2. Good(Leaf(scenario.options[o])) /\ (Leaf(scenario.options[o]).ok <=> ~Flawed(scenario.options[o]))
        BY <3>4, LeafIsGood
      <4>3. LeafFine(o) <=> Leaf(scenario.options[o]).ok
        BY <3>4, <4>2 DEF LeafFine, Raises, Single, Flawed
      <4>4. Open(seen, o) <=> Leaf(scenario.options[o]).ok
        BY <3>4, <4>3, OpenStep
      <4>5. Good(plan) /\ (plan.ok <=> Leaf(scenario.options[o]).ok /\ ~JobUnreadable) /\ (plan.ok => plan.deadline = Verdict(plan))
        BY <4>1, <4>2, FinishedIsGood
      <4> QED BY <4>4, <4>5
    <3>5. CASE o \notin seen /\ ~Single(o)
      <4> DEFINE cs == scenario.options[o].components
      <4>1. plan = Finished(Assemble(sub, cs))
        BY <3>1, <3>5 DEF PlanOf
      <4>2. cs \in Seq(OptionIds) /\ \A c : c \in Components(o) <=> \E k \in DOMAIN cs : c = cs[k]
        BY <3>5, ComponentsAre
      <4> HIDE DEF cs
      <4>3. Good(Assemble(sub, cs)) /\ (Assemble(sub, cs).ok <=> \A k \in DOMAIN cs : sub[cs[k]].ok)
        BY <3>2, <3>5, <4>2, AssembleIsGood
      <4>4. Good(plan) /\ (plan.ok <=> Assemble(sub, cs).ok /\ ~JobUnreadable) /\ (plan.ok => plan.deadline = Verdict(plan))
        BY <4>1, <4>3, FinishedIsGood
      <4>5. Components(o) \subseteq OptionIds
        BY ComponentsAre
      <4>6. ~JobUnreadable =>
              ((\A k \in DOMAIN cs : sub[cs[k]].ok) <=> \A c \in Components(o) : Open(seen \cup {o}, c))
        BY <3>2, <3>5, <4>2, <4>5
      <4>7. Open(seen, o) <=> \A c \in Components(o) : Open(seen \cup {o}, c)
        BY <3>5, OpenStep
      <4> QED BY <4>3, <4>4, <4>6, <4>7
    <3> QED BY <3>3, <3>4, <3>5
  <2> QED BY <2>1 DEF Right
<1>2. P \in SUBSET (SUBSET OptionIds)
  OBVIOUS
<1>3. \A seen \in SUBSET OptionIds : (\A o \in OptionIds \ seen : seen \cup {o} \in P) => seen \in P
  BY <1>1
<1> HIDE DEF P
<1> QED BY <1>2, <1>3, PathInduction

\* The resolved plan of an option.
LEMMA PlanIs ==
    ASSUME scenario \in Scenarios, NEW o \in OptionIds
    PROVE  /\ Good(Plan(o)) /\ (Plan(o).ok <=> Open({}, o) /\ ~JobUnreadable)
           /\ Plan(o).ok => Timed(Plan(o)) /\ Plan(o).deadline = Verdict(Plan(o))
<1> DEFINE plan == Plan(o)
<1>1. {} \in SUBSET OptionIds /\ plan = Resolve[{}][o]
  BY DEF Plan
<1>2. Good(plan) /\ (plan.ok <=> Open({}, o) /\ ~JobUnreadable) /\ (plan.ok => plan.deadline = Verdict(plan))
  BY <1>1, ResolveIsRight DEF Right
<1> HIDE DEF plan
<1>3. plan.ok => Timed(plan)
  BY <1>2, FailedIs DEF Good
<1> QED BY <1>2, <1>3 DEF plan

LEMMA ResolvesUnlessBrokenHolds == ASSUME scenario \in Scenarios PROVE ResolvesUnlessBroken
<1> DEFINE late == scenario.batch.planned /\ scenario.batch.deadline \notin Clock
<1> SUFFICES ASSUME NEW o \in OptionIds
             PROVE  /\ Plan(o).ok <=> ~JobUnreadable /\ Acyclic(o) /\ \A x \in Parts(o) : LeafFine(x)
                    /\ Validated /\ ~Plan(o).ok => ~Acyclic(o) \/ late \/ \E x \in Parts(o) : Unasked(scenario.options[x])
  BY DEF ResolvesUnlessBroken, LeafFine, Parts
<1>1. Plan(o).ok <=> Open({}, o) /\ ~JobUnreadable
  BY PlanIs
<1>2. Open({}, o) <=> Acyclic(o) /\ \A x \in Parts(o) : LeafFine(x)
  BY DEF Open, Acyclic, Parts
<1>3. Validated /\ JobUnreadable => late
  BY DEF Validated, JobUnreadable
<1>4. ASSUME Validated, NEW x \in Parts(o), ~LeafFine(x) PROVE Unasked(scenario.options[x])
  <2> DEFINE opt == scenario.options[x]
  <2>1. x \in OptionIds
    BY BelowIs DEF Parts
  <2>2. /\ opt.kind = "reschedule_batch" => scenario.batch.planned
        /\ opt.kind = "scale_temporary" => ~Missing(opt)
    BY <1>4, <2>1 DEF Validated
  <2>3. Raises(opt)
    BY <1>4 DEF LeafFine
  <2>4. CASE Missing(opt)
    BY <2>2, <2>4 DEF Unasked
  <2>5. CASE ~Missing(opt)
    <3>1. opt.kind # "combined" /\ ~Leaf(opt).ok
      BY <2>3, <2>5 DEF Raises
    <3>2. Leaf(opt).ok <=> ~Flawed(opt)
      BY <2>1, <3>1, LeafIsGood DEF Single
    <3> QED BY <2>2, <2>5, <3>1, <3>2 DEF Flawed, Unasked
  <2> QED BY <2>4, <2>5
<1> QED BY <1>1, <1>2, <1>3, <1>4
-----------------------------------------------------------------------------
(* The second opinions. *)

\* A finite set of numbers has a greatest one.
LEMMA GreatestExists ==
    ASSUME NEW S \in SUBSET Nat, IsFiniteSet(S), S # {}
    PROVE  \E m \in S : \A k \in S : k <= m
<1> DEFINE R == {p \in Nat \X Nat : p[1] > p[2]}
<1>1. \A x, y \in Nat : <<x, y>> \in R <=> x > y
  OBVIOUS
<1>2. Linear(R, S) /\ IsFiniteSet(S) /\ S # {}
  <2> HIDE DEF R
  <2> QED BY <1>1 DEF Linear
<1>3. PICK m \in S : \A x \in S \ {m} : <<m, x>> \in R
  <2> DEFINE T == S \cup {}
  <2>1. T = S
    OBVIOUS
  <2> HIDE DEF R, T
  <2>2. Linear(R, T) /\ IsFiniteSet(T) /\ T # {}
    BY <1>2, <2>1
  <2>3. \E m \in T : \A x \in T \ {m} : <<m, x>> \in R
    BY <2>2, LeastExists
  <2> QED BY <2>1, <2>3
<1>4. \A k \in S : k <= m
  <2>1. m \in Nat /\ \A k \in S : k \in Nat
    OBVIOUS
  <2>2. ASSUME NEW k \in S \ {m} PROVE k <= m
    <3>1. <<m, k>> \in R
      BY <1>3
    <3> HIDE DEF R
    <3> QED BY <1>1, <2>1, <3>1
  <2> QED BY <2>1, <2>2
<1> QED BY <1>4

\* A job takes as long as its longest run, of which a plan drops what is not a whole tick.
LEMMA DurationIs ==
    ASSUME scenario \in Scenarios
    PROVE  /\ BatchDuration \in Int
           /\ scenario.batch.log = {} => BatchDuration = scenario.batch.declared
           /\ scenario.batch.log # {} => LongestRun \in Nat /\ 2 * BatchDuration <= LongestRun
           /\ scenario.batch.log # {} /\ ~scenario.batch.decimal => 2 * BatchDuration = LongestRun
<1> DEFINE log == scenario.batch.log
           decimal == scenario.batch.decimal
<1>1. log \in SUBSET Nat /\ IsFiniteSet(log) /\ scenario.batch.declared \in Int
      /\ \A d \in log : (\A e \in log : e <= d) /\ ~decimal => d % 2 = 0
  BY ScenariosAssumption
<1>2. LongestRun = CHOOSE d \in log : \A e \in log : e <= d
  BY DEF LongestRun
<1>3. BatchDuration = IF log = {} THEN scenario.batch.declared ELSE LongestRun \div 2
  BY DEF BatchDuration
<1> HIDE DEF log, decimal
<1>4. CASE log = {}
  BY <1>1, <1>3, <1>4 DEF log
<1>5. CASE log # {}
  <2>1. \E m \in log : \A e \in log : e <= m
    BY <1>1, <1>5, GreatestExists
  <2>2. LongestRun \in log /\ \A e \in log : e <= LongestRun
    BY <1>2, <2>1
  <2>3. LongestRun \in Nat /\ (~decimal => LongestRun % 2 = 0)
    BY <1>1, <2>2
  <2>4. BatchDuration = LongestRun \div 2
    BY <1>3, <1>5
  <2>5. \A d \in Nat : d \div 2 \in Int /\ 2 * (d \div 2) <= d /\ (d % 2 = 0 => 2 * (d \div 2) = d)
    OBVIOUS
  <2>6. BatchDuration \in Int /\ 2 * BatchDuration <= LongestRun /\ (~decimal => 2 * BatchDuration = LongestRun)
    BY <2>3, <2>4, <2>5
  <2> QED BY <1>5, <2>3, <2>6 DEF log, decimal
<1> QED BY <1>4, <1>5

\* What the check makes of the start of a plan, the longest run of which it takes untruncated.
LEMMA CheckIs ==
    ASSUME scenario \in Scenarios, NEW start \in Int
    PROVE  \E longest \in Int :
             LET from == start + (IF start < HorizonStart THEN Day ELSE 0)
                 check == RescheduleCheck(start)
             IN  /\ 2 * BatchDuration <= longest
                 /\ check.given <=> scenario.batch.deadline \in Clock /\ (scenario.batch.log = {} \/ ~scenario.batch.decimal)
                 /\ check.given => longest = 2 * BatchDuration
                 /\ check.meets <=> 2 * from + longest <= 2 * (Day + scenario.batch.deadline)
                 /\ check.overlaps <=> from < scenario.campaign.until /\ 2 * from + longest > 2 * scenario.campaign.from
<1> DEFINE longest == IF scenario.batch.log = {} THEN 2 * scenario.batch.declared ELSE LongestRun
           from == start + (IF start < HorizonStart THEN Day ELSE 0)
           check == RescheduleCheck(start)
<1>1. scenario.batch.declared \in Int
  BY ScenariosAssumption
<1>2. /\ longest \in Int /\ 2 * BatchDuration <= longest
      /\ scenario.batch.log = {} \/ ~scenario.batch.decimal => longest = 2 * BatchDuration
  BY <1>1, DurationIs
<1>3. check = [given |-> scenario.batch.deadline \in Clock /\ (scenario.batch.log = {} \/ ~scenario.batch.decimal),
               meets |-> 2 * from + longest <= 2 * (Day + scenario.batch.deadline),
               overlaps |-> from < scenario.campaign.until /\ 2 * from + longest > 2 * scenario.campaign.from]
  BY DEF RescheduleCheck
<1> HIDE DEF longest, from, check
<1>4. /\ check.given <=> scenario.batch.deadline \in Clock /\ (scenario.batch.log = {} \/ ~scenario.batch.decimal)
      /\ check.meets <=> 2 * from + longest <= 2 * (Day + scenario.batch.deadline)
      /\ check.overlaps <=> from < scenario.campaign.until /\ 2 * from + longest > 2 * scenario.campaign.from
  BY <1>3
<1> QED BY <1>2, <1>4 DEF from, check

LEMMA DeadlineAgreesHolds == ASSUME scenario \in Scenarios PROVE DeadlineAgrees
<1> SUFFICES ASSUME NEW o \in OptionIds, Plan(o).ok, scenario.batch.planned, ~StaysEarly(Plan(o))
             PROVE  LET plan == Plan(o)
                        check == RescheduleCheck(plan.start)
                    IN  \/ plan.deadline = "none" /\ BatchDuration = 0
                        \/ ~check.given /\ scenario.batch.decimal
                        \/ check.given /\ ((plan.deadline = "met") <=> check.meets)
  BY DEF DeadlineAgrees
<1> DEFINE plan == Plan(o)
           start == plan.start
           duration == BatchDuration
           last == scenario.batch.deadline
           check == RescheduleCheck(start)
<1>1. Timed(plan) /\ plan.deadline = Verdict(plan) /\ ~JobUnreadable
  BY PlanIs
<1>2. start \in Int /\ duration \in Int /\ last \in Int /\ Day \in Int /\ HorizonStart \in Int /\ plan.nextDay \in BOOLEAN
  BY <1>1, DurationIs, ScenariosAssumption, CapacityAssumption DEF Timed
<1>3. duration = 0 \/ last \in Clock
  BY <1>1 DEF JobUnreadable
<1>4. duration = 0 => plan.deadline = "none"
  BY <1>1 DEF Verdict
<1>5. duration # 0 => (plan.deadline = "met" <=> start + duration + (IF plan.nextDay THEN Day ELSE 0) <= Day + last)
  BY <1>1 DEF Verdict, BatchDeadlineOk
<1>6. plan.nextDay <=> start < HorizonStart
  BY <1>1 DEF Timed, StaysEarly
<1>7. PICK longest \in Int :
        /\ check.given <=> last \in Clock /\ (scenario.batch.log = {} \/ ~scenario.batch.decimal)
        /\ check.given => longest = 2 * duration
        /\ check.meets <=> 2 * (start + (IF start < HorizonStart THEN Day ELSE 0)) + longest <= 2 * (Day + last)
  BY <1>2, CheckIs
<1> HIDE DEF plan, duration, last, check
<1>8. \/ plan.deadline = "none" /\ duration = 0
      \/ ~check.given /\ scenario.batch.decimal
      \/ check.given /\ ((plan.deadline = "met") <=> check.meets)
  <2>1. CASE duration = 0
    BY <1>4, <2>1
  <2>2. CASE duration # 0 /\ ~check.given
    <3>1. scenario.batch.decimal \in BOOLEAN
      BY ScenariosAssumption
    <3> QED BY <1>3, <1>7, <2>2, <3>1
  <2>3. CASE duration # 0 /\ check.given
    <3> DEFINE late == IF plan.nextDay THEN Day ELSE 0
    <3>1. late \in Int /\ late = IF start < HorizonStart THEN Day ELSE 0
      BY <1>2, <1>6
    <3> HIDE DEF late
    <3>2. check.meets <=> 2 * (start + late) + 2 * duration <= 2 * (Day + last)
      BY <1>7, <2>3, <3>1
    <3>3. plan.deadline = "met" <=> start + duration + late <= Day + last
      BY <1>5, <2>3 DEF late
    <3>4. start + duration + late <= Day + last <=> 2 * (start + late) + 2 * duration <= 2 * (Day + last)
      BY <1>2, <3>1
    <3> QED BY <2>3, <3>2, <3>3, <3>4
  <2> QED BY <2>1, <2>2, <2>3
<1> QED BY <1>8 DEF plan, duration, check

-----------------------------------------------------------------------------
(* Slots. *)

LEMMA Products == ASSUME NEW x \in Int, NEW y \in Int, NEW l \in Nat, x <= y PROVE x * l \in Int /\ y * l \in Int /\ x * l <= y * l
OBVIOUS

\* What whole number of slots fits into a time.
LEMMA Quotient ==
    ASSUME NEW t \in Int
    PROVE  LET q == t \div SlotLength IN q \in Int /\ q * SlotLength <= t /\ t < (q + 1) * SlotLength
BY CapacityAssumption

\* The quotient is below a number of slots exactly when the time is.
LEMMA QuotientBelow ==
    ASSUME NEW t \in Int, NEW n \in Int
    PROVE  t \div SlotLength \in Int /\ (t \div SlotLength < n <=> t < n * SlotLength)
<1> DEFINE q == t \div SlotLength
           l == SlotLength
<1>1. q \in Int /\ q * l <= t /\ t < (q + 1) * l /\ l \in Nat
  BY Quotient, CapacityAssumption
<1> HIDE DEF q, l
<1>2. CASE q < n
  <2>1. (q + 1) * l <= n * l /\ (q + 1) * l \in Int /\ n * l \in Int
    BY <1>1, <1>2, Products
  <2> QED BY <1>1, <1>2, <2>1 DEF q, l
<1>3. CASE n <= q
  <2>1. n * l <= q * l /\ n * l \in Int /\ q * l \in Int
    BY <1>1, <1>3, Products
  <2> QED BY <1>1, <1>3, <2>1 DEF q, l
<1> QED BY <1>1, <1>2, <1>3

\* The slot that holds a time comes before another when the time comes before the end of that one.
LEMMA SlotIndexBefore ==
    ASSUME NEW t \in Int, NEW i \in Slots
    PROVE  /\ At(i) \in Int /\ At(i) < At(i) + SlotLength
           /\ SlotIndex(t) < i <=> t < At(i) + SlotLength
<1> DEFINE q == (t - HorizonStart) \div SlotLength
           n == SlotCount
           l == SlotLength
           h == HorizonStart
<1>1. l \in Nat /\ l > 0 /\ h \in Int /\ HorizonEnd \in Int
  BY CapacityAssumption
<1>2. n \in Int /\ i \in 1..n
  <2>1. HorizonEnd - HorizonStart + SlotLength - 1 \in Int
    BY <1>1
  <2>2. n \in Int
    BY <2>1, Quotient DEF SlotCount
  <2> QED BY <2>2 DEF Slots
<1>3. t - h \in Int
  BY <1>1
<1>4. q \in Int /\ (q < i <=> t - h < i * l)
  BY <1>2, <1>3, QuotientBelow
<1>5. SlotIndex(t) = Greatest(0, Least(n, q))
  BY DEF SlotIndex
<1>6. At(i) = h + (i - 1) * l
  BY DEF At
<1> HIDE DEF q, n, l, h
<1>7. SlotIndex(t) < i <=> q < i
  BY <1>2, <1>4, <1>5 DEF Greatest, Least
<1>8. i * l \in Int /\ (i - 1) * l = i * l - l
  BY <1>1, <1>2
<1>9. At(i) \in Int /\ At(i) + l = h + i * l
  BY <1>1, <1>6, <1>8
<1>10. SlotIndex(t) < i <=> t < At(i) + l
  BY <1>1, <1>4, <1>7, <1>8, <1>9
<1>11. At(i) < At(i) + l
  BY <1>1, <1>9
<1> QED BY <1>9, <1>10, <1>11 DEF l

LEMMA SaleIsTheSurgeHolds == ASSUME scenario \in Scenarios PROVE SaleIsTheSurge
<1> DEFINE from == scenario.campaign.from
           until == scenario.campaign.until
<1>1. from \in Int /\ until \in Int /\ SlotLength \in Int
  BY ScenariosAssumption, CapacityAssumption
<1> HIDE DEF from, until
<1>2. ASSUME NEW i \in Slots
      PROVE  /\ from <= At(i) /\ At(i) < until /\ ~Surged(i) => until < At(i) + SlotLength
             /\ Surged(i) /\ ~(from <= At(i) /\ At(i) < until) => At(i) < from
  <2>1. At(i) \in Int /\ At(i) < At(i) + SlotLength /\ (SlotIndex(from) < i <=> from < At(i) + SlotLength)
    BY <1>1, SlotIndexBefore
  <2>2. SlotIndex(until) < i <=> until < At(i) + SlotLength
    BY <1>1, SlotIndexBefore
  <2>3. i \in Int /\ SlotIndex(until) \in Int
    <3>1. SlotCount \in Int /\ until - HorizonStart \in Int /\ i \in Int
      <4>1. HorizonEnd - HorizonStart + SlotLength - 1 \in Int /\ HorizonStart \in Int
        BY CapacityAssumption
      <4> QED BY <1>1, <4>1, Quotient DEF SlotCount, Slots
    <3>2. (until - HorizonStart) \div SlotLength \in Int
      BY <3>1, Quotient
    <3> QED BY <3>1, <3>2 DEF SlotIndex, Greatest, Least
  <2>4. Surged(i) <=> SlotIndex(from) < i /\ ~(SlotIndex(until) < i)
    BY <2>3 DEF Surged, from, until
  <2> QED BY <1>1, <2>1, <2>2, <2>4
<1> QED BY <1>2 DEF SaleIsTheSurge, SaleSlots, from, until

LEMMA OverlapAgreesHolds == ASSUME scenario \in Scenarios PROVE OverlapAgrees
<1> SUFFICES ASSUME NEW o \in OptionIds, Plan(o).ok, RescheduleCheck(Plan(o).start).given, ~StaysEarly(Plan(o)),
                    ~Plan(o).nextDay, ~RescheduleCheck(Plan(o).start).overlaps,
                    NEW i \in SaleSlots, At(i) < Plan(o).start + BatchDuration, At(i) + SlotLength > Plan(o).start
             PROVE  scenario.campaign.until < At(i) + SlotLength
  BY DEF OverlapAgrees
<1> DEFINE plan == Plan(o)
           start == plan.start
           check == RescheduleCheck(start)
           from == scenario.campaign.from
           until == scenario.campaign.until
<1>1. Timed(plan)
  BY PlanIs
<1>2. start \in Int /\ BatchDuration \in Int /\ Day \in Int /\ HorizonStart \in Int /\ SlotLength \in Int
      /\ from \in Int /\ until \in Int
  BY <1>1, DurationIs, ScenariosAssumption, CapacityAssumption DEF Timed
<1>3. ~(start < HorizonStart)
  BY <1>1 DEF Timed, StaysEarly
<1>4. i \in Slots /\ from <= At(i) /\ At(i) < until
  BY DEF SaleSlots
<1>5. At(i) \in Int
  BY <1>2, <1>4, SlotIndexBefore
<1>6. PICK longest \in Int :
        /\ check.given => longest = 2 * BatchDuration
        /\ check.overlaps <=> /\ start + (IF start < HorizonStart THEN Day ELSE 0) < until
                              /\ 2 * (start + (IF start < HorizonStart THEN Day ELSE 0)) + longest > 2 * from
  BY <1>2, CheckIs
<1>7. ~check.overlaps /\ check.given /\ At(i) < start + BatchDuration /\ At(i) + SlotLength > start
  OBVIOUS
<1> HIDE DEF plan, check, from, until
<1>8. longest = 2 * BatchDuration /\ (start < until => 2 * start + longest <= 2 * from)
  <2>1. start + (IF start < HorizonStart THEN Day ELSE 0) = start
    BY <1>2, <1>3
  <2> QED BY <1>2, <1>6, <1>7, <2>1
<1> QED BY <1>2, <1>4, <1>5, <1>7, <1>8 DEF until
-----------------------------------------------------------------------------

\* The scenario of a run stays one of those considered.
LEMMA ScenarioStays == CapacitySpec => [](scenario \in Scenarios)
<1>1. CapacityInit => scenario \in Scenarios
  BY DEF CapacityInit
<1>2. scenario \in Scenarios /\ [CapacityNext]_capacityVars => (scenario \in Scenarios)'
  BY DEF CapacityNext, Register, capacityVars
<1> QED BY <1>1, <1>2, PTL DEF CapacitySpec

\* An option resolves exactly when the times of the job can be read, nothing it refers to refers to itself and none
\* of it raises by itself, whatever the options, their nesting and the order of their components, and whatever of
\* their parameters is missing or cannot be read; where validation found no error, what is left to raise is what it
\* does not ask for (options.py:217-348, validate.py:32-101).
THEOREM OptionsResolve == CapacitySpec => []ResolvesUnlessBroken
<1>1. scenario \in Scenarios => ResolvesUnlessBroken
  BY ResolvesUnlessBrokenHolds
<1> QED BY <1>1, ScenarioStays, PTL

\* What the code works out in two places agrees for every scenario, plan and horizon, although one of each two
\* truncates the length of the job or cuts the slots in another way: the verdict on the batch deadline, whether the
\* job runs into the sale, and the slots of the sale and of the surge
\* (options.py:108-133, 161-167, 212-214, 344-378, 400-405, diagnostics/analysis.py:147-180).
THEOREM OpinionsAgree == CapacitySpec => []SecondOpinionsAgree
<1>1. scenario \in Scenarios => SecondOpinionsAgree
  BY DeadlineAgreesHolds, OverlapAgreesHolds, SaleIsTheSurgeHolds DEF SecondOpinionsAgree
<1> QED BY <1>1, ScenarioStays, PTL
=============================================================================
