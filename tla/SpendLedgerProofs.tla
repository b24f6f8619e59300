------------------------- MODULE SpendLedgerProofs -------------------------
(***************************************************************************)
(* The ledger for any jobs, processes, totals and caps: within a process   *)
(* the lock keeps the entries, and as long as no entry is written over the *)
(* total budget holds up to the jobs that were under way together.         *)
(***************************************************************************)
EXTENDS SpendLedger, FiniteSetTheorems, TLAPS

-----------------------------------------------------------------------------
(***************************************************************************)
(* Facts about sums over finite sets, as SumFunctionOnSet(f, S) of the     *)
(* community modules makes them.  The library's induction theorems take an *)
(* operator as a parameter; here induction over a finite set is stated     *)
(* with the set of the subsets for which the claim holds.                  *)
(***************************************************************************)
\* What holds of a subset whenever it holds of all smaller ones holds of all.
LEMMA SetInduction ==
    ASSUME NEW S, IsFiniteSet(S), NEW Good \in SUBSET (SUBSET S),
           \A T \in SUBSET S : (\A U \in SUBSET T : U # T => U \in Good) => T \in Good
    PROVE  \A T \in SUBSET S : T \in Good
<1> SUFFICES ASSUME (SUBSET S) \ Good # {} PROVE FALSE
  OBVIOUS
<1>1. IsWellFoundedOn(StrictSubsetOrdering(S), SUBSET S)
  <2>1. IsWellFoundedOn(StrictSubsetOrdering(S), FiniteSubsetsOf(S))
    BY FS_StrictSubsetOrderingWellFounded
  <2>2. FiniteSubsetsOf(S) = SUBSET S
    BY FS_FiniteSubsetsOfFinite
  <2> QED BY <2>1, <2>2
<1>2. PICK T \in (SUBSET S) \ Good :
          \A U \in (SUBSET S) \ Good : ~ (<<U, T>> \in StrictSubsetOrdering(S))
  <2> DEFINE Bad == (SUBSET S) \ Good
  <2>1. Bad \subseteq SUBSET S /\ Bad # {}
    OBVIOUS
  <2> HIDE DEF Bad
  <2>2. \E x \in Bad : \A y \in Bad : ~ (<<y, x>> \in StrictSubsetOrdering(S))
    BY <1>1, <2>1, WFMin
  <2> QED BY <2>2 DEF Bad
<1>3. \A U \in SUBSET T : U # T => U \in Good
  BY <1>2 DEF StrictSubsetOrdering
<1> QED BY <1>2, <1>3
-----------------------------------------------------------------------------
(* The recursive function behind a sum.                                    *)

Some(s) == CHOOSE x \in s : TRUE

\* g is the function that sums f over each subset of S.
SumsOver(f, S, g) ==
    g = [s \in SUBSET S |-> IF s = {} THEN 0 ELSE f[Some(s)] + g[s \ {Some(s)}]]

LEMMA SumIsChosen ==
    ASSUME NEW f, NEW S
    PROVE  SumFunctionOnSet(f, S) = (CHOOSE g : SumsOver(f, S, g))[S]
BY DEF SumFunctionOnSet, FoldFunctionOnSet, MapThenFoldSet, SumsOver, Some

LEMMA SomeIn == \A s : s # {} => Some(s) \in s
BY DEF Some

\* Restricted to the subsets of a smaller set it is the one for that set.
LEMMA SumsRestrict ==
    ASSUME NEW f, NEW S, NEW g, SumsOver(f, S, g), NEW T \in SUBSET S
    PROVE  SumsOver(f, T, [s \in SUBSET T |-> g[s]])
<1> DEFINE h == [s \in SUBSET T |-> g[s]]
<1>1. ASSUME NEW s \in SUBSET T
      PROVE  g[s] = IF s = {} THEN 0 ELSE f[Some(s)] + h[s \ {Some(s)}]
  <2>1. s \in SUBSET S /\ s \ {Some(s)} \in SUBSET T
    OBVIOUS
  <2>2. g[s] = IF s = {} THEN 0 ELSE f[Some(s)] + g[s \ {Some(s)}]
    BY <2>1 DEF SumsOver
  <2> QED BY <2>1, <2>2
<1>2. h = [s \in SUBSET T |-> IF s = {} THEN 0 ELSE f[Some(s)] + h[s \ {Some(s)}]]
  BY <1>1
<1> HIDE DEF h
<1>3. SumsOver(f, T, h)
  BY <1>2 DEF SumsOver
<1> QED BY <1>3 DEF h

\* There is one such function, and only one.
LEMMA SumsExist ==
    ASSUME NEW f, NEW S, IsFiniteSet(S)
    PROVE  /\ \E g : SumsOver(f, S, g)
           /\ \A g, h : SumsOver(f, S, g) /\ SumsOver(f, S, h) => g = h
<1> DEFINE One(T) == /\ \E g : SumsOver(f, T, g)
                     /\ \A g, h : SumsOver(f, T, g) /\ SumsOver(f, T, h) => g = h
           Good == {T \in SUBSET S : One(T)}
<1>1. ASSUME NEW T \in SUBSET S, \A U \in SUBSET T : U # T => U \in Good
      PROVE  T \in Good
  <2> DEFINE G(U) == CHOOSE g : SumsOver(f, U, g)
             Rest(s) == s \ {Some(s)}
             whole == [s \in SUBSET T |-> IF s = {} THEN 0 ELSE f[Some(s)] + G(Rest(s))[Rest(s)]]
  <2>1. ASSUME NEW U \in SUBSET T, U # T
        PROVE  SumsOver(f, U, G(U)) /\ \A g : SumsOver(f, U, g) => g = G(U)
    BY <1>1, <2>1
  <2>2. ASSUME NEW s \in SUBSET T, s # {} PROVE Rest(s) \in SUBSET T /\ Rest(s) # T /\ Rest(s) # s
    BY <2>2, SomeIn
  <2>3. ASSUME NEW s \in SUBSET T, s # T
        PROVE  G(s)[s] = whole[s]
    <3> HIDE DEF G
    <3>1. SumsOver(f, s, G(s)) /\ s \in SUBSET s
      BY <2>1, <2>3
    <3>2. CASE s = {}
      BY <3>1, <3>2 DEF SumsOver
    <3>3. CASE s # {}
      <4>1. Rest(s) \in SUBSET s /\ Rest(s) \in SUBSET T /\ Rest(s) # T
        BY <2>2, <3>3
      <4>2. SumsOver(f, Rest(s), [u \in SUBSET Rest(s) |-> G(s)[u]])
        BY <3>1, <4>1, SumsRestrict
      <4>3. [u \in SUBSET Rest(s) |-> G(s)[u]] = G(Rest(s))
        BY <2>1, <4>1, <4>2
      <4>4. G(s)[Rest(s)] = G(Rest(s))[Rest(s)]
        BY <4>3
      <4>5. G(s)[s] = f[Some(s)] + G(s)[Rest(s)]
        BY <3>1, <3>3 DEF SumsOver
      <4> QED BY <3>3, <4>4, <4>5
    <3> QED BY <3>2, <3>3
  <2>4. SumsOver(f, T, whole)
    <3>1. ASSUME NEW s \in SUBSET T
          PROVE  whole[s] = IF s = {} THEN 0 ELSE f[Some(s)] + whole[Rest(s)]
      <4> HIDE DEF G
      <4>1. CASE s = {}
        BY <4>1
      <4>2. CASE s # {}
        <5>1. whole[Rest(s)] = G(Rest(s))[Rest(s)]
          BY <2>2, <2>3, <4>2
        <5>2. whole[s] = f[Some(s)] + G(Rest(s))[Rest(s)]
          BY <4>2
        <5> QED BY <4>2, <5>1, <5>2
      <4> QED BY <4>1, <4>2
    <3>2. whole = [s \in SUBSET T |-> whole[s]]
      OBVIOUS
    <3> HIDE DEF whole
    <3> QED BY <3>1, <3>2 DEF SumsOver
  <2>5. ASSUME NEW g, NEW h, SumsOver(f, T, g), SumsOver(f, T, h) PROVE g = h
    <3> HIDE DEF G
    <3>1. ASSUME NEW s \in SUBSET T, s # {} PROVE g[Rest(s)] = h[Rest(s)]
      <4> DEFINE u == Rest(s)
      <4>1. u \in SUBSET T /\ u # T
        BY <2>2, <3>1
      <4> HIDE DEF u
      <4>2. SumsOver(f, u, [v \in SUBSET u |-> g[v]]) /\ SumsOver(f, u, [v \in SUBSET u |-> h[v]])
        BY <2>5, <4>1, SumsRestrict
      <4>3. [v \in SUBSET u |-> g[v]] = G(u) /\ [v \in SUBSET u |-> h[v]] = G(u)
        BY <2>1, <4>2, <4>1
      <4>4. g[u] = h[u]
        BY <4>3
      <4> QED BY <4>4 DEF u
    <3>2. g = [s \in SUBSET T |-> IF s = {} THEN 0 ELSE f[Some(s)] + g[s \ {Some(s)}]]
      BY <2>5 DEF SumsOver
    <3>3. h = [s \in SUBSET T |-> IF s = {} THEN 0 ELSE f[Some(s)] + h[s \ {Some(s)}]]
      BY <2>5 DEF SumsOver
    <3>4. ASSUME NEW s \in SUBSET T PROVE g[s] = h[s]
      BY <3>1, <3>2, <3>3
    <3>5. g = [s \in SUBSET T |-> g[s]] /\ h = [s \in SUBSET T |-> h[s]]
      BY <3>2, <3>3
    <3> QED BY <3>4, <3>5
  <2> QED BY <2>4, <2>5
<1>2. Good \in SUBSET (SUBSET S)
  OBVIOUS
<1> HIDE DEF Good
<1>3. \A T \in SUBSET S : T \in Good
  BY <1>1, <1>2, SetInduction
<1> QED BY <1>3 DEF Good

\* What it gives for a subset is the sum over the subset.
LEMMA SumsOfSum ==
    ASSUME NEW f, NEW S, IsFiniteSet(S), NEW T \in SUBSET S
    PROVE  (CHOOSE g : SumsOver(f, S, g))[T] = SumFunctionOnSet(f, T)
<1> DEFINE g == CHOOSE h : SumsOver(f, S, h)
           k == CHOOSE h : SumsOver(f, T, h)
<1>1. IsFiniteSet(T) /\ T \in SUBSET T
  BY FS_Subset
<1>2. SumsOver(f, S, g) /\ SumsOver(f, T, k)
  BY <1>1, SumsExist
<1>3. SumFunctionOnSet(f, T) = k[T]
  BY SumIsChosen
<1> HIDE DEF g, k
<1>4. SumsOver(f, T, [s \in SUBSET T |-> g[s]])
  BY <1>2, SumsRestrict
<1>5. [s \in SUBSET T |-> g[s]] = k
  BY <1>1, <1>2, <1>4, SumsExist
<1>6. g[T] = k[T]
  BY <1>1, <1>5
<1> QED BY <1>3, <1>6 DEF g, k

\* A sum is what the recursion says.
LEMMA SumRecursion ==
    ASSUME NEW f, NEW S, IsFiniteSet(S)
    PROVE  /\ S = {} => SumFunctionOnSet(f, S) = 0
           /\ S # {} => SumFunctionOnSet(f, S) = f[Some(S)] + SumFunctionOnSet(f, S \ {Some(S)})
<1> DEFINE g == CHOOSE h : SumsOver(f, S, h)
<1>1. SumsOver(f, S, g)
  BY SumsExist
<1>2. \A T \in SUBSET S : g[T] = SumFunctionOnSet(f, T)
  BY SumsOfSum
<1> HIDE DEF g
<1>3. g[S] = IF S = {} THEN 0 ELSE f[Some(S)] + g[S \ {Some(S)}]
  BY <1>1 DEF SumsOver
<1> QED BY <1>2, <1>3
-----------------------------------------------------------------------------
(* What is used of sums.                                                   *)

LEMMA SumEmpty == \A f : SumFunctionOnSet(f, {}) = 0
BY SumRecursion, FS_EmptySet

\* The sum of integers is one, and of naturals too.
LEMMA SumType ==
    ASSUME NEW S, IsFiniteSet(S), NEW f, NEW R \in {Int, Nat}, \A x \in S : f[x] \in R
    PROVE  \A T \in SUBSET S : SumFunctionOnSet(f, T) \in R
<1> DEFINE Good == {T \in SUBSET S : SumFunctionOnSet(f, T) \in R}
<1>1. ASSUME NEW T \in SUBSET S, \A U \in SUBSET T : U # T => U \in Good PROVE T \in Good
  <2> DEFINE x == Some(T)
  <2>1. IsFiniteSet(T)
    BY FS_Subset
  <2>2. CASE T = {}
    BY <2>2, SumEmpty
  <2>3. CASE T # {}
    <3>1. x \in T /\ T \ {x} \in SUBSET T /\ T \ {x} # T
      BY <2>3, SomeIn
    <3>2. SumFunctionOnSet(f, T) = f[x] + SumFunctionOnSet(f, T \ {x})
      BY <2>1, <2>3, SumRecursion
    <3> HIDE DEF x
    <3>3. SumFunctionOnSet(f, T \ {x}) \in R /\ f[x] \in R
      BY <1>1, <3>1
    <3> QED BY <3>2, <3>3
  <2> QED BY <2>2, <2>3
<1>2. Good \in SUBSET (SUBSET S)
  OBVIOUS
<1> HIDE DEF Good
<1>3. \A T \in SUBSET S : T \in Good
  BY <1>1, <1>2, SetInduction
<1> QED BY <1>3 DEF Good

\* Any element may be taken out first.
LEMMA SumTake ==
    ASSUME NEW S, IsFiniteSet(S), NEW f, \A x \in S : f[x] \in Int
    PROVE  \A T \in SUBSET S : \A x \in T :
               SumFunctionOnSet(f, T) = f[x] + SumFunctionOnSet(f, T \ {x})
<1> DEFINE Ok(T) == \A x \in T : SumFunctionOnSet(f, T) = f[x] + SumFunctionOnSet(f, T \ {x})
           Good == {T \in SUBSET S : Ok(T)}
<1>1. ASSUME NEW T \in SUBSET S, \A U \in SUBSET T : U # T => U \in Good PROVE T \in Good
  <2> SUFFICES ASSUME NEW x \in T PROVE SumFunctionOnSet(f, T) = f[x] + SumFunctionOnSet(f, T \ {x})
    OBVIOUS
  <2> DEFINE y == Some(T)
  <2>1. y \in T /\ IsFiniteSet(T)
    BY FS_Subset, SomeIn
  <2>2. SumFunctionOnSet(f, T) = f[y] + SumFunctionOnSet(f, T \ {y})
    BY <2>1, SumRecursion
  <2> HIDE DEF y
  <2>3. CASE x = y
    BY <2>2, <2>3
  <2>4. CASE x # y
    <3> DEFINE U == T \ {x}
               V == T \ {y}
    <3>1. /\ U \in SUBSET T /\ U # T /\ V \in SUBSET T /\ V # T
          /\ x \in V /\ y \in U /\ U \ {y} = V \ {x} /\ U \ {y} \in SUBSET S
      BY <2>1, <2>4
    <3>2. Ok(U) /\ Ok(V)
      BY <1>1, <3>1
    <3>3. /\ SumFunctionOnSet(f, V) = f[x] + SumFunctionOnSet(f, V \ {x})
          /\ SumFunctionOnSet(f, U) = f[y] + SumFunctionOnSet(f, U \ {y})
      BY <3>1, <3>2
    <3>4. SumFunctionOnSet(f, U \ {y}) \in Int /\ f[x] \in Int /\ f[y] \in Int
      BY <2>1, <3>1, SumType
    <3> HIDE DEF U, V
    <3>5. SumFunctionOnSet(f, V \ {x}) = SumFunctionOnSet(f, U \ {y})
      BY <3>1
    <3>6. SumFunctionOnSet(f, T) = f[y] + SumFunctionOnSet(f, V)
      BY <2>2 DEF V
    <3>7. SumFunctionOnSet(f, T) = f[x] + SumFunctionOnSet(f, U)
      BY <3>3, <3>4, <3>5, <3>6
    <3> QED BY <3>7 DEF U
  <2> QED BY <2>3, <2>4
<1>2. Good \in SUBSET (SUBSET S)
  OBVIOUS
<1> HIDE DEF Good
<1>3. \A T \in SUBSET S : T \in Good
  BY <1>1, <1>2, SetInduction
<1> QED BY <1>3 DEF Good

\* One element more.
LEMMA SumAdd ==
    ASSUME NEW S, IsFiniteSet(S), NEW f, \A x \in S : f[x] \in Int,
           NEW e, e \notin S, f[e] \in Int
    PROVE  SumFunctionOnSet(f, S \cup {e}) = SumFunctionOnSet(f, S) + f[e]
<1> DEFINE T == S \cup {e}
<1>1. IsFiniteSet(T) /\ e \in T /\ T \ {e} = S /\ \A x \in T : f[x] \in Int
  BY FS_AddElement
<1>2. SumFunctionOnSet(f, T) = f[e] + SumFunctionOnSet(f, S)
  <2> HIDE DEF T
  <2> QED BY <1>1, SumTake
<1>3. SumFunctionOnSet(f, S) \in Int
  BY SumType
<1> QED BY <1>2, <1>3

\* Only the values on the set count.
LEMMA SumSame ==
    ASSUME NEW S, IsFiniteSet(S), NEW f, NEW g, \A x \in S : f[x] = g[x]
    PROVE  SumFunctionOnSet(f, S) = SumFunctionOnSet(g, S)
<1> DEFINE Good == {T \in SUBSET S : SumFunctionOnSet(f, T) = SumFunctionOnSet(g, T)}
<1>1. ASSUME NEW T \in SUBSET S, \A U \in SUBSET T : U # T => U \in Good PROVE T \in Good
  <2> DEFINE x == Some(T)
  <2>1. IsFiniteSet(T)
    BY FS_Subset
  <2>2. CASE T = {}
    BY <2>2, SumEmpty
  <2>3. CASE T # {}
    <3>1. x \in T /\ T \ {x} \in SUBSET T /\ T \ {x} # T
      BY <2>3, SomeIn
    <3>2. /\ SumFunctionOnSet(f, T) = f[x] + SumFunctionOnSet(f, T \ {x})
          /\ SumFunctionOnSet(g, T) = g[x] + SumFunctionOnSet(g, T \ {x})
      BY <2>1, <2>3, SumRecursion
    <3> HIDE DEF x
    <3>3. SumFunctionOnSet(f, T \ {x}) = SumFunctionOnSet(g, T \ {x}) /\ f[x] = g[x]
      BY <1>1, <3>1
    <3> QED BY <3>2, <3>3
  <2> QED BY <2>2, <2>3
<1>2. Good \in SUBSET (SUBSET S)
  OBVIOUS
<1> HIDE DEF Good
<1>3. \A T \in SUBSET S : T \in Good
  BY <1>1, <1>2, SetInduction
<1> QED BY <1>3 DEF Good

\* Two sets that share no element.
LEMMA SumUnion ==
    ASSUME NEW S, IsFiniteSet(S), NEW A, IsFiniteSet(A), A \cap S = {},
           NEW f, \A x \in S \cup A : f[x] \in Int
    PROVE  SumFunctionOnSet(f, A \cup S) = SumFunctionOnSet(f, A) + SumFunctionOnSet(f, S)
<1> DEFINE Good == {T \in SUBSET S : SumFunctionOnSet(f, A \cup T)
                                        = SumFunctionOnSet(f, A) + SumFunctionOnSet(f, T)}
<1>0. SumFunctionOnSet(f, A) \in Int
  BY SumType
<1>1. ASSUME NEW T \in SUBSET S, \A U \in SUBSET T : U # T => U \in Good PROVE T \in Good
  <2>1. CASE T = {}
    BY <1>0, <2>1, SumEmpty
  <2>2. CASE T # {}
    <3>1. PICK x \in T : TRUE
      BY <2>2
    <3> DEFINE U == T \ {x}
    <3>2. /\ U \in SUBSET T /\ U # T /\ U \cup {x} = T /\ (A \cup U) \cup {x} = A \cup T
          /\ x \notin U /\ x \notin A \cup U
      BY <3>1
    <3>3. IsFiniteSet(U) /\ IsFiniteSet(A \cup U)
      <4>1. IsFiniteSet(U)
        BY FS_Subset
      <4> QED BY <4>1, FS_Union
    <3>4. SumFunctionOnSet(f, A \cup U) = SumFunctionOnSet(f, A) + SumFunctionOnSet(f, U)
      BY <1>1, <3>2
    <3> HIDE DEF U
    <3>5. f[x] \in Int /\ (\A y \in U : f[y] \in Int) /\ \A y \in A \cup U : f[y] \in Int
      BY <3>1, <3>2
    <3>6. /\ SumFunctionOnSet(f, T) = SumFunctionOnSet(f, U) + f[x]
          /\ SumFunctionOnSet(f, A \cup T) = SumFunctionOnSet(f, A \cup U) + f[x]
      <4>1. SumFunctionOnSet(f, U \cup {x}) = SumFunctionOnSet(f, U) + f[x]
        BY <3>2, <3>3, <3>5, SumAdd
      <4> DEFINE W == A \cup U
      <4>2. IsFiniteSet(W) /\ x \notin W /\ (\A y \in W : f[y] \in Int) /\ f[x] \in Int
        BY <3>2, <3>3, <3>5
      <4>3. W \cup {x} = A \cup T
        BY <3>2
      <4> HIDE DEF W
      <4>4. SumFunctionOnSet(f, W \cup {x}) = SumFunctionOnSet(f, W) + f[x]
        BY <4>2, SumAdd
      <4> QED BY <3>2, <4>1, <4>3, <4>4 DEF W
    <3>7. SumFunctionOnSet(f, U) \in Int
      BY <3>3, <3>5, SumType
    <3>8. SumFunctionOnSet(f, A \cup T) = SumFunctionOnSet(f, A) + SumFunctionOnSet(f, T)
      BY <1>0, <3>4, <3>5, <3>6, <3>7
    <3> QED BY <3>8
  <2> QED BY <2>1, <2>2
<1>2. Good \in SUBSET (SUBSET S)
  OBVIOUS
<1> HIDE DEF Good
<1>3. \A T \in SUBSET S : T \in Good
  BY <1>1, <1>2, SetInduction
<1> QED BY <1>3 DEF Good

\* Larger values make a larger sum.
LEMMA SumMonotonic ==
    ASSUME NEW S, IsFiniteSet(S), NEW f, NEW g,
           \A x \in S : f[x] \in Int /\ g[x] \in Int /\ f[x] <= g[x]
    PROVE  SumFunctionOnSet(f, S) <= SumFunctionOnSet(g, S)
<1> DEFINE Good == {T \in SUBSET S : SumFunctionOnSet(f, T) <= SumFunctionOnSet(g, T)}
<1>1. ASSUME NEW T \in SUBSET S, \A U \in SUBSET T : U # T => U \in Good PROVE T \in Good
  <2> DEFINE x == Some(T)
  <2>1. IsFiniteSet(T)
    BY FS_Subset
  <2>2. CASE T = {}
    BY <2>2, SumEmpty
  <2>3. CASE T # {}
    <3>1. x \in T /\ T \ {x} \in SUBSET T /\ T \ {x} # T
      BY <2>3, SomeIn
    <3>2. /\ SumFunctionOnSet(f, T) = f[x] + SumFunctionOnSet(f, T \ {x})
          /\ SumFunctionOnSet(g, T) = g[x] + SumFunctionOnSet(g, T \ {x})
      BY <2>1, <2>3, SumRecursion
    <3> HIDE DEF x
    <3>3. SumFunctionOnSet(f, T \ {x}) <= SumFunctionOnSet(g, T \ {x})
      BY <1>1, <3>1
    <3>4. SumFunctionOnSet(f, T \ {x}) \in Int /\ SumFunctionOnSet(g, T \ {x}) \in Int
      BY <3>1, SumType
    <3> QED BY <3>1, <3>2, <3>3, <3>4
  <2> QED BY <2>2, <2>3
<1>2. Good \in SUBSET (SUBSET S)
  OBVIOUS
<1> HIDE DEF Good
<1>3. \A T \in SUBSET S : T \in Good
  BY <1>1, <1>2, SetInduction
<1> QED BY <1>3 DEF Good

\* A part sums to no more than the whole, where nothing is negative.
LEMMA SumSubset ==
    ASSUME NEW S, IsFiniteSet(S), NEW f, \A x \in S : f[x] \in Nat, NEW T \in SUBSET S
    PROVE  SumFunctionOnSet(f, T) <= SumFunctionOnSet(f, S)
<1> DEFINE R == S \ T
<1>1. IsFiniteSet(T) /\ IsFiniteSet(R) /\ T \cap R = {} /\ T \cup R = S
  BY FS_Subset
<1>2. (\A x \in R : f[x] \in Nat) /\ \A x \in T \cup R : f[x] \in Int
  OBVIOUS
<1> HIDE DEF R
<1>3. SumFunctionOnSet(f, S) = SumFunctionOnSet(f, T) + SumFunctionOnSet(f, R)
  BY <1>1, <1>2, SumUnion
<1>4. SumFunctionOnSet(f, T) \in Nat /\ SumFunctionOnSet(f, R) \in Nat
  BY <1>1, <1>2, SumType
<1> QED BY <1>3, <1>4

\* Zeros add up to zero.
LEMMA SumZero ==
    ASSUME NEW S, IsFiniteSet(S), NEW f, \A x \in S : f[x] = 0
    PROVE  SumFunctionOnSet(f, S) = 0
<1> DEFINE Good == {T \in SUBSET S : SumFunctionOnSet(f, T) = 0}
<1>1. ASSUME NEW T \in SUBSET S, \A U \in SUBSET T : U # T => U \in Good PROVE T \in Good
  <2>1. CASE T = {}
    BY <2>1, SumEmpty
  <2>2. CASE T # {}
    <3>1. PICK x \in T : TRUE
      BY <2>2
    <3>2. SumFunctionOnSet(f, T \ {x}) = 0
      BY <1>1, <3>1
    <3>3. SumFunctionOnSet(f, T) = f[x] + SumFunctionOnSet(f, T \ {x})
      BY SumTake
    <3> QED BY <3>2, <3>3
  <2> QED BY <2>1, <2>2
<1>2. Good \in SUBSET (SUBSET S)
  OBVIOUS
<1> HIDE DEF Good
<1>3. \A T \in SUBSET S : T \in Good
  BY <1>1, <1>2, SetInduction
<1> QED BY <1>3 DEF Good

\* Over a finite set, a function to the integers has a highest value.
LEMMA FiniteHighest ==
    ASSUME NEW S, IsFiniteSet(S), NEW f, \A x \in S : f[x] \in Int
    PROVE  S # {} => \E m \in S : \A y \in S : f[m] >= f[y]
<1> DEFINE Ok(T) == T # {} => \E m \in T : \A y \in T : f[m] >= f[y]
           Good == {T \in SUBSET S : Ok(T)}
<1>1. ASSUME NEW T \in SUBSET S, \A U \in SUBSET T : U # T => U \in Good PROVE T \in Good
  <2> SUFFICES ASSUME T # {} PROVE Ok(T)
    OBVIOUS
  <2>1. PICK x \in T : TRUE
    OBVIOUS
  <2>2. CASE T \ {x} = {}
    <3>1. \A y \in T : y = x
      BY <2>2
    <3>2. f[x] >= f[x]
      BY <2>1
    <3> QED BY <2>1, <3>1, <3>2
  <2>3. CASE T \ {x} # {}
    <3>1. T \ {x} \in SUBSET T /\ T \ {x} # T
      BY <2>1
    <3>2. Ok(T \ {x})
      BY <1>1, <3>1
    <3>3. PICK m \in T \ {x} : \A y \in T \ {x} : f[m] >= f[y]
      BY <2>3, <3>2
    <3>4. CASE f[m] >= f[x]
      BY <3>3, <3>4
    <3>5. CASE ~(f[m] >= f[x])
      <4>1. f[x] \in Int /\ \A y \in T : f[y] \in Int
        OBVIOUS
      <4>2. \A y \in T : f[x] >= f[y]
        BY <3>3, <3>5, <4>1
      <4> QED BY <4>2
    <3> QED BY <3>4, <3>5
  <2> QED BY <2>2, <2>3
<1>2. Good \in SUBSET (SUBSET S)
  OBVIOUS
<1> HIDE DEF Good
<1>3. \A T \in SUBSET S : T \in Good
  BY <1>1, <1>2, SetInduction
<1> QED BY <1>3 DEF Good
-----------------------------------------------------------------------------
(* What the jobs, the locks and the file may be. *)

Places == {"new", "running", "recording", "locked", "loaded", "writing",
           "done", "refused", "failed", "killed"}
Documents == [total : Int, entries : SUBSET Jobs]

Types ==
    /\ file \in Documents /\ doc \in [Jobs -> Documents]
    /\ lock \in [Procs -> Jobs \cup {NoJob}]
    /\ pc \in [Jobs -> Places]
    /\ cap \in [Jobs -> Nat] /\ cost \in [Jobs -> Nat]
    /\ overwritten \subseteq Jobs

LEMMA RunsAreOneOrTwo == \A j : RunsOf(j) \in {1, 2}
BY DEF RunsOf

LEMMA CapForType ==
    ASSUME Types, NEW j \in Jobs
    PROVE  /\ Remaining(j) \in Nat
           /\ CapFor(j) \in Nat /\ CapFor(j) <= PerRunCap[j]
           /\ RunsOf(j) * CapFor(j) <= Remaining(j)
<1>1. file.total \in Int /\ TotalCap[ProcOf[j]] \in Nat /\ PerRunCap[j] \in Nat
  BY JobsAssumption, CapsAssumption DEF Types, Documents
<1>2. Remaining(j) \in Nat
  BY <1>1 DEF Remaining
<1>3. CASE RunsOf(j) = 1
  <2>1. Remaining(j) \div RunsOf(j) = Remaining(j)
    BY <1>2, <1>3
  <2> QED BY <1>1, <1>2, <1>3, <2>1 DEF CapFor
<1>4. CASE RunsOf(j) = 2
  <2>1. Remaining(j) \div 2 \in Nat /\ 2 * (Remaining(j) \div 2) <= Remaining(j)
    BY <1>2
  <2> QED BY <1>1, <1>2, <1>4, <2>1 DEF CapFor
<1> QED BY <1>3, <1>4, RunsAreOneOrTwo

LEMMA TypesInit == Init => Types
BY JobsAssumption DEF Init, Types, Empty, Documents, Places

LEMMA TypesStep == Types /\ [Next]_vars => Types'
<1> SUFFICES ASSUME Types, [Next]_vars PROVE Types'
  OBVIOUS
<1> USE JobsAssumption DEF Types, Places, Documents
<1>1. CASE UNCHANGED vars
  BY <1>1 DEF vars
<1>2. ASSUME NEW j \in Jobs, Start(j) PROVE Types'
  <2>1. CapFor(j) \in Nat
    BY CapForType
  <2>2. pc' \in [Jobs -> Places]
    BY <1>2 DEF Start
  <2>3. cap' \in [Jobs -> Nat]
    BY <1>2, <2>1 DEF Start
  <2> QED BY <1>2, <2>2, <2>3 DEF Start
<1>3. ASSUME NEW j \in Jobs, Pay(j) PROVE Types'
  <2>1. cost' = [cost EXCEPT ![j] = @ + 1] /\ UNCHANGED <<file, lock, pc, cap, doc, overwritten>>
    BY <1>3 DEF Pay
  <2> QED BY <2>1
<1>4. ASSUME NEW j \in Jobs, EndRuns(j) \/ SkipRecord(j) \/ Acquire(j) PROVE Types'
  <2>1. pc' \in [Jobs -> Places]
    BY <1>4 DEF EndRuns, SkipRecord, Acquire
  <2>2. lock' \in [Procs -> Jobs \cup {NoJob}]
    BY <1>4 DEF EndRuns, SkipRecord, Acquire
  <2> QED BY <1>4, <2>1, <2>2 DEF EndRuns, SkipRecord, Acquire
<1>5. ASSUME NEW j \in Jobs, Load(j) PROVE Types'
  <2>1. lock' \in [Procs -> Jobs \cup {NoJob}] /\ pc' \in [Jobs -> Places]
    BY <1>5 DEF Load, Release
  <2>2. doc' \in [Jobs -> Documents]
    BY <1>5 DEF Load
  <2> QED BY <1>5, <2>1, <2>2 DEF Load
<1>6. ASSUME NEW j \in Jobs, Truncate(j) PROVE Types'
  <2>1. Torn \in Documents
    BY DEF Torn
  <2> QED BY <1>6, <2>1 DEF Truncate
<1>7. ASSUME NEW j \in Jobs, Fill(j) PROVE Types'
  <2>1. file' \in Documents /\ overwritten' \subseteq Jobs
    BY <1>7 DEF Fill, Recorded, Torn
  <2> QED BY <1>7, <2>1 DEF Fill, Release
<1>8. ASSUME NEW j \in Jobs, SaveFails(j) PROVE Types'
  <2>1. file' \in Documents
    BY <1>8 DEF SaveFails, Torn
  <2> QED BY <1>8, <2>1 DEF SaveFails, Release
<1>9. ASSUME NEW p \in Procs, Kill(p) PROVE Types'
  BY <1>9 DEF Kill
<1> QED BY <1>1, <1>2, <1>3, <1>4, <1>5, <1>6, <1>7, <1>9, <1>8 DEF Next, Step
-----------------------------------------------------------------------------
(* The entries. *)

Holding == {"locked", "loaded", "writing"}

\* A job that records holds its process's lock, and has something to record.
LockInv == \A j \in Jobs : pc[j] \in Holding => lock[ProcOf[j]] = j /\ cost[j] > 0

\* What holds of the file holds of the document a job loaded until it is
\* written, but for what other processes record meanwhile.
Accurate(ledger) ==
    /\ ledger.entries \subseteq Recorded
    /\ ledger.total = CostOf(ledger.entries)

OwnKept(j, ledger) ==
    \A i \in Recorded \ ledger.entries :
        ProcOf[i] = ProcOf[j] => \E k \in ledger.entries : ProcOf[k] # ProcOf[j]

DocInv ==
    \A j \in Jobs : pc[j] \in {"loaded", "writing"} =>
        Accurate(doc[j]) /\ OwnKept(j, doc[j])

EntriesInv == LockInv /\ DocInv /\ EntriesSurvive

\* Once recorded, a job's payment is settled: the sums over recorded jobs stay.
LEMMA RecordedStays ==
    ASSUME Types, NEW S \in SUBSET Recorded, \A j \in S : cost'[j] = cost[j]
    PROVE  /\ CostOf(S)' = CostOf(S)
           /\ CostOf(S) \in Int
<1>1. IsFiniteSet(S) /\ \A j \in S : cost[j] \in Int
  BY JobsAssumption, FS_Subset DEF Types, Recorded
<1>2. SumFunctionOnSet(cost', S) = SumFunctionOnSet(cost, S)
  BY <1>1, SumSame
<1>3. SumFunctionOnSet(cost, S) \in Int
  BY <1>1, SumType
<1> QED BY <1>2, <1>3 DEF CostOf

\* The jobs that hold a lock: one per process.
LEMMA LockStep == Types /\ LockInv /\ [Next]_vars => LockInv'
<1> SUFFICES ASSUME Types, LockInv, [Next]_vars PROVE LockInv'
  OBVIOUS
<1> USE JobsAssumption DEF Types, LockInv, Holding
<1>1. CASE UNCHANGED vars
  BY <1>1 DEF vars
<1>2. ASSUME NEW j \in Jobs, Start(j) PROVE LockInv'
  BY <1>2 DEF Start
<1>3. ASSUME NEW j \in Jobs, Pay(j) PROVE LockInv'
  BY <1>3 DEF Pay
<1>4. ASSUME NEW j \in Jobs, EndRuns(j) \/ SkipRecord(j) \/ Acquire(j) PROVE LockInv'
  BY <1>4 DEF EndRuns, SkipRecord, Acquire
<1>5. ASSUME NEW j \in Jobs, Load(j) \/ Truncate(j) \/ Fill(j) \/ SaveFails(j) PROVE LockInv'
  BY <1>5 DEF Load, Truncate, Fill, SaveFails, Release
<1>6. ASSUME NEW p \in Procs, Kill(p) PROVE LockInv'
  BY <1>6 DEF Kill, Active, Ended
<1> QED BY <1>1, <1>2, <1>3, <1>4, <1>5, <1>6 DEF Next, Step

\* A step that records nobody leaves what is known of the ledger and of the
\* documents as it was.
LEMMA NobodyRecorded ==
    ASSUME Types, EntriesInv, Recorded' = Recorded,
           \A j \in Recorded : cost'[j] = cost[j]
    PROVE  /\ file' = file => EntriesSurvive'
           /\ \A j \in Jobs : /\ pc[j] \in {"loaded", "writing"}
                              /\ doc'[j] = doc[j]
                              => (Accurate(doc[j]) /\ OwnKept(j, doc[j]))'
<1>1. ASSUME NEW S \in SUBSET Recorded PROVE CostOf(S)' = CostOf(S)
  BY <1>1, RecordedStays
<1>2. ASSUME file' = file PROVE EntriesSurvive'
  <2>1. EntriesSurvive
    BY DEF EntriesInv
  <2>2. file # Torn => CostOf(file.entries)' = CostOf(file.entries)
    BY <1>1, <1>2, <2>1 DEF EntriesSurvive, CostOf
  <2> QED BY <1>2, <2>1, <2>2 DEF EntriesSurvive, Lost, CostOf
<1>3. ASSUME NEW j \in Jobs, pc[j] \in {"loaded", "writing"}, doc'[j] = doc[j]
      PROVE  (Accurate(doc[j]) /\ OwnKept(j, doc[j]))'
  <2>1. Accurate(doc[j]) /\ OwnKept(j, doc[j])
    BY <1>3 DEF EntriesInv, DocInv
  <2>2. CostOf(doc[j].entries)' = CostOf(doc[j].entries)
    BY <1>1, <1>3, <2>1 DEF Accurate, CostOf
  <2> QED BY <1>3, <2>1, <2>2 DEF Accurate, OwnKept, CostOf
<1> QED BY <1>2, <1>3

\* The same, of a step that loads nothing and leaves the file.
LEMMA NothingLoaded ==
    ASSUME Types, EntriesInv, Recorded' = Recorded, UNCHANGED <<file, doc>>,
           \A j \in Recorded : cost'[j] = cost[j],
           \A j \in Jobs : pc'[j] \in {"loaded", "writing"} => pc[j] \in {"loaded", "writing"}
    PROVE  EntriesSurvive' /\ DocInv'
BY NobodyRecorded DEF DocInv

LEMMA PayStep ==
    ASSUME Types, EntriesInv, NEW j \in Jobs, Pay(j)
    PROVE  EntriesSurvive' /\ DocInv'
<1>1. Recorded' = Recorded /\ \A i \in Recorded : cost'[i] = cost[i]
  BY DEF Pay, Recorded, Types
<1> QED BY <1>1, NothingLoaded DEF Pay

LEMMA LoadStep ==
    ASSUME Types, EntriesInv, NEW j \in Jobs, Load(j)
    PROVE  EntriesSurvive' /\ DocInv'
<1>1. Recorded' = Recorded /\ \A i \in Recorded : cost'[i] = cost[i]
  BY DEF Load, Recorded, Types
<1>2. EntriesSurvive' /\ file' = file /\ cost' = cost
  BY <1>1, NobodyRecorded DEF Load
<1>3. ASSUME NEW i \in Jobs, pc'[i] \in {"loaded", "writing"}
      PROVE  (Accurate(doc[i]) /\ OwnKept(i, doc[i]))'
  <2>1. CASE doc'[i] = doc[i] /\ pc[i] \in {"loaded", "writing"}
    BY <1>1, <2>1, NobodyRecorded
  <2>2. CASE i = j
    <3>1. file # Torn /\ doc'[j] = file
      BY <1>3, <2>2 DEF Load, Types
    <3>2. file.total = CostOf(file.entries) /\ file.entries \subseteq Recorded
      BY <3>1 DEF EntriesInv, EntriesSurvive
    <3>3. \A k \in Recorded \ file.entries : \E l \in file.entries : ProcOf[l] # ProcOf[k]
      BY <3>1 DEF EntriesInv, EntriesSurvive, Lost
    <3>4. CostOf(doc[j].entries)' = CostOf(file.entries)
      BY <3>1, <1>2 DEF CostOf
    <3> QED BY <1>1, <2>2, <3>1, <3>2, <3>3, <3>4 DEF Accurate, OwnKept
  <2>3. CASE i # j
    BY <1>3, <2>1, <2>3 DEF Load, Types
  <2> QED BY <2>2, <2>3
<1> QED BY <1>2, <1>3 DEF DocInv

LEMMA TruncateStep ==
    ASSUME Types, EntriesInv, NEW j \in Jobs, Truncate(j)
    PROVE  EntriesSurvive' /\ DocInv'
<1>1. Recorded' = Recorded /\ \A i \in Recorded : cost'[i] = cost[i]
  BY DEF Truncate, Recorded, Types
<1>2. \A i \in Jobs : pc'[i] \in {"loaded", "writing"} =>
          pc[i] \in {"loaded", "writing"} /\ doc'[i] = doc[i]
  BY DEF Truncate, Types
<1>3. DocInv'
  BY <1>1, <1>2, NobodyRecorded DEF DocInv
<1> QED BY <1>3 DEF Truncate, EntriesSurvive

\* The step that adds an entry: nobody else of its process is between loading
\* and writing, so only other processes' documents fall behind.
LEMMA FillStep ==
    ASSUME Types, EntriesInv, NEW j \in Jobs, Fill(j)
    PROVE  EntriesSurvive' /\ DocInv'
<1> DEFINE E == doc[j].entries
<1>1. Recorded' = Recorded \cup {j} /\ j \notin Recorded
  BY DEF Fill, Recorded, EntriesInv, LockInv, Holding, Types
<1>2. E \subseteq Recorded /\ doc[j].total = CostOf(E) /\ OwnKept(j, doc[j])
  BY DEF EntriesInv, DocInv, Accurate, Fill
<1>3. cost' = cost /\ (file' = Torn \/ (file'.entries = E \cup {j} /\ file'.total = CostOf(E) + cost[j]))
  BY <1>2 DEF Fill
<1>4. IsFiniteSet(E) /\ j \notin E /\ \A i \in E \cup {j} : cost[i] \in Int
  <2>1. E \in SUBSET Jobs
    BY <1>2 DEF Recorded
  <2> QED BY <1>1, <1>2, <2>1, JobsAssumption, FS_Subset DEF Types
<1>5. file' # Torn => CostOf(file.entries)' = file'.total
  <2>1. SumFunctionOnSet(cost, E \cup {j}) = SumFunctionOnSet(cost, E) + cost[j]
    BY <1>4, SumAdd
  <2> QED BY <1>3, <2>1 DEF CostOf
<1>6. ASSUME NEW i \in (Recorded \cup {j}) \ (E \cup {j})
      PROVE  \E k \in E \cup {j} : ProcOf[k] # ProcOf[i]
  BY <1>2, <1>6 DEF OwnKept
<1>7. EntriesSurvive'
  BY <1>1, <1>2, <1>3, <1>5, <1>6 DEF EntriesSurvive, Lost
<1>8. ASSUME NEW i \in Jobs, pc'[i] \in {"loaded", "writing"}
      PROVE  (Accurate(doc[i]) /\ OwnKept(i, doc[i]))'
  <2>1. i # j /\ pc[i] \in {"loaded", "writing"} /\ doc' = doc
    BY <1>8 DEF Fill, Types
  <2>2. Accurate(doc[i]) /\ OwnKept(i, doc[i])
    BY <2>1 DEF EntriesInv, DocInv
  <2>3. ProcOf[i] # ProcOf[j]
    BY <2>1 DEF EntriesInv, LockInv, Holding, Fill
  <2>4. Accurate(doc[i])'
    BY <1>1, <1>3, <2>1, <2>2 DEF Accurate, CostOf
  <2>5. OwnKept(i, doc[i])'
    BY <1>1, <2>1, <2>2, <2>3 DEF OwnKept
  <2> QED BY <2>4, <2>5
<1> QED BY <1>7, <1>8 DEF DocInv

\* A save that fails records nobody, and leaves the file or tears it.
LEMMA SaveFailsStep ==
    ASSUME Types, EntriesInv, NEW j \in Jobs, SaveFails(j)
    PROVE  EntriesSurvive' /\ DocInv'
<1>1. Recorded' = Recorded /\ \A i \in Recorded : cost'[i] = cost[i]
  BY DEF SaveFails, Recorded, Types
<1>2. \A i \in Jobs : pc'[i] \in {"loaded", "writing"} =>
          pc[i] \in {"loaded", "writing"} /\ doc'[i] = doc[i]
  BY DEF SaveFails, Types
<1>3. DocInv'
  BY <1>1, <1>2, NobodyRecorded DEF DocInv
<1>4. CASE file' = file
  BY <1>1, <1>3, <1>4, NobodyRecorded
<1>5. CASE file' = Torn
  BY <1>3, <1>5 DEF EntriesSurvive
<1> QED BY <1>4, <1>5 DEF SaveFails

LEMMA EntriesInit == Init => EntriesInv
<1> SUFFICES ASSUME Init PROVE EntriesInv
  OBVIOUS
<1>1. CostOf({}) = 0
  BY SumEmpty DEF CostOf
<1>2. Recorded = {}
  BY DEF Init, Recorded
<1> QED BY <1>1, <1>2 DEF Init, EntriesInv, LockInv, Holding, DocInv, EntriesSurvive,
                          Lost, Empty

LEMMA EntriesStep == Types /\ EntriesInv /\ [Next]_vars => EntriesInv'
<1> SUFFICES ASSUME Types, EntriesInv, [Next]_vars PROVE EntriesSurvive' /\ DocInv'
  BY LockStep DEF EntriesInv
<1>1. CASE UNCHANGED vars
  BY <1>1, NothingLoaded DEF vars, Recorded
<1>2. ASSUME NEW j \in Jobs, Start(j) PROVE EntriesSurvive' /\ DocInv'
  BY <1>2, NothingLoaded DEF Start, Recorded, Types
<1>3. ASSUME NEW j \in Jobs, EndRuns(j) \/ SkipRecord(j) \/ Acquire(j)
      PROVE  EntriesSurvive' /\ DocInv'
  BY <1>3, NothingLoaded DEF EndRuns, SkipRecord, Acquire, Recorded, Types
<1>4. ASSUME NEW p \in Procs, Kill(p) PROVE EntriesSurvive' /\ DocInv'
  BY <1>4, NothingLoaded DEF Kill, Recorded, Active, Ended, Types
<1> QED BY <1>1, <1>2, <1>3, <1>4, PayStep, LoadStep, TruncateStep, FillStep, SaveFailsStep DEF Next, Step

LEMMA EntriesAlways == Spec => [](Types /\ EntriesInv)
<1>1. Init => Types /\ EntriesInv
  BY TypesInit, EntriesInit
<1>2. Types /\ EntriesInv /\ [Next]_vars => (Types /\ EntriesInv)'
  BY TypesStep, EntriesStep
<1> QED BY <1>1, <1>2, PTL DEF Spec

\* Between truncating and writing aside, the ledger is the sum of its entries,
\* and an entry is lost to another process only: the lock serialises the
\* threads of one (spend.py:29-38).
THEOREM LedgerEntriesSurvive == Spec => []EntriesSurvive
<1>1. Types /\ EntriesInv => EntriesSurvive
  BY DEF EntriesInv
<1> QED BY <1>1, EntriesAlways, PTL
-----------------------------------------------------------------------------
(* The total. *)

PriceInv ==
    \A k \in Jobs :
        /\ cap[k] <= PerRunCap[k]
        /\ cost[k] <= RunsOf(k) * (cap[k] + Overshoot)
        /\ pc[k] \in {"new", "refused"} => cost[k] = 0

\* An entry is gone only once it was written over.
KeptInv == file # Torn => Lost \subseteq overwritten

Returning == {k \in Jobs : pc[k] \notin {"failed", "killed"}}
Settled == {"new", "refused", "done"}

\* j is the last job to have started and others were under way with it: the
\* rest is settled, and j's runs fit on top of it.
FitsOn(j, rest) ==
    /\ \A k \in rest : pc[k] \in Settled
    /\ CostOf(rest) + RunsOf(j) * cap[j] <= HighestTotal

LastStarted ==
    overwritten = {} =>
        \E j \in Jobs, others \in SUBSET Jobs :
            /\ j \notin others /\ Cardinality(others) < MaxConcurrent
            /\ FitsOn(j, Returning \ (others \cup {j}))

TotalInv == PriceInv /\ KeptInv /\ LastStarted

LEMMA HighestTotalBounds ==
    HighestTotal \in Nat /\ \A p \in Procs : TotalCap[p] <= HighestTotal
<1>1. Procs # {}
  BY JobsAssumption
<1>2. PICK m \in Procs : \A p \in Procs : TotalCap[m] >= TotalCap[p]
  <2>1. IsFiniteSet(Procs) /\ \A p \in Procs : TotalCap[p] \in Int
    BY JobsAssumption, CapsAssumption
  <2> QED BY <1>1, <2>1, FiniteHighest
<1>3. TotalCap[m] \in {TotalCap[p] : p \in Procs}
      /\ \A t \in {TotalCap[p] : p \in Procs} : TotalCap[m] >= t
  BY <1>2
<1>4. HighestTotal \in {TotalCap[p] : p \in Procs}
      /\ \A t \in {TotalCap[p] : p \in Procs} : HighestTotal >= t
  BY <1>3 DEF HighestTotal, Max
<1> QED BY <1>4, CapsAssumption

LEMMA PriceStep == Types /\ PriceInv /\ [Next]_vars => PriceInv'
<1> SUFFICES ASSUME Types, PriceInv, [Next]_vars PROVE PriceInv'
  OBVIOUS
<1> USE CapsAssumption DEF PriceInv
<1>1. CASE UNCHANGED vars
  BY <1>1 DEF vars
<1>2. ASSUME NEW j \in Jobs, Start(j) PROVE PriceInv'
  <2>1. CapFor(j) <= PerRunCap[j] /\ 0 <= RunsOf(j) * (CapFor(j) + Overshoot)
    <3>1. CapFor(j) \in Nat /\ CapFor(j) <= PerRunCap[j]
      BY CapForType
    <3> QED BY <3>1, RunsAreOneOrTwo
  <2>2. cost[j] = 0 /\ cost' = cost
    BY <1>2 DEF Start
  <2>3. \A k \in Jobs : k # j => pc'[k] = pc[k] /\ cap'[k] = cap[k]
    BY <1>2 DEF Start, Types
  <2>4. cap'[j] = cap[j] \/ (cap'[j] = CapFor(j) /\ pc'[j] = "running")
    BY <1>2 DEF Start, Types
  <2> QED BY <2>1, <2>2, <2>3, <2>4
<1>3. ASSUME NEW j \in Jobs, Pay(j) PROVE PriceInv'
  <2>1. RunsOf(j) * (cap[j] + Overshoot) \in Int /\ cost[j] \in Int
    BY RunsAreOneOrTwo DEF Types
  <2>2. cost[j] < RunsOf(j) * (cap[j] + Overshoot) /\ cost'[j] = cost[j] + 1
    BY <1>3 DEF Pay, Types
  <2>3. cost'[j] <= RunsOf(j) * (cap[j] + Overshoot)
    BY <2>1, <2>2
  <2> QED BY <1>3, <2>3 DEF Pay, Types
<1>4. ASSUME NEW j \in Jobs, EndRuns(j) \/ SkipRecord(j) \/ Acquire(j) PROVE PriceInv'
  BY <1>4 DEF EndRuns, SkipRecord, Acquire, Types
<1>5. ASSUME NEW j \in Jobs, Load(j) \/ Truncate(j) \/ Fill(j) \/ SaveFails(j) PROVE PriceInv'
  BY <1>5 DEF Load, Truncate, Fill, SaveFails, Types
<1>6. ASSUME NEW p \in Procs, Kill(p) PROVE PriceInv'
  BY <1>6 DEF Kill, Active, Ended, Types
<1> QED BY <1>1, <1>2, <1>3, <1>4, <1>5, <1>6 DEF Next, Step

LEMMA KeptStep == Types /\ EntriesInv /\ KeptInv /\ [Next]_vars => KeptInv'
<1> SUFFICES ASSUME Types, EntriesInv, KeptInv, [Next]_vars PROVE KeptInv'
  OBVIOUS
<1>1. CASE Recorded' = Recorded /\ UNCHANGED <<file, overwritten>>
  BY <1>1 DEF KeptInv, Lost
<1>2. CASE UNCHANGED vars
  BY <1>1, <1>2 DEF vars, Recorded
<1>3. ASSUME NEW j \in Jobs, Start(j) \/ Pay(j) PROVE KeptInv'
  BY <1>1, <1>3 DEF Start, Pay, Recorded, Types
<1>4. ASSUME NEW j \in Jobs, EndRuns(j) \/ SkipRecord(j) \/ Acquire(j) \/ Load(j) PROVE KeptInv'
  BY <1>1, <1>4 DEF EndRuns, SkipRecord, Acquire, Load, Recorded, Types
<1>5. ASSUME NEW j \in Jobs, Truncate(j) PROVE KeptInv'
  BY <1>5 DEF Truncate, KeptInv
<1>6. ASSUME NEW j \in Jobs, Fill(j) PROVE KeptInv'
  BY <1>6 DEF Fill, KeptInv, Lost, Recorded, Types
<1>7. ASSUME NEW j \in Jobs, SaveFails(j) PROVE KeptInv'
  BY <1>1, <1>7 DEF SaveFails, KeptInv, Lost, Recorded, Types
<1>8. ASSUME NEW p \in Procs, Kill(p) PROVE KeptInv'
  BY <1>1, <1>8 DEF Kill, Recorded, Active, Ended, Types
<1> QED BY <1>2, <1>3, <1>4, <1>5, <1>6, <1>8, <1>7 DEF Next, Step

LEMMA CostsAdd ==
    ASSUME Types, NEW S \in SUBSET Jobs, NEW T \in SUBSET S
    PROVE  CostOf(T) \in Nat /\ CostOf(S) \in Nat /\ CostOf(T) <= CostOf(S)
<1>1. IsFiniteSet(S) /\ \A x \in S : cost[x] \in Nat
  BY JobsAssumption, FS_Subset DEF Types
<1>2. SumFunctionOnSet(cost, T) <= SumFunctionOnSet(cost, S)
  BY <1>1, SumSubset
<1>3. SumFunctionOnSet(cost, T) \in Nat /\ SumFunctionOnSet(cost, S) \in Nat
  BY <1>1, SumType
<1> QED BY <1>2, <1>3 DEF CostOf

\* As long as nobody starts, what is settled stays settled.
LEMMA NobodyStarts ==
    ASSUME Types, LastStarted, cap' = cap, overwritten' = {} => overwritten = {},
           Returning' \subseteq Returning,
           \A k \in Jobs : pc[k] \in Settled /\ k \in Returning' =>
                               pc'[k] \in Settled /\ cost'[k] = cost[k]
    PROVE  LastStarted'
<1> SUFFICES ASSUME overwritten' = {} PROVE LastStarted'
  BY DEF LastStarted
<1>1. PICK j \in Jobs, others \in SUBSET Jobs :
          /\ j \notin others /\ Cardinality(others) < MaxConcurrent
          /\ FitsOn(j, Returning \ (others \cup {j}))
  BY DEF LastStarted
<1> DEFINE rest == Returning \ (others \cup {j})
           left == Returning' \ (others \cup {j})
<1>2. left \subseteq rest /\ rest \subseteq Jobs
  BY DEF Returning
<1>3. \A k \in left : pc[k] \in Settled
  BY <1>1, <1>2 DEF FitsOn
<1>4. \A k \in left : pc'[k] \in Settled /\ cost'[k] = cost[k]
  BY <1>2, <1>3
<1>5. CostOf(rest) + RunsOf(j) * cap[j] <= HighestTotal
  BY <1>1 DEF FitsOn
<1> HIDE DEF rest, left
<1>6. SumFunctionOnSet(cost', left) = SumFunctionOnSet(cost, left)
  <2>1. IsFiniteSet(left)
    BY <1>2, JobsAssumption, FS_Subset
  <2> QED BY <1>4, <2>1, SumSame
<1>7. CostOf(left) \in Nat /\ CostOf(rest) \in Nat /\ CostOf(left) <= CostOf(rest)
  BY <1>2, CostsAdd
<1>8. RunsOf(j) * cap[j] \in Nat /\ HighestTotal \in Nat
  BY RunsAreOneOrTwo, HighestTotalBounds DEF Types
<1>9. SumFunctionOnSet(cost', left) + RunsOf(j) * cap'[j] <= HighestTotal
  BY <1>5, <1>6, <1>7, <1>8 DEF CostOf
<1>10. FitsOn(j, Returning \ (others \cup {j}))'
  BY <1>4, <1>9 DEF FitsOn, CostOf, left
<1> QED BY <1>1, <1>10 DEF LastStarted

\* A job that starts sees in the ledger all that is recorded, so its runs fit on
\* top of what is settled; the others under way are not in it yet.
LEMMA StartFits ==
    ASSUME Types, EntriesInv, TotalInv, NEW j \in Jobs, Start(j), pc'[j] = "running"
    PROVE  LastStarted'
<1> SUFFICES ASSUME overwritten' = {} PROVE LastStarted'
  BY DEF LastStarted
<1>0. PICK others \in SUBSET Jobs : others = Active
  BY DEF Active
<1> DEFINE rest == Returning' \ (others \cup {j})
<1>1. /\ pc[j] = "new" /\ file # Torn /\ cap'[j] = CapFor(j) /\ cost' = cost
      /\ Cardinality(Active) < MaxConcurrent /\ overwritten = {} /\ Remaining(j) > 0
  BY DEF Start, Types
<1>2. file.entries = Recorded /\ file.total = CostOf(Recorded)
  <2>1. Recorded \subseteq file.entries
    BY <1>1 DEF TotalInv, KeptInv, Lost
  <2>2. file.entries \subseteq Recorded /\ file.total = CostOf(file.entries)
    BY <1>1 DEF EntriesInv, EntriesSurvive
  <2>3. file.entries = Recorded
    BY <2>1, <2>2
  <2> QED BY <2>2, <2>3
<1>3. \A k \in Jobs : k # j => pc'[k] = pc[k]
  BY DEF Start, Types
<1>4. /\ rest \subseteq Jobs
      /\ \A k \in rest : pc[k] \in Settled /\ pc'[k] \in Settled
  BY <1>0, <1>3 DEF Returning, Active, Ended, Settled, Types, Places
<1>5. Recorded \subseteq rest
  BY <1>0, <1>1, <1>3 DEF Recorded, Returning, Active, Ended
<1>6. \A k \in rest \ Recorded : cost[k] = 0
  BY <1>4 DEF Recorded, Settled, TotalInv, PriceInv, Types
<1> HIDE DEF rest
<1>7. CostOf(rest) = CostOf(Recorded)
  <2>1. IsFiniteSet(rest \ Recorded) /\ IsFiniteSet(Recorded)
    BY <1>4, <1>5, JobsAssumption, FS_Subset
  <2>2. SumFunctionOnSet(cost, rest \ Recorded) = 0
    BY <1>6, <2>1, SumZero
  <2>3. Recorded \cap (rest \ Recorded) = {} /\ Recorded \cup (rest \ Recorded) = rest
    BY <1>5
  <2>4. \A x \in (rest \ Recorded) \cup Recorded : cost[x] \in Int
    BY <1>4, <1>5 DEF Types
  <2>5. SumFunctionOnSet(cost, Recorded \cup (rest \ Recorded)) =
            SumFunctionOnSet(cost, Recorded) + SumFunctionOnSet(cost, rest \ Recorded)
    BY <2>1, <2>3, <2>4, SumUnion
  <2>6. SumFunctionOnSet(cost, Recorded) \in Int
    BY <1>4, <1>5, CostsAdd DEF CostOf
  <2>7. SumFunctionOnSet(cost, rest) = SumFunctionOnSet(cost, Recorded) + 0
    BY <2>2, <2>3, <2>5
  <2> QED BY <2>6, <2>7 DEF CostOf
<1>8. CostOf(rest) + RunsOf(j) * CapFor(j) <= HighestTotal
  <2>1. RunsOf(j) * CapFor(j) <= Remaining(j) /\ CapFor(j) \in Nat
    BY CapForType
  <2>2. Remaining(j) = TotalCap[ProcOf[j]] - CostOf(Recorded)
    BY <1>1, <1>2 DEF Remaining
  <2>3. TotalCap[ProcOf[j]] <= HighestTotal /\ HighestTotal \in Nat /\ TotalCap[ProcOf[j]] \in Nat
    BY HighestTotalBounds, JobsAssumption, CapsAssumption
  <2>4. CostOf(Recorded) \in Nat /\ RunsOf(j) * CapFor(j) \in Nat
    BY <1>4, <1>5, <2>1, CostsAdd, RunsAreOneOrTwo
  <2> QED BY <1>7, <2>1, <2>2, <2>3, <2>4
<1>9. FitsOn(j, Returning \ (others \cup {j}))'
  BY <1>1, <1>4, <1>8 DEF FitsOn, CostOf, rest
<1>10. j \notin others
  BY <1>0, <1>1 DEF Active
<1> QED BY <1>0, <1>1, <1>9, <1>10 DEF LastStarted

LEMMA LastStartedStep ==
    Types /\ EntriesInv /\ TotalInv /\ [Next]_vars => LastStarted'
<1> SUFFICES ASSUME Types, EntriesInv, TotalInv, [Next]_vars PROVE LastStarted'
  OBVIOUS
<1> USE DEF Returning, Settled
<1>0. LastStarted
  BY DEF TotalInv
<1>1. CASE UNCHANGED vars
  BY <1>0, <1>1, NobodyStarts DEF vars
<1>2. ASSUME NEW j \in Jobs, Start(j) PROVE LastStarted'
  <2>1. CASE pc'[j] = "running"
    BY <1>2, <2>1, StartFits
  <2>2. CASE pc'[j] # "running"
    <3>1. pc[j] = "new" /\ UNCHANGED <<cap, cost, overwritten>>
      BY <1>2, <2>2 DEF Start, Types
    <3>2. pc'[j] \in {"failed", "refused"} /\ \A k \in Jobs : k # j => pc'[k] = pc[k]
      BY <1>2, <2>2 DEF Start, Types
    <3> QED BY <1>0, <3>1, <3>2, NobodyStarts
  <2> QED BY <2>1, <2>2
<1>3. ASSUME NEW j \in Jobs, Pay(j) PROVE LastStarted'
  BY <1>0, <1>3, NobodyStarts DEF Pay, Types
<1>4. ASSUME NEW j \in Jobs, EndRuns(j) \/ SkipRecord(j) \/ Acquire(j) PROVE LastStarted'
  BY <1>0, <1>4, NobodyStarts DEF EndRuns, SkipRecord, Acquire, Types
<1>5. ASSUME NEW j \in Jobs, Load(j) \/ Truncate(j) \/ Fill(j) \/ SaveFails(j) PROVE LastStarted'
  BY <1>0, <1>5, NobodyStarts DEF Load, Truncate, Fill, SaveFails, Types
<1>6. ASSUME NEW p \in Procs, Kill(p) PROVE LastStarted'
  BY <1>0, <1>6, NobodyStarts DEF Kill, Active, Ended, Types
<1> QED BY <1>1, <1>2, <1>3, <1>4, <1>5, <1>6 DEF Next, Step

LEMMA TotalInit == Init => TotalInv
<1> SUFFICES ASSUME Init PROVE TotalInv
  OBVIOUS
<1>1. PriceInv
  <2>1. \A k \in Jobs : RunsOf(k) * (0 + Overshoot) >= 0
    BY RunsAreOneOrTwo, CapsAssumption
  <2> QED BY <2>1, CapsAssumption DEF Init, PriceInv
<1>2. KeptInv
  BY DEF Init, KeptInv, Lost, Recorded
<1>3. PICK j \in Jobs : TRUE
  BY JobsAssumption
<1>4. FitsOn(j, Returning \ ({} \cup {j}))
  <2> DEFINE rest == Returning \ ({} \cup {j})
  <2>1. \A k \in rest : cost[k] = 0 /\ pc[k] \in Settled
    BY DEF Init, Returning, Settled
  <2>2. IsFiniteSet(rest)
    BY JobsAssumption, FS_Subset DEF Returning
  <2> HIDE DEF rest
  <2>3. CostOf(rest) = 0
    BY <2>1, <2>2, SumZero DEF CostOf
  <2>4. RunsOf(j) * cap[j] = 0
    BY RunsAreOneOrTwo DEF Init
  <2>5. FitsOn(j, rest)
    BY <2>1, <2>3, <2>4, HighestTotalBounds DEF FitsOn
  <2> QED BY <2>5 DEF rest
<1>5. Cardinality({}) < MaxConcurrent
  BY FS_EmptySet, CapsAssumption
<1> QED BY <1>1, <1>2, <1>4, <1>5 DEF TotalInv, LastStarted

LEMMA TotalAlways == Spec => [](Types /\ TotalInv)
<1>1. Init => Types /\ EntriesInv /\ TotalInv
  BY TypesInit, EntriesInit, TotalInit
<1>2. Types /\ EntriesInv /\ TotalInv /\ [Next]_vars => (Types /\ EntriesInv /\ TotalInv)'
  BY TypesStep, EntriesStep, PriceStep, KeptStep, LastStartedStep DEF TotalInv
<1> QED BY <1>1, <1>2, PTL DEF Spec

\* What the jobs that were under way with the last one can add.
LEMMA FitsBounds ==
    ASSUME Types, PriceInv, NEW j \in Jobs, NEW others \in SUBSET Jobs, j \notin others,
           FitsOn(j, Returning \ (others \cup {j}))
    PROVE  CostOf(Returning) <=
               HighestTotal + RunsOf(j) * Overshoot + SumFunctionOnSet(Price, others)
<1> DEFINE rest == Returning \ (others \cup {j})
           late == Returning \cap (others \cup {j})
<1> USE CapsAssumption
<1>1. /\ rest \cap late = {} /\ rest \cup late = Returning /\ rest \subseteq Jobs
      /\ late \subseteq others \cup {j} /\ Returning \subseteq Jobs
  BY DEF Returning
<1>2. /\ IsFiniteSet(rest) /\ IsFiniteSet(late) /\ IsFiniteSet(others)
      /\ IsFiniteSet(others \cup {j})
  <2>1. others \cup {j} \in SUBSET Jobs
    OBVIOUS
  <2> QED BY <1>1, <2>1, JobsAssumption, FS_Subset
<1>3. CostOf(rest) + RunsOf(j) * cap[j] <= HighestTotal
  BY DEF FitsOn
<1> HIDE DEF rest, late
<1>4. SumFunctionOnSet(cost, Returning) = SumFunctionOnSet(cost, rest) + SumFunctionOnSet(cost, late)
  <2>1. \A x \in late \cup rest : cost[x] \in Int
    BY <1>1 DEF Types
  <2> QED BY <1>1, <1>2, <2>1, SumUnion
<1>5. SumFunctionOnSet(cost, late) <= SumFunctionOnSet(cost, others \cup {j})
  BY <1>1, CostsAdd DEF CostOf
<1>6. SumFunctionOnSet(cost, others \cup {j}) = SumFunctionOnSet(cost, others) + cost[j]
  <2>1. (\A x \in others : cost[x] \in Int) /\ cost[j] \in Int
    BY DEF Types
  <2> QED BY <1>2, <2>1, SumAdd
<1>7. SumFunctionOnSet(cost, others) <= SumFunctionOnSet(Price, others)
      /\ SumFunctionOnSet(Price, others) \in Int
  <2>1. \A x \in others : cost[x] \in Int /\ Price[x] \in Int /\ cost[x] <= Price[x]
    <3> TAKE x \in others
    <3>1. cost[x] <= RunsOf(x) * (cap[x] + Overshoot) /\ cap[x] <= PerRunCap[x]
          /\ cost[x] \in Nat /\ cap[x] \in Nat
      BY DEF PriceInv, Types
    <3>2. Price[x] = RunsOf(x) * (PerRunCap[x] + Overshoot)
      BY DEF Price
    <3> QED BY <3>1, <3>2, RunsAreOneOrTwo
  <2>2. SumFunctionOnSet(cost, others) <= SumFunctionOnSet(Price, others)
    BY <1>2, <2>1, SumMonotonic
  <2> QED BY <1>2, <2>1, <2>2, SumType
<1>8. cost[j] <= RunsOf(j) * cap[j] + RunsOf(j) * Overshoot
  <2>1. cost[j] <= RunsOf(j) * (cap[j] + Overshoot) /\ cap[j] \in Nat
    BY DEF PriceInv, Types
  <2> QED BY <2>1, RunsAreOneOrTwo
<1>9. /\ SumFunctionOnSet(cost, rest) \in Int /\ SumFunctionOnSet(cost, late) \in Int
      /\ SumFunctionOnSet(cost, others) \in Int
      /\ cost[j] \in Int /\ RunsOf(j) * cap[j] \in Int /\ RunsOf(j) * Overshoot \in Int
  <2>1. late \subseteq Jobs
    BY <1>1
  <2>2. cap[j] \in Int /\ RunsOf(j) \in Int
    BY RunsAreOneOrTwo DEF Types
  <2> QED BY <1>1, <2>1, <2>2, CostsAdd DEF CostOf, Types
<1> QED BY <1>3, <1>4, <1>5, <1>6, <1>7, <1>8, <1>9, HighestTotalBounds DEF CostOf

\* Until an entry is written over, the jobs that return pay no more than the
\* highest total, the overshoot of the last one to start and the full price of
\* the others under way with it (app.py:445-463, cli.py:91-115, 174-192).
THEOREM TotalIsBounded == Spec => []TotalBound
<1>1. ASSUME Types, TotalInv PROVE TotalBound
  <2> SUFFICES ASSUME overwritten = {} PROVE TotalBound
    BY DEF TotalBound
  <2>1. PICK j \in Jobs, others \in SUBSET Jobs :
            /\ j \notin others /\ Cardinality(others) < MaxConcurrent
            /\ FitsOn(j, Returning \ (others \cup {j}))
    BY <1>1 DEF TotalInv, LastStarted
  <2>2. CostOf(Returning) <=
            HighestTotal + RunsOf(j) * Overshoot + SumFunctionOnSet(Price, others)
    BY <1>1, <2>1, FitsBounds DEF TotalInv
  <2> QED BY <2>1, <2>2 DEF TotalBound, Returning
<1> QED BY <1>1, TotalAlways, PTL
=============================================================================
