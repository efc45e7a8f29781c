--------------------------- MODULE FiniteInduction ---------------------------
(* Induction in the form the provers can use: every nonempty set of        *)
(* subsets of a finite set, and every nonempty set of natural numbers, has *)
(* a minimal member.  The induction theorems of the library take an        *)
(* operator; these take the set of the counterexamples.  The sums over     *)
(* finite sets rest on them.                                               *)
EXTENDS Integers, FiniteSets, FiniteSetTheorems, WellFoundedInduction, TLAPS

(* Of the subsets of a finite set that are in T one has no other below it. *)
LEMMA MinimalSubset ==
  ASSUME NEW S, IsFiniteSet(S), NEW T \in SUBSET (SUBSET S), T # {}
  PROVE  \E x \in T : \A y \in T : ~(y \subseteq x /\ y # x)
<1>1. IsWellFoundedOn(StrictSubsetOrdering(S), FiniteSubsetsOf(S))
  BY FS_StrictSubsetOrderingWellFounded
<1>2. FiniteSubsetsOf(S) = SUBSET S
  BY FS_FiniteSubsetsOfFinite
<1>3. \E x \in T : \A y \in T : ~(<<y, x>> \in StrictSubsetOrdering(S))
  BY <1>1, <1>2, WFMin
<1> QED
  BY <1>3 DEF StrictSubsetOrdering

(* A set of natural numbers has a least one: the intervals 0 .. n below a  *)
(* member k are subsets of 0 .. k.                                         *)
LEMMA LeastNatural ==
  ASSUME NEW T \in SUBSET Nat, T # {}
  PROVE  \E n \in T : \A m \in T : n <= m
<1>1. PICK k \in T : TRUE
  OBVIOUS
<1> DEFINE S == 0 .. k
           low == T \cap S
           U == {0 .. n : n \in low}
<1>2. IsFiniteSet(S)
  BY FS_Interval
<1>3. U \in SUBSET (SUBSET S) /\ U # {}
  OBVIOUS
<1>4. PICK x \in U : \A y \in U : ~(y \subseteq x /\ y # x)
  <2> HIDE DEF S, U
  <2> QED
    BY <1>2, <1>3, MinimalSubset
<1>5. PICK n \in low : x = 0 .. n
  OBVIOUS
<1>6. ASSUME NEW m \in T PROVE n <= m
  <2>1. CASE m > k
    BY <2>1
  <2>2. CASE m <= k
    <3>1. 0 .. m \in U
      BY <2>2
    <3>2. ~(0 .. m \subseteq 0 .. n /\ 0 .. m # 0 .. n)
      BY <1>4, <1>5, <3>1
    <3>3. m < n => 0 .. m \subseteq 0 .. n /\ n \in 0 .. n /\ n \notin 0 .. m
      OBVIOUS
    <3> QED
      BY <3>2, <3>3
  <2> QED
    BY <2>1, <2>2
<1> QED
  BY <1>5, <1>6

-----------------------------------------------------------------------------
(* Sums over finite sets. *)

(* The sum of f over S, as the folds of FiniteSetsExt compute it. *)
Total(f, S) ==
  LET iter[s \in SUBSET S] ==
        IF s = {} THEN 0
        ELSE f[CHOOSE x \in s : TRUE] + iter[s \ {CHOOSE x \in s : TRUE}]
  IN  iter[S]

(* `it` adds f up over every subset of S, one chosen element at a time. *)
Sums(it, f, S) ==
  it = [s \in SUBSET S |->
          IF s = {} THEN 0
          ELSE f[CHOOSE x \in s : TRUE] + it[s \ {CHOOSE x \in s : TRUE}]]

LEMMA SumsUnfold ==
  ASSUME NEW it, NEW f, NEW S, Sums(it, f, S), NEW s \in SUBSET S
  PROVE  it[s] = IF s = {} THEN 0
                 ELSE f[CHOOSE x \in s : TRUE] + it[s \ {CHOOSE x \in s : TRUE}]
<1>1. \A t \in SUBSET S :
        it[t] = [u \in SUBSET S |->
                   IF u = {} THEN 0
                   ELSE f[CHOOSE x \in u : TRUE] + it[u \ {CHOOSE x \in u : TRUE}]][t]
  BY DEF Sums
<1> QED
  BY <1>1

(* The sum over s depends on the elements of s alone. *)
LEMMA SumsAgree ==
  ASSUME NEW S, IsFiniteSet(S), NEW it, NEW f, Sums(it, f, S),
         NEW R, NEW jt, NEW g, Sums(jt, g, R),
         \A x \in S \cap R : f[x] = g[x],
         NEW s \in SUBSET (S \cap R)
  PROVE  it[s] = jt[s]
<1> DEFINE T == {t \in SUBSET (S \cap R) : it[t] # jt[t]}
<1> SUFFICES ASSUME T # {} PROVE FALSE
  OBVIOUS
<1>1. PICK t \in T : \A u \in T : ~(u \subseteq t /\ u # t)
  <2>1. T \in SUBSET (SUBSET S)
    OBVIOUS
  <2> HIDE DEF T
  <2> QED
    BY <2>1, MinimalSubset
<1>2. t \subseteq S /\ t \subseteq R /\ it[t] # jt[t]
  OBVIOUS
<1>3. CASE t = {}
  BY <1>2, <1>3, SumsUnfold
<1>4. CASE t # {}
  <2> DEFINE c == CHOOSE x \in t : TRUE
             u == t \ {c}
  <2>1. c \in t
    BY <1>4
  <2>2. it[t] = f[c] + it[u] /\ jt[t] = g[c] + jt[u]
    <3>1. t \in SUBSET S /\ t \in SUBSET R
      BY <1>2
    <3>2. it[t] = IF t = {} THEN 0 ELSE f[c] + it[u]
      BY <3>1, SumsUnfold
    <3>3. jt[t] = IF t = {} THEN 0 ELSE g[c] + jt[u]
      BY <3>1, SumsUnfold
    <3> QED
      BY <1>4, <3>2, <3>3
  <2> HIDE DEF c
  <2>3. u \in SUBSET (S \cap R) /\ u \notin T
    BY <1>1, <1>2, <2>1
  <2>4. it[u] = jt[u]
    BY <2>3
  <2> QED
    BY <1>2, <2>1, <2>2, <2>4
<1> QED
  BY <1>3, <1>4

(* There is such a function: a smallest set without one would have the sums *)
(* of its subsets put together.                                             *)
LEMMA SumsExist ==
  ASSUME NEW S, IsFiniteSet(S), NEW f
  PROVE  \E it : Sums(it, f, S)
<1> DEFINE T == {s \in SUBSET S : ~ \E it : Sums(it, f, s)}
<1> SUFFICES ASSUME T # {} PROVE FALSE
  OBVIOUS
<1>1. PICK s \in T : \A u \in T : ~(u \subseteq s /\ u # s)
  <2>1. T \in SUBSET (SUBSET S)
    OBVIOUS
  <2> HIDE DEF T
  <2> QED
    BY <2>1, MinimalSubset
<1> DEFINE P(u) == CHOOSE it : Sums(it, f, u)
           C(u) == CHOOSE x \in u : TRUE
           it == [t \in SUBSET s |-> IF t = {} THEN 0 ELSE f[C(t)] + P(t \ {C(t)})[t \ {C(t)}]]
<1>2. \A u \in SUBSET s : u # s => Sums(P(u), f, u)
  BY <1>1
<1>3. s \subseteq S /\ ~ \E jt : Sums(jt, f, s)
  OBVIOUS
<1>4. \A u : u # {} => C(u) \in u
  OBVIOUS
<1>5. \A u \in SUBSET s : IsFiniteSet(u)
  BY <1>3, FS_Subset
<1> HIDE DEF P, C, T
<1>6. ASSUME NEW u \in SUBSET s, u # s PROVE P(u)[u] = it[u]
  <2>1. P(u)[u] = IF u = {} THEN 0 ELSE f[C(u)] + P(u)[u \ {C(u)}]
    BY <1>2, <1>6, SumsUnfold DEF C
  <2>2. CASE u # {}
    <3> DEFINE v == u \ {C(u)}
    <3>1. v \in SUBSET s /\ v # s /\ v \in SUBSET (u \cap v)
      BY <1>4, <2>2
    <3>2. P(u)[v] = P(v)[v]
      <4>1. Sums(P(u), f, u) /\ Sums(P(v), f, v) /\ IsFiniteSet(u)
        BY <1>2, <1>5, <1>6, <3>1
      <4> HIDE DEF v
      <4> QED
        BY <3>1, <4>1, SumsAgree
    <3> QED
      BY <2>1, <2>2, <3>2
  <2> QED
    BY <2>1, <2>2
<1>7. ASSUME NEW t \in SUBSET s
      PROVE  it[t] = IF t = {} THEN 0 ELSE f[C(t)] + it[t \ {C(t)}]
  <2>1. CASE t # {}
    <3> DEFINE u == t \ {C(t)}
    <3>1. u \in SUBSET s /\ u # s
      BY <1>4, <2>1
    <3>2. P(u)[u] = it[u]
      BY <1>6, <3>1
    <3> QED
      BY <2>1, <3>2
  <2> QED
    BY <2>1
<1>8. it = [t \in SUBSET s |-> IF t = {} THEN 0 ELSE f[C(t)] + it[t \ {C(t)}]]
  BY <1>7
<1> HIDE DEF it
<1>9. Sums(it, f, s)
  BY <1>8 DEF Sums, C
<1> QED
  BY <1>3, <1>9

(* A sum of natural numbers is one. *)
LEMMA SumsNat ==
  ASSUME NEW S, IsFiniteSet(S), NEW f, NEW it, Sums(it, f, S), \A x \in S : f[x] \in Nat,
         NEW s \in SUBSET S
  PROVE  it[s] \in Nat
<1> DEFINE T == {t \in SUBSET S : it[t] \notin Nat}
<1> SUFFICES ASSUME T # {} PROVE FALSE
  OBVIOUS
<1>1. PICK t \in T : \A u \in T : ~(u \subseteq t /\ u # t)
  <2>1. T \in SUBSET (SUBSET S)
    OBVIOUS
  <2> HIDE DEF T
  <2> QED
    BY <2>1, MinimalSubset
<1> DEFINE c == CHOOSE x \in t : TRUE
           u == t \ {c}
<1>2. it[t] = IF t = {} THEN 0 ELSE f[c] + it[u]
  BY SumsUnfold
<1>3. t # {} => c \in t /\ u # t
  OBVIOUS
<1> HIDE DEF c
<1>4. t # {} => u \in SUBSET S /\ u \notin T
  BY <1>1, <1>3
<1> QED
  BY <1>2, <1>3, <1>4

(* The order does not matter: any element may be taken out first. *)
LEMMA SumsSplit ==
  ASSUME NEW S, IsFiniteSet(S), NEW f, NEW it, Sums(it, f, S), \A x \in S : f[x] \in Nat,
         NEW s \in SUBSET S, NEW x \in s
  PROVE  it[s] = f[x] + it[s \ {x}]
<1> DEFINE T == {t \in SUBSET S : \E y \in t : it[t] # f[y] + it[t \ {y}]}
<1> SUFFICES ASSUME T # {} PROVE FALSE
  OBVIOUS
<1>1. PICK t \in T : \A u \in T : ~(u \subseteq t /\ u # t)
  <2>1. T \in SUBSET (SUBSET S)
    OBVIOUS
  <2> HIDE DEF T
  <2> QED
    BY <2>1, MinimalSubset
<1>2. PICK y \in t : it[t] # f[y] + it[t \ {y}]
  OBVIOUS
<1> DEFINE c == CHOOSE z \in t : TRUE
<1>3. t \in SUBSET S /\ c \in t
  OBVIOUS
<1>4. it[t] = f[c] + it[t \ {c}]
  BY <1>3, SumsUnfold
<1> HIDE DEF c
<1>5. y # c
  BY <1>2, <1>4
<1> DEFINE u == t \ {c}
           v == t \ {y}
           w == t \ {c, y}
<1>6. /\ u \in SUBSET S /\ u \notin T /\ y \in u
      /\ v \in SUBSET S /\ v \notin T /\ c \in v
  BY <1>1, <1>2, <1>3, <1>5
<1>7. it[u] = f[y] + it[u \ {y}] /\ it[v] = f[c] + it[v \ {c}]
  BY <1>6
<1>8. u \ {y} = w /\ v \ {c} = w /\ w \in SUBSET S
  BY <1>3
<1>9. f[c] \in Nat /\ f[y] \in Nat /\ it[w] \in Nat
  BY <1>2, <1>3, <1>8, SumsNat
<1> HIDE DEF u, v, w, T
<1>10. it[v] = f[c] + it[w] /\ it[u] = f[y] + it[w]
  BY <1>7, <1>8
<1>11. it[t] # f[y] + it[v] /\ it[t] = f[c] + it[u]
  BY <1>2, <1>4 DEF u, v
<1> QED
  BY <1>9, <1>10, <1>11

LEMMA TotalIsSum ==
  ASSUME NEW S, IsFiniteSet(S), NEW f
  PROVE  \E it : Sums(it, f, S) /\ Total(f, S) = it[S]
<1> DEFINE it == CHOOSE g : Sums(g, f, S)
<1>1. Sums(it, f, S)
  BY SumsExist
<1>2. Total(f, S) = it[S]
  BY DEF Total, Sums
<1> HIDE DEF it
<1> QED
  BY <1>1, <1>2

LEMMA TotalEmpty == \A f : Total(f, {}) = 0
<1> SUFFICES ASSUME NEW f PROVE Total(f, {}) = 0
  OBVIOUS
<1>1. IsFiniteSet({})
  BY FS_EmptySet
<1>2. PICK it : Sums(it, f, {}) /\ Total(f, {}) = it[{}]
  BY <1>1, TotalIsSum
<1>3. {} \in SUBSET {}
  OBVIOUS
<1> QED
  BY <1>2, <1>3, SumsUnfold

LEMMA TotalNat ==
  ASSUME NEW S, IsFiniteSet(S), NEW f, \A x \in S : f[x] \in Nat
  PROVE  Total(f, S) \in Nat
<1>1. PICK it : Sums(it, f, S) /\ Total(f, S) = it[S]
  BY TotalIsSum
<1>2. S \in SUBSET S
  OBVIOUS
<1> QED
  BY <1>1, <1>2, SumsNat

(* Only the values on S count. *)
LEMMA TotalSame ==
  ASSUME NEW S, IsFiniteSet(S), NEW f, NEW g, \A x \in S : f[x] = g[x]
  PROVE  Total(f, S) = Total(g, S)
<1>1. PICK it : Sums(it, f, S) /\ Total(f, S) = it[S]
  BY TotalIsSum
<1>2. PICK jt : Sums(jt, g, S) /\ Total(g, S) = jt[S]
  BY TotalIsSum
<1>3. S \in SUBSET (S \cap S) /\ \A x \in S \cap S : f[x] = g[x]
  OBVIOUS
<1>4. it[S] = jt[S]
  BY <1>1, <1>2, <1>3, SumsAgree
<1> QED
  BY <1>1, <1>2, <1>4

(* Any element may be taken out. *)
LEMMA TotalWithout ==
  ASSUME NEW S, IsFiniteSet(S), NEW f, \A x \in S : f[x] \in Nat, NEW x \in S
  PROVE  Total(f, S) = f[x] + Total(f, S \ {x})
<1> DEFINE R == S \ {x}
<1>1. PICK it : Sums(it, f, S) /\ Total(f, S) = it[S]
  BY TotalIsSum
<1>2. IsFiniteSet(R) /\ R \in SUBSET (S \cap R) /\ S \in SUBSET S
  BY FS_Subset
<1>3. PICK jt : Sums(jt, f, R) /\ Total(f, R) = jt[R]
  <2> HIDE DEF R
  <2> QED
    BY <1>2, TotalIsSum
<1>4. it[S] = f[x] + it[R]
  BY <1>1, <1>2, SumsSplit
<1>5. it[R] = jt[R]
  <2> HIDE DEF R
  <2> QED
    BY <1>1, <1>2, <1>3, SumsAgree
<1> QED
  BY <1>1, <1>3, <1>4, <1>5

(* One element more. *)
LEMMA TotalWith ==
  ASSUME NEW S, IsFiniteSet(S), NEW f, NEW x, x \notin S, \A y \in S \cup {x} : f[y] \in Nat
  PROVE  Total(f, S \cup {x}) = f[x] + Total(f, S)
<1>1. IsFiniteSet(S \cup {x}) /\ (S \cup {x}) \ {x} = S
  BY FS_AddElement
<1> QED
  BY <1>1, TotalWithout

=============================================================================
