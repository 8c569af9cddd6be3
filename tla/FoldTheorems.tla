---------------------------- MODULE FoldTheorems ----------------------------
(***************************************************************************)
(* Folds over finite sets, of which the sums and the tables of the models  *)
(* are made.  The library's induction theorems take a predicate; here they *)
(* take the set of what satisfies it, so that a proof can cite them.       *)
(***************************************************************************)
EXTENDS FiniteSetTheorems, TLAPS

-----------------------------------------------------------------------------
(* Induction.                                                              *)

\* A set of naturals that is not empty has a smallest.
LEMMA Smallest ==
  ASSUME NEW B \in SUBSET Nat, B # {}
  PROVE  \E m \in B : \A k \in B : m <= k
<1>1. PICK m \in B : \A k \in B : ~ (<<k, m>> \in OpToRel(<, Nat))
  BY NatLessThanWellFounded, WFMin, Zenon
<1>2. \A k \in B : ~ (k < m)
  BY <1>1 DEF OpToRel
<1> QED BY <1>2

\* A set of naturals with a bound has a largest, unless it is empty.
LEMMA LargestOf ==
  ASSUME NEW n \in Nat, NEW S \in SUBSET (1 .. n), S # {}
  PROVE  \E m \in S : \A k \in S : k <= m
<1> DEFINE U == {b \in Nat : \A k \in S : k <= b}
<1>1. n \in U
  OBVIOUS
<1>2. PICK m \in U : \A b \in U : m <= b
  BY <1>1, Smallest
<1>3. m \in S
  <2> SUFFICES ASSUME m \notin S PROVE FALSE
    OBVIOUS
  <2>1. \A k \in S : k \in Nat \ {0} /\ k <= m /\ k # m
    BY <1>2
  <2>2. m - 1 \in U
    <3>1. PICK k \in S : TRUE
      OBVIOUS
    <3>2. m \in Nat \ {0}
      BY <1>2, <2>1, <3>1
    <3>3. \A j \in S : j <= m - 1
      BY <2>1, <3>2
    <3> QED BY <3>2, <3>3
  <2> QED BY <1>2, <2>2
<1> QED BY <1>2, <1>3

\* What holds of 0, and of n + 1 if it holds of n.
LEMMA InductionOnNat ==
  ASSUME NEW G, 0 \in G, \A n \in Nat : n \in G => n + 1 \in G
  PROVE  Nat \subseteq G
<1> DEFINE B == Nat \ G
<1> SUFFICES ASSUME B # {} PROVE FALSE
  OBVIOUS
<1>1. PICK m \in B : \A k \in B : m <= k
  BY Smallest
<1>2. m # 0 /\ m \in Nat
  OBVIOUS
<1>3. m - 1 \in Nat /\ m - 1 \in G
  BY <1>1, <1>2
<1>4. (m - 1) + 1 \in G
  BY <1>3
<1> QED BY <1>2, <1>4

\* What holds of a finite set if it holds of the set without any of its elements.
LEMMA InductionOnSubsets ==
  ASSUME NEW S, IsFiniteSet(S), NEW G,
         \A s \in SUBSET S : (\A x \in s : s \ {x} \in G) => s \in G
  PROVE  SUBSET S \subseteq G
<1> DEFINE B == {n \in Nat : \E s \in SUBSET S : s \notin G /\ Cardinality(s) = n}
<1>0. \A s \in SUBSET S : IsFiniteSet(s) /\ Cardinality(s) \in Nat
  BY FS_Subset, FS_CardinalityType
<1> SUFFICES ASSUME NEW t \in SUBSET S, t \notin G PROVE FALSE
  OBVIOUS
<1>1. B # {} /\ B \in SUBSET Nat
  BY <1>0
<1>2. PICK m \in B : \A k \in B : m <= k
  BY <1>1, Smallest
<1>3. PICK s \in SUBSET S : s \notin G /\ Cardinality(s) = m
  OBVIOUS
<1>4. PICK x \in s : s \ {x} \notin G
  BY <1>3
<1>5. Cardinality(s \ {x}) = m - 1
  BY <1>0, <1>3, <1>4, FS_RemoveElement
<1>6. m - 1 \in B
  BY <1>0, <1>4, <1>5
<1> QED BY <1>1, <1>2, <1>6

-----------------------------------------------------------------------------
(* Folds.  MapThenFoldSet takes one element after the other out of a set;  *)
(* here pick[s] is the element it takes out of s, and step[<<x, t>>] what  *)
(* it makes of an element x and the result t for the others.               *)

Unfolded(h, s, base, pick, step) ==
  IF s = {} THEN base ELSE step[<<pick[s], h[s \ {pick[s]}]>>]

IsFold(h, S, base, pick, step) ==
  h = [s \in SUBSET S |-> IF s = {} THEN base ELSE step[<<pick[s], h[s \ {pick[s]}]>>]]

\* There is such a function: one for the sets of at most n elements, for each n.
LEMMA FoldExists ==
  ASSUME NEW S, IsFiniteSet(S), NEW T, NEW base \in T, NEW pick,
         \A s \in SUBSET S : s # {} => pick[s] \in s,
         NEW step \in [S \X T -> T]
  PROVE  \E h \in [SUBSET S -> T] : IsFold(h, S, base, pick, step)
<1> DEFINE Small(n) == {s \in SUBSET S : Cardinality(s) <= n}
           Solves(h, n) == \A s \in Small(n) : h[s] = Unfolded(h, s, base, pick, step)
           G == {n \in Nat : \E h \in [Small(n) -> T] : Solves(h, n)}
<1>1. \A s \in SUBSET S : IsFiniteSet(s) /\ Cardinality(s) \in Nat
  BY FS_Subset, FS_CardinalityType
<1>2. 0 \in G
  <2>1. \A s \in Small(0) : s = {}
    BY <1>1, FS_EmptySet
  <2>2. Solves([s \in Small(0) |-> base], 0)
    BY <2>1 DEF Unfolded
  <2> QED BY <2>2
<1>3. ASSUME NEW n \in Nat, n \in G
      PROVE  n + 1 \in G
  <2>1. PICK g \in [Small(n) -> T] : Solves(g, n)
    BY <1>3
  <2> DEFINE h == [s \in Small(n + 1) |-> Unfolded(g, s, base, pick, step)]
  <2>2. \A s \in Small(n + 1) : s # {} => s \ {pick[s]} \in Small(n) /\ pick[s] \in S
    <3> SUFFICES ASSUME NEW s \in Small(n + 1), s # {}
                 PROVE  s \ {pick[s]} \in Small(n) /\ pick[s] \in S
      OBVIOUS
    <3>1. pick[s] \in s /\ IsFiniteSet(s) /\ Cardinality(s) \in Nat
      BY <1>1
    <3>2. Cardinality(s \ {pick[s]}) = Cardinality(s) - 1
      BY <3>1, FS_RemoveElement
    <3> QED BY <3>1, <3>2
  <2>3. h \in [Small(n + 1) -> T]
    <3> SUFFICES ASSUME NEW s \in Small(n + 1) PROVE Unfolded(g, s, base, pick, step) \in T
      OBVIOUS
    <3>1. CASE s = {}
      BY <3>1 DEF Unfolded
    <3>2. CASE s # {}
      <4>1. pick[s] \in S /\ g[s \ {pick[s]}] \in T
        BY <2>1, <2>2, <3>2
      <4> QED BY <3>2, <4>1 DEF Unfolded
    <3> QED BY <3>1, <3>2
  <2>4. \A s \in Small(n) : h[s] = g[s]
    <3>1. \A s \in Small(n) : s \in Small(n + 1)
      BY <1>1
    <3> QED BY <2>1, <3>1
  <2>5. \A s \in Small(n + 1) : h[s] = Unfolded(h, s, base, pick, step)
    <3> SUFFICES ASSUME NEW s \in Small(n + 1) PROVE h[s] = Unfolded(h, s, base, pick, step)
      OBVIOUS
    <3>1. h[s] = Unfolded(g, s, base, pick, step)
      OBVIOUS
    <3> HIDE DEF h
    <3>2. s # {} => g[s \ {pick[s]}] = h[s \ {pick[s]}]
      BY <2>2, <2>4
    <3> QED BY <3>1, <3>2 DEF Unfolded
  <2> HIDE DEF h
  <2>6. Solves(h, n + 1)
    BY <2>5
  <2>7. \E f \in [Small(n + 1) -> T] : Solves(f, n + 1)
    BY <2>3, <2>6
  <2> HIDE DEF Solves, Small
  <2> QED BY <2>7
<1> HIDE DEF G
<1>4. Cardinality(S) \in G
  BY <1>1, <1>2, <1>3, InductionOnNat
<1>5. PICK h \in [Small(Cardinality(S)) -> T] : Solves(h, Cardinality(S))
  BY <1>4 DEF G
<1>6. Small(Cardinality(S)) = SUBSET S
  BY FS_Subset
<1>7. h \in [SUBSET S -> T] /\ \A s \in SUBSET S : h[s] = Unfolded(h, s, base, pick, step)
  BY <1>5, <1>6
<1>8. h = [s \in SUBSET S |-> h[s]]
  BY <1>7
<1>9. IsFold(h, S, base, pick, step)
  BY <1>7, <1>8, Zenon DEF IsFold, Unfolded
<1> QED BY <1>7, <1>9

-----------------------------------------------------------------------------
(* Sums of naturals, in whatever order.                                    *)

Some(s) == CHOOSE x \in s : TRUE

IsSum(h, f, S) ==
  h = [s \in SUBSET S |-> IF s = {} THEN 0 ELSE f[Some(s)] + h[s \ {Some(s)}]]

LEMMA SumExists ==
  ASSUME NEW S, IsFiniteSet(S), NEW f, \A x \in S : f[x] \in Nat
  PROVE  /\ IsSum(CHOOSE h : IsSum(h, f, S), f, S)
         /\ \A h : IsSum(h, f, S) => h \in [SUBSET S -> Nat]
<1> DEFINE pick == [s \in SUBSET S |-> Some(s)]
           step == [p \in S \X Nat |-> f[p[1]] + p[2]]
<1>1. \A s \in SUBSET S : s # {} => pick[s] \in s
  BY DEF Some
<1>2. step \in [S \X Nat -> Nat]
  OBVIOUS
<1>3. \A x \in S, n \in Nat : step[<<x, n>>] = f[x] + n
  OBVIOUS
<1>4. \A s \in SUBSET S : pick[s] = Some(s)
  OBVIOUS
<1> HIDE DEF pick, step
<1>5. ASSUME NEW h
      PROVE  IsSum(h, f, S) => h \in [SUBSET S -> Nat]
  <2> SUFFICES ASSUME IsSum(h, f, S) PROVE h \in [SUBSET S -> Nat]
    OBVIOUS
  <2> DEFINE G == {s \in SUBSET S : h[s] \in Nat}
  <2>1. ASSUME NEW s \in SUBSET S, \A x \in s : s \ {x} \in G
        PROVE  s \in G
    <3>1. h[s] = IF s = {} THEN 0 ELSE f[Some(s)] + h[s \ {Some(s)}]
      BY DEF IsSum
    <3>2. CASE s # {}
      <4>1. Some(s) \in s
        BY <3>2 DEF Some
      <4>2. f[Some(s)] \in Nat /\ h[s \ {Some(s)}] \in Nat
        BY <2>1, <4>1
      <4> QED BY <3>1, <3>2, <4>2
    <3> QED BY <3>1, <3>2
  <2> HIDE DEF G
  <2>2. SUBSET S \subseteq G
    BY <2>1, InductionOnSubsets
  <2>3. h = [s \in SUBSET S |-> h[s]]
    BY DEF IsSum
  <2> QED BY <2>2, <2>3 DEF G
<1>6. \E h : IsSum(h, f, S)
  <2>1. PICK h \in [SUBSET S -> Nat] : IsFold(h, S, 0, pick, step)
    BY <1>1, <1>2, FoldExists
  <2>2. ASSUME NEW s \in SUBSET S
        PROVE  h[s] = IF s = {} THEN 0 ELSE f[Some(s)] + h[s \ {Some(s)}]
    <3>1. h[s] = IF s = {} THEN 0 ELSE step[<<pick[s], h[s \ {pick[s]}]>>]
      BY <2>1, Zenon DEF IsFold
    <3>2. CASE s # {}
      <4>1. Some(s) \in S /\ h[s \ {Some(s)}] \in Nat
        BY <1>1, <1>4, <2>1, <3>2
      <4> QED BY <1>3, <1>4, <3>1, <3>2, <4>1
    <3> QED BY <3>1, <3>2
  <2>3. h = [s \in SUBSET S |-> h[s]]
    BY <2>1
  <2>4. IsSum(h, f, S)
    BY <2>2, <2>3, Zenon DEF IsSum
  <2> QED BY <2>4
<1> QED BY <1>5, <1>6, Zenon

LEMMA SumsAgree ==
  ASSUME NEW S, IsFiniteSet(S), NEW R \in SUBSET S, NEW f,
         NEW h, IsSum(h, f, S), NEW g, IsSum(g, f, R)
  PROVE  h[R] = g[R]
<1> DEFINE G == {s \in SUBSET R : h[s] = g[s]}
<1>1. ASSUME NEW s \in SUBSET R, \A x \in s : s \ {x} \in G
      PROVE  s \in G
  <2>1. /\ h[s] = IF s = {} THEN 0 ELSE f[Some(s)] + h[s \ {Some(s)}]
        /\ g[s] = IF s = {} THEN 0 ELSE f[Some(s)] + g[s \ {Some(s)}]
    BY DEF IsSum
  <2>2. s # {} => Some(s) \in s
    BY DEF Some
  <2> QED BY <1>1, <2>1, <2>2
<1> HIDE DEF G
<1>2. IsFiniteSet(R)
  BY FS_Subset
<1>3. SUBSET R \subseteq G
  BY <1>1, <1>2, InductionOnSubsets
<1> QED BY <1>3 DEF G

\* What SumFunctionOnSet chooses.
LEMMA SumIsChosen ==
  ASSUME NEW S, NEW f
  PROVE  SumFunctionOnSet(f, S) = (CHOOSE h : IsSum(h, f, S))[S]
BY DEF SumFunctionOnSet, FoldFunctionOnSet, MapThenFoldSet, IsSum, Some

LEMMA SumIsNat ==
  ASSUME NEW S, IsFiniteSet(S), NEW f, \A x \in S : f[x] \in Nat
  PROVE  SumFunctionOnSet(f, S) \in Nat
<1>1. (CHOOSE h : IsSum(h, f, S)) \in [SUBSET S -> Nat]
  BY SumExists
<1> QED BY <1>1, SumIsChosen

LEMMA SumOfNone == \A f : SumFunctionOnSet(f, {}) = 0
<1> SUFFICES ASSUME NEW f PROVE SumFunctionOnSet(f, {}) = 0
  OBVIOUS
<1>1. IsSum(CHOOSE h : IsSum(h, f, {}), f, {})
  BY SumExists, FS_EmptySet
<1> QED BY <1>1, SumIsChosen DEF IsSum

\* Any element may be taken out first.
LEMMA SumOfRest ==
  ASSUME NEW S, IsFiniteSet(S), NEW f, \A x \in S : f[x] \in Nat, NEW y \in S
  PROVE  SumFunctionOnSet(f, S) = f[y] + SumFunctionOnSet(f, S \ {y})
<1> DEFINE h == CHOOSE g : IsSum(g, f, S)
           k == CHOOSE g : IsSum(g, f, S \ {y})
           G == {s \in SUBSET S : \A x \in s : h[s] = f[x] + h[s \ {x}]}
<1>1. IsSum(h, f, S) /\ h \in [SUBSET S -> Nat]
  BY SumExists, Zenon
<1>2. IsSum(k, f, S \ {y})
  <2>1. IsFiniteSet(S \ {y})
    BY FS_Subset
  <2> QED BY <2>1, SumExists
<1>3. SumFunctionOnSet(f, S) = h[S] /\ SumFunctionOnSet(f, S \ {y}) = k[S \ {y}]
  BY SumIsChosen, Zenon
<1> HIDE DEF h, k
<1>4. ASSUME NEW s \in SUBSET S, \A x \in s : s \ {x} \in G
      PROVE  s \in G
  <2> SUFFICES ASSUME NEW x \in s PROVE h[s] = f[x] + h[s \ {x}]
    OBVIOUS
  <2> DEFINE c == Some(s)
  <2>1. c \in s
    BY DEF Some
  <2> HIDE DEF c
  <2>2. h[s] = f[c] + h[s \ {c}]
    BY <1>1 DEF IsSum, c
  <2>3. CASE x # c
    <3>1. h[s \ {c}] = f[x] + h[(s \ {c}) \ {x}]
      BY <1>4, <2>1, <2>3
    <3>2. h[s \ {x}] = f[c] + h[(s \ {x}) \ {c}]
      BY <1>4, <2>1, <2>3
    <3>3. (s \ {x}) \ {c} = (s \ {c}) \ {x}
      OBVIOUS
    <3>4. f[x] \in Nat /\ f[c] \in Nat /\ h[(s \ {c}) \ {x}] \in Nat
      BY <1>1, <2>1
    <3> QED BY <2>2, <3>1, <3>2, <3>3, <3>4
  <2> QED BY <2>2, <2>3
<1> HIDE DEF G
<1>5. SUBSET S \subseteq G
  BY <1>4, InductionOnSubsets
<1>6. h[S] = f[y] + h[S \ {y}]
  BY <1>5 DEF G
<1>7. h[S \ {y}] = k[S \ {y}]
  BY <1>1, <1>2, SumsAgree
<1> QED BY <1>3, <1>6, <1>7

-----------------------------------------------------------------------------
(* The sum of the first n values of a function on naturals.                *)

SumOfFirst(f, n) == SumFunctionOnSet(f, 0 .. n - 1)

LEMMA SumOfFirstNone == \A f : SumOfFirst(f, 0) = 0
<1>1. 0 .. 0 - 1 = {}
  OBVIOUS
<1> QED BY <1>1, SumOfNone DEF SumOfFirst

LEMMA SumOfFirstIsNat ==
  ASSUME NEW f, NEW n \in Nat, \A i \in 0 .. n - 1 : f[i] \in Nat
  PROVE  SumOfFirst(f, n) \in Nat
<1>1. IsFiniteSet(0 .. n - 1)
  BY FS_Interval
<1>2. SumFunctionOnSet(f, 0 .. n - 1) \in Nat
  BY <1>1, SumIsNat
<1> QED BY <1>2, Zenon DEF SumOfFirst

LEMMA SumOfFirstNext ==
  ASSUME NEW f, NEW n \in Nat, \A i \in 0 .. n : f[i] \in Nat
  PROVE  SumOfFirst(f, n + 1) = SumOfFirst(f, n) + f[n]
<1>1. n \in 0 .. n /\ (0 .. n) \ {n} = 0 .. n - 1 /\ 0 .. (n + 1) - 1 = 0 .. n
  OBVIOUS
<1>2. IsFiniteSet(0 .. n)
  BY FS_Interval
<1>3. SumFunctionOnSet(f, 0 .. n) = f[n] + SumFunctionOnSet(f, (0 .. n) \ {n})
  BY <1>1, <1>2, SumOfRest
<1>4. SumOfFirst(f, n) \in Nat /\ f[n] \in Nat
  BY SumOfFirstIsNat
<1>5. SumOfFirst(f, n + 1) = f[n] + SumOfFirst(f, n)
  BY <1>1, <1>3, Zenon DEF SumOfFirst
<1> QED BY <1>4, <1>5

\* One more at 0 is one more.
LEMMA SumOfFirstPlusOne ==
  ASSUME NEW f, NEW g, NEW n \in Nat \ {0},
         \A i \in 0 .. n - 1 : f[i] \in Nat /\ g[i] = IF i = 0 THEN f[i] + 1 ELSE f[i]
  PROVE  SumOfFirst(g, n) = SumOfFirst(f, n) + 1
<1> DEFINE G == {m \in Nat : m + 1 <= n => SumOfFirst(g, m + 1) = SumOfFirst(f, m + 1) + 1}
<1>0. \A m \in Nat : m <= n => SumOfFirst(f, m) \in Nat
  BY SumOfFirstIsNat
<1>1. 0 \in G
  <2>1. f[0] \in Nat /\ g[0] = f[0] + 1
    OBVIOUS
  <2>2. /\ SumOfFirst(g, 0 + 1) = SumOfFirst(g, 0) + g[0]
        /\ SumOfFirst(f, 0 + 1) = SumOfFirst(f, 0) + f[0]
    BY <2>1, SumOfFirstNext
  <2>3. SumOfFirst(g, 0) = 0 /\ SumOfFirst(f, 0) = 0
    BY SumOfFirstNone
  <2> QED BY <2>1, <2>2, <2>3
<1>2. ASSUME NEW m \in Nat, m \in G
      PROVE  m + 1 \in G
  <2> SUFFICES ASSUME (m + 1) + 1 <= n
               PROVE  SumOfFirst(g, (m + 1) + 1) = SumOfFirst(f, (m + 1) + 1) + 1
    OBVIOUS
  <2>1. SumOfFirst(g, m + 1) = SumOfFirst(f, m + 1) + 1
    BY <1>2
  <2>2. \A i \in 0 .. m + 1 : f[i] \in Nat /\ g[i] \in Nat
    OBVIOUS
  <2>3. /\ SumOfFirst(g, (m + 1) + 1) = SumOfFirst(g, m + 1) + g[m + 1]
        /\ SumOfFirst(f, (m + 1) + 1) = SumOfFirst(f, m + 1) + f[m + 1]
    BY <2>2, SumOfFirstNext
  <2>4. g[m + 1] = f[m + 1] /\ f[m + 1] \in Nat /\ SumOfFirst(f, m + 1) \in Nat
    BY <1>0, <2>2
  <2> QED BY <2>1, <2>3, <2>4
<1> HIDE DEF G
<1>3. n - 1 \in G
  BY <1>1, <1>2, InductionOnNat
<1>4. (n - 1) + 1 = n
  OBVIOUS
<1> QED BY <1>3, <1>4 DEF G

\* What is moved on by one is summed up one later.
LEMMA SumOfFirstShifted ==
  ASSUME NEW f, NEW g, NEW n \in Nat, \A i \in 0 .. n - 1 : f[i] \in Nat,
         \A i \in 0 .. n : g[i] = IF i = 0 THEN 0 ELSE f[i - 1]
  PROVE  SumOfFirst(g, n + 1) = SumOfFirst(f, n)
<1> DEFINE G == {m \in Nat : m <= n => SumOfFirst(g, m + 1) = SumOfFirst(f, m)}
<1>0. \A i \in 0 .. n : g[i] \in Nat
  OBVIOUS
<1>1. 0 \in G
  <2>1. SumOfFirst(g, 0 + 1) = SumOfFirst(g, 0) + g[0]
    BY <1>0, SumOfFirstNext
  <2>2. SumOfFirst(g, 0) = 0 /\ SumOfFirst(f, 0) = 0
    BY SumOfFirstNone
  <2> QED BY <2>1, <2>2
<1>2. ASSUME NEW m \in Nat, m \in G
      PROVE  m + 1 \in G
  <2> SUFFICES ASSUME m + 1 <= n
               PROVE  SumOfFirst(g, (m + 1) + 1) = SumOfFirst(f, m + 1)
    OBVIOUS
  <2>1. SumOfFirst(g, m + 1) = SumOfFirst(f, m)
    BY <1>2
  <2>2. SumOfFirst(g, (m + 1) + 1) = SumOfFirst(g, m + 1) + g[m + 1]
    BY <1>0, SumOfFirstNext
  <2>3. SumOfFirst(f, m + 1) = SumOfFirst(f, m) + f[m]
    BY SumOfFirstNext
  <2>4. g[m + 1] = f[m]
    OBVIOUS
  <2> QED BY <2>1, <2>2, <2>3, <2>4
<1> HIDE DEF G
<1>3. n \in G
  BY <1>1, <1>2, InductionOnNat
<1> QED BY <1>3 DEF G
=============================================================================
