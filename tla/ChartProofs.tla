----------------------------- MODULE ChartProofs -----------------------------
(***************************************************************************)
(* Theorems of LiveChart: the chart of a tally whose results add up to its *)
(* total, for every set of options and every total.                        *)
(***************************************************************************)
EXTENDS LiveChart, FiniteSetTheorems, WellFoundedInduction, TLAPS

-----------------------------------------------------------------------------
(* Arithmetic of the percentages.                                          *)

\* Math.round of a percentage is off by a half at most.
LEMMA Rounding ==
    ASSUME NEW r \in Nat, NEW t \in Nat, t > 0, NEW p, p = (200 * r + t) \div (2 * t)
    PROVE  /\ p \in Nat
           /\ 2 * t * p <= 200 * r + t
           /\ 200 * r + t < 2 * t * p + 2 * t
<1>1. PICK a \in Nat : a = 200 * r + t
  OBVIOUS
<1>2. PICK d \in Nat : d = 2 * t /\ d > 0
  OBVIOUS
<1>3. p \in Int /\ d * p <= a /\ a < d * p + d
  BY <1>1, <1>2
<1>4. p >= 0
  BY <1>1, <1>2, <1>3
<1> QED BY <1>1, <1>2, <1>3, <1>4

\* More votes never get a smaller percentage.
LEMMA RoundingOrders ==
    ASSUME NEW t \in Nat, t > 0, NEW r \in Nat, NEW s \in Nat, r <= s,
           NEW p \in Nat, 2 * t * p <= 200 * r + t,
           NEW q \in Nat, 200 * s + t < 2 * t * q + 2 * t
    PROVE  p <= q
<1> SUFFICES ASSUME p >= q + 1 PROVE FALSE
  OBVIOUS
<1>1. 2 * t * p >= 2 * t * (q + 1)
  BY SMTT(30)
<1>2. 2 * t * (q + 1) = 2 * t * q + 2 * t
  OBVIOUS
<1> QED BY <1>1, <1>2

\* One more option keeps the sum of the roundings within as many halves as options.
LEMMA RoundingAdds ==
    ASSUME NEW t \in Nat, NEW n \in Nat,
           NEW r \in Nat, NEW p \in Nat, NEW R \in Nat, NEW P \in Nat,
           2 * t * p <= 200 * r + t, 200 * r + t < 2 * t * p + 2 * t,
           2 * t * P <= 200 * R + t * n, 200 * R <= 2 * t * P + t * n
    PROVE  /\ 2 * t * (p + P) <= 200 * (r + R) + t * (n + 1)
           /\ 200 * (r + R) <= 2 * t * (p + P) + t * (n + 1)
<1>1. 2 * t * (p + P) = 2 * t * p + 2 * t * P
  OBVIOUS
<1>2. t * (n + 1) = t * n + t
  OBVIOUS
<1>3. 200 * (r + R) = 200 * r + 200 * R
  OBVIOUS
<1> QED BY <1>1, <1>2, <1>3

LEMMA CancelFactor ==
    ASSUME NEW t \in Nat, t > 0, NEW x \in Int, NEW y \in Int, t * x <= t * y
    PROVE  x <= y
<1> SUFFICES ASSUME x >= y + 1 PROVE FALSE
  OBVIOUS
<1>1. t * x >= t * (y + 1)
  OBVIOUS
<1>2. t * (y + 1) = t * y + t
  OBVIOUS
<1> QED BY <1>1, <1>2

-----------------------------------------------------------------------------
(* Sums over finite sets.                                                  *)

LEMMA Least ==
    ASSUME NEW T \in SUBSET Nat, T # {}
    PROVE  \E x \in T : \A y \in T : x <= y
<1> DEFINE Less == {ss \in Nat \X Nat : ss[1] < ss[2]}
<1>1. IsWellFoundedOn(Less, Nat)
  BY NatLessThanWellFounded DEF OpToRel
<1>2. PICK x \in T : \A y \in T : <<y, x>> \notin Less
  <2> HIDE DEF Less
  <2> QED BY <1>1, WFMin
<1>3. ASSUME NEW y \in T PROVE x <= y
  <2>1. x \in Nat /\ y \in Nat /\ <<y, x>> \notin Less
    BY <1>2
  <2>2. ~(y < x)
    BY <2>1
  <2> QED BY <2>1, <2>2
<1> QED BY <1>3

\* What remains of a finite set without one of its elements.
LEMMA WithoutOne ==
    ASSUME NEW S, IsFiniteSet(S), NEW T \in SUBSET S, T # {}
    PROVE  /\ OneOf(T) \in T
           /\ T \ {OneOf(T)} \in SUBSET S
           /\ IsFiniteSet(T) /\ Cardinality(T) \in Nat /\ Cardinality(T) > 0
           /\ Cardinality(T \ {OneOf(T)}) = Cardinality(T) - 1
<1>1. OneOf(T) \in T
  BY DEF OneOf
<1>2. IsFiniteSet(T)
  BY FS_Subset
<1>3. Cardinality(T) \in Nat /\ Cardinality(T) > 0
  BY <1>2, FS_CardinalityType, FS_EmptySet
<1>4. Cardinality(T \ {OneOf(T)}) = Cardinality(T) - 1
  BY <1>1, <1>2, FS_RemoveElement
<1> QED BY <1>1, <1>2, <1>3, <1>4

\* Induction over the subsets of a finite set, along the choices of OneOf.
LEMMA SetInduction ==
    ASSUME NEW S, IsFiniteSet(S), NEW Good \in SUBSET SUBSET S, {} \in Good,
           \A T \in SUBSET S : T # {} /\ T \ {OneOf(T)} \in Good => T \in Good
    PROVE  \A T \in SUBSET S : T \in Good
<1> DEFINE Bad == {Cardinality(T) : T \in (SUBSET S) \ Good}
<1> SUFFICES ASSUME NEW U \in (SUBSET S) \ Good PROVE FALSE
  OBVIOUS
<1>1. Bad \in SUBSET Nat /\ Bad # {}
  <2>1. \A T \in (SUBSET S) \ Good : T # {}
    OBVIOUS
  <2>2. \A T \in (SUBSET S) \ Good : Cardinality(T) \in Nat
    BY <2>1, WithoutOne
  <2> QED BY <2>2
<1>2. PICK n \in Bad : \A k \in Bad : n <= k
  <2> HIDE DEF Bad
  <2> QED BY <1>1, Least
<1>3. PICK T \in (SUBSET S) \ Good : n = Cardinality(T)
  BY <1>2
<1>4. T # {} /\ T \ {OneOf(T)} \in (SUBSET S) \ Good
  BY <1>3, WithoutOne
<1>5. Cardinality(T \ {OneOf(T)}) = n - 1 /\ n \in Nat
  BY <1>3, <1>4, WithoutOne
<1>6. n - 1 \in Bad
  BY <1>4, <1>5
<1> QED BY <1>2, <1>5, <1>6

\* g has the sum of f over every set of D.
IsSums(g, f, D) ==
    g = [T \in D |-> IF T = {} THEN 0 ELSE f[OneOf(T)] + g[T \ {OneOf(T)}]]

UpTo(S, n) == {T \in SUBSET S : Cardinality(T) <= n}

\* The recursion of SumOver defines a function.
LEMMA SumsExist ==
    ASSUME NEW S, IsFiniteSet(S), NEW f
    PROVE  \A n \in Nat : \E g : IsSums(g, f, UpTo(S, n))
<1> DEFINE Bad == {n \in Nat : ~\E g : IsSums(g, f, UpTo(S, n))}
<1> SUFFICES ASSUME Bad # {} PROVE FALSE
  OBVIOUS
<1>1. PICK n \in Bad : \A k \in Bad : n <= k
  <2>1. Bad \in SUBSET Nat
    OBVIOUS
  <2> HIDE DEF Bad
  <2> QED BY <2>1, Least
<1>2. n \in Nat /\ ~\E g : IsSums(g, f, UpTo(S, n))
  OBVIOUS
<1>3. \A T \in SUBSET S : T # {} =>
        /\ Cardinality(T) \in Nat /\ Cardinality(T) > 0
        /\ T \ {OneOf(T)} \in SUBSET S
        /\ Cardinality(T \ {OneOf(T)}) = Cardinality(T) - 1
  BY WithoutOne
<1>4. n # 0
  <2>1. ASSUME NEW T \in UpTo(S, 0) PROVE T = {}
    <3>1. T \in SUBSET S /\ Cardinality(T) <= 0
      BY DEF UpTo
    <3> SUFFICES ASSUME T # {} PROVE FALSE
      OBVIOUS
    <3>2. Cardinality(T) \in Nat /\ Cardinality(T) > 0
      BY <1>3, <3>1
    <3> QED BY <3>1, <3>2
  <2>2. IsSums([T \in UpTo(S, 0) |-> 0], f, UpTo(S, 0))
    BY <2>1 DEF IsSums
  <2> QED BY <1>2, <2>2
<1>5. PICK h : IsSums(h, f, UpTo(S, n - 1))
  <2>1. n - 1 \in Nat /\ ~(n <= n - 1)
    BY <1>2, <1>4
  <2>2. n - 1 \notin Bad
    BY <1>1, <2>1
  <2> QED BY <2>1, <2>2
<1> DEFINE g == [T \in UpTo(S, n) |->
                   IF T \in UpTo(S, n - 1) THEN h[T]
                   ELSE f[OneOf(T)] + h[T \ {OneOf(T)}]]
<1>6. \A T \in UpTo(S, n - 1) : T \in UpTo(S, n)
  <2>1. Cardinality({}) = 0
    BY FS_EmptySet
  <2>2. \A T \in SUBSET S : Cardinality(T) \in Nat
    <3> TAKE T \in SUBSET S
    <3>1. CASE T = {}
      BY <2>1, <3>1
    <3>2. CASE T # {}
      BY <1>3, <3>2
    <3> QED BY <3>1, <3>2
  <2> QED BY <1>2, <2>2 DEF UpTo
<1>7. {} \in UpTo(S, n - 1)
  <2>1. Cardinality({}) = 0
    BY FS_EmptySet
  <2> QED BY <1>2, <1>4, <2>1 DEF UpTo
<1>8. ASSUME NEW T \in UpTo(S, n)
      PROVE  g[T] = IF T = {} THEN 0 ELSE f[OneOf(T)] + g[T \ {OneOf(T)}]
  <2>1. T # {} => T \ {OneOf(T)} \in UpTo(S, n - 1)
    BY <1>2, <1>3 DEF UpTo
  <2>2. T # {} => g[T \ {OneOf(T)}] = h[T \ {OneOf(T)}]
    BY <1>6, <2>1
  <2>3. CASE T \in UpTo(S, n - 1)
    <3>1. g[T] = h[T]
      BY <2>3
    <3>2. h[T] = IF T = {} THEN 0 ELSE f[OneOf(T)] + h[T \ {OneOf(T)}]
      BY <1>5, <2>3 DEF IsSums
    <3> QED BY <2>2, <3>1, <3>2
  <2>4. CASE T \notin UpTo(S, n - 1)
    BY <1>7, <2>2, <2>4
  <2> QED BY <2>3, <2>4
<1>9. g = [T \in UpTo(S, n) |-> g[T]]
  OBVIOUS
<1> HIDE DEF g
<1>10. IsSums(g, f, UpTo(S, n))
  BY <1>8, <1>9 DEF IsSums
<1> QED BY <1>2, <1>10

Sums(f, S) == CHOOSE g : IsSums(g, f, SUBSET S)

LEMMA SumIsSums ==
    ASSUME NEW S, NEW f
    PROVE  SumOver(f, S) = Sums(f, S)[S]
BY DEF SumOver, Sums, IsSums

LEMMA SumsRecur ==
    ASSUME NEW S, IsFiniteSet(S), NEW f
    PROVE  /\ Sums(f, S)[{}] = 0
           /\ \A T \in SUBSET S : T # {} =>
                 Sums(f, S)[T] = f[OneOf(T)] + Sums(f, S)[T \ {OneOf(T)}]
<1>1. UpTo(S, Cardinality(S)) = SUBSET S
  BY FS_Subset DEF UpTo
<1>2. \E g : IsSums(g, f, SUBSET S)
  <2>1. Cardinality(S) \in Nat
    BY FS_CardinalityType
  <2>2. \E g : IsSums(g, f, UpTo(S, Cardinality(S)))
    BY <2>1, SumsExist
  <2> QED BY <1>1, <2>2
<1>3. IsSums(Sums(f, S), f, SUBSET S)
  BY <1>2 DEF Sums
<1> QED BY <1>3 DEF IsSums

\* What sums of natural numbers are, and how a sum follows a vote.
LEMMA SumsOfCounts ==
    ASSUME NEW S, IsFiniteSet(S), NEW f \in [S -> Nat]
    PROVE  \A T \in SUBSET S :
             /\ Sums(f, S)[T] \in Nat
             /\ \A o \in T : f[o] <= Sums(f, S)[T]
             /\ Sums(f, S)[T] > 0 => \E o \in T : f[o] > 0
<1> DEFINE g == Sums(f, S)
           Good == {T \in SUBSET S : /\ g[T] \in Nat
                                     /\ \A o \in T : f[o] <= g[T]
                                     /\ g[T] > 0 => \E o \in T : f[o] > 0}
<1>1. /\ g[{}] = 0
      /\ \A T \in SUBSET S : T # {} => g[T] = f[OneOf(T)] + g[T \ {OneOf(T)}]
  BY SumsRecur
<1> HIDE DEF g
<1>2. {} \in Good
  BY <1>1
<1>3. ASSUME NEW T \in SUBSET S, T # {}, T \ {OneOf(T)} \in Good PROVE T \in Good
  <2> DEFINE U == T \ {OneOf(T)}
  <2>1. OneOf(T) \in T /\ OneOf(T) \in S
    BY <1>3, WithoutOne
  <2>2. /\ g[U] \in Nat /\ f[OneOf(T)] \in Nat /\ g[T] = f[OneOf(T)] + g[U]
        /\ \A o \in U : f[o] <= g[U]
        /\ g[U] > 0 => \E o \in U : f[o] > 0
    BY <1>1, <1>3, <2>1
  <2>3. g[T] \in Nat /\ f[OneOf(T)] <= g[T] /\ g[U] <= g[T]
    BY <2>2
  <2>4. ASSUME NEW o \in T PROVE f[o] <= g[T]
    <3>1. f[o] \in Nat
      OBVIOUS
    <3>2. CASE o \in U
      <4>1. f[o] <= g[U]
        BY <2>2, <3>2
      <4> QED BY <2>2, <2>3, <3>1, <4>1
    <3>3. CASE o = OneOf(T)
      BY <2>3, <3>3
    <3> QED BY <3>2, <3>3
  <2>5. g[T] > 0 => \E o \in T : f[o] > 0
    BY <2>1, <2>2
  <2> QED BY <2>3, <2>4, <2>5
<1>4. \A T \in SUBSET S : T \in Good
  <2>1. Good \in SUBSET SUBSET S
    OBVIOUS
  <2> HIDE DEF Good
  <2> QED BY <1>2, <1>3, <2>1, SetInduction
<1> QED BY <1>4 DEF g

LEMMA SumsOneMore ==
    ASSUME NEW S, IsFiniteSet(S), NEW f \in [S -> Nat], NEW e \in S,
           NEW h, h = [f EXCEPT ![e] = @ + 1]
    PROVE  \A T \in SUBSET S :
             Sums(h, S)[T] = Sums(f, S)[T] + (IF e \in T THEN 1 ELSE 0)
<1> DEFINE F == Sums(f, S)
           H == Sums(h, S)
           Good == {T \in SUBSET S : H[T] = F[T] + (IF e \in T THEN 1 ELSE 0)}
<1>1. /\ F[{}] = 0 /\ H[{}] = 0
      /\ \A T \in SUBSET S : T # {} => /\ F[T] = f[OneOf(T)] + F[T \ {OneOf(T)}]
                                       /\ H[T] = h[OneOf(T)] + H[T \ {OneOf(T)}]
  <2>1. \A k : /\ Sums(k, S)[{}] = 0
               /\ \A T \in SUBSET S : T # {} =>
                     Sums(k, S)[T] = k[OneOf(T)] + Sums(k, S)[T \ {OneOf(T)}]
    BY SumsRecur
  <2> QED BY <2>1
<1>2. \A T \in SUBSET S : F[T] \in Nat
  BY SumsOfCounts
<1> HIDE DEF F, H
<1>3. {} \in Good
  BY <1>1
<1>4. ASSUME NEW T \in SUBSET S, T # {}, T \ {OneOf(T)} \in Good PROVE T \in Good
  <2> DEFINE U == T \ {OneOf(T)}
  <2>1. OneOf(T) \in T /\ OneOf(T) \in S
    BY <1>4, WithoutOne
  <2>2. /\ F[U] \in Nat /\ f[OneOf(T)] \in Nat
        /\ F[T] = f[OneOf(T)] + F[U] /\ H[T] = h[OneOf(T)] + H[U]
        /\ H[U] = F[U] + (IF e \in U THEN 1 ELSE 0)
    BY <1>1, <1>2, <1>4, <2>1
  <2>3. CASE OneOf(T) = e
    <3>1. e \notin U /\ e \in T /\ h[e] = f[e] + 1
      BY <2>1, <2>3
    <3> QED BY <2>2, <2>3, <3>1
  <2>4. CASE OneOf(T) # e
    <3>1. (e \in U <=> e \in T) /\ h[OneOf(T)] = f[OneOf(T)]
      BY <2>1, <2>4
    <3> QED BY <2>2, <2>4, <3>1
  <2> QED BY <2>3, <2>4
<1>5. \A T \in SUBSET S : T \in Good
  <2>1. Good \in SUBSET SUBSET S
    OBVIOUS
  <2> HIDE DEF Good
  <2> QED BY <1>3, <1>4, <2>1, SetInduction
<1> QED BY <1>5 DEF F, H

\* The roundings of the options of T sum up to half of their number at most.
LEMMA SumsOfPercentages ==
    ASSUME NEW S, IsFiniteSet(S), NEW t \in Nat, NEW f \in [S -> Nat], NEW p \in [S -> Nat],
           \A o \in S : /\ 2 * t * p[o] <= 200 * f[o] + t
                        /\ 200 * f[o] + t < 2 * t * p[o] + 2 * t
    PROVE  \A T \in SUBSET S :
             /\ 2 * t * Sums(p, S)[T] <= 200 * Sums(f, S)[T] + t * Cardinality(T)
             /\ 200 * Sums(f, S)[T] <= 2 * t * Sums(p, S)[T] + t * Cardinality(T)
<1> DEFINE F == Sums(f, S)
           P == Sums(p, S)
           Good == {T \in SUBSET S : /\ 2 * t * P[T] <= 200 * F[T] + t * Cardinality(T)
                                     /\ 200 * F[T] <= 2 * t * P[T] + t * Cardinality(T)}
<1>1. /\ F[{}] = 0 /\ P[{}] = 0
      /\ \A T \in SUBSET S : T # {} => /\ F[T] = f[OneOf(T)] + F[T \ {OneOf(T)}]
                                       /\ P[T] = p[OneOf(T)] + P[T \ {OneOf(T)}]
  <2>1. \A k : /\ Sums(k, S)[{}] = 0
               /\ \A T \in SUBSET S : T # {} =>
                     Sums(k, S)[T] = k[OneOf(T)] + Sums(k, S)[T \ {OneOf(T)}]
    BY SumsRecur
  <2> QED BY <2>1
<1>2. \A T \in SUBSET S : F[T] \in Nat /\ P[T] \in Nat
  BY SumsOfCounts
<1> HIDE DEF F, P
<1>3. {} \in Good
  BY <1>1, FS_EmptySet
<1>4. ASSUME NEW T \in SUBSET S, T # {}, T \ {OneOf(T)} \in Good PROVE T \in Good
  <2>1. PICK U \in SUBSET S : U = T \ {OneOf(T)}
    BY <1>4, WithoutOne
  <2>2. PICK o \in S : o = OneOf(T)
    BY <1>4, WithoutOne
  <2>3. PICK n \in Nat : n = Cardinality(U) /\ Cardinality(T) = n + 1
    <3>1. /\ Cardinality(T) \in Nat /\ Cardinality(T) > 0
          /\ Cardinality(U) = Cardinality(T) - 1
      BY <1>4, <2>1, WithoutOne
    <3> QED BY <3>1
  <2>4. /\ 2 * t * P[U] <= 200 * F[U] + t * n
        /\ 200 * F[U] <= 2 * t * P[U] + t * n
    BY <1>4, <2>1, <2>3
  <2>5. /\ F[T] = f[o] + F[U] /\ P[T] = p[o] + P[U]
        /\ F[U] \in Nat /\ P[U] \in Nat /\ f[o] \in Nat /\ p[o] \in Nat
    BY <1>1, <1>2, <1>4, <2>1, <2>2
  <2>6. 2 * t * p[o] <= 200 * f[o] + t /\ 200 * f[o] + t < 2 * t * p[o] + 2 * t
    BY <2>2
  <2>7. /\ 2 * t * (p[o] + P[U]) <= 200 * (f[o] + F[U]) + t * (n + 1)
        /\ 200 * (f[o] + F[U]) <= 2 * t * (p[o] + P[U]) + t * (n + 1)
    BY <2>4, <2>5, <2>6, RoundingAdds
  <2> QED BY <2>3, <2>5, <2>7
<1>5. \A T \in SUBSET S : T \in Good
  <2>1. Good \in SUBSET SUBSET S
    OBVIOUS
  <2> HIDE DEF Good
  <2> QED BY <1>3, <1>4, <2>1, SetInduction
<1> QED BY <1>5 DEF F, P

-----------------------------------------------------------------------------
(* The chart.                                                              *)

\* The tallies whose results add up to their total.
Sound(t) == SumOver(t.results, Options) = t.total

LEMMA NoVotesSound == Sound(NoVotes)
<1>1. NoVotes.results \in [Options -> Nat]
  BY DEF NoVotes
<1>2. /\ SumOver(NoVotes.results, Options) \in Nat
      /\ SumOver(NoVotes.results, Options) > 0 => \E o \in Options : NoVotes.results[o] > 0
  BY <1>1, ChartAssumption, SumIsSums, SumsOfCounts
<1>3. \A o \in Options : NoVotes.results[o] = 0
  BY DEF NoVotes
<1>4. SumOver(NoVotes.results, Options) = 0
  BY <1>2, <1>3
<1> QED BY <1>4 DEF Sound, NoVotes

LEMMA CountedSound ==
    ASSUME NEW t \in Tallies(Nat), Sound(t), NEW o \in Options
    PROVE  Sound(Counted(t, o))
<1> DEFINE r == Counted(t, o).results
<1>1. t.results \in [Options -> Nat]
  BY DEF Tallies
<1>2. r = [t.results EXCEPT ![o] = @ + 1] /\ Counted(t, o).total = t.total + 1
  BY DEF Counted
<1> HIDE DEF r
<1>3. Sums(r, Options)[Options] = Sums(t.results, Options)[Options] + 1
  BY <1>1, <1>2, ChartAssumption, SumsOneMore
<1>4. SumOver(r, Options) = t.total + 1
  BY <1>3, SumIsSums DEF Sound
<1> QED BY <1>2, <1>4 DEF Sound, r

\* There is a longest bar.
LEMMA MaxCountType ==
    ASSUME NEW t \in Tallies(Nat)
    PROVE  /\ MaxCount(t) \in Nat
           /\ \A o \in Options : t.results[o] <= MaxCount(t)
           /\ MaxCount(t) > 0 => \E o \in Options : t.results[o] = MaxCount(t)
<1> DEFINE Bounds == {n \in Nat : \A o \in Options : t.results[o] <= n}
           Counts0 == {0} \cup {t.results[o] : o \in Options}
<1>1. t.results \in [Options -> Nat]
  BY DEF Tallies
<1>2. Sums(t.results, Options)[Options] \in Bounds
  BY <1>1, ChartAssumption, SumsOfCounts
<1>3. PICK n \in Bounds : \A k \in Bounds : n <= k
  <2>1. Bounds \in SUBSET Nat /\ Bounds # {}
    BY <1>2
  <2> HIDE DEF Bounds
  <2> QED BY <2>1, Least
<1>4. n \in Nat /\ \A o \in Options : t.results[o] <= n
  BY <1>3
<1>5. n \in Counts0
  <2>1. CASE n = 0
    BY <2>1
  <2>2. CASE n # 0
    <3>1. n - 1 \in Nat /\ ~(n <= n - 1)
      BY <1>4, <2>2
    <3>2. n - 1 \notin Bounds
      BY <1>3, <3>1
    <3>3. PICK o \in Options : ~(t.results[o] <= n - 1)
      BY <3>1, <3>2
    <3>4. t.results[o] \in Nat /\ t.results[o] <= n
      BY <1>1, <1>4
    <3>5. t.results[o] = n
      BY <1>4, <3>3, <3>4
    <3> QED BY <3>5
  <2> QED BY <2>1, <2>2
<1>6. MaxCount(t) \in Counts0 /\ \A o \in Options : t.results[o] <= MaxCount(t)
  <2>1. \E m \in Counts0 : \A o \in Options : t.results[o] <= m
    BY <1>4, <1>5
  <2> QED BY <2>1 DEF MaxCount
<1> QED BY <1>1, <1>6

\* The percentages of a chart with votes, and how they round.
LEMMA PercentageType ==
    ASSUME NEW t \in Tallies(Nat), t.total > 0, NEW o \in Options
    PROVE  /\ Percentage(t, o) \in Nat
           /\ 2 * t.total * Percentage(t, o) <= 200 * t.results[o] + t.total
           /\ 200 * t.results[o] + t.total < 2 * t.total * Percentage(t, o) + 2 * t.total
<1>1. t.total \in Nat /\ t.results[o] \in Nat
  BY DEF Tallies
<1>2. Percentage(t, o) = (200 * t.results[o] + t.total) \div (2 * t.total)
  BY DEF Percentage
<1> QED BY <1>1, <1>2, Rounding

\* The chart of a tally whose results add up is right: the percentages add up to 100
\* within half a point for each option, and the leaders are there and the longest.
THEOREM SoundDrawsATally ==
    ASSUME NEW t \in Tallies(Nat), Sound(t)
    PROVE  DrawsATally(t)
<1> DEFINE p == [o \in Options |-> Percentage(t, o)]
           sum == SumOver(p, Options)
<1>1. t.total \in Nat /\ t.results \in [Options -> Nat]
  BY DEF Tallies
<1>2. ASSUME t.total > 0
      PROVE  2 * (sum - 100) \in -Cardinality(Options) .. Cardinality(Options)
  <2>1. p \in [Options -> Nat]
    BY <1>2, PercentageType
  <2>2. \A o \in Options :
          /\ 2 * t.total * p[o] <= 200 * t.results[o] + t.total
          /\ 200 * t.results[o] + t.total < 2 * t.total * p[o] + 2 * t.total
    BY <1>2, PercentageType
  <2> HIDE DEF p
  <2>3. PICK P \in Nat : P = sum /\ P = Sums(p, Options)[Options]
    BY <2>1, ChartAssumption, SumIsSums, SumsOfCounts
  <2>4. Sums(t.results, Options)[Options] = t.total
    BY SumIsSums DEF Sound
  <2>5. PICK n \in Nat : n = Cardinality(Options)
    BY ChartAssumption, FS_CardinalityType
  <2>6. /\ 2 * t.total * P <= 200 * t.total + t.total * n
        /\ 200 * t.total <= 2 * t.total * P + t.total * n
    <3>1. \A T \in SUBSET Options :
            /\ 2 * t.total * Sums(p, Options)[T]
                 <= 200 * Sums(t.results, Options)[T] + t.total * Cardinality(T)
            /\ 200 * Sums(t.results, Options)[T]
                 <= 2 * t.total * Sums(p, Options)[T] + t.total * Cardinality(T)
      BY <1>1, <2>1, <2>2, ChartAssumption, SumsOfPercentages
    <3> QED BY <2>3, <2>4, <2>5, <3>1
  <2>7. /\ t.total * (2 * P) <= t.total * (200 + n)
        /\ t.total * 200 <= t.total * (2 * P + n)
    BY <1>1, <2>6
  <2>8. 2 * P <= 200 + n /\ 200 <= 2 * P + n
    BY <1>1, <1>2, <2>7, CancelFactor
  <2> QED BY <2>3, <2>5, <2>8
<1>3. t.total > 0 <=> Leaders(t) # {}
  <2>1. /\ t.total > 0 => \E o \in Options : t.results[o] > 0
        /\ \A o \in Options : t.results[o] <= t.total
    BY <1>1, ChartAssumption, SumIsSums, SumsOfCounts DEF Sound
  <2>2. /\ MaxCount(t) \in Nat
        /\ \A o \in Options : t.results[o] <= MaxCount(t)
        /\ MaxCount(t) > 0 => \E o \in Options : t.results[o] = MaxCount(t)
    BY MaxCountType
  <2>3. ASSUME t.total > 0 PROVE Leaders(t) # {}
    <3>1. MaxCount(t) > 0
      BY <1>1, <2>1, <2>2, <2>3
    <3> QED BY <2>2, <3>1 DEF Leaders
  <2>4. ASSUME NEW l \in Leaders(t) PROVE t.total > 0
    <3>1. l \in Options /\ t.results[l] = MaxCount(t) /\ MaxCount(t) > 0
      BY DEF Leaders
    <3> QED BY <1>1, <2>1, <3>1
  <2> QED BY <2>3, <2>4
<1>4. ASSUME NEW l \in Leaders(t), NEW o \in Options
      PROVE  Percentage(t, o) <= Percentage(t, l)
  <2>1. /\ l \in Options /\ t.results[o] <= t.results[l]
        /\ t.results[o] \in Nat /\ t.results[l] \in Nat
    BY <1>1, MaxCountType DEF Leaders
  <2>2. t.total > 0
    BY <1>3
  <2>3. /\ Percentage(t, o) \in Nat /\ Percentage(t, l) \in Nat
        /\ 2 * t.total * Percentage(t, o) <= 200 * t.results[o] + t.total
        /\ 200 * t.results[l] + t.total < 2 * t.total * Percentage(t, l) + 2 * t.total
    BY <2>1, <2>2, PercentageType
  <2> QED BY <1>1, <2>1, <2>2, <2>3, RoundingOrders
<1> QED BY <1>2, <1>3, <1>4 DEF DrawsATally

=============================================================================
