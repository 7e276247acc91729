----------------------------- MODULE FoldTheorems -----------------------------
(* What a fold over a finite set computes, and the sums the models are built  *)
(* from: induction over sets, as the choice of a smallest counterexample.     *)
EXTENDS Integers, FiniteSets, Functions, FiniteSetTheorems, TLAPS

-------------------------------------------------------------------------------
(* Counterexamples. *)

LEMMA SmallestSubset ==
  ASSUME NEW S, IsFiniteSet(S), NEW F, F \subseteq SUBSET S, F # {}
  PROVE  \E T \in F : \A U \in F : U \subseteq T => U = T
<1>1. F \subseteq FiniteSubsetsOf(S)
  BY FS_FiniteSubsetsOfFinite
<1>2. IsWellFoundedOn(StrictSubsetOrdering(S), FiniteSubsetsOf(S))
  BY FS_StrictSubsetOrderingWellFounded
<1>3. PICK T \in F : \A U \in F : ~ (<<U, T>> \in StrictSubsetOrdering(S))
  BY <1>1, <1>2, WFMin
<1>4. ASSUME NEW U \in F, U \subseteq T, U # T PROVE FALSE
  <2>1. <<U, T>> \in StrictSubsetOrdering(S)
    BY <1>4 DEF StrictSubsetOrdering
  <2> QED
    BY <1>3, <2>1
<1> QED
  BY <1>4

Smaller == {ss \in Nat \X Nat : ss[1] < ss[2]}

LEMMA FirstOf ==
  ASSUME NEW S, S \subseteq Nat, S # {}
  PROVE  \E x \in S : \A y \in S : x <= y
<1>1. OpToRel(<, Nat) = Smaller
  BY DEF OpToRel, Smaller
<1>2. IsWellFoundedOn(Smaller, Nat)
  BY <1>1, NatLessThanWellFounded
<1>3. PICK x \in S : \A y \in S : ~ (<<y, x>> \in Smaller)
  BY <1>2, WFMin
<1>4. \A y, z \in Nat : y < z => <<y, z>> \in Smaller
  BY DEF Smaller
<1>5. ASSUME NEW y \in S PROVE x <= y
  <2>1. x \in Nat /\ y \in Nat
    OBVIOUS
  <2>2. ~ (y < x)
    BY <1>3, <1>4, <2>1
  <2> QED
    BY <2>1, <2>2
<1> QED
  BY <1>5

LEMMA GreatestOf ==
  ASSUME NEW S, S \subseteq Int, S # {}, IsFiniteSet(S)
  PROVE  \E x \in S : \A y \in S : y <= x
<1> DEFINE Tops(s) == {x \in s : \A y \in s : y <= x}
           Bad == {s \in SUBSET S : s # {} /\ Tops(s) = {}}
<1>1. ASSUME NEW s \in Bad, \A U \in Bad : U \subseteq s => U = s PROVE FALSE
  <2>1. PICK x \in s : x \in Int
    OBVIOUS
  <2>2. s \ {x} \notin Bad /\ s \ {x} \in SUBSET S
    BY <1>1, <2>1
  <2>3. CASE s \ {x} = {}
    <3>1. s = {x}
      BY <2>1, <2>3
    <3>2. x \in Tops(s)
      BY <2>1, <3>1
    <3> QED
      BY <3>2
  <2>4. CASE s \ {x} # {}
    <3>1. PICK z \in s \ {x} : \A y \in s \ {x} : y <= z
      BY <2>2, <2>4
    <3>2. z \in Int /\ \A y \in s : y \in Int
      OBVIOUS
    <3>3. CASE x <= z
      <4>1. z \in Tops(s)
        BY <3>1, <3>3
      <4> QED
        BY <4>1
    <3>4. CASE ~ (x <= z)
      <4>1. \A y \in s : y <= x
        BY <2>1, <3>1, <3>2, <3>4
      <4>2. x \in Tops(s)
        BY <2>1, <4>1
      <4> QED
        BY <4>2
    <3> QED
      BY <3>3, <3>4
  <2> QED
    BY <2>3, <2>4
<1>2. Bad = {}
  <2> SUFFICES ASSUME Bad # {} PROVE FALSE
    OBVIOUS
  <2>1. IsFiniteSet(S) /\ Bad \subseteq SUBSET S
    OBVIOUS
  <2> HIDE DEF Bad, Tops
  <2>2. PICK s \in Bad : \A U \in Bad : U \subseteq s => U = s
    BY ONLY <2>1, Bad # {}, SmallestSubset
  <2> QED
    BY <1>1, <2>2
<1>3. Tops(S) # {}
  BY <1>2
<1> QED
  BY <1>3

-------------------------------------------------------------------------------
(* A fold over the subsets of a set: each takes away the element pick says.   *)

Folded(it, s, pick, step, base) ==
    IF s = {} THEN base ELSE step[<<pick[s], it[s \ {pick[s]}]>>]
IsFold(it, S, pick, step, base) ==
    it = [s \in SUBSET S |-> Folded(it, s, pick, step, base)]
Foldable(S, pick, step, base, V) ==
    /\ IsFiniteSet(S)
    /\ \A s \in SUBSET S : s # {} => pick[s] \in s
    /\ base \in V
    /\ step \in [S \X V -> V]

UpTo(S, n) == {s \in SUBSET S : Cardinality(s) <= n}
FoldUpTo(n, S, pick, step, base, V) ==
    \E it \in [UpTo(S, n) -> V] : it = [s \in UpTo(S, n) |-> Folded(it, s, pick, step, base)]

LEMMA FoldExists ==
  ASSUME NEW S, NEW pick, NEW step, NEW base, NEW V, Foldable(S, pick, step, base, V)
  PROVE  \E it \in [SUBSET S -> V] : IsFold(it, S, pick, step, base)
<1> DEFINE P(n) == FoldUpTo(n, S, pick, step, base, V)
           Bad == {n \in Nat : ~ P(n)}
<1>0. IsFiniteSet(S) /\ \A s \in SUBSET S : IsFiniteSet(s) /\ Cardinality(s) \in Nat
  BY FS_Subset, FS_CardinalityType DEF Foldable
<1>1. P(0)
  <2> DEFINE it == [s \in UpTo(S, 0) |-> base]
  <2>1. \A s \in UpTo(S, 0) : s = {}
    BY <1>0, FS_EmptySet DEF UpTo
  <2>2. it \in [UpTo(S, 0) -> V] /\ it = [s \in UpTo(S, 0) |-> Folded(it, s, pick, step, base)]
    BY <2>1 DEF Folded, Foldable
  <2> QED
    BY <2>2 DEF FoldUpTo
<1>2. ASSUME NEW n \in Nat, P(n) PROVE P(n + 1)
  <2>1. PICK it \in [UpTo(S, n) -> V] : it = [s \in UpTo(S, n) |-> Folded(it, s, pick, step, base)]
    BY <1>2 DEF FoldUpTo
  <2> DEFINE next == [s \in UpTo(S, n + 1) |-> Folded(it, s, pick, step, base)]
  <2>2. UpTo(S, n) \subseteq UpTo(S, n + 1)
    BY <1>0 DEF UpTo
  <2>3. \A s \in UpTo(S, n) : next[s] = it[s]
    BY <2>1, <2>2
  <2>4. ASSUME NEW s \in UpTo(S, n + 1), s # {}
        PROVE  s \ {pick[s]} \in UpTo(S, n) /\ pick[s] \in S
    <3>1. s \in SUBSET S /\ Cardinality(s) <= n + 1 /\ pick[s] \in s
      BY <2>4 DEF UpTo, Foldable
    <3>2. Cardinality(s \ {pick[s]}) = Cardinality(s) - 1
      BY <1>0, <3>1, FS_RemoveElement
    <3>3. Cardinality(s \ {pick[s]}) <= n
      BY <1>0, <3>1, <3>2
    <3> QED
      BY <3>1, <3>3 DEF UpTo
  <2>5. ASSUME NEW s \in UpTo(S, n + 1)
        PROVE  /\ Folded(it, s, pick, step, base) \in V
               /\ Folded(next, s, pick, step, base) = Folded(it, s, pick, step, base)
    <3>1. CASE s = {}
      BY <3>1 DEF Folded, Foldable
    <3>2. CASE s # {}
      <4>1. s \ {pick[s]} \in UpTo(S, n) /\ pick[s] \in S
        BY <2>4, <3>2
      <4>2. it[s \ {pick[s]}] \in V /\ next[s \ {pick[s]}] = it[s \ {pick[s]}]
        BY <2>3, <4>1
      <4> HIDE DEF next
      <4> QED
        BY <3>2, <4>1, <4>2 DEF Folded, Foldable
    <3> QED
      BY <3>1, <3>2
  <2>6. next \in [UpTo(S, n + 1) -> V]
    BY <2>5
  <2>7. next = [s \in UpTo(S, n + 1) |-> Folded(next, s, pick, step, base)]
    BY <2>5
  <2> QED
    BY <2>6, <2>7 DEF FoldUpTo
<1> HIDE DEF P
<1>3. Bad = {}
  <2> SUFFICES ASSUME Bad # {} PROVE FALSE
    OBVIOUS
  <2>1. PICK n \in Bad : \A m \in Bad : n <= m
    BY FirstOf
  <2>2. n # 0 /\ n \in Nat
    BY <1>1
  <2>3. n - 1 \in Nat /\ n - 1 \notin Bad
    BY <2>1, <2>2
  <2>4. P((n - 1) + 1)
    BY <1>2, <2>3
  <2> QED
    BY <2>2, <2>4
<1>4. P(Cardinality(S))
  BY <1>0, <1>3
<1>5. UpTo(S, Cardinality(S)) = SUBSET S
  BY <1>0, FS_Subset DEF UpTo
<1> QED
  BY <1>4, <1>5 DEF P, FoldUpTo, IsFold

LEMMA FoldTyped ==
  ASSUME NEW S, NEW pick, NEW step, NEW base, NEW V, Foldable(S, pick, step, base, V),
         NEW it, IsFold(it, S, pick, step, base)
  PROVE  it \in [SUBSET S -> V]
<1> DEFINE Bad == {s \in SUBSET S : it[s] \notin V}
<1>1. it = [s \in SUBSET S |-> Folded(it, s, pick, step, base)]
  BY DEF IsFold
<1>2. ASSUME NEW s \in Bad, \A U \in Bad : U \subseteq s => U = s PROVE FALSE
  <2>1. it[s] = Folded(it, s, pick, step, base)
    BY <1>1
  <2>2. s # {}
    BY <2>1 DEF Folded, Foldable
  <2>3. pick[s] \in s
    BY <2>2 DEF Foldable
  <2>4. it[s \ {pick[s]}] \in V
    BY <1>2, <2>3
  <2> QED
    BY <2>1, <2>2, <2>3, <2>4 DEF Folded, Foldable
<1>3. Bad = {}
  <2> SUFFICES ASSUME Bad # {} PROVE FALSE
    OBVIOUS
  <2>1. IsFiniteSet(S) /\ Bad \subseteq SUBSET S
    BY DEF Foldable
  <2> HIDE DEF Bad
  <2>2. PICK s \in Bad : \A U \in Bad : U \subseteq s => U = s
    BY <2>1, SmallestSubset
  <2> QED
    BY <1>2, <2>2
<1> QED
  BY <1>1, <1>3

-------------------------------------------------------------------------------
(* Folds in order: over 1 .. N, the last element is the one taken away.       *)

LastOf(s) == CHOOSE x \in s : \A y \in s : x >= y
LastPick(N) == [s \in SUBSET (1 .. N) |-> LastOf(s)]

LEMMA LastIsThere ==
  ASSUME NEW N \in Nat, NEW s \in SUBSET (1 .. N), s # {}
  PROVE  LastOf(s) \in s /\ \A y \in s : LastOf(s) >= y
<1> DEFINE below == {N - y : y \in s}
<1>0. \A y \in s : y \in 1 .. N /\ N - y \in Nat /\ N - y \in below
  OBVIOUS
<1>1. below \subseteq Nat /\ below # {}
  BY <1>0
<1>2. PICK d : d \in below /\ \A e \in below : d <= e
  <2> HIDE DEF below
  <2> QED
    BY <1>1, FirstOf
<1>3. PICK x \in s : d = N - x
  BY <1>2
<1>4. ASSUME NEW y \in s PROVE x >= y
  <2>0. x \in 1 .. N /\ y \in 1 .. N /\ N - y \in below
    BY <1>0
  <2>1. N - x <= N - y
    <3> HIDE DEF below
    <3> QED
      BY <1>2, <1>3, <2>0
  <2> QED
    BY <2>0, <2>1
<1> QED
  BY <1>3, <1>4 DEF LastOf

LEMMA LastOfFirst ==
  ASSUME NEW N \in Nat, NEW n \in 1 .. N
  PROVE  /\ 1 .. n \in SUBSET (1 .. N) /\ 1 .. n # {}
         /\ LastOf(1 .. n) = n /\ (1 .. n) \ {n} = 1 .. (n - 1)
<1>1. 1 .. n \in SUBSET (1 .. N) /\ n \in 1 .. n /\ (1 .. n) \ {n} = 1 .. (n - 1)
  OBVIOUS
<1>2. LastOf(1 .. n) \in 1 .. n /\ LastOf(1 .. n) >= n
  BY <1>1, LastIsThere
<1> QED
  BY <1>1, <1>2

\* What a fold in order has done after each of the first elements.
IsRun(run, N, step, base, V) ==
    /\ run \in [0 .. N -> V]
    /\ run[0] = base
    /\ \A n \in 1 .. N : run[n] = step[<<n, run[n - 1]>>]

LEMMA FoldInOrderExists ==
  ASSUME NEW N \in Nat, NEW V, NEW base \in V, NEW step \in [(1 .. N) \X V -> V]
  PROVE  \E it \in [SUBSET (1 .. N) -> V] : IsFold(it, 1 .. N, LastPick(N), step, base)
<1>1. IsFiniteSet(1 .. N)
  BY FS_Interval
<1>2. \A s \in SUBSET (1 .. N) : s # {} => LastPick(N)[s] \in s
  BY LastIsThere DEF LastPick
<1>3. Foldable(1 .. N, LastPick(N), step, base, V)
  BY <1>1, <1>2 DEF Foldable
<1> QED
  BY <1>3, FoldExists

\* A fold that takes the steps of step wherever it is typed is a run of them.
LEMMA FoldInOrder ==
  ASSUME NEW N \in Nat, NEW V, NEW base \in V, NEW step \in [(1 .. N) \X V -> V], NEW it,
         it[{}] = base,
         \A s \in SUBSET (1 .. N) : s # {} /\ it[s \ {LastOf(s)}] \in V
             => it[s] = step[<<LastOf(s), it[s \ {LastOf(s)}]>>],
         NEW run, run = [n \in 0 .. N |-> it[1 .. n]]
  PROVE  IsRun(run, N, step, base, V)
<1> DEFINE Bad == {n \in 0 .. N : run[n] \notin V}
<1>1. run[0] = base
  <2>1. 1 .. 0 = {} /\ 0 \in 0 .. N
    OBVIOUS
  <2> QED
    BY <2>1
<1>2. ASSUME NEW n \in 1 .. N, run[n - 1] \in V PROVE run[n] = step[<<n, run[n - 1]>>]
  <2>1. n - 1 \in 0 .. N /\ n \in 0 .. N
    OBVIOUS
  <2>2. run[n - 1] = it[1 .. (n - 1)] /\ run[n] = it[1 .. n]
    BY <2>1
  <2>3. /\ 1 .. n \in SUBSET (1 .. N) /\ 1 .. n # {}
        /\ LastOf(1 .. n) = n /\ (1 .. n) \ {LastOf(1 .. n)} = 1 .. (n - 1)
    BY LastOfFirst
  <2>4. it[(1 .. n) \ {LastOf(1 .. n)}] = run[n - 1]
    BY <2>2, <2>3
  <2>5. it[1 .. n] = step[<<LastOf(1 .. n), it[(1 .. n) \ {LastOf(1 .. n)}]>>]
    BY <1>2, <2>3, <2>4
  <2> QED
    BY <2>2, <2>3, <2>4, <2>5
<1>3. Bad = {}
  <2> SUFFICES ASSUME Bad # {} PROVE FALSE
    OBVIOUS
  <2>0. Bad \subseteq Nat
    OBVIOUS
  <2> HIDE DEF Bad
  <2>1. PICK n \in Bad : \A m \in Bad : n <= m
    BY <2>0, FirstOf
  <2> USE DEF Bad
  <2>2. n \in 1 .. N /\ n - 1 \in 0 .. N /\ n - 1 \notin Bad
    BY <1>1, <2>1
  <2>3. run[n - 1] \in V
    BY <2>2
  <2> QED
    BY <1>2, <2>1, <2>2, <2>3
<1>4. \A n \in 0 .. N : run[n] \in V
  BY <1>3
<1>5. \A n \in 1 .. N : run[n] = step[<<n, run[n - 1]>>]
  <2> TAKE n \in 1 .. N
  <2>1. n - 1 \in 0 .. N
    OBVIOUS
  <2> QED
    BY <1>2, <1>4, <2>1
<1> QED
  BY <1>1, <1>4, <1>5 DEF IsRun

-------------------------------------------------------------------------------
(* Sums. *)

Pick(s) == CHOOSE x \in s : TRUE
IsSum(sum, f, S) ==
    sum = [s \in SUBSET S |-> IF s = {} THEN 0
                              ELSE LET x == CHOOSE x \in s : TRUE IN f[x] + sum[s \ {x}]]
HasInts(f, S) == IsFiniteSet(S) /\ \A x \in S : f[x] \in Int

LEMMA SumExists ==
  ASSUME NEW S, NEW f, HasInts(f, S)
  PROVE  \E sum \in [SUBSET S -> Int] : IsSum(sum, f, S) /\ SumFunctionOnSet(f, S) = sum[S]
<1> DEFINE pick == [s \in SUBSET S |-> Pick(s)]
           step == [p \in S \X Int |-> f[p[1]] + p[2]]
<1>1. Foldable(S, pick, step, 0, Int)
  BY DEF Foldable, HasInts, Pick
<1>2. ASSUME NEW sum \in [SUBSET S -> Int], NEW s \in SUBSET S
      PROVE  Folded(sum, s, pick, step, 0) =
                (IF s = {} THEN 0 ELSE LET x == CHOOSE x \in s : TRUE IN f[x] + sum[s \ {x}])
  <2>1. CASE s = {}
    BY <2>1 DEF Folded
  <2>2. CASE s # {}
    <3>1. Pick(s) \in s /\ pick[s] = Pick(s)
      BY <2>2 DEF Pick
    <3>2. step[<<Pick(s), sum[s \ {Pick(s)}]>>] = f[Pick(s)] + sum[s \ {Pick(s)}]
      BY <3>1
    <3> HIDE DEF pick, step
    <3>3. Folded(sum, s, pick, step, 0) = f[Pick(s)] + sum[s \ {Pick(s)}]
      BY <2>2, <3>1, <3>2 DEF Folded
    <3> QED
      BY <2>2, <3>3 DEF Pick
  <2> QED
    BY <2>1, <2>2
<1>3. PICK it \in [SUBSET S -> Int] : IsFold(it, S, pick, step, 0)
  BY <1>1, FoldExists
<1>4. IsSum(it, f, S)
  BY <1>2, <1>3 DEF IsFold, IsSum
<1> DEFINE sum == CHOOSE it2 : IsSum(it2, f, S)
<1>5. IsSum(sum, f, S)
  BY <1>4
<1>6. SumFunctionOnSet(f, S) = sum[S]
  BY DEF SumFunctionOnSet, FoldFunctionOnSet, MapThenFoldSet, IsSum
<1> HIDE DEF sum
<1>7. sum \in [SUBSET S -> Int]
  <2> DEFINE Bad == {s \in SUBSET S : sum[s] \notin Int}
  <2>1. ASSUME NEW s \in Bad, \A U \in Bad : U \subseteq s => U = s PROVE FALSE
    <3>1. s # {} /\ Pick(s) \in s /\ sum[s] = f[Pick(s)] + sum[s \ {Pick(s)}]
      BY <1>5 DEF IsSum, Pick
    <3>2. sum[s \ {Pick(s)}] \in Int
      BY <2>1, <3>1
    <3> QED
      BY <3>1, <3>2 DEF HasInts
  <2>2. Bad = {}
    <3> SUFFICES ASSUME Bad # {} PROVE FALSE
      OBVIOUS
    <3>1. IsFiniteSet(S) /\ Bad \subseteq SUBSET S
      BY DEF HasInts
    <3> HIDE DEF Bad
    <3>2. PICK s \in Bad : \A U \in Bad : U \subseteq s => U = s
      BY <3>1, SmallestSubset
    <3> QED
      BY <2>1, <3>2
  <2>3. sum = [s \in SUBSET S |-> sum[s]]
    BY <1>5 DEF IsSum
  <2> QED
    BY <2>2, <2>3
<1> QED
  BY <1>5, <1>6, <1>7

LEMMA SumInt ==
  ASSUME NEW S, NEW f, HasInts(f, S)
  PROVE  SumFunctionOnSet(f, S) \in Int
<1>1. PICK sum \in [SUBSET S -> Int] : SumFunctionOnSet(f, S) = sum[S]
  BY SumExists
<1> QED
  BY <1>1

LEMMA SumEmpty ==
  ASSUME NEW f
  PROVE  SumFunctionOnSet(f, {}) = 0
<1>1. HasInts(f, {})
  BY FS_EmptySet DEF HasInts
<1> QED
  BY <1>1, SumExists DEF IsSum

\* Two sums agree where both are taken.
LEMMA SumsAgree ==
  ASSUME NEW S, NEW T, NEW f, NEW g, HasInts(f, S), HasInts(g, T),
         NEW sum, IsSum(sum, f, S), NEW other, IsSum(other, g, T),
         NEW R, R \subseteq S, R \subseteq T, \A x \in R : f[x] = g[x]
  PROVE  sum[R] = other[R]
<1> DEFINE Bad == {s \in SUBSET R : sum[s] # other[s]}
<1>1. ASSUME NEW s \in Bad, \A U \in Bad : U \subseteq s => U = s PROVE FALSE
  <2>0. s \in SUBSET S /\ s \in SUBSET T /\ sum[s] # other[s]
    OBVIOUS
  <2>1. s # {}
    BY <2>0 DEF IsSum
  <2>2. /\ Pick(s) \in s
        /\ sum[s] = f[Pick(s)] + sum[s \ {Pick(s)}]
        /\ other[s] = g[Pick(s)] + other[s \ {Pick(s)}]
    BY <2>0, <2>1 DEF IsSum, Pick
  <2>3. sum[s \ {Pick(s)}] = other[s \ {Pick(s)}]
    BY <1>1, <2>2
  <2> QED
    BY <2>0, <2>2, <2>3
<1>2. Bad = {}
  <2> SUFFICES ASSUME Bad # {} PROVE FALSE
    OBVIOUS
  <2>1. IsFiniteSet(R) /\ Bad \subseteq SUBSET R
    BY FS_Subset DEF HasInts
  <2> HIDE DEF Bad
  <2>2. PICK s \in Bad : \A U \in Bad : U \subseteq s => U = s
    BY <2>1, SmallestSubset
  <2> QED
    BY <1>1, <2>2
<1> QED
  BY <1>2

LEMMA SumEqual ==
  ASSUME NEW S, NEW f, NEW g, HasInts(f, S), \A x \in S : f[x] = g[x]
  PROVE  SumFunctionOnSet(f, S) = SumFunctionOnSet(g, S)
<1>1. HasInts(g, S)
  BY DEF HasInts
<1>2. PICK sum : IsSum(sum, f, S) /\ SumFunctionOnSet(f, S) = sum[S]
  BY SumExists
<1>3. PICK other : IsSum(other, g, S) /\ SumFunctionOnSet(g, S) = other[S]
  BY <1>1, SumExists
<1> QED
  BY <1>1, <1>2, <1>3, SumsAgree

LEMMA SumPicked ==
  ASSUME NEW S, NEW f, HasInts(f, S), S # {}
  PROVE  /\ Pick(S) \in S
         /\ SumFunctionOnSet(f, S) = f[Pick(S)] + SumFunctionOnSet(f, S \ {Pick(S)})
<1> DEFINE T == S \ {Pick(S)}
<1>1. Pick(S) \in S /\ HasInts(f, T)
  BY FS_Subset DEF Pick, HasInts
<1>2. PICK sum : IsSum(sum, f, S) /\ SumFunctionOnSet(f, S) = sum[S]
  BY SumExists
<1>3. PICK other : IsSum(other, f, T) /\ SumFunctionOnSet(f, T) = other[T]
  BY <1>1, SumExists
<1>4. sum[T] = other[T]
  BY <1>1, <1>2, <1>3, SumsAgree
<1>5. sum[S] = f[Pick(S)] + sum[T]
  BY <1>2 DEF IsSum, Pick
<1> QED
  BY <1>1, <1>2, <1>3, <1>4, <1>5

LEMMA SumWithout ==
  ASSUME NEW S, NEW f, HasInts(f, S), NEW x \in S
  PROVE  SumFunctionOnSet(f, S) = f[x] + SumFunctionOnSet(f, S \ {x})
<1> DEFINE Sum(s) == SumFunctionOnSet(f, s)
           Bad == {s \in SUBSET S : \E y \in s : Sum(s) # f[y] + Sum(s \ {y})}
<1>0. \A s \in SUBSET S : HasInts(f, s) /\ Sum(s) \in Int
  <2> TAKE s \in SUBSET S
  <2>1. HasInts(f, s)
    BY FS_Subset DEF HasInts
  <2> QED
    BY <2>1, SumInt
<1>1. ASSUME NEW s \in Bad, \A U \in Bad : U \subseteq s => U = s PROVE FALSE
  <2>1. PICK y \in s : Sum(s) # f[y] + Sum(s \ {y})
    OBVIOUS
  <2> DEFINE p == Pick(s)
  <2>2. p \in s /\ Sum(s) = f[p] + Sum(s \ {p})
    BY <1>0, SumPicked
  <2> HIDE DEF p, Sum
  <2>3. p # y
    BY <2>1, <2>2
  <2>4. Sum(s \ {p}) = f[y] + Sum((s \ {p}) \ {y})
    BY <1>1, <2>2, <2>3
  <2>5. Sum(s \ {y}) = f[p] + Sum((s \ {y}) \ {p})
    BY <1>1, <2>1, <2>2, <2>3
  <2>6. (s \ {p}) \ {y} = (s \ {y}) \ {p}
    OBVIOUS
  <2>7. /\ f[p] \in Int /\ f[y] \in Int
        /\ Sum((s \ {y}) \ {p}) \in Int
    BY <1>0, <2>2 DEF HasInts
  <2> DEFINE rest == Sum((s \ {y}) \ {p})
  <2>8. Sum(s) = f[p] + (f[y] + rest) /\ Sum(s \ {y}) = f[p] + rest
    BY <2>2, <2>4, <2>5, <2>6
  <2> HIDE DEF rest
  <2>9. f[p] + (f[y] + rest) = f[y] + (f[p] + rest)
    BY <2>7 DEF rest
  <2> QED
    BY <2>1, <2>8, <2>9
<1>2. Bad = {}
  <2> SUFFICES ASSUME Bad # {} PROVE FALSE
    OBVIOUS
  <2>1. IsFiniteSet(S) /\ Bad \subseteq SUBSET S
    BY DEF HasInts
  <2> HIDE DEF Bad
  <2>2. PICK s \in Bad : \A U \in Bad : U \subseteq s => U = s
    BY <2>1, SmallestSubset
  <2> QED
    BY <1>1, <2>2
<1> QED
  BY <1>2

LEMMA SumOfPart ==
  ASSUME NEW S, NEW f, HasInts(f, S), NEW T, T \subseteq S
  PROVE  HasInts(f, T) /\ SumFunctionOnSet(f, T) \in Int
<1>1. HasInts(f, T)
  BY FS_Subset DEF HasInts
<1> QED
  BY <1>1, SumInt

LEMMA SumUnion ==
  ASSUME NEW S, NEW T, NEW f, HasInts(f, S \cup T), S \cap T = {}
  PROVE  SumFunctionOnSet(f, S \cup T) = SumFunctionOnSet(f, S) + SumFunctionOnSet(f, T)
<1> DEFINE Sum(s) == SumFunctionOnSet(f, s)
           Bad == {R \in SUBSET T : Sum(S \cup R) # Sum(S) + Sum(R)}
<1>0. \A R \in SUBSET (S \cup T) : HasInts(f, R) /\ Sum(R) \in Int
  BY SumOfPart
<1>1. ASSUME NEW R \in Bad, \A U \in Bad : U \subseteq R => U = R PROVE FALSE
  <2>0. Sum(S \cup R) # Sum(S) + Sum(R) /\ R \subseteq T
    OBVIOUS
  <2>1. ASSUME R = {} PROVE FALSE
    <3>1. S \cup R = S /\ Sum(R) = 0
      BY <2>1, SumEmpty
    <3>2. Sum(S) \in Int
      BY <1>0
    <3> HIDE DEF Sum
    <3> QED
      BY <2>0, <3>1, <3>2
  <2>2. PICK y \in R : TRUE
    BY <2>1
  <2>3. Sum(R) = f[y] + Sum(R \ {y})
    BY <1>0, SumWithout
  <2>4. (S \cup R) \ {y} = S \cup (R \ {y})
    BY <2>0
  <2>5. Sum(S \cup R) = f[y] + Sum((S \cup R) \ {y})
    <3>1. HasInts(f, S \cup R) /\ y \in S \cup R
      BY <1>0, <2>0
    <3> QED
      BY <3>1, SumWithout
  <2>6. R \ {y} \notin Bad
    BY <1>1
  <2>7. Sum(S \cup (R \ {y})) = Sum(S) + Sum(R \ {y})
    BY <2>0, <2>6
  <2>8. Sum(S) \in Int /\ Sum(R \ {y}) \in Int /\ f[y] \in Int
    <3>1. S \in SUBSET (S \cup T) /\ R \ {y} \in SUBSET (S \cup T)
      BY <2>0
    <3> QED
      BY <1>0, <3>1, <2>0 DEF HasInts
  <2> DEFINE all == Sum(S \cup R)
             old == Sum(S)
             part == Sum(R \ {y})
  <2>9. all = f[y] + (old + part) /\ Sum(R) = f[y] + part
    BY <2>3, <2>4, <2>5, <2>7
  <2>10. all # old + (f[y] + part)
    BY <2>0, <2>9
  <2>11. old \in Int /\ part \in Int /\ f[y] \in Int
    BY <2>8
  <2> HIDE DEF all, old, part
  <2> QED
    BY <2>9, <2>10, <2>11
<1>2. Bad = {}
  <2> SUFFICES ASSUME Bad # {} PROVE FALSE
    OBVIOUS
  <2>1. IsFiniteSet(T) /\ Bad \subseteq SUBSET T
    BY FS_Subset DEF HasInts
  <2> HIDE DEF Bad
  <2>2. PICK R \in Bad : \A U \in Bad : U \subseteq R => U = R
    BY <2>1, SmallestSubset
  <2> QED
    BY <1>1, <2>2
<1> QED
  BY <1>2

LEMMA SumNat ==
  ASSUME NEW S, NEW f, IsFiniteSet(S), \A x \in S : f[x] \in Nat
  PROVE  SumFunctionOnSet(f, S) \in Nat
<1> DEFINE Sum(s) == SumFunctionOnSet(f, s)
           Bad == {s \in SUBSET S : Sum(s) \notin Nat}
<1>0. \A s \in SUBSET S : HasInts(f, s)
  BY FS_Subset DEF HasInts
<1>1. ASSUME NEW s \in Bad, \A U \in Bad : U \subseteq s => U = s PROVE FALSE
  <2>1. s # {}
    BY SumEmpty
  <2>2. PICK y \in s : TRUE
    BY <2>1
  <2>3. Sum(s) = f[y] + Sum(s \ {y})
    BY <1>0, SumWithout
  <2>4. Sum(s \ {y}) \in Nat
    BY <1>1
  <2> HIDE DEF Sum
  <2> QED
    BY <2>3, <2>4
<1>2. Bad = {}
  <2> SUFFICES ASSUME Bad # {} PROVE FALSE
    OBVIOUS
  <2>1. IsFiniteSet(S) /\ Bad \subseteq SUBSET S
    OBVIOUS
  <2> HIDE DEF Bad
  <2>2. PICK s \in Bad : \A U \in Bad : U \subseteq s => U = s
    BY <2>1, SmallestSubset
  <2> QED
    BY <1>1, <2>2
<1> QED
  BY <1>2

\* A part of what is not negative is not more.
LEMMA SumMonotone ==
  ASSUME NEW S, NEW T, NEW f, IsFiniteSet(S), \A x \in S : f[x] \in Nat, T \subseteq S
  PROVE  /\ SumFunctionOnSet(f, T) \in Nat /\ SumFunctionOnSet(f, S) \in Nat
         /\ SumFunctionOnSet(f, T) <= SumFunctionOnSet(f, S)
<1>1. IsFiniteSet(T) /\ IsFiniteSet(S \ T) /\ HasInts(f, S)
  BY FS_Subset DEF HasInts
<1>2. S = T \cup (S \ T) /\ T \cap (S \ T) = {}
  OBVIOUS
<1>3. /\ SumFunctionOnSet(f, T) \in Nat /\ SumFunctionOnSet(f, S) \in Nat
      /\ SumFunctionOnSet(f, S \ T) \in Nat
  BY <1>1, SumNat
<1>4. SumFunctionOnSet(f, S) = SumFunctionOnSet(f, T) + SumFunctionOnSet(f, S \ T)
  BY <1>1, <1>2, SumUnion
<1> QED
  BY <1>3, <1>4

LEMMA SumOfOne ==
  ASSUME NEW f, NEW x, f[x] \in Int
  PROVE  SumFunctionOnSet(f, {x}) = f[x]
<1>1. HasInts(f, {x}) /\ {x} \ {x} = {}
  BY FS_Singleton DEF HasInts
<1>2. SumFunctionOnSet(f, {x}) = f[x] + SumFunctionOnSet(f, {})
  BY <1>1, SumWithout
<1> QED
  BY <1>2, SumEmpty

LEMMA SumOfZeros ==
  ASSUME NEW S, NEW f, IsFiniteSet(S), \A x \in S : f[x] = 0
  PROVE  SumFunctionOnSet(f, S) = 0
<1> DEFINE Sum(s) == SumFunctionOnSet(f, s)
           Bad == {s \in SUBSET S : Sum(s) # 0}
<1>0. \A s \in SUBSET S : HasInts(f, s)
  BY FS_Subset DEF HasInts
<1>1. ASSUME NEW s \in Bad, \A U \in Bad : U \subseteq s => U = s PROVE FALSE
  <2>1. s # {}
    BY SumEmpty
  <2>2. PICK y \in s : TRUE
    BY <2>1
  <2>3. Sum(s) = f[y] + Sum(s \ {y})
    BY <1>0, SumWithout
  <2>4. Sum(s \ {y}) = 0
    BY <1>1
  <2> HIDE DEF Sum
  <2> QED
    BY <2>3, <2>4
<1>2. Bad = {}
  <2> SUFFICES ASSUME Bad # {} PROVE FALSE
    OBVIOUS
  <2>1. IsFiniteSet(S) /\ Bad \subseteq SUBSET S
    OBVIOUS
  <2> HIDE DEF Bad
  <2>2. PICK s \in Bad : \A U \in Bad : U \subseteq s => U = s
    BY <2>1, SmallestSubset
  <2> QED
    BY <1>1, <2>2
<1> QED
  BY <1>2

\* What is nothing may be left out.
LEMMA SumSkipsZeros ==
  ASSUME NEW S, NEW T, NEW f, HasInts(f, S), T \subseteq S, \A x \in S \ T : f[x] = 0
  PROVE  SumFunctionOnSet(f, T) = SumFunctionOnSet(f, S)
<1>1. IsFiniteSet(S \ T) /\ S = T \cup (S \ T) /\ T \cap (S \ T) = {}
  BY FS_Subset DEF HasInts
<1>2. SumFunctionOnSet(f, S \ T) = 0
  BY <1>1, SumOfZeros
<1>3. SumFunctionOnSet(f, S) = SumFunctionOnSet(f, T) + SumFunctionOnSet(f, S \ T)
  BY <1>1, SumUnion
<1>4. SumFunctionOnSet(f, T) \in Int
  BY SumOfPart
<1> QED
  BY <1>2, <1>3, <1>4

LEMMA SumPlus ==
  ASSUME NEW S, NEW f, NEW g, NEW h, HasInts(f, S), HasInts(g, S), \A x \in S : h[x] = f[x] + g[x]
  PROVE  SumFunctionOnSet(h, S) = SumFunctionOnSet(f, S) + SumFunctionOnSet(g, S)
<1> DEFINE Sum(k, s) == SumFunctionOnSet(k, s)
           Bad == {s \in SUBSET S : Sum(h, s) # Sum(f, s) + Sum(g, s)}
<1>0. ASSUME NEW s \in SUBSET S
      PROVE  /\ HasInts(f, s) /\ HasInts(g, s) /\ HasInts(h, s)
             /\ Sum(f, s) \in Int /\ Sum(g, s) \in Int /\ Sum(h, s) \in Int
  <2>1. HasInts(f, s) /\ HasInts(g, s) /\ HasInts(h, s)
    BY FS_Subset DEF HasInts
  <2> QED
    BY <2>1, SumInt
<1>1. ASSUME NEW s \in Bad, \A U \in Bad : U \subseteq s => U = s PROVE FALSE
  <2>0. Sum(h, s) # Sum(f, s) + Sum(g, s) /\ s \in SUBSET S
    OBVIOUS
  <2>1. s # {}
    BY <2>0, SumEmpty
  <2>2. PICK y \in s : TRUE
    BY <2>1
  <2> DEFINE r == s \ {y}
  <2>3. /\ Sum(f, s) = f[y] + Sum(f, r) /\ Sum(g, s) = g[y] + Sum(g, r)
        /\ Sum(h, s) = h[y] + Sum(h, r)
    BY <1>0, SumWithout
  <2>4. Sum(h, r) = Sum(f, r) + Sum(g, r)
    BY <1>1
  <2>5. r \in SUBSET S /\ h[y] = f[y] + g[y] /\ f[y] \in Int /\ g[y] \in Int
    BY <2>0 DEF HasInts
  <2> HIDE DEF r
  <2>6. Sum(f, r) \in Int /\ Sum(g, r) \in Int
    BY <1>0, <2>5
  <2> HIDE DEF Sum
  <2> QED
    BY <2>0, <2>3, <2>4, <2>5, <2>6
<1>2. Bad = {}
  <2> SUFFICES ASSUME Bad # {} PROVE FALSE
    OBVIOUS
  <2>1. IsFiniteSet(S) /\ Bad \subseteq SUBSET S
    BY DEF HasInts
  <2> HIDE DEF Bad
  <2>2. PICK s \in Bad : \A U \in Bad : U \subseteq s => U = s
    BY <2>1, SmallestSubset
  <2> QED
    BY <1>1, <2>2
<1> QED
  BY <1>2

\* The sums of the classes of a set add up to its own.
LEMMA SumByClass ==
  ASSUME NEW S, NEW f, HasInts(f, S), NEW C, IsFiniteSet(C), NEW h, \A x \in S : h[x] \in C,
         NEW g, \A c \in C : g[c] = SumFunctionOnSet(f, {x \in S : h[x] = c})
  PROVE  SumFunctionOnSet(g, C) = SumFunctionOnSet(f, S)
<1> DEFINE Of(D) == {x \in S : h[x] \in D}
           Bad == {D \in SUBSET C : SumFunctionOnSet(g, D) # SumFunctionOnSet(f, Of(D))}
<1>0. \A D \in SUBSET C : HasInts(g, D)
  <2>1. \A c \in C : g[c] \in Int
    <3> TAKE c \in C
    <3> DEFINE mine == {x \in S : h[x] = c}
    <3>1. mine \subseteq S /\ g[c] = SumFunctionOnSet(f, mine)
      OBVIOUS
    <3> HIDE DEF mine
    <3> QED
      BY <3>1, SumOfPart
  <2> QED
    BY <2>1, FS_Subset DEF HasInts
<1>1. ASSUME NEW D \in Bad, \A U \in Bad : U \subseteq D => U = D PROVE FALSE
  <2>0. SumFunctionOnSet(g, D) # SumFunctionOnSet(f, Of(D)) /\ D \subseteq C
    OBVIOUS
  <2>1. ASSUME D = {} PROVE FALSE
    <3>1. Of(D) = {}
      BY <2>1
    <3> QED
      BY <2>0, <2>1, <3>1, SumEmpty
  <2>2. PICK c \in D : TRUE
    BY <2>1
  <2> DEFINE mine == {x \in S : h[x] = c}
  <2>3. SumFunctionOnSet(g, D) = g[c] + SumFunctionOnSet(g, D \ {c})
    BY <1>0, SumWithout
  <2>4. SumFunctionOnSet(g, D \ {c}) = SumFunctionOnSet(f, Of(D \ {c}))
    BY <1>1
  <2>5. g[c] = SumFunctionOnSet(f, mine)
    BY <2>0
  <2> DEFINE rest == Of(D \ {c})
  <2>6. Of(D) = mine \cup rest /\ mine \cap rest = {} /\ mine \cup rest \subseteq S
    OBVIOUS
  <2>7. SumFunctionOnSet(f, Of(D)) = SumFunctionOnSet(f, mine) + SumFunctionOnSet(f, rest)
    <3> HIDE DEF mine, rest, Of
    <3>1. HasInts(f, mine \cup rest)
      BY <2>6, SumOfPart
    <3>2. SumFunctionOnSet(f, mine \cup rest)
            = SumFunctionOnSet(f, mine) + SumFunctionOnSet(f, rest)
      BY <2>6, <3>1, SumUnion
    <3> QED
      BY <2>6, <3>2
  <2>8. SumFunctionOnSet(f, Of(D)) = g[c] + SumFunctionOnSet(g, D \ {c})
    BY <2>4, <2>5, <2>7
  <2> QED
    BY <2>0, <2>3, <2>8
<1>2. Bad = {}
  <2> SUFFICES ASSUME Bad # {} PROVE FALSE
    OBVIOUS
  <2>1. IsFiniteSet(C) /\ Bad \subseteq SUBSET C
    OBVIOUS
  <2> HIDE DEF Bad
  <2>2. PICK D \in Bad : \A U \in Bad : U \subseteq D => U = D
    BY <2>1, SmallestSubset
  <2> QED
    BY <1>1, <2>2
<1>3. Of(C) = S
  OBVIOUS
<1> QED
  BY <1>2, <1>3

\* The same amounts, one by one, in the place of others.
LEMMA SumRenamed ==
  ASSUME NEW S, IsFiniteSet(S), NEW T, NEW order \in [S -> T],
         \A x, y \in S : order[x] = order[y] => x = y,
         \A t \in T : \E x \in S : order[x] = t,
         NEW f, \A t \in T : f[t] \in Int, NEW g, \A x \in S : g[x] = f[order[x]]
  PROVE  IsFiniteSet(T) /\ SumFunctionOnSet(g, S) = SumFunctionOnSet(f, T)
<1>0. IsFiniteSet(T)
  BY FS_Surjection DEF Surjection
<1> DEFINE Of(D) == {order[x] : x \in D}
           Bad == {D \in SUBSET S : SumFunctionOnSet(g, D) # SumFunctionOnSet(f, Of(D))}
<1>1. /\ \A D \in SUBSET S : HasInts(g, D)
      /\ \A D \in SUBSET T : HasInts(f, D)
  BY <1>0, FS_Subset DEF HasInts
<1>2. ASSUME NEW D \in Bad, \A U \in Bad : U \subseteq D => U = D PROVE FALSE
  <2>0. SumFunctionOnSet(g, D) # SumFunctionOnSet(f, Of(D)) /\ D \subseteq S
    OBVIOUS
  <2>1. ASSUME D = {} PROVE FALSE
    <3>1. Of(D) = {}
      BY <2>1
    <3> QED
      BY <2>0, <2>1, <3>1, SumEmpty
  <2>2. PICK y \in D : TRUE
    BY <2>1
  <2>3. SumFunctionOnSet(g, D) = g[y] + SumFunctionOnSet(g, D \ {y})
    BY <1>1, SumWithout
  <2>4. SumFunctionOnSet(g, D \ {y}) = SumFunctionOnSet(f, Of(D \ {y}))
    BY <1>2
  <2>5. order[y] \in Of(D) /\ Of(D) \ {order[y]} = Of(D \ {y}) /\ Of(D) \subseteq T
    BY <2>0
  <2> DEFINE part == Of(D)
  <2>6. SumFunctionOnSet(f, part) = f[order[y]] + SumFunctionOnSet(f, part \ {order[y]})
    <3>1. HasInts(f, part) /\ order[y] \in part
      BY <1>1, <2>5
    <3> HIDE DEF part
    <3> QED
      BY <3>1, SumWithout
  <2> QED
    BY <2>0, <2>3, <2>4, <2>5, <2>6
<1>3. Bad = {}
  <2> SUFFICES ASSUME Bad # {} PROVE FALSE
    OBVIOUS
  <2>1. Bad \subseteq SUBSET S
    OBVIOUS
  <2> HIDE DEF Bad
  <2>2. PICK D \in Bad : \A U \in Bad : U \subseteq D => U = D
    BY <2>1, SmallestSubset
  <2> QED
    BY <1>2, <2>2
<1>4. Of(S) = T
  OBVIOUS
<1> QED
  BY <1>0, <1>3, <1>4
===============================================================================
