----------------------------- MODULE SumTheorems -----------------------------
(***************************************************************************)
(* What a sum over a finite set is, whatever order its members are taken   *)
(* in: facts that the proofs about prices, sheets and pages share.  A      *)
(* statement about every finite set is argued from a smallest set for      *)
(* which it fails.                                                         *)
(***************************************************************************)
EXTENDS Sums, Integers, FiniteSets, FiniteSetTheorems, WellFoundedInduction, TLAPS

\* A set of naturals that is not empty has a smallest member.
LEMMA LeastNatural ==
  ASSUME NEW S, S \subseteq Nat, S # {} PROVE \E x \in S : \A y \in S : x <= y
<1>1. \E x \in S : \A y \in S : ~(<<y, x>> \in OpToRel(<, Nat))
  BY NatLessThanWellFounded, WFMin, Zenon
<1>2. \A x, y \in S : ~(<<y, x>> \in OpToRel(<, Nat)) => x <= y
  BY SMT DEF OpToRel
<1> QED BY <1>1, <1>2

\* Among the subsets of a finite set that fail, one fails though it does not with any
\* one member less.
LEMMA LeastSubset ==
  ASSUME NEW S, IsFiniteSet(S), NEW Bad, Bad \subseteq SUBSET S, Bad # {}
  PROVE  \E s \in Bad : \A x \in s : s \ {x} \notin Bad
<1> DEFINE N == {Cardinality(s) : s \in Bad}
<1>1. \A s \in Bad : IsFiniteSet(s) /\ Cardinality(s) \in Nat
  BY FS_Subset, FS_CardinalityType
<1>2. N \subseteq Nat /\ N # {} BY <1>1
<1>3. PICK n \in N : \A m \in N : n <= m BY <1>2, LeastNatural
<1>4. PICK s \in Bad : n = Cardinality(s) BY <1>3
<1>5. ASSUME NEW x \in s, s \ {x} \in Bad PROVE FALSE
  <2>1. Cardinality(s \ {x}) = Cardinality(s) - 1 BY <1>1, FS_RemoveElement
  <2>2. n <= Cardinality(s \ {x}) BY <1>3, <1>5
  <2> QED BY <2>1, <2>2, <1>1, <1>4
<1> QED BY <1>5

-----------------------------------------------------------------------------
(* The sum's recursive function exists, and takes members in any order *)

Pick(s) == CHOOSE x \in s : TRUE
IsSum(f, S, g) == g = [s \in SUBSET S |-> IF s = {} THEN 0 ELSE f[Pick(s)] + g[s \ {Pick(s)}]]
SumOf(f, S) == CHOOSE g : IsSum(f, S, g)

LEMMA SumUnfolds == ASSUME NEW f, NEW S PROVE SumOver(f, S) = SumOf(f, S)[S]
BY DEF SumOver, SumFunctionOnSet, FoldFunctionOnSet, MapThenFoldSet, SumOf, IsSum, Pick

Small(S, n) == {s \in SUBSET S : Cardinality(s) <= n}
SumsUpTo(f, S, n, g) ==
  g = [s \in Small(S, n) |-> IF s = {} THEN 0 ELSE f[Pick(s)] + g[s \ {Pick(s)}]]

LEMMA SumUpToExists ==
  ASSUME NEW f, NEW S, IsFiniteSet(S), NEW n \in Nat PROVE \E g : SumsUpTo(f, S, n, g)
<1> DEFINE N == {m \in Nat : ~\E g : SumsUpTo(f, S, m, g)}
<1>1. ASSUME N # {} PROVE FALSE
  <2>1. PICK m \in N : \A k \in N : m <= k
    <3> HIDE DEF N
    <3>1. N \subseteq Nat BY DEF N
    <3> QED BY <1>1, <3>1, LeastNatural
  <2>2. CASE m = 0
    <3>1. \A s \in Small(S, 0) : s = {}
      <4> TAKE s \in Small(S, 0)
      <4>1. IsFiniteSet(s) /\ Cardinality(s) <= 0 BY FS_Subset DEF Small
      <4>2. Cardinality(s) \in Nat BY <4>1, FS_CardinalityType
      <4>3. Cardinality(s) = 0 BY <4>1, <4>2
      <4> QED BY <4>1, <4>3, FS_EmptySet
    <3> DEFINE g == [s \in Small(S, 0) |-> 0]
    <3>2. SumsUpTo(f, S, 0, g) BY <3>1 DEF SumsUpTo
    <3> QED BY <3>2, <2>2
  <2>3. CASE m # 0
    <3>1. m - 1 \in Nat /\ m - 1 \notin N BY <2>1, <2>3
    <3>2. PICK h : SumsUpTo(f, S, m - 1, h) BY <3>1
    <3> DEFINE g == [s \in Small(S, m) |-> IF s = {} THEN 0 ELSE f[Pick(s)] + h[s \ {Pick(s)}]]
    <3>3. ASSUME NEW s \in Small(S, m), s # {} PROVE g[s \ {Pick(s)}] = h[s \ {Pick(s)}]
      <4> DEFINE t == s \ {Pick(s)}
      <4>1. Pick(s) \in s BY <3>3 DEF Pick
      <4>2. IsFiniteSet(s) /\ Cardinality(s) <= m BY FS_Subset DEF Small
      <4>3. Cardinality(t) = Cardinality(s) - 1 /\ Cardinality(s) \in Nat
        BY <4>1, <4>2, FS_RemoveElement, FS_CardinalityType
      <4>4. Cardinality(t) <= m - 1 /\ Cardinality(t) <= m BY <4>2, <4>3, m \in Nat
      <4>5. t \in Small(S, m - 1) /\ t \in Small(S, m) BY <4>4 DEF Small
      <4>6. h[t] = IF t = {} THEN 0 ELSE f[Pick(t)] + h[t \ {Pick(t)}]
        <5> HIDE DEF t
        <5> QED BY <4>5, <3>2 DEF SumsUpTo
      <4>7. g[t] = IF t = {} THEN 0 ELSE f[Pick(t)] + h[t \ {Pick(t)}]
        <5> HIDE DEF t
        <5> QED BY <4>5
      <4> QED BY <4>6, <4>7
    <3>4. g = [s \in Small(S, m) |-> IF s = {} THEN 0 ELSE f[Pick(s)] + g[s \ {Pick(s)}]]
      <4> HIDE DEF g
      <4>1. \A s \in Small(S, m) : s # {} => g[s \ {Pick(s)}] = h[s \ {Pick(s)}] BY <3>3
      <4>2. [s \in Small(S, m) |-> IF s = {} THEN 0 ELSE f[Pick(s)] + g[s \ {Pick(s)}]]
            = [s \in Small(S, m) |-> IF s = {} THEN 0 ELSE f[Pick(s)] + h[s \ {Pick(s)}]]
        BY <4>1
      <4> QED BY <4>2 DEF g
    <3>5. SumsUpTo(f, S, m, g) BY <3>4 DEF SumsUpTo
    <3> QED BY <3>5, <2>1
  <2> QED BY <2>2, <2>3
<1> QED BY <1>1

LEMMA SumExists ==
  ASSUME NEW f, NEW S, IsFiniteSet(S) PROVE IsSum(f, S, SumOf(f, S))
<1>1. Cardinality(S) \in Nat BY FS_CardinalityType
<1>2. PICK g : SumsUpTo(f, S, Cardinality(S), g) BY <1>1, SumUpToExists
<1>3. Small(S, Cardinality(S)) = SUBSET S BY FS_Subset DEF Small
<1>4. IsSum(f, S, g) BY <1>2, <1>3 DEF SumsUpTo, IsSum
<1> QED BY <1>4 DEF SumOf

\* What the recursion says of a function on subsets.
Adds(f, S, g) ==
  /\ g[{}] = 0
  /\ \A s \in SUBSET S : s # {} => Pick(s) \in s /\ g[s] = f[Pick(s)] + g[s \ {Pick(s)}]

LEMMA SumRecurs == ASSUME NEW f, NEW S, IsFiniteSet(S) PROVE Adds(f, S, SumOf(f, S))
<1> DEFINE g == SumOf(f, S)
<1>1. g = [s \in SUBSET S |-> IF s = {} THEN 0 ELSE f[Pick(s)] + g[s \ {Pick(s)}]]
  BY SumExists DEF IsSum
<1> HIDE DEF g
<1>2. \A s \in SUBSET S : g[s] = IF s = {} THEN 0 ELSE f[Pick(s)] + g[s \ {Pick(s)}]
  BY <1>1
<1>3. \A s : s # {} => Pick(s) \in s BY DEF Pick
<1>4. Adds(f, S, g) BY <1>2, <1>3 DEF Adds
<1> QED BY <1>4 DEF g

LEMMA SumTyped ==
  ASSUME NEW f, NEW S, IsFiniteSet(S), \A x \in S : f[x] \in Int
  PROVE  \A s \in SUBSET S : SumOf(f, S)[s] \in Int
<1> DEFINE g == SumOf(f, S)
           Bad == {s \in SUBSET S : g[s] \notin Int}
<1>1. Adds(f, S, g) BY SumRecurs
<1> HIDE DEF g
<1>2. ASSUME Bad # {} PROVE FALSE
  <2>1. PICK s \in Bad : \A x \in s : s \ {x} \notin Bad
    <3> HIDE DEF Bad
    <3>1. Bad \subseteq SUBSET S BY DEF Bad
    <3> QED BY <3>1, <1>2, LeastSubset
  <2>2. s # {}
    <3>1. g[{}] \in Int BY <1>1 DEF Adds
    <3> QED BY <2>1, <3>1
  <2>3. Pick(s) \in s /\ g[s] = f[Pick(s)] + g[s \ {Pick(s)}] BY <1>1, <2>2 DEF Adds
  <2>4. g[s \ {Pick(s)}] \in Int BY <2>1, <2>3
  <2> QED BY <2>3, <2>4
<1>3. \A s \in SUBSET S : g[s] \in Int BY <1>2
<1> QED BY <1>3 DEF g

LEMMA SumTakesAny ==
  ASSUME NEW f, NEW S, IsFiniteSet(S), \A x \in S : f[x] \in Int
  PROVE  \A s \in SUBSET S : \A x \in s : SumOf(f, S)[s] = f[x] + SumOf(f, S)[s \ {x}]
<1> DEFINE g == SumOf(f, S)
           Bad == {s \in SUBSET S : ~\A x \in s : g[s] = f[x] + g[s \ {x}]}
<1>1. Adds(f, S, g) BY SumRecurs
<1>2. \A s \in SUBSET S : g[s] \in Int BY SumTyped
<1> HIDE DEF g
<1>3. ASSUME Bad # {} PROVE FALSE
  <2>1. PICK s \in Bad : \A x \in s : s \ {x} \notin Bad
    <3> HIDE DEF Bad
    <3>1. Bad \subseteq SUBSET S BY DEF Bad
    <3> QED BY <3>1, <1>3, LeastSubset
  <2>2. PICK x \in s : g[s] # f[x] + g[s \ {x}] BY <2>1
  <2> DEFINE y == Pick(s)
  <2>3. y \in s /\ g[s] = f[y] + g[s \ {y}] BY <1>1, <2>2 DEF Adds
  <2> HIDE DEF y
  <2>4. x # y BY <2>2, <2>3
  <2>5. g[s \ {y}] = f[x] + g[(s \ {y}) \ {x}] BY <2>1, <2>3, <2>4
  <2>6. g[s \ {x}] = f[y] + g[(s \ {x}) \ {y}] BY <2>1, <2>2, <2>3, <2>4
  <2>7. (s \ {y}) \ {x} = (s \ {x}) \ {y} OBVIOUS
  <2>8. g[(s \ {x}) \ {y}] \in Int /\ f[x] \in Int /\ f[y] \in Int BY <1>2, <2>3
  <2> DEFINE r == g[(s \ {x}) \ {y}]
  <2>9. g[s] = f[y] + (f[x] + r) /\ g[s \ {x}] = f[y] + r BY <2>3, <2>5, <2>6, <2>7
  <2>10. r \in Int BY <2>8
  <2> HIDE DEF r
  <2> QED BY <2>2, <2>8, <2>9, <2>10
<1>4. \A s \in SUBSET S : \A x \in s : g[s] = f[x] + g[s \ {x}] BY <1>3
<1> QED BY <1>4 DEF g

\* Two sums that agree member by member agree, whatever else is added by either.
LEMMA SumsOfAgree ==
  ASSUME NEW f, NEW h, NEW S, IsFiniteSet(S), NEW T, IsFiniteSet(T), S \subseteq T,
         \A x \in S : f[x] = h[x]
  PROVE  SumOf(f, S)[S] = SumOf(h, T)[S]
<1> DEFINE g == SumOf(f, S)
           k == SumOf(h, T)
           Bad == {s \in SUBSET S : g[s] # k[s]}
<1>1. Adds(f, S, g) BY SumRecurs
<1>2. Adds(h, T, k) BY SumRecurs
<1> HIDE DEF g, k
<1>3. ASSUME Bad # {} PROVE FALSE
  <2>1. PICK s \in Bad : \A x \in s : s \ {x} \notin Bad
    <3> HIDE DEF Bad
    <3>1. Bad \subseteq SUBSET S BY DEF Bad
    <3> QED BY <3>1, <1>3, LeastSubset
  <2>2. s # {} BY <2>1, <1>1, <1>2 DEF Adds
  <2>3. Pick(s) \in s /\ g[s] = f[Pick(s)] + g[s \ {Pick(s)}] BY <1>1, <2>2 DEF Adds
  <2>4. k[s] = h[Pick(s)] + k[s \ {Pick(s)}] BY <1>2, <2>2 DEF Adds
  <2>5. g[s \ {Pick(s)}] = k[s \ {Pick(s)}] BY <2>1, <2>3
  <2>6. f[Pick(s)] = h[Pick(s)] BY <2>3
  <2> QED BY <2>3, <2>4, <2>5, <2>6
<1>4. g[S] = k[S] BY <1>3
<1> QED BY <1>4 DEF g, k

-----------------------------------------------------------------------------
(* What the proofs use *)

\* Nothing adds up to nothing.
LEMMA SumOfNothing == ASSUME NEW f PROVE SumOver(f, {}) = 0
BY SumUnfolds, SumRecurs, FS_EmptySet DEF Adds

\* Sums depend on the members' values only.
LEMMA SumsAgree ==
  ASSUME NEW f, NEW h, NEW S, IsFiniteSet(S), \A x \in S : f[x] = h[x]
  PROVE  SumOver(f, S) = SumOver(h, S)
BY SumUnfolds, SumsOfAgree

\* Any member may be added last.
LEMMA SumTakesOut ==
  ASSUME NEW f, NEW S, IsFiniteSet(S), \A x \in S : f[x] \in Int, NEW x \in S
  PROVE  SumOver(f, S) = f[x] + SumOver(f, S \ {x})
<1>1. SumOf(f, S)[S] = f[x] + SumOf(f, S)[S \ {x}] BY SumTakesAny
<1>2. IsFiniteSet(S \ {x}) /\ S \ {x} \subseteq S BY FS_Subset
<1>3. SumOf(f, S \ {x})[S \ {x}] = SumOf(f, S)[S \ {x}] BY <1>2, SumsOfAgree
<1> QED BY <1>1, <1>3, SumUnfolds

\* A sum of integers is one.
LEMMA SumIsInt ==
  ASSUME NEW f, NEW S, IsFiniteSet(S), \A x \in S : f[x] \in Int
  PROVE  SumOver(f, S) \in Int
BY SumTyped, SumUnfolds

\* What is no more in every member is no more in all.
LEMMA SumIsMonotone ==
  ASSUME NEW f, NEW h, NEW S, IsFiniteSet(S),
         \A x \in S : f[x] \in Int /\ h[x] \in Int /\ f[x] <= h[x]
  PROVE  SumOver(f, S) <= SumOver(h, S)
<1> DEFINE Bad == {s \in SUBSET S : ~(SumOver(f, s) <= SumOver(h, s))}
<1>1. ASSUME Bad # {} PROVE FALSE
  <2>1. PICK s \in Bad : \A x \in s : s \ {x} \notin Bad
    <3> HIDE DEF Bad
    <3>1. Bad \subseteq SUBSET S BY DEF Bad
    <3> QED BY <3>1, <1>1, LeastSubset
  <2>2. s # {} BY SumOfNothing
  <2>3. PICK x \in s : TRUE BY <2>2
  <2>4. IsFiniteSet(s) /\ IsFiniteSet(s \ {x}) BY FS_Subset
  <2>5. SumOver(f, s) = f[x] + SumOver(f, s \ {x}) BY <2>4, SumTakesOut
  <2>6. SumOver(h, s) = h[x] + SumOver(h, s \ {x}) BY <2>4, SumTakesOut
  <2>7. SumOver(f, s \ {x}) \in Int /\ SumOver(h, s \ {x}) \in Int
    BY <2>4, SumIsInt
  <2>8. SumOver(f, s \ {x}) <= SumOver(h, s \ {x}) BY <2>1
  <2>9. f[x] \in Int /\ h[x] \in Int /\ f[x] <= h[x] OBVIOUS
  <2>10. ~(SumOver(f, s) <= SumOver(h, s)) BY <2>1
  <2> QED BY <2>5, <2>6, <2>7, <2>8, <2>9, <2>10
<1> QED BY <1>1

\* As many times the same is a product.
LEMMA SumOfSame ==
  ASSUME NEW f, NEW S, IsFiniteSet(S), NEW c \in Int, \A x \in S : f[x] = c
  PROVE  SumOver(f, S) = Cardinality(S) * c
<1> DEFINE Bad == {s \in SUBSET S : SumOver(f, s) # Cardinality(s) * c}
<1>1. ASSUME Bad # {} PROVE FALSE
  <2>1. PICK s \in Bad : \A x \in s : s \ {x} \notin Bad
    <3> HIDE DEF Bad
    <3>1. Bad \subseteq SUBSET S BY DEF Bad
    <3> QED BY <3>1, <1>1, LeastSubset
  <2>2. s # {} BY SumOfNothing, FS_EmptySet
  <2>3. PICK x \in s : TRUE BY <2>2
  <2>4. IsFiniteSet(s) /\ Cardinality(s \ {x}) = Cardinality(s) - 1 BY FS_Subset, FS_RemoveElement
  <2>5. Cardinality(s) \in Nat BY <2>4, FS_CardinalityType
  <2>6. SumOver(f, s) = f[x] + SumOver(f, s \ {x}) BY <2>4, SumTakesOut
  <2>7. SumOver(f, s \ {x}) = Cardinality(s \ {x}) * c BY <2>1
  <2>8. c + (Cardinality(s) - 1) * c = Cardinality(s) * c BY <2>5
  <2>9. SumOver(f, s) # Cardinality(s) * c BY <2>1
  <2>10. f[x] = c OBVIOUS
  <2> QED BY <2>4, <2>6, <2>7, <2>8, <2>9, <2>10
<1> QED BY <1>1

\* Naturals add up to a natural, and to nothing only where each of them is nothing.
LEMMA SumOfNaturals ==
  ASSUME NEW f, NEW S, IsFiniteSet(S), \A x \in S : f[x] \in Nat
  PROVE  /\ SumOver(f, S) \in Nat
         /\ \A x \in S : f[x] <= SumOver(f, S)
         /\ SumOver(f, S) = 0 <=> \A x \in S : f[x] = 0
<1> DEFINE zero == [x \in S |-> 0]
<1>1. ASSUME NEW T, T \subseteq S PROVE SumOver(f, T) \in Int /\ 0 <= SumOver(f, T)
  <2>1. IsFiniteSet(T) BY <1>1, FS_Subset
  <2>2. \A x \in T : zero[x] = 0 /\ f[x] \in Int /\ 0 <= f[x] BY <1>1
  <2>3. SumOver(zero, T) <= SumOver(f, T)
    <3> HIDE DEF zero
    <3> QED BY <2>1, <2>2, SumIsMonotone
  <2>4. SumOver(zero, T) = Cardinality(T) * 0
    <3> HIDE DEF zero
    <3> QED BY <2>1, <2>2, SumOfSame
  <2>5. Cardinality(T) * 0 = 0 BY <2>1, FS_CardinalityType
  <2>6. SumOver(f, T) \in Int BY <2>1, <2>2, SumIsInt
  <2> QED BY <2>3, <2>4, <2>5, <2>6
<1>2. ASSUME NEW x \in S PROVE f[x] <= SumOver(f, S)
  <2>1. SumOver(f, S) = f[x] + SumOver(f, S \ {x}) BY SumTakesOut
  <2>2. 0 <= SumOver(f, S \ {x}) /\ SumOver(f, S \ {x}) \in Int BY <1>1
  <2>3. f[x] \in Nat OBVIOUS
  <2> QED BY <2>1, <2>2, <2>3
<1>3. SumOver(f, S) \in Nat BY <1>1
<1>4. ASSUME \A x \in S : f[x] = 0 PROVE SumOver(f, S) = 0
  <2>1. SumOver(f, S) = Cardinality(S) * 0 BY <1>4, SumOfSame
  <2> QED BY <2>1, FS_CardinalityType
<1>5. ASSUME SumOver(f, S) = 0, NEW x \in S PROVE f[x] = 0
  <2>1. f[x] \in Nat /\ f[x] <= 0 BY <1>2, <1>5
  <2> QED BY <2>1
<1> QED BY <1>2, <1>3, <1>4, <1>5

\* The image of a set under a function that tells its members apart adds up as they do.
LEMMA SumOfImage ==
  ASSUME NEW f, NEW S, IsFiniteSet(S), NEW F, NEW h,
         \A x \in S : h[x] = f[F[x]] /\ h[x] \in Int,
         \A x, y \in S : F[x] = F[y] => x = y
  PROVE  SumOver(f, {F[x] : x \in S}) = SumOver(h, S)
<1> DEFINE Img(s) == {F[x] : x \in s}
           Bad == {s \in SUBSET S : SumOver(f, Img(s)) # SumOver(h, s)}
<1>1. ASSUME Bad # {} PROVE FALSE
  <2>1. PICK s \in Bad : \A x \in s : s \ {x} \notin Bad
    <3> HIDE DEF Bad
    <3>1. Bad \subseteq SUBSET S BY DEF Bad
    <3> QED BY <3>1, <1>1, LeastSubset
  <2>2. s # {}
    <3>1. Img({}) = {} OBVIOUS
    <3>2. SumOver(f, Img({})) = 0 /\ SumOver(h, {}) = 0 BY <3>1, SumOfNothing
    <3> HIDE DEF Img
    <3> QED BY <2>1, <3>2
  <2>3. PICK x \in s : TRUE BY <2>2
  <2>4. IsFiniteSet(s) BY FS_Subset
  <2>5. IsFiniteSet(Img(s))
    <3> DEFINE G == [y \in s |-> F[y]]
    <3>1. G \in Surjection(s, Img(s)) BY DEF Surjection
    <3> HIDE DEF G, Img
    <3> QED BY <3>1, <2>4, FS_Surjection
  <2>6. Img(s \ {x}) = Img(s) \ {F[x]} /\ F[x] \in Img(s) OBVIOUS
  <2>7. \A z \in Img(s) : f[z] \in Int BY DEF Img
  <2> HIDE DEF Img
  <2>8. SumOver(f, Img(s)) = f[F[x]] + SumOver(f, Img(s) \ {F[x]})
    BY <2>5, <2>6, <2>7, SumTakesOut
  <2>9. SumOver(h, s) = h[x] + SumOver(h, s \ {x}) BY <2>4, SumTakesOut
  <2>10. SumOver(f, Img(s \ {x})) = SumOver(h, s \ {x}) BY <2>1
  <2>11. SumOver(f, Img(s)) # SumOver(h, s) BY <2>1
  <2>12. h[x] = f[F[x]] OBVIOUS
  <2> QED BY <2>6, <2>8, <2>9, <2>10, <2>11, <2>12
<1>2. SumOver(f, Img(S)) = SumOver(h, S) BY <1>1
<1> QED BY <1>2
\* Two sums add up to the sum of what their members add up to.
LEMMA SumOfTwo ==
  ASSUME NEW f, NEW g, NEW h, NEW S, IsFiniteSet(S),
         \A x \in S : f[x] \in Int /\ g[x] \in Int /\ h[x] = f[x] + g[x]
  PROVE  SumOver(h, S) = SumOver(f, S) + SumOver(g, S)
<1> DEFINE Bad == {s \in SUBSET S : SumOver(h, s) # SumOver(f, s) + SumOver(g, s)}
<1>1. ASSUME Bad # {} PROVE FALSE
  <2>1. PICK s \in Bad : \A x \in s : s \ {x} \notin Bad
    <3> HIDE DEF Bad
    <3>1. Bad \subseteq SUBSET S BY DEF Bad
    <3> QED BY <3>1, <1>1, LeastSubset
  <2>2. s # {}
    <3>1. SumOver(h, {}) = 0 /\ SumOver(f, {}) = 0 /\ SumOver(g, {}) = 0 BY SumOfNothing
    <3>2. 0 = 0 + 0 OBVIOUS
    <3> QED BY <2>1, <3>1, <3>2
  <2>3. PICK x \in s : TRUE BY <2>2
  <2>4. IsFiniteSet(s) /\ IsFiniteSet(s \ {x}) /\ s \subseteq S BY FS_Subset
  <2>5. \A y \in s : f[y] \in Int /\ g[y] \in Int /\ h[y] \in Int BY <2>4
  <2>6. SumOver(f, s) = f[x] + SumOver(f, s \ {x}) BY <2>4, <2>5, SumTakesOut
  <2>7. SumOver(g, s) = g[x] + SumOver(g, s \ {x}) BY <2>4, <2>5, SumTakesOut
  <2>8. SumOver(h, s) = h[x] + SumOver(h, s \ {x}) BY <2>4, <2>5, SumTakesOut
  <2>9. SumOver(f, s \ {x}) \in Int /\ SumOver(g, s \ {x}) \in Int BY <2>4, <2>5, SumIsInt
  <2>10. SumOver(h, s \ {x}) = SumOver(f, s \ {x}) + SumOver(g, s \ {x}) BY <2>1, <2>4
  <2>11. f[x] \in Int /\ g[x] \in Int /\ h[x] = f[x] + g[x] BY <2>4
  <2>12. SumOver(h, s) # SumOver(f, s) + SumOver(g, s) BY <2>1
  <2> QED BY <2>6, <2>7, <2>8, <2>9, <2>10, <2>11, <2>12
<1> QED BY <1>1

\* Every member taken so many times, the sum is taken so many times.
LEMMA SumOfMultiples ==
  ASSUME NEW f, NEW h, NEW c \in Int, NEW S, IsFiniteSet(S),
         \A x \in S : f[x] \in Int /\ h[x] = f[x] * c
  PROVE  SumOver(h, S) = SumOver(f, S) * c
<1> DEFINE Bad == {s \in SUBSET S : SumOver(h, s) # SumOver(f, s) * c}
<1>1. ASSUME Bad # {} PROVE FALSE
  <2>1. PICK s \in Bad : \A x \in s : s \ {x} \notin Bad
    <3> HIDE DEF Bad
    <3>1. Bad \subseteq SUBSET S BY DEF Bad
    <3> QED BY <3>1, <1>1, LeastSubset
  <2>2. s # {}
    <3>1. SumOver(h, {}) = 0 /\ SumOver(f, {}) = 0 BY SumOfNothing
    <3>2. 0 = 0 * c OBVIOUS
    <3> QED BY <2>1, <3>1, <3>2
  <2>3. PICK x \in s : TRUE BY <2>2
  <2>4. IsFiniteSet(s) /\ IsFiniteSet(s \ {x}) /\ s \subseteq S BY FS_Subset
  <2>5. \A y \in s : f[y] \in Int /\ h[y] \in Int BY <2>4
  <2>6. SumOver(f, s) = f[x] + SumOver(f, s \ {x}) BY <2>4, <2>5, SumTakesOut
  <2>7. SumOver(h, s) = h[x] + SumOver(h, s \ {x}) BY <2>4, <2>5, SumTakesOut
  <2>8. SumOver(f, s \ {x}) \in Int BY <2>4, <2>5, SumIsInt
  <2>9. SumOver(h, s \ {x}) = SumOver(f, s \ {x}) * c BY <2>1, <2>4
  <2>10. f[x] \in Int /\ h[x] = f[x] * c BY <2>4
  <2>11. f[x] * c + SumOver(f, s \ {x}) * c = (f[x] + SumOver(f, s \ {x})) * c BY <2>8, <2>10
  <2>12. SumOver(h, s) # SumOver(f, s) * c BY <2>1
  <2> QED BY <2>6, <2>7, <2>9, <2>10, <2>11, <2>12
<1> QED BY <1>1

\* Members that count for nothing may be left out.
LEMMA SumSkipsNothings ==
  ASSUME NEW f, NEW S, IsFiniteSet(S), NEW T, T \subseteq S,
         \A x \in S : f[x] \in Int, \A x \in S \ T : f[x] = 0
  PROVE  SumOver(f, S) = SumOver(f, T)
<1> DEFINE Bad == {s \in SUBSET (S \ T) : SumOver(f, T \cup s) # SumOver(f, T)}
<1>1. ASSUME Bad # {} PROVE FALSE
  <2>1. IsFiniteSet(S \ T) BY FS_Subset
  <2>2. PICK s \in Bad : \A x \in s : s \ {x} \notin Bad
    <3>1. Bad \subseteq SUBSET (S \ T) BY DEF Bad
    <3> HIDE DEF Bad
    <3> QED BY <3>1, <1>1, <2>1, LeastSubset
  <2>3. s # {}
    <3>1. T \cup {} = T OBVIOUS
    <3> QED BY <2>2, <3>1
  <2>4. PICK x \in s : TRUE BY <2>3
  <2> DEFINE all == T \cup s
  <2>5. IsFiniteSet(all) /\ all \subseteq S BY FS_Subset
  <2>6. \A y \in all : f[y] \in Int BY <2>5
  <2>7. x \in all /\ all \ {x} = T \cup (s \ {x}) BY <2>2, <2>4
  <2>8. SumOver(f, all \ {x}) = SumOver(f, T) BY <2>2, <2>4, <2>7
  <2>9. SumOver(f, all) # SumOver(f, T) BY <2>2
  <2> HIDE DEF all
  <2>10. SumOver(f, all) = f[x] + SumOver(f, all \ {x}) BY <2>5, <2>6, <2>7, SumTakesOut
  <2>11. f[x] = 0 BY <2>2, <2>4
  <2>12. SumOver(f, all \ {x}) \in Int
    <3>1. IsFiniteSet(all \ {x}) BY <2>5, FS_Subset
    <3> QED BY <3>1, <2>6, SumIsInt
  <2> QED BY <2>8, <2>9, <2>10, <2>11, <2>12
<1>2. SumOver(f, T \cup (S \ T)) = SumOver(f, T) BY <1>1
<1>3. T \cup (S \ T) = S OBVIOUS
<1> QED BY <1>2, <1>3

-----------------------------------------------------------------------------
(* Finite sets, listed and mapped *)

\* What a function makes of a finite set is finite.
LEMMA ImageIsFinite ==
  ASSUME NEW S, IsFiniteSet(S), NEW F PROVE IsFiniteSet({F[x] : x \in S})
<1> DEFINE T == {F[x] : x \in S}
           G == [x \in S |-> F[x]]
<1>1. G \in Surjection(S, T) BY DEF Surjection
<1> HIDE DEF G, T
<1>2. IsFiniteSet(T) BY <1>1, FS_Surjection
<1> QED BY <1>2 DEF T

\* A finite set can be written down in some order, each member once.
LEMMA FiniteSetIsListed ==
  ASSUME NEW S, IsFiniteSet(S)
  PROVE  \E s \in [1 .. Cardinality(S) -> S] : \A x \in S : \E i \in DOMAIN s : s[i] = x
<1>1. PICK s \in Bijection(1 .. Cardinality(S), S) : TRUE
  BY FS_CardinalityType DEF ExistsBijection
<1>2. s \in [1 .. Cardinality(S) -> S] /\ \A x \in S : \E i \in 1 .. Cardinality(S) : s[i] = x
  BY <1>1 DEF Bijection, Surjection
<1> QED BY <1>2

\* What a function that tells its members apart makes of a finite set is as large.
LEMMA ImageIsAsLarge ==
  ASSUME NEW S, IsFiniteSet(S), NEW F, \A x, y \in S : F[x] = F[y] => x = y
  PROVE  Cardinality({F[x] : x \in S}) = Cardinality(S)
<1> DEFINE T == {F[x] : x \in S}
           G == [x \in S |-> F[x]]
<1>1. G \in Bijection(S, T) BY DEF Bijection, Surjection, Injection, IsInjective
<1> HIDE DEF G, T
<1>2. Cardinality(T) = Cardinality(S) BY <1>1, FS_Bijection DEF ExistsBijection
<1> QED BY <1>2 DEF T
=============================================================================
