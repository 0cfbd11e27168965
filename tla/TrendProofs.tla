----------------------------- MODULE TrendProofs ------------------------------
(***************************************************************************)
(* Proofs about what makes and lists the trends: FeedPaging, Clustering    *)
(* and Scoring, for any number of rows, articles and groups and all        *)
(* similarities, scores, weights and moments. They rest on lemmas about    *)
(* sums and recursions, which come first.                                  *)
(***************************************************************************)
EXTENDS FeedPaging, Clustering, Scoring, SequenceTheorems, FiniteSetTheorems, TLAPS

(***************************************************************************)
(* Sums over finite sets. Of a collection of subsets one is smallest, so a *)
(* counterexample to a law of sums can be taken smallest and brought to a  *)
(* contradiction: induction without a theorem that has an operator as      *)
(* parameter.                                                              *)
(***************************************************************************)

\* Of a collection of subsets of a finite set, one contains none of the others.
LEMMA SmallestSet ==
    ASSUME NEW S, IsFiniteSet(S), NEW B, B \subseteq SUBSET S, B # {}
    PROVE  \E m \in B : \A s \in B : s \subseteq m => s = m
<1> DEFINE R == StrictSubsetOrdering(S)
<1>1. B \subseteq FiniteSubsetsOf(S)
  BY FS_FiniteSubsetsOfFinite
<1>2. IsWellFoundedOn(R, FiniteSubsetsOf(S))
  BY FS_StrictSubsetOrderingWellFounded
<1>3. \E m \in B : \A s \in B : ~(<<s, m>> \in R)
  <2> HIDE DEF R
  <2> QED
    BY <1>1, <1>2, WFMin
<1>4. PICK m \in B : \A s \in B : ~(<<s, m>> \in R)
  BY <1>3
<1>5. \A s \in B : s \subseteq m => s = m
  <2> SUFFICES ASSUME NEW s \in B, s \subseteq m, s # m
               PROVE  FALSE
    OBVIOUS
  <2>1. <<s, m>> \in R
    BY DEF StrictSubsetOrdering
  <2> QED
    BY <2>1, <1>4
<1> QED
  BY <1>5

\* The element a fold over s takes first.
Pick(s) == CHOOSE x \in s : TRUE

\* g has, for every subset of S, what MapThenSumSet computes of f over it.
Sums(g, f, S) ==
    g = [s \in SUBSET S |-> IF s = {} THEN 0 ELSE f[Pick(s)] + g[s \ {Pick(s)}]]

\* Two solutions of the recursion agree where both are defined.
LEMMA SumsAgree ==
    ASSUME NEW S, NEW T, NEW f, NEW g, NEW h, Sums(g, f, S), Sums(h, f, T),
           NEW U \in SUBSET S, U \in SUBSET T, IsFiniteSet(U)
    PROVE  g[U] = h[U]
<1> DEFINE B == {s \in SUBSET U : g[s] # h[s]}
<1>1. SUFFICES ASSUME B # {} PROVE FALSE
  OBVIOUS
<1>2. PICK m \in B : \A s \in B : s \subseteq m => s = m
  <2> HIDE DEF B
  <2>1. B \subseteq SUBSET U
    BY DEF B
  <2> QED
    BY <1>1, <2>1, SmallestSet
<1>3. /\ g[m] = IF m = {} THEN 0 ELSE f[Pick(m)] + g[m \ {Pick(m)}]
      /\ h[m] = IF m = {} THEN 0 ELSE f[Pick(m)] + h[m \ {Pick(m)}]
  BY DEF Sums
<1>4. m # {}
  BY <1>3
<1>5. Pick(m) \in m
  BY <1>4 DEF Pick
<1>6. m \ {Pick(m)} \notin B
  BY <1>2, <1>5
<1> QED
  BY <1>3, <1>4, <1>6

\* The recursion has a solution.
LEMMA SumsExist ==
    ASSUME NEW S, IsFiniteSet(S), NEW f
    PROVE  \E g : Sums(g, f, S)
<1> DEFINE B == {s \in SUBSET S : ~\E g : Sums(g, f, s)}
<1>1. SUFFICES ASSUME B # {} PROVE FALSE
  OBVIOUS
<1>2. PICK m \in B : \A s \in B : s \subseteq m => s = m
  <2> HIDE DEF B
  <2>1. B \subseteq SUBSET S
    BY DEF B
  <2> QED
    BY <1>1, <2>1, SmallestSet
<1> DEFINE of(s) == CHOOSE g : Sums(g, f, s)
<1>3. \A s \in SUBSET m : s # m => Sums(of(s), f, s)
  <2> SUFFICES ASSUME NEW s \in SUBSET m, s # m PROVE Sums(of(s), f, s)
    OBVIOUS
  <2>1. \E g : Sums(g, f, s)
    BY <1>2
  <2> QED
    BY <2>1
<1> DEFINE v(s) == of(s)[s]
           g == [s \in SUBSET m |-> IF s = {} THEN 0 ELSE f[Pick(s)] + v(s \ {Pick(s)})]
<1>4. \A s \in SUBSET m : s # m => g[s] = v(s)
  <2> SUFFICES ASSUME NEW s \in SUBSET m, s # m PROVE g[s] = v(s)
    OBVIOUS
  <2>1. Sums(of(s), f, s)
    BY <1>3
  <2>2. v(s) = IF s = {} THEN 0 ELSE f[Pick(s)] + of(s)[s \ {Pick(s)}]
    <3> HIDE DEF of
    <3> QED
      BY <2>1 DEF Sums
  <2>3. CASE s = {}
    BY <2>2, <2>3
  <2>4. CASE s # {}
    <3> DEFINE t == s \ {Pick(s)}
    <3>1. t \in SUBSET m /\ t # m /\ t \in SUBSET s
      BY <2>4 DEF Pick
    <3>2. Sums(of(t), f, t)
      BY <3>1, <1>3
    <3>3. IsFiniteSet(t)
      BY <3>1, FS_Subset
    <3>4. of(s)[t] = of(t)[t]
      <4> HIDE DEF of, t
      <4> QED
        BY <2>1, <3>1, <3>2, <3>3, SumsAgree
    <3> QED
      BY <2>2, <2>4, <3>4
  <2> QED
    BY <2>3, <2>4
<1>5. \A s \in SUBSET m : s # {} => v(s \ {Pick(s)}) = g[s \ {Pick(s)}]
  <2> SUFFICES ASSUME NEW s \in SUBSET m, s # {} PROVE v(s \ {Pick(s)}) = g[s \ {Pick(s)}]
    OBVIOUS
  <2>1. Pick(s) \in s
    BY DEF Pick
  <2>2. s \ {Pick(s)} \in SUBSET m /\ s \ {Pick(s)} # m
    BY <2>1
  <2> HIDE DEF g, v
  <2> QED
    BY <2>2, <1>4
<1>6. g = [s \in SUBSET m |-> IF s = {} THEN 0 ELSE f[Pick(s)] + g[s \ {Pick(s)}]]
  <2> HIDE DEF v
  <2> QED
    BY <1>5
<1>7. Sums(g, f, m)
  <2> HIDE DEF g
  <2> QED
    BY <1>6 DEF Sums
<1> QED
  BY <1>7, <1>2

\* The sum of the values of f over S.
Total(f, S) == MapThenSumSet(LAMBDA x : f[x], S)

\* MapThenSumSet computes a solution of the recursion.
LEMMA TotalIsSums ==
    ASSUME NEW S, IsFiniteSet(S), NEW f
    PROVE  \E g : Sums(g, f, S) /\ Total(f, S) = g[S]
<1> DEFINE g == CHOOSE iter : iter = [s \in SUBSET S |->
                    IF s = {} THEN 0
                    ELSE f[CHOOSE x \in s : TRUE] + iter[s \ {CHOOSE x \in s : TRUE}]]
<1>1. \E h : Sums(h, f, S)
  BY SumsExist
<1>2. Sums(g, f, S)
  BY <1>1 DEF Sums, Pick
<1>3. Total(f, S) = g[S]
  BY DEF Total, MapThenSumSet, MapThenFoldSet
<1> QED
  BY <1>2, <1>3

\* A solution over a set is one over its subsets.
LEMMA TotalSub ==
    ASSUME NEW S, IsFiniteSet(S), NEW f, NEW g, Sums(g, f, S), NEW T \in SUBSET S
    PROVE  g[T] = Total(f, T)
<1>1. IsFiniteSet(T)
  BY FS_Subset
<1>2. PICK h : Sums(h, f, T) /\ Total(f, T) = h[T]
  BY <1>1, TotalIsSums
<1> QED
  BY <1>1, <1>2, SumsAgree

\* Nothing sums to zero, and the sum over S is what the fold takes first and the rest.
LEMMA TotalUnfolds ==
    ASSUME NEW S, IsFiniteSet(S), NEW f
    PROVE  Total(f, S) = IF S = {} THEN 0 ELSE f[Pick(S)] + Total(f, S \ {Pick(S)})
<1>1. PICK g : Sums(g, f, S) /\ Total(f, S) = g[S]
  BY TotalIsSums
<1>2. g[S] = IF S = {} THEN 0 ELSE f[Pick(S)] + g[S \ {Pick(S)}]
  BY <1>1 DEF Sums
<1>3. g[S \ {Pick(S)}] = Total(f, S \ {Pick(S)})
  BY <1>1, TotalSub
<1> QED
  BY <1>1, <1>2, <1>3

\* A sum of integers is an integer.
LEMMA TotalType ==
    ASSUME NEW S, IsFiniteSet(S), NEW f, \A x \in S : f[x] \in Int
    PROVE  Total(f, S) \in Int
<1> DEFINE B == {s \in SUBSET S : Total(f, s) \notin Int}
<1>1. SUFFICES ASSUME B # {} PROVE FALSE
  OBVIOUS
<1>2. PICK m \in B : \A s \in B : s \subseteq m => s = m
  <2> HIDE DEF B
  <2>1. B \subseteq SUBSET S
    BY DEF B
  <2> QED
    BY <1>1, <2>1, SmallestSet
<1>3. IsFiniteSet(m)
  BY FS_Subset
<1>4. Total(f, m) = IF m = {} THEN 0 ELSE f[Pick(m)] + Total(f, m \ {Pick(m)})
  BY <1>3, TotalUnfolds
<1>5. m # {} /\ Pick(m) \in m
  BY <1>4 DEF Pick
<1>6. m \ {Pick(m)} \notin B
  BY <1>2, <1>5
<1> QED
  BY <1>4, <1>5, <1>6

\* Any element may be taken first.
LEMMA TotalRemove ==
    ASSUME NEW S, IsFiniteSet(S), NEW f, \A x \in S : f[x] \in Int, NEW x \in S
    PROVE  Total(f, S) = f[x] + Total(f, S \ {x})
<1> DEFINE B == {s \in SUBSET S : \E y \in s : Total(f, s) # f[y] + Total(f, s \ {y})}
<1>1. SUFFICES ASSUME B # {} PROVE FALSE
  OBVIOUS
<1>2. PICK m \in B : \A s \in B : s \subseteq m => s = m
  <2> HIDE DEF B
  <2>1. B \subseteq SUBSET S
    BY DEF B
  <2> QED
    BY <1>1, <2>1, SmallestSet
<1>3. PICK y \in m : Total(f, m) # f[y] + Total(f, m \ {y})
  OBVIOUS
<1> DEFINE p == Pick(m)
<1>4. p \in m
  BY DEF Pick
<1>5. IsFiniteSet(m) /\ m \subseteq S
  BY FS_Subset
<1>6. Total(f, m) = f[p] + Total(f, m \ {p})
  BY <1>4, <1>5, TotalUnfolds
<1>7. p # y
  BY <1>3, <1>6
<1> DEFINE rest == (m \ {p}) \ {y}
<1>8. m \ {p} \notin B /\ m \ {y} \notin B
  BY <1>2, <1>3, <1>4
<1>9. Total(f, m \ {p}) = f[y] + Total(f, rest)
  BY <1>3, <1>7, <1>8
<1>10. Total(f, m \ {y}) = f[p] + Total(f, (m \ {y}) \ {p})
  BY <1>4, <1>5, <1>7, <1>8
<1>11. rest = (m \ {y}) \ {p}
  OBVIOUS
<1>12. IsFiniteSet(rest) /\ rest \subseteq S
  BY <1>5, FS_Subset
<1>13. Total(f, rest) \in Int /\ f[p] \in Int /\ f[y] \in Int
  <2>1. \A z \in rest : f[z] \in Int
    BY <1>12
  <2> HIDE DEF rest
  <2> QED
    BY <1>3, <1>4, <1>5, <1>12, <2>1, TotalType
<1>14. Total(f, m) = f[y] + Total(f, m \ {y})
  <2> HIDE DEF rest, p
  <2> QED
    BY <1>6, <1>9, <1>10, <1>11, <1>13
<1> QED
  BY <1>3, <1>14

\* A larger set and larger values, none of the added ones negative, give a larger sum.
LEMMA TotalMonotone ==
    ASSUME NEW T, IsFiniteSet(T), NEW S \in SUBSET T, NEW f, NEW h,
           \A x \in T : h[x] \in Int, \A x \in S : f[x] \in Int /\ f[x] <= h[x],
           \A x \in T \ S : h[x] >= 0
    PROVE  Total(f, S) <= Total(h, T)
<1> DEFINE B == {t \in SUBSET T : ~(Total(f, t \cap S) <= Total(h, t))}
<1>1. SUFFICES ASSUME B # {} PROVE FALSE
  <2>1. S = T \cap S
    OBVIOUS
  <2> QED
    BY <2>1
<1>2. PICK m \in B : \A s \in B : s \subseteq m => s = m
  <2> HIDE DEF B
  <2>1. B \subseteq SUBSET T
    BY DEF B
  <2> QED
    BY <1>1, <2>1, SmallestSet
<1>3. ~(Total(f, m \cap S) <= Total(h, m)) /\ m \subseteq T
  OBVIOUS
<1>4. IsFiniteSet(m) /\ IsFiniteSet(m \cap S)
  BY <1>3, FS_Subset
<1>5. m # {}
  <2> SUFFICES ASSUME m = {} PROVE FALSE
    OBVIOUS
  <2>1. Total(h, m) = 0 /\ Total(f, m) = 0
    BY <1>4, TotalUnfolds
  <2>2. m \cap S = m
    OBVIOUS
  <2> HIDE DEF B
  <2> QED
    BY <1>3, <2>1, <2>2
<1>6. PICK x \in m : TRUE
  BY <1>5
<1> DEFINE r == m \ {x}
<1>7. Total(f, r \cap S) <= Total(h, r)
  <2>1. r \notin B /\ r \in SUBSET T
    BY <1>2, <1>6
  <2> QED
    BY <2>1
<1>8. Total(h, m) = h[x] + Total(h, r)
  BY <1>3, <1>4, TotalRemove
<1>9. IsFiniteSet(r) /\ IsFiniteSet(r \cap S)
  BY <1>4, FS_Subset
<1>10. Total(h, r) \in Int
  BY <1>3, <1>9, TotalType
<1>11. Total(f, r \cap S) \in Int
  BY <1>9, TotalType
<1>12. CASE x \in S
  <2>1. Total(f, m \cap S) = f[x] + Total(f, (m \cap S) \ {x})
    BY <1>4, <1>12, TotalRemove
  <2>2. (m \cap S) \ {x} = r \cap S
    OBVIOUS
  <2>3. f[x] \in Int /\ h[x] \in Int /\ f[x] <= h[x]
    BY <1>3, <1>12
  <2>4. Total(f, m \cap S) = f[x] + Total(f, r \cap S)
    BY <2>1, <2>2
  <2> HIDE DEF r, B
  <2>5. Total(f, m \cap S) <= Total(h, m)
    BY <1>7, <1>8, <1>10, <1>11, <2>3, <2>4
  <2> QED
    BY <1>3, <2>5
<1>13. CASE x \notin S
  <2>1. m \cap S = r \cap S
    BY <1>13
  <2>2. h[x] \in Int /\ h[x] >= 0
    BY <1>3, <1>13
  <2> HIDE DEF r, B
  <2> QED
    BY <1>3, <1>7, <1>8, <1>10, <1>11, <2>1, <2>2
<1> QED
  BY <1>12, <1>13

\* A sum depends on the values alone.
LEMMA TotalSame ==
    ASSUME NEW S, IsFiniteSet(S), NEW f, NEW h, \A x \in S : f[x] \in Int /\ h[x] = f[x]
    PROVE  Total(f, S) = Total(h, S)
<1>1. /\ \A x \in S : f[x] \in Int /\ f[x] <= h[x] /\ h[x] \in Int /\ h[x] <= f[x]
      /\ S \in SUBSET S /\ S \ S = {}
  OBVIOUS
<1>2. Total(f, S) <= Total(h, S) /\ Total(h, S) <= Total(f, S)
  BY <1>1, TotalMonotone
<1>3. Total(f, S) \in Int /\ Total(h, S) \in Int
  BY <1>1, TotalType
<1> QED
  BY <1>2, <1>3

\* A sum of naturals is one, and not smaller than any of them.
LEMMA TotalNat ==
    ASSUME NEW S, IsFiniteSet(S), NEW f, \A x \in S : f[x] \in Nat
    PROVE  Total(f, S) \in Nat /\ \A x \in S : f[x] <= Total(f, S)
<1>1. \A x \in S : f[x] \in Int /\ f[x] >= 0
  OBVIOUS
<1>2. ASSUME NEW T \in SUBSET S
      PROVE  Total(f, T) \in Nat
  <2>1. IsFiniteSet(T) /\ IsFiniteSet({})
    BY FS_Subset, FS_EmptySet
  <2>2. Total(f, {}) = 0
    BY <2>1, TotalUnfolds
  <2>3. Total(f, {}) <= Total(f, T)
    <3>1. {} \in SUBSET T /\ (\A x \in T : f[x] \in Int) /\ (\A x \in T \ {} : f[x] >= 0)
      BY <1>1
    <3>2. \A x \in {} : f[x] \in Int /\ f[x] <= f[x]
      OBVIOUS
    <3> QED
      BY <2>1, <3>1, <3>2, TotalMonotone
  <2>4. Total(f, T) \in Int
    BY <1>1, <2>1, TotalType
  <2> QED
    BY <2>2, <2>3, <2>4
<1>3. ASSUME NEW x \in S
      PROVE  f[x] <= Total(f, S)
  <2>1. Total(f, S) = f[x] + Total(f, S \ {x})
    BY <1>1, TotalRemove
  <2>2. Total(f, S \ {x}) \in Nat
    BY <1>2
  <2> QED
    BY <1>1, <2>1, <2>2
<1> QED
  BY <1>2, <1>3

\* If no value is above c, neither is their mean.
LEMMA TotalAtMost ==
    ASSUME NEW S, IsFiniteSet(S), NEW f, NEW c \in Int, \A x \in S : f[x] \in Int /\ f[x] <= c
    PROVE  Total(f, S) <= Cardinality(S) * c
<1> DEFINE B == {s \in SUBSET S : ~(Total(f, s) <= Cardinality(s) * c)}
<1>1. SUFFICES ASSUME B # {} PROVE FALSE
  OBVIOUS
<1>2. PICK m \in B : \A s \in B : s \subseteq m => s = m
  <2> HIDE DEF B
  <2>1. B \subseteq SUBSET S
    BY DEF B
  <2> QED
    BY <1>1, <2>1, SmallestSet
<1>3. ~(Total(f, m) <= Cardinality(m) * c) /\ m \subseteq S
  OBVIOUS
<1>4. IsFiniteSet(m) /\ Cardinality(m) \in Nat
  BY <1>3, FS_Subset, FS_CardinalityType
<1>5. m # {}
  <2> SUFFICES ASSUME m = {} PROVE FALSE
    OBVIOUS
  <2>1. Total(f, m) = 0 /\ Cardinality(m) = 0
    BY <1>4, TotalUnfolds, FS_EmptySet
  <2>2. 0 * c = 0
    OBVIOUS
  <2> HIDE DEF B
  <2> QED
    BY <1>3, <2>1, <2>2
<1>6. PICK x \in m : TRUE
  BY <1>5
<1> DEFINE r == m \ {x}
<1>7. Total(f, r) <= Cardinality(r) * c
  <2>1. r \notin B /\ r \in SUBSET S
    BY <1>2, <1>6
  <2> QED
    BY <2>1
<1>8. Total(f, m) = f[x] + Total(f, r)
  BY <1>3, <1>4, TotalRemove
<1>9. IsFiniteSet(r) /\ Cardinality(r) = Cardinality(m) - 1
  BY <1>4, FS_RemoveElement
<1>10. Total(f, r) \in Int
  BY <1>3, <1>9, TotalType
<1>11. f[x] \in Int /\ f[x] <= c
  BY <1>3
<1>12. \A n \in Nat : (n - 1) * c = n * c - c /\ n * c \in Int
  OBVIOUS
<1>13. (Cardinality(m) - 1) * c = Cardinality(m) * c - c /\ Cardinality(m) * c \in Int
  BY <1>4, <1>12
<1> DEFINE u == Cardinality(m) * c
<1> HIDE DEF B, r, u
<1>14. u \in Int /\ Total(f, r) <= u - c /\ ~(Total(f, m) <= u)
  BY <1>3, <1>7, <1>9, <1>13 DEF u
<1> QED
  BY <1>8, <1>10, <1>11, <1>14

\* A sum of positive numbers is at least as large as there are numbers.
LEMMA TotalCounts ==
    ASSUME NEW S, IsFiniteSet(S), NEW f, \A x \in S : f[x] \in Nat \ {0}
    PROVE  Cardinality(S) <= Total(f, S)
<1> DEFINE B == {s \in SUBSET S : ~(Cardinality(s) <= Total(f, s))}
<1>1. SUFFICES ASSUME B # {} PROVE FALSE
  OBVIOUS
<1>2. PICK m \in B : \A s \in B : s \subseteq m => s = m
  <2> HIDE DEF B
  <2>1. B \subseteq SUBSET S
    BY DEF B
  <2> QED
    BY <1>1, <2>1, SmallestSet
<1>3. ~(Cardinality(m) <= Total(f, m)) /\ m \subseteq S
  OBVIOUS
<1>4. IsFiniteSet(m) /\ Cardinality(m) \in Nat
  BY <1>3, FS_Subset, FS_CardinalityType
<1>5. m # {}
  BY <1>3, <1>4, TotalUnfolds, FS_EmptySet
<1>6. PICK x \in m : TRUE
  BY <1>5
<1> DEFINE r == m \ {x}
<1>7. Cardinality(r) <= Total(f, r)
  BY <1>2, <1>6
<1>8. Total(f, m) = f[x] + Total(f, r)
  BY <1>3, <1>4, TotalRemove
<1>9. IsFiniteSet(r) /\ Cardinality(r) = Cardinality(m) - 1
  BY <1>4, FS_RemoveElement
<1>10. Total(f, r) \in Int /\ f[x] \in Nat \ {0}
  BY <1>3, <1>9, TotalType
<1> HIDE DEF B, r
<1> QED
  BY <1>3, <1>4, <1>7, <1>8, <1>9, <1>10

(***************************************************************************)
(* Numbers, and recursion on an interval of them.                          *)
(***************************************************************************)

\* A set of natural numbers has a least one.
LEMMA LeastNumber ==
    ASSUME NEW S, S \subseteq Nat, S # {}
    PROVE  \E m \in S : \A k \in S : m <= k
<1>1. PICK m \in S : \A k \in S : ~(<<k, m>> \in OpToRel(<, Nat))
  BY NatLessThanWellFounded, WFMin
<1>2. \A k \in S : ~(k < m)
  BY <1>1 DEF OpToRel
<1> QED
  BY <1>2

\* Min returns it.
LEMMA MinIsLeast ==
    ASSUME NEW S, S \subseteq Nat, S # {}
    PROVE  Min(S) \in S /\ \A k \in S : Min(S) <= k
<1>1. \E m \in S : \A k \in S : m <= k
  BY LeastNumber
<1> QED
  BY <1>1 DEF Min

\* Of finitely many elements with a number each, one has the largest.
LEMMA LargestValue ==
    ASSUME NEW S, IsFiniteSet(S), S # {}, NEW f, \A x \in S : f[x] \in Int
    PROVE  \E m \in S : \A x \in S : f[x] <= f[m]
<1> DEFINE B == {s \in SUBSET S : s # {} /\ ~\E m \in s : \A x \in s : f[x] <= f[m]}
<1>1. SUFFICES ASSUME B # {} PROVE FALSE
  OBVIOUS
<1>2. PICK m \in B : \A s \in B : s \subseteq m => s = m
  <2> HIDE DEF B
  <2>1. B \subseteq SUBSET S
    BY DEF B
  <2> QED
    BY <1>1, <2>1, SmallestSet
<1>3. PICK y \in m : TRUE
  OBVIOUS
<1>4. m \ {y} \notin B
  BY <1>2, <1>3
<1>5. CASE m \ {y} = {}
  <2>1. m = {y} /\ f[y] \in Int
    BY <1>3, <1>5
  <2> QED
    BY <2>1
<1>6. CASE m \ {y} # {}
  <2>1. PICK z \in m \ {y} : \A x \in m \ {y} : f[x] <= f[z]
    BY <1>4, <1>6
  <2>2. CASE f[z] <= f[y]
    <3>1. \A x \in m : f[x] <= f[y]
      BY <2>1, <2>2
    <3> QED
      BY <3>1
  <2>3. CASE ~(f[z] <= f[y])
    <3>1. \A x \in m : f[x] <= f[z]
      BY <2>1, <2>3
    <3> QED
      BY <3>1
  <2> QED
    BY <2>2, <2>3
<1> QED
  BY <1>5, <1>6

\* Max returns the largest number of a finite set.
LEMMA MaxIsLargest ==
    ASSUME NEW S, IsFiniteSet(S), S # {}, S \subseteq Int
    PROVE  Max(S) \in S /\ \A k \in S : k <= Max(S)
<1> DEFINE f == [x \in S |-> x]
<1>1. \E m \in S : \A x \in S : f[x] <= f[m]
  <2>1. \A x \in S : f[x] \in Int
    OBVIOUS
  <2> HIDE DEF f
  <2> QED
    BY <2>1, LargestValue
<1>2. \E m \in S : \A x \in S : m >= x
  BY <1>1
<1>3. Max(S) \in S /\ \A k \in S : Max(S) >= k
  BY <1>2 DEF Max
<1> QED
  BY <1>3

\* Division of naturals, since the prover's arithmetic is linear.
LEMMA DivNat == \A a \in Nat, b \in Nat \ {0} : a \div b \in Nat
  OBVIOUS

\* An upper bound of a quotient.
LEMMA DivAtMost == \A a \in Nat, b \in Nat \ {0}, k \in Nat : a <= k * b => a \div b <= k
  OBVIOUS

\* A lower bound of a quotient.
LEMMA DivAtLeast == \A a \in Nat, b \in Nat \ {0}, k \in Nat : k * b <= a => k <= a \div b
  OBVIOUS

\* A product of naturals.
LEMMA TimesNat == \A a, b \in Nat : a * b \in Nat
  OBVIOUS

\* A product of integers.
LEMMA TimesInt == \A a, b \in Int : a * b \in Int
  OBVIOUS

\* A square.
LEMMA SquareNat == \A a \in Int : a * a \in Nat
  OBVIOUS

\* g starts from base at a, and makes each later value of the one before.
Iterates(g, base, step, a, b) ==
    \A i \in a .. b : g[i] = IF i = a THEN base ELSE step[<<g[i - 1], i>>]

\* A recursion on an interval of numbers, one step at a time, has a solution.
LEMMA RecursionSolved ==
    ASSUME NEW X, NEW base \in X, NEW a \in Int, NEW b \in Int, NEW step \in [X \X (a .. b) -> X]
    PROVE  \E g \in [a .. b -> X] : Iterates(g, base, step, a, b)
<1> DEFINE P(c) == \E g \in [a .. c -> X] :
               \A i \in a .. c : g[i] = IF i = a THEN base ELSE step[<<g[i - 1], i>>]
           B == {n \in Nat : a + n <= b /\ ~P(a + n)}
<1>0. P(b) => \E g \in [a .. b -> X] : Iterates(g, base, step, a, b)
  BY DEF Iterates
<1>1. SUFFICES ASSUME a <= b, ~P(b) PROVE FALSE
  <2>1. CASE ~(a <= b)
    <3>1. a .. b = {}
      BY <2>1
    <3> DEFINE g == [i \in {} |-> base]
    <3>2. g \in [{} -> X] /\ \A i \in {} : g[i] = IF i = a THEN base ELSE step[<<g[i - 1], i>>]
      OBVIOUS
    <3>3. P(b)
      BY <3>1, <3>2
    <3> QED
      BY <1>0, <3>3
  <2> HIDE DEF P
  <2> QED
    BY <1>0, <2>1
<1>2. b - a \in B
  <2>1. b - a \in Nat /\ a + (b - a) = b
    BY <1>1
  <2> HIDE DEF P
  <2> QED
    BY <1>1, <2>1
<1>3. PICK n \in B : \A k \in B : n <= k
  <2> HIDE DEF B
  <2>1. B \subseteq Nat /\ B # {}
    BY <1>2 DEF B
  <2> QED
    BY <2>1, LeastNumber
<1>4. n # 0
  <2>1. P(a)
    <3> DEFINE g == [i \in a .. a |-> base]
    <3>1. g \in [a .. a -> X] /\ \A i \in a .. a : i = a
      OBVIOUS
    <3>2. \A i \in a .. a : g[i] = IF i = a THEN base ELSE step[<<g[i - 1], i>>]
      BY <3>1
    <3> QED
      BY <3>1, <3>2
  <2>2. a + 0 = a
    OBVIOUS
  <2> HIDE DEF P
  <2> QED
    BY <2>1, <2>2
<1>5. P(a + (n - 1))
  <2>1. n - 1 \in Nat /\ a + (n - 1) <= b /\ ~(n <= n - 1)
    BY <1>4
  <2> HIDE DEF P
  <2> QED
    BY <1>3, <2>1
<1> DEFINE c == a + (n - 1)
<1>6. PICK g \in [a .. c -> X] :
          \A i \in a .. c : g[i] = IF i = a THEN base ELSE step[<<g[i - 1], i>>]
  BY <1>5
<1>7. c \in Int /\ a + n = c + 1 /\ a <= c /\ c + 1 <= b
  BY <1>4
<1> HIDE DEF c
<1>8. c \in a .. c /\ c + 1 \in a .. b /\ c + 1 \notin a .. c /\ c + 1 # a /\ a \in a .. c
  BY <1>7
<1> DEFINE h == [i \in a .. c + 1 |-> IF i = c + 1 THEN step[<<g[c], c + 1>>] ELSE g[i]]
<1>9. \A i \in a .. c + 1 : i # c + 1 => i \in a .. c
  BY <1>7
<1>10. step[<<g[c], c + 1>>] \in X
  BY <1>8
<1>11. h \in [a .. c + 1 -> X]
  BY <1>9, <1>10
<1>12. ASSUME NEW i \in a .. c + 1
       PROVE  h[i] = IF i = a THEN base ELSE step[<<h[i - 1], i>>]
  <2>1. CASE i = c + 1
    <3>1. i - 1 = c /\ c \in a .. c + 1 /\ c # c + 1
      BY <1>7, <2>1
    <3>2. h[i] = step[<<g[c], i>>] /\ h[i - 1] = g[c] /\ i # a
      BY <1>8, <2>1, <3>1
    <3> HIDE DEF h
    <3> QED
      BY <3>2
  <2>2. CASE i # c + 1 /\ i = a
    <3>1. h[i] = g[i] /\ i \in a .. c
      BY <1>9, <2>2
    <3>2. g[i] = base
      BY <1>6, <2>2, <3>1
    <3> HIDE DEF h
    <3> QED
      BY <2>2, <3>1, <3>2
  <2>3. CASE i # c + 1 /\ i # a
    <3>1. h[i] = g[i] /\ i \in a .. c /\ i - 1 \in a .. c + 1 /\ i - 1 # c + 1
      BY <1>7, <1>9, <2>3
    <3>2. g[i] = step[<<g[i - 1], i>>] /\ h[i - 1] = g[i - 1]
      BY <1>6, <2>3, <3>1
    <3> HIDE DEF h
    <3> QED
      BY <2>3, <3>1, <3>2
  <2> QED
    BY <2>1, <2>2, <2>3
<1>13. P(c + 1)
  <2> HIDE DEF h
  <2> QED
    BY <1>11, <1>12
<1> QED
  <2> HIDE DEF P
  <2> QED
    BY <1>7, <1>13

(***************************************************************************)
(* Paging.                                                                 *)
(***************************************************************************)

\* What is known of the columns alone.
Ranked ==
    \A g \in TrendRow : \A c \in Column : g \in Nat /\ rank[c][g] \in Nat

\* ORDER BY score DESC, id DESC is a strict total order of the rows.
LEMMA PrecedesOrder ==
    ASSUME Ranked, NEW c \in Column
    PROVE  /\ \A g \in TrendRow : ~Precedes(c, g, g)
           /\ \A g, h \in TrendRow : g = h \/ Precedes(c, g, h) \/ Precedes(c, h, g)
           /\ \A g, h \in TrendRow : ~(Precedes(c, g, h) /\ Precedes(c, h, g))
           /\ \A g, h, k \in TrendRow : Precedes(c, g, h) /\ Precedes(c, h, k) => Precedes(c, g, k)
  BY DEF Ranked, Precedes

\* The rows of R that come before row g.
Before(c, R, g) == {h \in R : Precedes(c, h, g)}

\* More rows come before a later row.
LEMMA BeforeGrows ==
    ASSUME Ranked, NEW c \in Column, NEW R \in SUBSET TrendRow,
           NEW g \in R, NEW h \in R, Precedes(c, g, h)
    PROVE  /\ Cardinality(Before(c, R, g)) \in Nat /\ Cardinality(Before(c, R, h)) \in Nat
           /\ Cardinality(Before(c, R, g)) < Cardinality(Before(c, R, h))
<1> DEFINE G == Before(c, R, g)
           H == Before(c, R, h)
<1>1. g \in H /\ g \notin G /\ G \subseteq H /\ G \in SUBSET TrendRow /\ H \in SUBSET TrendRow
  BY PrecedesOrder DEF Before
<1> HIDE DEF G, H
<1>2. IsFiniteSet(G) /\ IsFiniteSet(H)
  BY <1>1, FeedPagingAssumption, FS_Subset
<1>3. /\ Cardinality(G) \in Nat /\ Cardinality(H) \in Nat
      /\ Cardinality(G) <= Cardinality(H) /\ (Cardinality(H) = Cardinality(G) => H = G)
  BY <1>1, <1>2, FS_CardinalityType, FS_Subset
<1> QED
  BY <1>1, <1>3 DEF G, H

\* Among finitely many rows one is last, and one is first.
LEMMA LastRow ==
    ASSUME Ranked, NEW c \in Column, NEW P \in SUBSET TrendRow, P # {}
    PROVE  \E l \in P : LastOf(c, P) = {l} /\ \A h \in P : h = l \/ Precedes(c, h, l)
<1> DEFINE f == [g \in P |-> Cardinality(Before(c, P, g))]
<1>1. IsFiniteSet(P)
  BY FeedPagingAssumption, FS_Subset
<1>2. \A g \in P : f[g] \in Int
  <2> SUFFICES ASSUME NEW g \in P PROVE Cardinality(Before(c, P, g)) \in Int
    OBVIOUS
  <2>1. Before(c, P, g) \in SUBSET P
    BY DEF Before
  <2> QED
    BY <1>1, <2>1, FS_Subset, FS_CardinalityType
<1>3. PICK l \in P : \A g \in P : f[g] <= f[l]
  <2> HIDE DEF f
  <2> QED
    BY <1>1, <1>2, LargestValue
<1>4. \A h \in P : h = l \/ Precedes(c, h, l)
  <2> SUFFICES ASSUME NEW h \in P, h # l, ~Precedes(c, h, l) PROVE FALSE
    OBVIOUS
  <2>1. Precedes(c, l, h)
    BY PrecedesOrder
  <2>2. /\ f[l] = Cardinality(Before(c, P, l)) /\ f[h] = Cardinality(Before(c, P, h))
        /\ f[h] <= f[l]
    BY <1>3
  <2> HIDE DEF f
  <2> QED
    BY <2>1, <2>2, BeforeGrows
<1>5. LastOf(c, P) = {l}
  BY <1>4, PrecedesOrder DEF LastOf
<1> QED
  BY <1>4, <1>5

\* Among finitely many rows one has none before it.
LEMMA FirstRow ==
    ASSUME Ranked, NEW c \in Column, NEW R \in SUBSET TrendRow,
           NEW Q \in SUBSET R, Q # {}
    PROVE  \E x \in Q : \A h \in Q : ~Precedes(c, h, x)
<1> DEFINE N == {Cardinality(Before(c, R, g)) : g \in Q}
<1>1. IsFiniteSet(R)
  BY FeedPagingAssumption, FS_Subset
<1>2. N \subseteq Nat /\ N # {}
  <2> SUFFICES ASSUME NEW g \in Q PROVE Cardinality(Before(c, R, g)) \in Nat
    OBVIOUS
  <2>1. Before(c, R, g) \in SUBSET R
    BY DEF Before
  <2> QED
    BY <1>1, <2>1, FS_Subset, FS_CardinalityType
<1>3. PICK n \in N : \A k \in N : n <= k
  <2> HIDE DEF N
  <2> QED
    BY <1>2, LeastNumber
<1>4. PICK x \in Q : n = Cardinality(Before(c, R, x))
  OBVIOUS
<1>5. ASSUME NEW h \in Q, Precedes(c, h, x) PROVE FALSE
  <2>1. n <= Cardinality(Before(c, R, h))
    BY <1>3
  <2> HIDE DEF N
  <2> QED
    BY <1>4, <1>5, <2>1, BeforeGrows
<1> QED
  BY <1>5

\* ORDER BY and LIMIT give the first rows: whatever comes before one of them is one too,
\* and there are as many as the limit unless that is all.
LEMMA PageIsFirst ==
    ASSUME Ranked, NEW c \in Column, NEW R \in SUBSET TrendRow,
           NEW limit \in Nat \ {0}
    PROVE  /\ Page(c, limit, R) \in SUBSET R
           /\ \A l \in Page(c, limit, R), g \in R : Precedes(c, g, l) => g \in Page(c, limit, R)
           /\ Cardinality(Page(c, limit, R)) # limit => Page(c, limit, R) = R
           /\ Cardinality(Page(c, limit, R)) = limit => Page(c, limit, R) # {}
<1> DEFINE P == Page(c, limit, R)
<1>1. P = {g \in R : Cardinality(Before(c, R, g)) < limit}
  BY DEF Page, Before
<1>2. IsFiniteSet(R) /\ P \in SUBSET R
  BY <1>1, FeedPagingAssumption, FS_Subset
<1> HIDE DEF P
<1>3. IsFiniteSet(P) /\ Cardinality(P) \in Nat
  BY <1>2, FS_Subset, FS_CardinalityType
<1>4. \A l \in P, g \in R : Precedes(c, g, l) => g \in P
  <2> SUFFICES ASSUME NEW l \in P, NEW g \in R, Precedes(c, g, l) PROVE g \in P
    OBVIOUS
  <2>1. l \in R /\ Cardinality(Before(c, R, l)) < limit
    BY <1>1
  <2>2. /\ Cardinality(Before(c, R, g)) \in Nat /\ Cardinality(Before(c, R, l)) \in Nat
        /\ Cardinality(Before(c, R, g)) < Cardinality(Before(c, R, l))
    BY <2>1, BeforeGrows
  <2> QED
    BY <1>1, <1>2, <2>1, <2>2
<1>5. Cardinality(P) <= limit
  <2>1. CASE P = {}
    BY <1>2, <2>1, FS_EmptySet
  <2>2. CASE P # {}
    <3>1. PICK l \in P : \A h \in P : h = l \/ Precedes(c, h, l)
      BY <1>2, <2>2, LastRow
    <3>2. l \in R /\ Cardinality(Before(c, R, l)) < limit
      BY <1>1
    <3>3. P \ {l} \in SUBSET Before(c, R, l) /\ Before(c, R, l) \in SUBSET R
      BY <1>2, <3>1 DEF Before
    <3>4. IsFiniteSet(Before(c, R, l))
      BY <1>2, <3>3, FS_Subset
    <3>5. /\ Cardinality(P \ {l}) <= Cardinality(Before(c, R, l))
          /\ Cardinality(Before(c, R, l)) \in Nat
      BY <3>3, <3>4, FS_Subset, FS_CardinalityType
    <3>6. Cardinality(P \ {l}) = Cardinality(P) - 1
      BY <1>3, FS_RemoveElement
    <3> QED
      BY <1>2, <1>3, <3>2, <3>5, <3>6
  <2> QED
    BY <2>1, <2>2
<1>6. ASSUME P # R PROVE Cardinality(P) = limit
  <2> DEFINE Q == R \ P
  <2>1. Q \in SUBSET R /\ Q # {}
    BY <1>2, <1>6
  <2>2. PICK x \in Q : \A h \in Q : ~Precedes(c, h, x)
    <3> HIDE DEF Q
    <3> QED
      BY <2>1, FirstRow
  <2>3. Before(c, R, x) \in SUBSET P
    BY <2>2 DEF Before
  <2>4. Cardinality(Before(c, R, x)) <= Cardinality(P) /\ Cardinality(Before(c, R, x)) \in Nat
    BY <1>3, <2>3, FS_Subset, FS_CardinalityType
  <2>5. ~(Cardinality(Before(c, R, x)) < limit)
    BY <1>1, <2>2
  <2> QED
    BY <1>2, <1>3, <1>5, <2>4, <2>5
<1>7. Cardinality(P) = limit => P # {}
  BY <1>2, FS_EmptySet
<1> QED
  BY <1>2, <1>4, <1>6, <1>7 DEF P

PagingCursor == [score : TrendScore \cup {TimeOf[a] : a \in ArticleRow}, id : TrendRow \cup ArticleRow]

PagingPage == [rows : SUBSET TrendRow, next : SUBSET PagingCursor, inOrder : BOOLEAN,
               changed : SUBSET TrendRow]

PagingClient == [list : {"none", "trends", "early", "news"}, sort : {"default", "score", "other"},
                 cursor : SUBSET PagingCursor, inOrder : BOOLEAN,
                 at : {"start", "page", "end", "refused"}]

\* A first page at hand covers the rows nobody wrote since it was read.
PagesSound ==
    /\ firstPages \subseteq PagingPage
    /\ \A p \in firstPages : p.inOrder => Covers("trends", p.rows, p.next, p.changed)

\* The inductive invariant.
PagingInv ==
    /\ PagingTypeOK /\ PagesSound /\ StableRowsPagedOnce
    /\ paging.at = "end" => paging.cursor = {}
    /\ paging.at = "page" /\ paging.cursor = {} => shown = {} /\ repeated = {}

\* The type invariant with names for its records.
LEMMA PagingTyped ==
    PagingTypeOK <=>
        /\ rank \in [Column -> [TrendRow -> TrendScore \cup {0}]] /\ hidden \subseteq TrendRow
        /\ groupOf \in [ArticleRow -> TrendRow \cup {0}] /\ rescores \in 0 .. MaxRescores
        /\ firstPages \subseteq PagingPage /\ paging \in PagingClient
        /\ shown \subseteq TrendRow /\ repeated \subseteq TrendRow /\ changed \subseteq TrendRow
  BY DEF PagingTypeOK, PagingCursor, PagingPage, PagingClient

\* The same of the next state.
LEMMA PagingTypedNext ==
    PagingTypeOK' <=>
        /\ rank' \in [Column -> [TrendRow -> TrendScore \cup {0}]] /\ hidden' \subseteq TrendRow
        /\ groupOf' \in [ArticleRow -> TrendRow \cup {0}] /\ rescores' \in 0 .. MaxRescores
        /\ firstPages' \subseteq PagingPage /\ paging' \in PagingClient
        /\ shown' \subseteq TrendRow /\ repeated' \subseteq TrendRow /\ changed' \subseteq TrendRow
  BY DEF PagingTypeOK, PagingCursor, PagingPage, PagingClient

\* The columns hold numbers.
LEMMA RowsRanked == PagingTypeOK => Ranked
<1> SUFFICES ASSUME PagingTypeOK, NEW g \in TrendRow, NEW c \in Column
             PROVE  g \in Nat /\ rank[c][g] \in Nat
  BY DEF Ranked
<1>1. rank[c] \in [TrendRow -> TrendScore \cup {0}]
  BY PagingTyped
<1>2. rank[c][g] \in TrendScore \cup {0}
  BY <1>1
<1>3. g \in Nat /\ \A x \in TrendScore \cup {0} : x \in Nat
  BY FeedPagingAssumption
<1> QED
  BY <1>2, <1>3

\* Nothing has been shown.
LEMMA PagingInit == InitPaging => PagingInv
<1> SUFFICES ASSUME InitPaging PROVE PagingInv
  OBVIOUS
<1>1. rank \in [Column -> [TrendRow -> TrendScore \cup {0}]]
  <2>1. [TrendRow -> {0}] \subseteq [TrendRow -> TrendScore \cup {0}]
    OBVIOUS
  <2> QED
    BY <2>1 DEF InitPaging
<1>2. paging \in PagingClient /\ paging.at = "start" /\ paging.cursor = {}
  BY DEF InitPaging, Away, PagingClient
<1>3. PagingTypeOK
  BY <1>1, <1>2, PagingTyped, FeedPagingAssumption DEF InitPaging
<1> QED
  BY <1>2, <1>3 DEF InitPaging, PagingInv, PagesSound, StableRowsPagedOnce

\* What a page leaves the cursor and the rows shown to be.
LEMMA PageShown ==
    ASSUME PagingTypeOK, NEW list, NEW C, \A c \in C : c.score \in Nat /\ c.id \in Nat,
           NEW limit \in Nat \ {0},
           NEW P, P = Page(ScoreOf(list), limit, Found(list, TrendRow, C)),
           NEW N, N = Cursor(list, ScoreOf(list), limit, P), NEW g \in TrendRow
    PROVE  /\ Listed(list, g) /\ (N = {} \/ ~Beyond(list, N, g))
                <=> (Listed(list, g) /\ ~Beyond(list, C, g)) \/ g \in P
           /\ g \in P => Beyond(list, C, g)
<1> DEFINE R == Found(list, TrendRow, C)
           K == ScoreOf(list)
<1>1. R \in SUBSET TrendRow /\ K \in Column
  BY DEF Found, ScoreOf, Column
<1>2. Ranked
  BY RowsRanked
<1>3. /\ P \in SUBSET R
      /\ \A l \in P, h \in R : Precedes(K, h, l) => h \in P
      /\ Cardinality(P) # limit => P = R
      /\ Cardinality(P) = limit => P # {}
  <2>1. P = Page(K, limit, R)
    OBVIOUS
  <2> HIDE DEF R, K
  <2> QED
    BY <1>1, <1>2, <2>1, PageIsFirst
<1>4. g \in R <=> Listed(list, g) /\ Beyond(list, C, g)
  BY DEF Found
<1>5. \A h \in R : h \in TrendRow /\ Beyond(list, C, h)
  BY DEF Found
<1>6. \A D, h : Beyond(list, D, h) <=>
                   \A c \in D : rank[K][h] < c.score \/ (rank[K][h] = c.score /\ h > c.id)
  BY DEF Beyond
<1>7. N = IF Cardinality(P) = limit THEN {[score |-> rank[K][h], id |-> h] : h \in LastOf(K, P)}
                                    ELSE {}
  BY DEF Cursor
<1> HIDE DEF R, K
<1>8. CASE Cardinality(P) # limit
  <2>1. N = {}
    BY <1>7, <1>8
  <2> QED
    BY <1>3, <1>4, <1>8, <2>1
<1>9. CASE Cardinality(P) = limit
  <2>1. PICK l \in P : LastOf(K, P) = {l} /\ \A h \in P : h = l \/ Precedes(K, h, l)
    <3>1. P \in SUBSET TrendRow /\ P # {}
      BY <1>1, <1>3, <1>9
    <3> QED
      BY <1>1, <1>2, <3>1, LastRow
  <2>2. N = {[score |-> rank[K][l], id |-> l]}
    BY <1>7, <1>9, <2>1
  <2>3. l \in TrendRow /\ Beyond(list, C, l) /\ l \in R
    BY <1>3, <1>5
  <2>4. /\ rank[K][g] \in Nat /\ rank[K][l] \in Nat /\ g \in Nat /\ l \in Nat
    BY <1>1, <1>2, <2>3 DEF Ranked
  <2>5. Beyond(list, N, g) <=> Precedes(K, l, g)
    <3>1. Beyond(list, N, g) <=>
             rank[K][g] < rank[K][l] \/ (rank[K][g] = rank[K][l] /\ g > l)
      <4> DEFINE u == [score |-> rank[K][l], id |-> l]
      <4>1. u.score = rank[K][l] /\ u.id = l
        OBVIOUS
      <4>2. N = {u}
        BY <2>2
      <4> HIDE DEF u
      <4> QED
        BY <1>6, <4>1, <4>2
    <3> QED
      BY <3>1, <2>4 DEF Precedes
  <2>6. g \in R => (g \in P <=> ~Precedes(K, l, g))
    BY <1>1, <1>2, <1>3, <2>1, <2>3, PrecedesOrder
  <2>7. ~Beyond(list, C, g) => ~Precedes(K, l, g)
    <3> SUFFICES ASSUME NEW c \in C,
                        ~(rank[K][g] < c.score \/ (rank[K][g] = c.score /\ g > c.id)),
                        Precedes(K, l, g)
                 PROVE  FALSE
      BY <1>6
    <3>1. rank[K][l] < c.score \/ (rank[K][l] = c.score /\ l > c.id)
      BY <1>6, <2>3
    <3>2. rank[K][l] > rank[K][g] \/ (rank[K][l] = rank[K][g] /\ l < g)
      BY DEF Precedes
    <3>3. c.score \in Nat /\ c.id \in Nat
      OBVIOUS
    <3> QED
      BY <2>4, <3>1, <3>2, <3>3
  <2>8. N # {}
    BY <2>2
  <2> QED
    BY <1>3, <1>4, <2>5, <2>6, <2>7, <2>8
<1> QED
  BY <1>8, <1>9

\* A cursor of the client's holds numbers.
LEMMA CursorNumbers ==
    ASSUME NEW C \in SUBSET PagingCursor
    PROVE  \A c \in C : c.score \in Nat /\ c.id \in Nat
<1> SUFFICES ASSUME NEW c \in PagingCursor PROVE c.score \in Nat /\ c.id \in Nat
  OBVIOUS
<1>1. /\ c.score \in TrendScore \cup {TimeOf[a] : a \in ArticleRow}
      /\ c.id \in TrendRow \cup ArticleRow
  BY DEF PagingCursor
<1>2. \A a \in ArticleRow : TimeOf[a] \in Nat
  BY FeedPagingAssumption
<1> QED
  BY <1>1, <1>2, FeedPagingAssumption

\* What the database answers is a page.
LEMMA PageTyped ==
    ASSUME PagingTypeOK, NEW list, NEW sort, NEW window \in SUBSET TrendRow,
           NEW limit \in Nat \ {0}, NEW C
    PROVE  PageOf(list, sort, window, limit, C) \in PagingPage
<1> DEFINE column == SortedBy(list, sort)
           R == Found(list, window, C)
           P == Page(column, limit, R)
           N == Cursor(list, column, limit, P)
<1>1. column \in Column /\ ScoreOf(list) \in Column
  BY DEF SortedBy, ScoreOf, Column
<1>2. R \in SUBSET TrendRow /\ \A g \in R : rank[ScoreOf(list)][g] # 0
  BY DEF Found, Listed
<1>3. P \in SUBSET R
  BY DEF Page
<1> HIDE DEF R, P, column
<1>4. N \in SUBSET PagingCursor
  <2> SUFFICES ASSUME NEW g \in LastOf(column, P)
               PROVE  [score |-> rank[ScoreOf(list)][g], id |-> g] \in PagingCursor
    BY DEF Cursor
  <2>1. g \in TrendRow /\ rank[ScoreOf(list)][g] # 0
    BY <1>2, <1>3 DEF LastOf
  <2>2. rank[ScoreOf(list)] \in [TrendRow -> TrendScore \cup {0}]
    BY <1>1, PagingTyped
  <2>3. rank[ScoreOf(list)][g] \in TrendScore
    BY <2>1, <2>2
  <2> QED
    BY <2>1, <2>3 DEF PagingCursor
<1>5. PageOf(list, sort, window, limit, C)
         = [rows |-> P, next |-> N, inOrder |-> sort # "other" /\ window = TrendRow, changed |-> {}]
  BY DEF PageOf, P, R, column
<1> HIDE DEF N
<1>6. (sort # "other" /\ window = TrendRow) \in BOOLEAN
  OBVIOUS
<1> QED
  BY <1>2, <1>3, <1>4, <1>5, <1>6 DEF PagingPage

\* A first page that came in order covers every row.
LEMMA FirstPageCovers ==
    ASSUME PagingTypeOK, NEW list \in {"trends", "early"}, NEW sort, NEW window,
           NEW limit \in Nat \ {0}, NEW p, p = PageOf(list, sort, window, limit, {}), p.inOrder
    PROVE  Covers(list, p.rows, p.next, p.changed)
<1>1. sort # "other" /\ window = TrendRow
  BY DEF PageOf
<1>2. /\ p.rows = Page(ScoreOf(list), limit, Found(list, TrendRow, {}))
      /\ p.next = Cursor(list, ScoreOf(list), limit, p.rows) /\ p.changed = {}
  BY <1>1 DEF PageOf, SortedBy
<1>3. \A g \in TrendRow : Beyond(list, {}, g)
  BY DEF Beyond
<1>4. ASSUME NEW g \in TrendRow
      PROVE  g \in p.rows <=> Listed(list, g) /\ (p.next = {} \/ ~Beyond(list, p.next, g))
  BY <1>2, <1>3, PageShown
<1> QED
  BY <1>4 DEF Covers

\* Covers tells of the rows, their columns and whether they are hidden.
LEMMA CoversSame ==
    ASSUME UNCHANGED <<rank, hidden>>, NEW list, NEW R, NEW C, NEW B
    PROVE  Covers(list, R, C, B) <=> Covers(list, R, C, B)'
  BY DEF Covers, Listed, Beyond

\* A page of the list keeps the invariant when what it adds is what the next cursor is past.
LEMMA ShowStep ==
    ASSUME PagingInv, paging.at = "page", NEW page \in PagingPage, Show(page), PagesSound',
           paging.list \in {"trends", "early"} /\ page.inOrder =>
              IF paging.cursor = {}
              THEN Covers(paging.list, page.rows, page.next, page.changed)
              ELSE \A g \in TrendRow :
                      /\ Listed(paging.list, g)
                            /\ (page.next = {} \/ ~Beyond(paging.list, page.next, g))
                         <=> \/ Listed(paging.list, g) /\ ~Beyond(paging.list, paging.cursor, g)
                             \/ g \in page.rows
                      /\ g \in page.rows => Beyond(paging.list, paging.cursor, g)
    PROVE  PagingInv'
<1>0. /\ paging \in PagingClient /\ PagingTypeOK
      /\ UNCHANGED <<rank, hidden, groupOf, rescores>> /\ firstPages' \subseteq PagingPage
  BY PagingTyped DEF PagingInv, Show, PagesSound
<1>1. CASE ~Decodable(paging.cursor)
  <2>1. paging' = [paging EXCEPT !.at = "refused"] /\ UNCHANGED <<shown, repeated, changed>>
    BY <1>1 DEF Show
  <2>2. /\ paging'.list = paging.list /\ paging'.inOrder = paging.inOrder
        /\ paging'.cursor = paging.cursor /\ paging'.at = "refused" /\ paging' \in PagingClient
    BY <1>0, <2>1 DEF PagingClient
  <2>3. PagingTypeOK'
    BY <1>0, <2>1, <2>2, PagingTyped, PagingTypedNext
  <2>4. StableRowsPagedOnce'
    <3>1. Covers(paging.list, shown, paging.cursor, changed)
             <=> Covers(paging.list, shown, paging.cursor, changed)'
      BY <1>0, <2>1, <2>2, CoversSame DEF Covers, Listed, Beyond
    <3> QED
      BY <2>1, <2>2, <3>1 DEF PagingInv, StableRowsPagedOnce
  <2> QED
    BY <2>2, <2>3, <2>4 DEF PagingInv
<1>2. CASE Decodable(paging.cursor)
  <2> DEFINE at == IF page.next = {} THEN "end" ELSE "page"
             inOrder == paging.inOrder /\ page.inOrder
             since == IF paging.cursor = {} THEN page.changed ELSE changed
  <2>1. /\ paging' = [paging EXCEPT !.cursor = page.next, !.inOrder = inOrder, !.at = at]
        /\ shown' = shown \cup page.rows /\ repeated' = repeated \cup (shown \cap page.rows)
        /\ changed' = since
    BY <1>2 DEF Show
  <2>2. /\ at \in {"page", "end"} /\ (at = "end" <=> page.next = {})
        /\ inOrder \in BOOLEAN /\ page.rows \subseteq TrendRow /\ page.changed \subseteq TrendRow
        /\ page.next \in SUBSET PagingCursor /\ since \subseteq TrendRow
    BY <1>0, PagingTyped DEF PagingPage, PagingClient
  <2>3. /\ paging'.list = paging.list /\ paging'.inOrder = inOrder
        /\ paging'.cursor = page.next /\ paging'.at = at /\ paging' \in PagingClient
    <3> HIDE DEF at, inOrder
    <3> QED
      BY <1>0, <2>1, <2>2 DEF PagingClient
  <2>4. PagingTypeOK'
    <3> HIDE DEF at, inOrder, since
    <3> QED
      BY <1>0, <2>1, <2>2, <2>3, PagingTyped, PagingTypedNext
  <2>5. ASSUME paging.list \in {"trends", "early"}, inOrder
        PROVE  repeated' \subseteq since /\ Covers(paging.list, shown', page.next, since)
    <3>1. CASE paging.cursor = {}
      <4>1. shown = {} /\ repeated = {}
        BY <3>1 DEF PagingInv
      <4>2. Covers(paging.list, page.rows, page.next, page.changed)
        BY <2>5, <3>1
      <4> QED
        BY <2>1, <3>1, <4>1, <4>2
    <3>2. CASE paging.cursor # {}
      <4>1. repeated \subseteq changed /\ Covers(paging.list, shown, paging.cursor, changed)
        BY <2>5, <3>2 DEF PagingInv, StableRowsPagedOnce
      <4>2. ASSUME NEW g \in TrendRow \ changed
            PROVE  /\ g \notin shown \cap page.rows
                   /\ g \in shown' <=>
                         /\ Listed(paging.list, g)
                         /\ page.next = {} \/ ~Beyond(paging.list, page.next, g)
        <5>1. g \in shown <=> Listed(paging.list, g) /\ ~Beyond(paging.list, paging.cursor, g)
          BY <3>2, <4>1 DEF Covers
        <5>2. /\ Listed(paging.list, g)
                    /\ (page.next = {} \/ ~Beyond(paging.list, page.next, g))
                 <=> \/ Listed(paging.list, g) /\ ~Beyond(paging.list, paging.cursor, g)
                     \/ g \in page.rows
              /\ g \in page.rows => Beyond(paging.list, paging.cursor, g)
          BY <2>5, <3>2
        <5> QED
          BY <2>1, <5>1, <5>2
      <4>3. since = changed
        BY <3>2
      <4> QED
        BY <2>1, <2>2, <4>1, <4>2, <4>3 DEF Covers
    <3> QED
      BY <3>1, <3>2
  <2>6. StableRowsPagedOnce'
    <3> HIDE DEF at, inOrder, since
    <3>1. Covers(paging.list, shown', page.next, since)
             => Covers(paging.list, shown, paging.cursor, changed)'
      BY <1>0, <2>1, <2>3 DEF Covers, Listed, Beyond
    <3> QED
      BY <2>1, <2>3, <2>5, <3>1 DEF StableRowsPagedOnce
  <2> QED
    BY <2>2, <2>3, <2>4, <2>6 DEF PagingInv
<1> QED
  BY <1>1, <1>2

\* The page the database answers a client with is the next one of its list.
LEMMA AnswerStep ==
    ASSUME PagingInv, paging.at = "page", NEW limit \in PageSize, NEW page,
           page = PageOf(paging.list, paging.sort, TrendRow, limit, paging.cursor),
           Show(page), PagesSound'
    PROVE  PagingInv'
<1>1. /\ PagingTypeOK /\ paging \in PagingClient /\ limit \in Nat \ {0}
  BY PagingTyped, FeedPagingAssumption DEF PagingInv
<1>2. page \in PagingPage
  BY <1>1, PageTyped
<1>3. ASSUME paging.list \in {"trends", "early"}, page.inOrder
      PROVE  IF paging.cursor = {}
             THEN Covers(paging.list, page.rows, page.next, page.changed)
             ELSE \A g \in TrendRow :
                      /\ Listed(paging.list, g)
                            /\ (page.next = {} \/ ~Beyond(paging.list, page.next, g))
                         <=> \/ Listed(paging.list, g) /\ ~Beyond(paging.list, paging.cursor, g)
                             \/ g \in page.rows
                      /\ g \in page.rows => Beyond(paging.list, paging.cursor, g)
  <2>1. CASE paging.cursor = {}
    <3>1. page = PageOf(paging.list, paging.sort, TrendRow, limit, {})
      BY <2>1
    <3>2. Covers(paging.list, page.rows, page.next, page.changed)
      BY <1>1, <1>3, <3>1, FirstPageCovers
    <3> QED
      BY <2>1, <3>2
  <2>2. CASE paging.cursor # {}
    <3>1. paging.sort # "other"
      BY <1>3 DEF PageOf
    <3>2. /\ page.rows = Page(ScoreOf(paging.list), limit,
                              Found(paging.list, TrendRow, paging.cursor))
          /\ page.next = Cursor(paging.list, ScoreOf(paging.list), limit, page.rows)
      BY <3>1 DEF PageOf, SortedBy
    <3>3. paging.cursor \in SUBSET PagingCursor
      BY <1>1 DEF PagingClient
    <3>4. \A c \in paging.cursor : c.score \in Nat /\ c.id \in Nat
      BY <3>3, CursorNumbers
    <3>5. ASSUME NEW g \in TrendRow
          PROVE  /\ Listed(paging.list, g)
                       /\ (page.next = {} \/ ~Beyond(paging.list, page.next, g))
                    <=> \/ Listed(paging.list, g) /\ ~Beyond(paging.list, paging.cursor, g)
                        \/ g \in page.rows
                 /\ g \in page.rows => Beyond(paging.list, paging.cursor, g)
      BY <1>1, <3>2, <3>4, PageShown
    <3> QED
      BY <2>2, <3>5
  <2> QED
    BY <2>1, <2>2
<1> QED
  BY <1>2, <1>3, ShowStep

\* The first pages at hand stay sound as long as no row is written, and one may join them.
LEMMA PagesGain ==
    ASSUME PagingInv, UNCHANGED <<rank, hidden>>, NEW new \in PagingPage,
           new.inOrder => Covers("trends", new.rows, new.next, new.changed),
           firstPages' \subseteq firstPages \cup {new}
    PROVE  PagesSound'
<1>1. firstPages' \subseteq PagingPage
  BY DEF PagingInv, PagesSound
<1>2. ASSUME NEW p \in firstPages', p.inOrder
      PROVE  Covers("trends", p.rows, p.next, p.changed)'
  <2>1. Covers("trends", p.rows, p.next, p.changed)
    BY <1>2 DEF PagingInv, PagesSound
  <2> QED
    BY <2>1 DEF Covers, Listed, Beyond
<1> QED
  BY <1>1, <1>2 DEF PagesSound

LEMMA PagesKept ==
    ASSUME PagingInv, UNCHANGED <<rank, hidden>>, firstPages' \subseteq firstPages
    PROVE  PagesSound'
<1>1. firstPages' \subseteq PagingPage
  BY DEF PagingInv, PagesSound
<1>2. ASSUME NEW p \in firstPages', p.inOrder
      PROVE  Covers("trends", p.rows, p.next, p.changed)'
  <2>1. Covers("trends", p.rows, p.next, p.changed)
    BY <1>2 DEF PagingInv, PagesSound
  <2> QED
    BY <2>1 DEF Covers, Listed, Beyond
<1> QED
  BY <1>1, <1>2 DEF PagesSound

\* A first page the database answers may be kept.
LEMMA FreshPage ==
    ASSUME PagingTypeOK, NEW sort, NEW window \in SUBSET TrendRow, NEW limit \in PageSize, NEW p,
           p = PageOf("trends", sort, window, limit, {})
    PROVE  p \in PagingPage /\ (p.inOrder => Covers("trends", p.rows, p.next, p.changed))
<1>1. limit \in Nat \ {0}
  BY FeedPagingAssumption
<1> QED
  BY <1>1, PageTyped, FirstPageCovers

\* GET /trends: a copy or an answer of the database.
LEMMA ShowTrendsStep ==
    ASSUME PagingInv, NEW limit \in PageSize, ShowTrends(limit)
    PROVE  PagingInv'
<1> DEFINE page == PageOf("trends", paging.sort, TrendRow, limit, paging.cursor)
<1>1. paging.at = "page" /\ paging.list = "trends"
  BY DEF ShowTrends
<1>2. ASSUME paging.cursor = {}, NEW p \in firstPages, Show(p), UNCHANGED firstPages
      PROVE  PagingInv'
  <2>1. /\ p \in PagingPage
        /\ p.inOrder => Covers("trends", p.rows, p.next, p.changed)
    BY DEF PagingInv, PagesSound
  <2>2. UNCHANGED <<rank, hidden>>
    BY <1>2 DEF Show
  <2>3. PagesSound'
    BY <1>2, <2>2, PagesKept
  <2> QED
    BY <1>1, <1>2, <2>1, <2>3, ShowStep
<1>3. ASSUME Show(page), \/ UNCHANGED firstPages
                         \/ paging.cursor = {} /\ firstPages' = firstPages \cup {page}
      PROVE  PagingInv'
  <2>1. UNCHANGED <<rank, hidden>> /\ PagingTypeOK
    BY <1>3 DEF Show, PagingInv
  <2>2. PagesSound'
    <3>1. CASE UNCHANGED firstPages
      BY <2>1, <3>1, PagesKept
    <3>2. CASE paging.cursor = {} /\ firstPages' = firstPages \cup {page}
      <4>1. page = PageOf("trends", paging.sort, TrendRow, limit, {})
        BY <3>2
      <4>2. page \in PagingPage
            /\ (page.inOrder => Covers("trends", page.rows, page.next, page.changed))
        BY <2>1, <4>1, FreshPage
      <4> HIDE DEF page
      <4>3. firstPages' \subseteq firstPages \cup {page}
        BY <3>2
      <4> QED
        BY <2>1, <4>2, <4>3, PagesGain
    <3> QED
      BY <1>3, <3>1, <3>2
  <2>3. page = PageOf(paging.list, paging.sort, TrendRow, limit, paging.cursor)
    BY <1>1
  <2> HIDE DEF page
  <2> QED
    BY <1>1, <1>3, <2>2, <2>3, AnswerStep
<1> QED
  BY <1>2, <1>3 DEF ShowTrends

\* GET /trends/early and /trends/early/pro.
LEMMA ShowEarlyStep ==
    ASSUME PagingInv, NEW limit \in PageSize, ShowEarlyRows(limit)
    PROVE  PagingInv'
<1> DEFINE page == PageOf("early", paging.sort, TrendRow, limit, paging.cursor)
<1>1. paging.at = "page" /\ paging.list = "early" /\ Show(page) /\ UNCHANGED firstPages
  BY DEF ShowEarlyRows
<1>2. UNCHANGED <<rank, hidden>>
  BY <1>1 DEF Show
<1>3. PagesSound'
  BY <1>1, <1>2, PagesKept
<1>4. page = PageOf(paging.list, paging.sort, TrendRow, limit, paging.cursor)
  BY <1>1
<1> HIDE DEF page
<1> QED
  BY <1>1, <1>3, <1>4, AnswerStep

\* GET /news, of which nothing is claimed.
LEMMA ShowNewsStep ==
    ASSUME PagingInv, NEW limit \in PageSize, ShowNews(limit)
    PROVE  PagingInv'
<1>1. PICK P \in NewsPages(limit, paging.cursor) :
          LET last == {a \in P : \A b \in P : b = a \/ NewsPrecedes(b, a)}
          IN Show([rows |-> {groupOf[a] : a \in P} \ {0},
                   next |-> IF Cardinality(P) = limit
                            THEN {[score |-> TimeOf[a], id |-> a] : a \in last} ELSE {},
                   inOrder |-> FALSE, changed |-> {}])
  BY DEF ShowNews
<1> DEFINE last == {a \in P : \A b \in P : b = a \/ NewsPrecedes(b, a)}
           keys == {groupOf[a] : a \in P} \ {0}
           next == IF Cardinality(P) = limit
                   THEN {[score |-> TimeOf[a], id |-> a] : a \in last} ELSE {}
           page == [rows |-> keys, next |-> next, inOrder |-> FALSE, changed |-> {}]
<1>2. paging.at = "page" /\ paging.list = "news" /\ Show(page) /\ UNCHANGED firstPages
  BY <1>1 DEF ShowNews
<1>3. P \in SUBSET ArticleRow
  BY DEF NewsPages, Collapsed
<1>4. keys \in SUBSET TrendRow
  <2>1. groupOf \in [ArticleRow -> TrendRow \cup {0}]
    BY PagingTyped DEF PagingInv
  <2> QED
    BY <1>3, <2>1
<1>5. next \in SUBSET PagingCursor
  BY <1>3 DEF PagingCursor
<1> HIDE DEF keys, next
<1>6. page \in PagingPage /\ ~page.inOrder
  BY <1>4, <1>5 DEF PagingPage
<1> HIDE DEF page
<1>7. UNCHANGED <<rank, hidden>>
  BY <1>2 DEF Show
<1>8. PagesSound'
  BY <1>2, <1>7, PagesKept
<1> QED
  BY <1>2, <1>6, <1>8, ShowStep

\* A first page is read for another client, or given up.
LEMMA FirstPageStep ==
    ASSUME PagingInv,
           \/ \E sort \in {"default", "score", "other"}, window \in SUBSET TrendRow,
                 limit \in PageSize :
                 AnswerOther(sort, window, limit)
           \/ \E p \in firstPages : ForgetFirstPage(p)
    PROVE  PagingInv'
<1>1. PagingTypeOK /\ UNCHANGED <<rank, hidden, groupOf, rescores, paging, shown, repeated, changed>>
  BY DEF PagingInv, AnswerOther, ForgetFirstPage
<1>2. PagesSound'
  <2>1. ASSUME NEW sort \in {"default", "score", "other"},
               NEW window \in SUBSET TrendRow, NEW limit \in PageSize, AnswerOther(sort, window, limit)
        PROVE  PagesSound'
    <3> DEFINE page == PageOf("trends", sort, window, limit, {})
    <3>1. page \in PagingPage
          /\ (page.inOrder => Covers("trends", page.rows, page.next, page.changed))
      BY <1>1, FreshPage
    <3>2. firstPages' \subseteq firstPages \cup {page}
      BY <2>1 DEF AnswerOther
    <3> HIDE DEF page
    <3> QED
      BY <1>1, <3>1, <3>2, PagesGain
  <2>2. ASSUME NEW p \in firstPages, ForgetFirstPage(p) PROVE PagesSound'
    <3>1. firstPages' \subseteq firstPages
      BY <2>2 DEF ForgetFirstPage
    <3> QED
      BY <1>1, <3>1, PagesKept
  <2> QED
    BY <2>1, <2>2
<1>3. PagingTypeOK'
  BY <1>1, <1>2, PagingTyped, PagingTypedNext DEF PagesSound
<1>4. StableRowsPagedOnce'
  BY <1>1 DEF PagingInv, StableRowsPagedOnce, Covers, Listed, Beyond
<1> QED
  BY <1>1, <1>2, <1>3, <1>4 DEF PagingInv

\* A write to a row says nothing of the others.
LEMMA WriteStep ==
    ASSUME PagingInv, NEW g \in TrendRow, Write(g),
           rank' \in [Column -> [TrendRow -> TrendScore \cup {0}]], hidden' \subseteq TrendRow,
           groupOf' \in [ArticleRow -> TrendRow \cup {0}],
           \A h \in TrendRow \ {g} : \A c \in Column : rank'[c][h] = rank[c][h],
           \A h \in TrendRow \ {g} : h \in hidden' <=> h \in hidden
    PROVE  PagingInv'
<1>1. /\ rescores < MaxRescores /\ rescores' = rescores + 1 /\ changed' = changed \cup {g}
      /\ firstPages' = {[p EXCEPT !.changed = @ \cup {g}] : p \in firstPages}
      /\ paging' = paging /\ shown' = shown /\ repeated' = repeated
  BY DEF Write
<1>2. ASSUME NEW q \in firstPages'
      PROVE  /\ q \in PagingPage
             /\ q.inOrder => Covers("trends", q.rows, q.next, q.changed)'
  <2>1. PICK p \in firstPages : q = [p EXCEPT !.changed = @ \cup {g}]
    BY <1>1
  <2>2. p \in PagingPage /\ (p.inOrder => Covers("trends", p.rows, p.next, p.changed))
    BY DEF PagingInv, PagesSound
  <2>3. /\ q.rows = p.rows /\ q.next = p.next /\ q.inOrder = p.inOrder
        /\ q.changed = p.changed \cup {g} /\ q \in PagingPage
    BY <2>1, <2>2 DEF PagingPage
  <2>4. ASSUME q.inOrder, NEW h \in TrendRow \ q.changed
        PROVE  h \in q.rows <=> Listed("trends", h)' /\ (q.next = {} \/ ~Beyond("trends", q.next, h)')
    <3>1. rank'["score"][h] = rank["score"][h] /\ (h \in hidden' <=> h \in hidden)
      BY <2>3, <2>4 DEF Column
    <3>2. h \in q.rows <=> Listed("trends", h) /\ (q.next = {} \/ ~Beyond("trends", q.next, h))
      BY <2>2, <2>3, <2>4 DEF Covers
    <3> QED
      BY <3>1, <3>2 DEF Listed, Beyond, ScoreOf
  <2> QED
    BY <2>3, <2>4 DEF Covers
<1>3. PagesSound'
  BY <1>2 DEF PagesSound
<1>4. PagingTypeOK'
  <2>1. rescores' \in 0 .. MaxRescores
    BY <1>1, PagingTyped, FeedPagingAssumption DEF PagingInv
  <2>2. paging \in PagingClient /\ shown \subseteq TrendRow /\ repeated \subseteq TrendRow
        /\ changed \subseteq TrendRow
    BY PagingTyped DEF PagingInv
  <2> QED
    BY <1>1, <1>3, <2>1, <2>2, PagingTypedNext DEF PagesSound
<1>5. StableRowsPagedOnce'
  <2> SUFFICES ASSUME paging.list \in {"trends", "early"}, paging.inOrder,
                      paging.cursor # {} \/ paging.at = "end"
               PROVE  repeated' \subseteq changed' /\ Covers(paging.list, shown, paging.cursor, changed)'
    BY <1>1 DEF StableRowsPagedOnce
  <2>1. repeated \subseteq changed /\ Covers(paging.list, shown, paging.cursor, changed)
    BY DEF PagingInv, StableRowsPagedOnce
  <2>2. ASSUME NEW h \in TrendRow \ (changed \cup {g})
        PROVE  h \in shown <=> Listed(paging.list, h)'
                                  /\ (paging.cursor = {} \/ ~Beyond(paging.list, paging.cursor, h)')
    <3>1. rank'[ScoreOf(paging.list)][h] = rank[ScoreOf(paging.list)][h]
          /\ (h \in hidden' <=> h \in hidden)
      BY DEF ScoreOf, Column
    <3>2. h \in shown <=> Listed(paging.list, h)
                             /\ (paging.cursor = {} \/ ~Beyond(paging.list, paging.cursor, h))
      BY <2>1 DEF Covers
    <3> QED
      BY <1>1, <3>1, <3>2 DEF Listed, Beyond, ScoreOf
  <2> QED
    BY <1>1, <2>1, <2>2 DEF Covers
<1> QED
  BY <1>1, <1>3, <1>4, <1>5 DEF PagingInv

\* The columns of a row are set.
LEMMA RescoreStep ==
    ASSUME PagingInv, NEW g \in TrendRow, NEW to \in [Column -> TrendScore \cup {0}],
           Rescore(g, to)
    PROVE  PagingInv'
<1>1. rank \in [Column -> [TrendRow -> TrendScore \cup {0}]] /\ hidden \subseteq TrendRow
      /\ groupOf \in [ArticleRow -> TrendRow \cup {0}]
  BY PagingTyped DEF PagingInv
<1>2. /\ rank' = [c \in Column |-> [rank[c] EXCEPT ![g] = to[c]]]
      /\ UNCHANGED <<hidden, groupOf>> /\ Write(g)
  BY DEF Rescore
<1>3. rank' \in [Column -> [TrendRow -> TrendScore \cup {0}]]
  BY <1>1, <1>2
<1>4. \A h \in TrendRow \ {g} : \A c \in Column : rank'[c][h] = rank[c][h]
  BY <1>1, <1>2
<1> QED
  BY <1>1, <1>2, <1>3, <1>4, WriteStep

\* A row is hidden, or gets an article: the columns stay.
LEMMA OtherWrites ==
    ASSUME PagingInv, NEW g \in TrendRow,
           HideTrend(g) \/ \E a \in ArticleRow : JoinGroup(a, g)
    PROVE  PagingInv'
<1>1. rank \in [Column -> [TrendRow -> TrendScore \cup {0}]] /\ hidden \subseteq TrendRow
      /\ groupOf \in [ArticleRow -> TrendRow \cup {0}]
  BY PagingTyped DEF PagingInv
<1>2. CASE HideTrend(g)
  <2>1. rank' = rank /\ groupOf' = groupOf /\ hidden' = hidden \cup {g} /\ Write(g)
    BY <1>2 DEF HideTrend
  <2> QED
    BY <1>1, <2>1, WriteStep
<1>3. ASSUME NEW a \in ArticleRow, JoinGroup(a, g) PROVE PagingInv'
  <2>1. rank' = rank /\ hidden' = hidden /\ groupOf' = [groupOf EXCEPT ![a] = g] /\ Write(g)
    BY <1>3 DEF JoinGroup
  <2>2. groupOf' \in [ArticleRow -> TrendRow \cup {0}]
    BY <1>1, <2>1
  <2> QED
    BY <1>1, <2>1, <2>2, WriteStep
<1> QED
  BY <1>2, <1>3

\* A list is opened anew.
LEMMA OpenListStep ==
    ASSUME PagingInv, NEW list \in {"trends", "early", "news"},
           NEW sort \in {"default", "score", "other"}, OpenList(list, sort)
    PROVE  PagingInv'
<1> DEFINE new == [list |-> list, sort |-> sort, cursor |-> {}, inOrder |-> TRUE, at |-> "page"]
<1>1. /\ paging' = new /\ shown' = {} /\ repeated' = {} /\ changed' = {}
      /\ UNCHANGED <<rank, hidden, groupOf, rescores, firstPages>>
  BY DEF OpenList
<1>2. new.cursor = {} /\ new.at = "page" /\ new \in PagingClient
  BY DEF PagingClient
<1> HIDE DEF new
<1>3. PagesSound'
  BY <1>1, PagesKept
<1>4. PagingTypeOK'
  BY <1>1, <1>2, PagingTyped, PagingTypedNext DEF PagingInv
<1>5. StableRowsPagedOnce'
  BY <1>1, <1>2 DEF StableRowsPagedOnce
<1> QED
  BY <1>1, <1>2, <1>3, <1>4, <1>5 DEF PagingInv

\* No step breaks the invariant.
LEMMA PagingStep == PagingInv /\ [NextPaging]_pagingVars => PagingInv'
<1> SUFFICES ASSUME PagingInv, [NextPaging]_pagingVars PROVE PagingInv'
  OBVIOUS
<1>1. ASSUME NEW g \in TrendRow, NEW to \in Scored, Rescore(g, to) PROVE PagingInv'
  <2>1. to \in [Column -> TrendScore \cup {0}]
    BY FeedPagingAssumption DEF Column
  <2> QED
    BY <1>1, <2>1, RescoreStep
<1>2. ASSUME NEW g \in TrendRow, NEW s \in TrendScore, UpdateEarlyTrend(g, s)
      PROVE  PagingInv'
  <2> DEFINE to == [score |-> rank["score"][g], other |-> rank["other"][g], early |-> s]
  <2>1. rank \in [Column -> [TrendRow -> TrendScore \cup {0}]]
    BY PagingTyped DEF PagingInv
  <2>2. rank["score"][g] \in TrendScore \cup {0} /\ rank["other"][g] \in TrendScore \cup {0}
    BY <2>1 DEF Column
  <2>3. to \in [Column -> TrendScore \cup {0}]
    BY <2>2 DEF Column
  <2>4. Rescore(g, to)
    BY <1>2 DEF UpdateEarlyTrend
  <2> HIDE DEF to
  <2> QED
    BY <2>3, <2>4, RescoreStep
<1>3. ASSUME NEW g \in TrendRow, HideTrend(g) PROVE PagingInv'
  BY <1>3, OtherWrites
<1>4. ASSUME NEW g \in TrendRow, NEW a \in ArticleRow, JoinGroup(a, g) PROVE PagingInv'
  BY <1>4, OtherWrites
<1>5. ASSUME NEW list \in {"trends", "early", "news"}, NEW sort \in {"default", "score", "other"},
             OpenList(list, sort)
      PROVE  PagingInv'
  BY <1>5, OpenListStep
<1>6. ASSUME NEW limit \in PageSize, NEW sort \in {"default", "score", "other"},
             NEW window \in {TrendRow, Recent}, AnswerOther(sort, window, limit)
      PROVE  PagingInv'
  <2>1. window \in SUBSET TrendRow
    BY FeedPagingAssumption
  <2> QED
    BY <1>6, <2>1, FirstPageStep
<1>7. ASSUME NEW limit \in PageSize, ShowTrends(limit) PROVE PagingInv'
  BY <1>7, ShowTrendsStep
<1>8. ASSUME NEW limit \in PageSize, ShowEarly(limit) \/ ShowEarlyPro(limit) PROVE PagingInv'
  BY <1>8, ShowEarlyStep DEF ShowEarly, ShowEarlyPro
<1>9. ASSUME NEW limit \in PageSize, ShowNews(limit) PROVE PagingInv'
  BY <1>9, ShowNewsStep
<1>10. ASSUME NEW p \in firstPages, ForgetFirstPage(p) PROVE PagingInv'
  BY <1>10, FirstPageStep
<1>11. ASSUME UNCHANGED pagingVars PROVE PagingInv'
  <2>1. /\ UNCHANGED <<rank, hidden, groupOf, rescores, paging, shown, repeated, changed>>
        /\ UNCHANGED firstPages
    BY <1>11 DEF pagingVars
  <2>2. PagesSound'
    BY <2>1, PagesKept
  <2>3. PagingTypeOK'
    BY <2>1, PagingTyped, PagingTypedNext DEF PagingInv
  <2>4. StableRowsPagedOnce'
    BY <2>1 DEF PagingInv, StableRowsPagedOnce, Covers, Listed, Beyond
  <2> QED
    BY <2>1, <2>2, <2>3, <2>4 DEF PagingInv
<1> QED
  BY <1>1, <1>2, <1>3, <1>4, <1>5, <1>6, <1>7, <1>8, <1>9, <1>10, <1>11 DEF NextPaging

\* The columns, the pages, the cursors and what is shown keep their types, for any limits.
THEOREM PagingTypes == SpecPaging => []PagingTypeOK
<1>1. PagingInv => PagingTypeOK
  BY DEF PagingInv
<1> QED
  BY <1>1, PagingInit, PagingStep, PTL DEF SpecPaging

\* A reader who follows the cursors of /trends or /trends/early by score to the end is shown
\* every row whose columns nobody wrote since the first page was read from the database, by
\* this request or by the one whose copy it was shown, and none of them twice: the cursor's
\* comparison and the ORDER BY are the same order, and a page ends where the next one begins.
THEOREM StableRowsPaged == SpecPaging => []StableRowsPagedOnce
<1>1. PagingInv => StableRowsPagedOnce
  BY DEF PagingInv
<1> QED
  BY <1>1, PagingInit, PagingStep, PTL DEF SpecPaging

(***************************************************************************)
(* Clustering.                                                             *)
(***************************************************************************)

\* A neighbour of a connected set joins it.
LEMMA ConnectedGrows ==
    ASSUME NEW S, NEW L, Connected(S, L), NEW j, NEW m \in S, {m, j} \in L
    PROVE  Connected(S \cup {j}, L)
<1> SUFFICES ASSUME NEW T \in SUBSET (S \cup {j}), T # {}, T # S \cup {j}
             PROVE  \E i \in T, k \in (S \cup {j}) \ T : {i, k} \in L
  BY DEF Connected
<1>1. CASE T \cap S = {}
  <2>1. T = {j} /\ m \notin T /\ {j, m} = {m, j}
    BY <1>1
  <2> QED
    BY <2>1
<1>2. CASE T \cap S = S
  <2>1. j \notin T /\ m \in T
    BY <1>2
  <2> QED
    BY <2>1
<1>3. CASE T \cap S # {} /\ T \cap S # S
  <2>1. T \cap S \in (SUBSET S) \ {{}, S}
    BY <1>3
  <2>2. PICK i \in T \cap S, k \in S \ (T \cap S) : {i, k} \in L
    BY <2>1 DEF Connected
  <2> QED
    BY <2>2
<1> QED
  BY <1>1, <1>2, <1>3

\* What one pass has taken after group j.
TakenTo(T, L, i, free, j) ==
    /\ T \subseteq MetaGroup /\ i \in T /\ T \subseteq {i} \cup free /\ T \subseteq i .. j
    /\ Connected(T, L)
    /\ \A m \in T, k \in free : m < k /\ k <= j /\ {m, k} \in L => k \in T

\* The pass over the groups takes all later neighbours.
LEMMA GatheredTaken ==
    ASSUME NEW L, NEW i \in MetaGroup, NEW free \in SUBSET MetaGroup
    PROVE  TakenTo(Gathered(L, i, free), L, i, free, MetaLength)
<1> DEFINE N == MetaLength
           X == SUBSET MetaGroup
           add(S, j) == IF j \in free /\ \E m \in S : {m, j} \in L THEN S \cup {j} ELSE S
           step == [p \in X \X (i .. N) |-> add(p[1], p[2])]
           taken == CHOOSE t : t = [j \in i .. N |->
                        IF j = i THEN {i}
                        ELSE LET S == t[j - 1]
                             IN IF j \in free /\ \E m \in S : {m, j} \in L THEN S \cup {j} ELSE S]
<1>1. N \in Nat /\ i \in Nat /\ 1 <= i /\ i <= N /\ MetaGroup = 1 .. N
  BY ClusteringAssumption DEF MetaGroup
<1>2. i .. N \subseteq MetaGroup
  BY <1>1
<1>3. step \in [X \X (i .. N) -> X]
  BY <1>2
<1>4. PICK g \in [i .. N -> X] :
          \A j \in i .. N : g[j] = IF j = i THEN {i} ELSE step[<<g[j - 1], j>>]
  <2> DEFINE base == {i}
  <2>1. base \in X /\ i \in Int /\ N \in Int
    BY <1>1
  <2> HIDE DEF step, X, base, taken, N
  <2>2. \E g \in [i .. N -> X] : Iterates(g, base, step, i, N)
    BY <1>3, <2>1, RecursionSolved
  <2> QED
    BY <2>2 DEF base, Iterates
<1>5. \A j \in i .. N : j # i => g[j - 1] \in X
  <2> SUFFICES ASSUME NEW j \in i .. N, j # i PROVE g[j - 1] \in X
    OBVIOUS
  <2>1. j - 1 \in i .. N
    BY <1>1
  <2> QED
    BY <2>1
<1>6. g = [j \in i .. N |->
              IF j = i THEN {i}
              ELSE LET S == g[j - 1]
                   IN IF j \in free /\ \E m \in S : {m, j} \in L THEN S \cup {j} ELSE S]
  <2>1. \A j \in i .. N : j # i => step[<<g[j - 1], j>>] = add(g[j - 1], j)
    BY <1>5
  <2> HIDE DEF step
  <2> QED
    BY <1>4, <2>1
<1>7. taken = [j \in i .. N |-> IF j = i THEN {i} ELSE add(taken[j - 1], j)]
  <2> HIDE DEF X, step
  <2> QED
    BY <1>6
<1>8. Gathered(L, i, free) = taken[N]
  BY DEF Gathered
<1> HIDE DEF taken, step, X
<1> DEFINE B == {n \in Nat : i + n <= N /\ ~TakenTo(taken[i + n], L, i, free, i + n)}
<1>9. ASSUME B # {} PROVE FALSE
  <2>1. PICK n \in B : \A k \in B : n <= k
    <3> HIDE DEF B
    <3>1. B \subseteq Nat
      BY DEF B
    <3> QED
      BY <1>9, <3>1, LeastNumber
  <2>2. n # 0
    <3>1. taken[i] = {i}
      BY <1>1, <1>7
    <3>2. TakenTo({i}, L, i, free, i)
      <4>1. Connected({i}, L)
        BY DEF Connected
      <4>2. {i} \subseteq i .. i /\ \A k \in free : k \in Int /\ ~(i < k /\ k <= i)
        BY <1>1
      <4> QED
        BY <4>1, <4>2 DEF TakenTo
    <3>3. i + 0 = i
      BY <1>1
    <3> QED
      BY <3>1, <3>2, <3>3
  <2> DEFINE j == i + n
             S == taken[j - 1]
  <2>3. /\ j \in i .. N /\ j # i /\ j - 1 = i + (n - 1) /\ n - 1 \in Nat /\ ~(n <= n - 1)
        /\ j - 1 >= i /\ j \in MetaGroup
    BY <1>1, <2>2
  <2>4. TakenTo(S, L, i, free, j - 1)
    <3>1. n - 1 \notin B
      BY <2>1, <2>3
    <3>2. i + (n - 1) <= N
      BY <1>1, <2>1, <2>2
    <3>3. TakenTo(taken[i + (n - 1)], L, i, free, i + (n - 1))
      BY <2>3, <3>1, <3>2
    <3> QED
      BY <2>3, <3>3
  <2>5. taken[j] = add(S, j)
    BY <1>7, <2>3 DEF j
  <2>6. /\ S \subseteq MetaGroup /\ i \in S /\ S \subseteq {i} \cup free /\ S \subseteq i .. j - 1
        /\ Connected(S, L)
        /\ \A m \in S, k \in free : m < k /\ k <= j - 1 /\ {m, k} \in L => k \in S
    BY <2>4 DEF TakenTo
  <2> HIDE DEF S, j
  <2>7. \A m \in S : m \in Nat /\ m < j /\ m \in i .. j
    BY <1>1, <2>3, <2>6
  <2>8. CASE j \in free /\ \E m \in S : {m, j} \in L
    <3>1. add(S, j) = S \cup {j}
      BY <2>8
    <3>2. Connected(S \cup {j}, L)
      BY <2>6, <2>8, ConnectedGrows
    <3>3. \A m \in S \cup {j}, k \in free : m < k /\ k <= j /\ {m, k} \in L => k \in S \cup {j}
      <4> SUFFICES ASSUME NEW m \in S \cup {j}, NEW k \in free, m < k, k <= j, {m, k} \in L, k # j
                   PROVE  k \in S
        OBVIOUS
      <4>1. k \in Int /\ m \in S
        BY <1>1, <2>3, <2>7
      <4> QED
        BY <2>3, <2>6, <4>1
    <3>4. TakenTo(S \cup {j}, L, i, free, j)
      BY <2>3, <2>6, <2>7, <2>8, <3>2, <3>3 DEF TakenTo
    <3> QED
      BY <2>1, <2>5, <3>1, <3>4 DEF j
  <2>9. CASE ~(j \in free /\ \E m \in S : {m, j} \in L)
    <3>1. add(S, j) = S
      BY <2>9
    <3>2. \A m \in S, k \in free : m < k /\ k <= j /\ {m, k} \in L => k \in S
      <4> SUFFICES ASSUME NEW m \in S, NEW k \in free, m < k, k <= j, {m, k} \in L
                   PROVE  k \in S
        OBVIOUS
      <4>1. k # j
        BY <2>9
      <4> QED
        BY <2>3, <2>6, <4>1
    <3>3. TakenTo(S, L, i, free, j)
      BY <2>3, <2>6, <2>7, <3>2 DEF TakenTo
    <3> QED
      BY <2>1, <2>5, <3>1, <3>3 DEF j
  <2> QED
    BY <2>8, <2>9
<1>10. N - i \in Nat /\ i + (N - i) = N
  BY <1>1
<1>11. N - i \notin B
  BY <1>9
<1>12. TakenTo(taken[N], L, i, free, N)
  <2>1. TakenTo(taken[i + (N - i)], L, i, free, i + (N - i))
    BY <1>1, <1>10, <1>11
  <2> QED
    BY <1>10, <2>1
<1> QED
  BY <1>8, <1>12 DEF N

\* The clusters after group i: they have every group up to i, no group is in two, each
\* is linked, and what is linked to a member and comes after it was taken before.
DividedTo(C, L, i) ==
    /\ C \subseteq SUBSET MetaGroup /\ 1 .. i \subseteq UNION C
    /\ \A S \in C : S # {} /\ Min(S) <= i /\ Connected(S, L)
    /\ \A S, T \in C : S # T => S \cap T = {}
    /\ \A S \in C : \A m \in S, j \in MetaGroup \ UNION C : {m, j} \in L => j < m
    /\ \A S, T \in C : Min(S) < Min(T) => \A m \in S, j \in T : {m, j} \in L => j < m

\* One group more is placed.
LEMMA DividedFurther ==
    ASSUME NEW L, NEW C, NEW i \in MetaGroup, DividedTo(C, L, i - 1)
    PROVE  /\ i \in UNION C => DividedTo(C, L, i)
           /\ i \notin UNION C => DividedTo(C \cup {Gathered(L, i, MetaGroup \ UNION C)}, L, i)
<1>1. MetaLength \in Nat /\ i \in Nat /\ 1 <= i /\ i <= MetaLength /\ MetaGroup = 1 .. MetaLength
  BY ClusteringAssumption DEF MetaGroup
<1>2. \A S \in C : S \subseteq MetaGroup /\ S # {} /\ Min(S) \in Nat /\ Min(S) <= i - 1
  <2> SUFFICES ASSUME NEW S \in C
               PROVE  S \subseteq MetaGroup /\ S # {} /\ Min(S) \in Nat /\ Min(S) <= i - 1
    OBVIOUS
  <2>1. S \subseteq MetaGroup /\ S # {} /\ Min(S) <= i - 1
    BY DEF DividedTo
  <2>2. S \subseteq Nat
    BY <1>1, <2>1
  <2> QED
    BY <2>1, <2>2, MinIsLeast
<1>3. CASE i \in UNION C
  <2>1. 1 .. i \subseteq UNION C
    <3>1. \A j \in 1 .. i : j = i \/ j \in 1 .. i - 1
      BY <1>1
    <3> QED
      BY <1>3, <3>1 DEF DividedTo
  <2>2. \A S \in C : Min(S) <= i
    BY <1>1, <1>2
  <2>3. DividedTo(C, L, i)
    BY <2>1, <2>2 DEF DividedTo
  <2> QED
    BY <1>3, <2>3
<1>4. CASE i \notin UNION C
  <2> DEFINE free == MetaGroup \ UNION C
             G == Gathered(L, i, free)
             D == C \cup {G}
  <2>1. /\ G \subseteq MetaGroup /\ i \in G /\ G \subseteq {i} \cup free
        /\ G \subseteq i .. MetaLength
        /\ Connected(G, L)
        /\ \A m \in G, k \in free : m < k /\ k <= MetaLength /\ {m, k} \in L => k \in G
    <3>1. free \in SUBSET MetaGroup
      OBVIOUS
    <3> HIDE DEF free
    <3>2. TakenTo(G, L, i, free, MetaLength)
      BY <3>1, GatheredTaken
    <3> QED
      BY <3>2 DEF TakenTo
  <2>2. G \subseteq free
    BY <1>4, <2>1
  <2> HIDE DEF G
  <2>3. Min(G) = i
    <3>1. G \subseteq Nat /\ G # {}
      BY <1>1, <2>1
    <3>2. Min(G) \in G /\ \A k \in G : Min(G) <= k
      BY <3>1, MinIsLeast
    <3>3. Min(G) \in i .. MetaLength /\ Min(G) <= i
      BY <2>1, <3>2
    <3> QED
      BY <1>1, <3>3
  <2>4. D \subseteq SUBSET MetaGroup /\ 1 .. i \subseteq UNION D
    <3>1. \A j \in 1 .. i : j = i \/ j \in 1 .. i - 1
      BY <1>1
    <3> QED
      BY <2>1, <3>1 DEF DividedTo
  <2>5. \A S \in D : S # {} /\ Min(S) <= i /\ Connected(S, L)
    <3>1. \A S \in C : Min(S) <= i
      BY <1>1, <1>2
    <3> QED
      BY <1>1, <2>1, <2>3, <3>1 DEF DividedTo
  <2>6. \A S, T \in D : S # T => S \cap T = {}
    <3>1. \A S \in C : S \cap G = {}
      BY <2>2
    <3> QED
      BY <3>1 DEF DividedTo
  <2>7. \A S \in D : \A m \in S, j \in MetaGroup \ UNION D : {m, j} \in L => j < m
    <3> SUFFICES ASSUME NEW S \in D, NEW m \in S, NEW j \in MetaGroup \ UNION D, {m, j} \in L
                 PROVE  j < m
      OBVIOUS
    <3>1. CASE S \in C
      BY <3>1 DEF DividedTo
    <3>2. CASE S = G
      <4>1. j \in free /\ j \notin G /\ m \in G /\ m \in Nat /\ j \in Nat /\ j <= MetaLength
        BY <1>1, <2>1, <3>2
      <4>2. ~(m < j)
        BY <2>1, <4>1
      <4>3. m # j
        BY <4>1
      <4> QED
        BY <4>1, <4>2, <4>3
    <3> QED
      BY <3>1, <3>2
  <2>8. \A S, T \in D : Min(S) < Min(T) => \A m \in S, j \in T : {m, j} \in L => j < m
    <3> SUFFICES ASSUME NEW S \in D, NEW T \in D, Min(S) < Min(T),
                        NEW m \in S, NEW j \in T, {m, j} \in L
                 PROVE  j < m
      OBVIOUS
    <3>1. CASE S \in C /\ T \in C
      BY <3>1 DEF DividedTo
    <3>2. CASE S \in C /\ T = G
      <4>1. j \in MetaGroup \ UNION C
        BY <2>2, <3>2
      <4> QED
        BY <3>2, <4>1 DEF DividedTo
    <3>3. CASE S = G
      <4>1. Min(S) = i
        BY <2>3, <3>3
      <4>2. Min(T) <= i /\ Min(T) \in Nat
        BY <1>1, <1>2, <2>3
      <4> QED
        BY <1>1, <4>1, <4>2
    <3> QED
      BY <3>1, <3>2, <3>3
  <2>9. DividedTo(D, L, i)
    BY <2>4, <2>5, <2>6, <2>7, <2>8 DEF DividedTo
  <2> QED
    BY <1>4, <2>9 DEF G
<1> QED
  BY <1>3, <1>4

\* The clusters of one category divide its groups.
LEMMA GroupsDivided ==
    ASSUME NEW L
    PROVE  DividedTo(ClusterGroupsByKeywords(L), L, MetaLength)
<1> DEFINE N == MetaLength
           X == SUBSET (SUBSET MetaGroup)
           add(C, i) == IF i \in UNION C THEN C ELSE C \cup {Gathered(L, i, MetaGroup \ UNION C)}
           step == [p \in X \X (0 .. N) |-> IF p[2] = 0 THEN {} ELSE add(p[1], p[2])]
           base == {}
           after == CHOOSE t : t = [i \in 0 .. N |->
                        IF i = 0 THEN {}
                        ELSE LET C == t[i - 1]
                             IN IF i \in UNION C THEN C
                                ELSE C \cup {Gathered(L, i, MetaGroup \ UNION C)}]
<1>1. N \in Nat /\ N \in Int /\ 0 \in Int /\ MetaGroup = 1 .. N /\ base \in X
  BY ClusteringAssumption DEF MetaGroup
<1>2. step \in [X \X (0 .. N) -> X]
  <2> SUFFICES ASSUME NEW C \in X, NEW i \in 0 .. N, i # 0
               PROVE  add(C, i) \in X
    BY <1>1
  <2>1. i \in MetaGroup /\ MetaGroup \ UNION C \in SUBSET MetaGroup
    BY <1>1
  <2> DEFINE free == MetaGroup \ UNION C
  <2>2. Gathered(L, i, free) \in SUBSET MetaGroup
    <3> HIDE DEF free, after
    <3>1. TakenTo(Gathered(L, i, free), L, i, free, MetaLength)
      BY <2>1, GatheredTaken DEF free
    <3> QED
      BY <3>1 DEF TakenTo
  <2> QED
    BY <2>2
<1>3. PICK g \in [0 .. N -> X] : Iterates(g, base, step, 0, N)
  <2> HIDE DEF step, X, base, after, N
  <2> QED
    BY <1>1, <1>2, RecursionSolved
<1>4. \A i \in 0 .. N : i # 0 => i - 1 \in 0 .. N /\ g[i - 1] \in X
  <2> SUFFICES ASSUME NEW i \in 0 .. N, i # 0 PROVE i - 1 \in 0 .. N /\ g[i - 1] \in X
    OBVIOUS
  <2>1. i - 1 \in 0 .. N
    BY <1>1
  <2> QED
    BY <2>1
<1>5. g = [i \in 0 .. N |-> IF i = 0 THEN {} ELSE add(g[i - 1], i)]
  <2>1. \A i \in 0 .. N : i # 0 => step[<<g[i - 1], i>>] = add(g[i - 1], i)
    BY <1>4
  <2>2. \A i \in 0 .. N : g[i] = IF i = 0 THEN {} ELSE step[<<g[i - 1], i>>]
    BY <1>3 DEF Iterates
  <2> HIDE DEF step, add
  <2>3. \A i \in 0 .. N : g[i] = IF i = 0 THEN {} ELSE add(g[i - 1], i)
    BY <2>1, <2>2
  <2> QED
    BY <2>3
<1>6. after = [i \in 0 .. N |-> IF i = 0 THEN {} ELSE add(after[i - 1], i)]
  <2> HIDE DEF X, step
  <2> QED
    BY <1>5
<1>7. ClusterGroupsByKeywords(L) = after[N]
  BY DEF ClusterGroupsByKeywords
<1> HIDE DEF after, step, X, base, N
<1> DEFINE B == {i \in Nat : i <= N /\ ~DividedTo(after[i], L, i)}
<1>8. ASSUME B # {} PROVE FALSE
  <2>1. PICK i \in B : \A k \in B : i <= k
    <3> HIDE DEF B
    <3>1. B \subseteq Nat
      BY DEF B
    <3> QED
      BY <1>8, <3>1, LeastNumber
  <2>2. i # 0
    <3>1. after[0] = {}
      BY <1>1, <1>6
    <3>2. DividedTo({}, L, 0)
      BY DEF DividedTo
    <3> QED
      BY <3>1, <3>2
  <2>3. i - 1 \in Nat /\ i - 1 <= N /\ ~(i <= i - 1) /\ i \in 0 .. N /\ i \in MetaGroup
    BY <1>1, <2>2
  <2>4. DividedTo(after[i - 1], L, i - 1)
    BY <2>1, <2>3
  <2>5. after[i] = add(after[i - 1], i)
    BY <1>6, <2>2, <2>3
  <2>6. DividedTo(add(after[i - 1], i), L, i)
    <3> DEFINE C == after[i - 1]
    <3> HIDE DEF C
    <3>1. /\ i \in UNION C => DividedTo(C, L, i)
          /\ i \notin UNION C => DividedTo(C \cup {Gathered(L, i, MetaGroup \ UNION C)}, L, i)
      BY <2>3, <2>4, DividedFurther DEF C
    <3> QED
      BY <3>1 DEF C
  <2> HIDE DEF add
  <2> QED
    BY <2>5, <2>6
<1>9. DividedTo(after[N], L, N)
  BY <1>1, <1>8
<1> QED
  BY <1>7, <1>9 DEF N

\* For whatever links: the meta trends come from linked sets that divide the groups, and
\* one of two linked groups of different sets is passed over only before the other is taken.
LEMMA MetaTrendsSound ==
    ASSUME NEW L
    PROVE  LET C == ClusterGroupsByKeywords(L)
           IN /\ UNION C = MetaGroup /\ \A S \in C : Connected(S, L)
              /\ \A S, T \in C : Min(S) < Min(T) =>
                    \A m \in S, j \in T : j \notin S /\ ({m, j} \in L => j < m)
<1> DEFINE C == ClusterGroupsByKeywords(L)
<1>1. DividedTo(C, L, MetaLength)
  BY GroupsDivided
<1> HIDE DEF C
<1>2. UNION C = MetaGroup
  BY <1>1 DEF DividedTo, MetaGroup
<1>3. \A S \in C : S \subseteq Nat /\ S # {} /\ Min(S) \in Nat
  <2> SUFFICES ASSUME NEW S \in C PROVE S \subseteq Nat /\ S # {} /\ Min(S) \in Nat
    OBVIOUS
  <2>1. S \subseteq MetaGroup /\ S # {}
    BY <1>1 DEF DividedTo
  <2>2. S \subseteq Nat
    BY <2>1, ClusteringAssumption DEF MetaGroup
  <2> QED
    BY <2>1, <2>2, MinIsLeast
<1>4. \A S, T \in C : Min(S) < Min(T) => S # T
  BY <1>3
<1>5. \A S, T \in C : Min(S) < Min(T) =>
          \A m \in S, j \in T : j \notin S /\ ({m, j} \in L => j < m)
  BY <1>1, <1>4 DEF DividedTo
<1>6. \A S \in C : Connected(S, L)
  BY <1>1 DEF DividedTo
<1> QED
  BY <1>2, <1>5, <1>6 DEF C

Cluster == [rep : Article, members : SUBSET Article]

\* C puts each article of S, and no other, in one cluster.
Divides(C, S) ==
    /\ C \subseteq Cluster /\ UNION {All(d) : d \in C} = S
    /\ \A d, e \in C : All(d) \cap All(e) # {} => d = e

\* Numbers of articles.
LEMMA ClusterArticles ==
    ASSUME NEW d \in Cluster
    PROVE  /\ d.rep \in All(d) /\ All(d) \in SUBSET Article /\ IsFiniteSet(All(d))
           /\ All(d) \subseteq Nat /\ Article \subseteq Nat
<1>1. d.rep \in All(d) /\ All(d) \in SUBSET Article
  BY DEF Cluster, All
<1>2. IsFiniteSet(Article) /\ Article \subseteq Nat
  BY ClusteringAssumption, FS_Interval DEF Article
<1> QED
  BY <1>1, <1>2, FS_Subset

\* An article that joins a cluster, or is one of its own.
LEMMA JoinedDivides ==
    ASSUME NEW sim \in [Pair(Article) -> Level], NEW C, NEW i \in Article, Divides(C, 1 .. i - 1)
    PROVE  Divides(Joined(C, sim, i), 1 .. i)
<1> DEFINE best == Closest(C, sim, i)
           new == [rep |-> i, members |-> {}]
<1>1. /\ i \in Nat /\ 1 <= i /\ C \subseteq Cluster
      /\ 1 .. i = (1 .. i - 1) \cup {i} /\ i \notin 1 .. i - 1
  BY ClusteringAssumption DEF Article, Divides
<1>2. \A d \in C : i \notin All(d)
  BY <1>1 DEF Divides
<1>3. CASE best = {}
  <2>1. Joined(C, sim, i) = C \cup {new}
    BY <1>3 DEF Joined
  <2>2. new \in Cluster /\ All(new) = {i}
    BY DEF Cluster, All
  <2> HIDE DEF new
  <2>3. UNION {All(d) : d \in C \cup {new}} = 1 .. i
    BY <1>1, <2>2 DEF Divides
  <2>4. \A d, e \in C \cup {new} : All(d) \cap All(e) # {} => d = e
    BY <1>2, <2>2 DEF Divides
  <2>5. C \cup {new} \subseteq Cluster
    BY <1>1, <2>2
  <2> QED
    BY <2>1, <2>3, <2>4, <2>5 DEF Divides
<1>4. CASE best # {}
  <2>1. PICK d \in best : TRUE
    BY <1>4
  <2>2. d \in C /\ \A e \in C : \/ sim[{i, e.rep}] < sim[{i, d.rep}]
                                \/ sim[{i, e.rep}] = sim[{i, d.rep}] /\ d.rep <= e.rep
    BY DEF Closest
  <2>3. best = {d}
    <3> SUFFICES ASSUME NEW e \in best PROVE e = d
      BY <2>1
    <3>1. e \in C /\ \A x \in C : \/ sim[{i, x.rep}] < sim[{i, e.rep}]
                                  \/ sim[{i, x.rep}] = sim[{i, e.rep}] /\ e.rep <= x.rep
      BY DEF Closest
    <3>2. /\ d.rep \in All(d) /\ e.rep \in All(e) /\ d.rep \in Nat /\ e.rep \in Nat
          /\ d.rep \in Article /\ e.rep \in Article
      BY <1>1, <2>2, <3>1, ClusterArticles
    <3>3. sim[{i, d.rep}] \in Nat /\ sim[{i, e.rep}] \in Nat
      <4>1. ASSUME NEW j \in Article, j # i PROVE sim[{i, j}] \in Nat
        <5>1. IsFiniteSet({i}) /\ Cardinality({i}) = 1 /\ {i, j} = {i} \cup {j} /\ j \notin {i}
          BY <4>1, FS_Singleton
        <5>2. Cardinality({i, j}) = 2
          BY <5>1, FS_AddElement
        <5>3. {i, j} \in Pair(Article)
          BY <5>2 DEF Pair
        <5>4. sim[{i, j}] \in Level
          BY <5>3
        <5> QED
          BY <5>4, ClusteringAssumption
      <4>2. d.rep # i /\ e.rep # i
        BY <1>2, <2>2, <3>1, <3>2
      <4> QED
        BY <3>2, <4>1, <4>2
    <3>4. \/ sim[{i, e.rep}] < sim[{i, d.rep}]
          \/ sim[{i, e.rep}] = sim[{i, d.rep}] /\ d.rep <= e.rep
      BY <2>2, <3>1
    <3>5. \/ sim[{i, d.rep}] < sim[{i, e.rep}]
          \/ sim[{i, d.rep}] = sim[{i, e.rep}] /\ e.rep <= d.rep
      BY <2>2, <3>1
    <3>6. d.rep = e.rep
      BY <3>2, <3>3, <3>4, <3>5
    <3>7. All(d) \cap All(e) # {}
      BY <3>2, <3>6
    <3> QED
      BY <2>2, <3>1, <3>7 DEF Divides
  <2> DEFINE grown == [d EXCEPT !.members = @ \cup {i}]
             D == (C \ {d}) \cup {grown}
  <2>4. Joined(C, sim, i) = D
    <3>1. Joined(C, sim, i) = (C \ best) \cup {[e EXCEPT !.members = @ \cup {i}] : e \in best}
      BY <1>4 DEF Joined
    <3> QED
      BY <2>3, <3>1
  <2>5. grown \in Cluster /\ All(grown) = All(d) \cup {i}
    BY <1>1, <2>2 DEF Cluster, All
  <2> HIDE DEF grown
  <2>6. UNION {All(e) : e \in D} = 1 .. i
    <3>1. UNION {All(e) : e \in C} = 1 .. i - 1
      BY DEF Divides
    <3>2. \A x : (\E e \in D : x \in All(e)) <=> (\E e \in C : x \in All(e)) \/ x = i
      BY <2>2, <2>5
    <3> QED
      BY <1>1, <3>1, <3>2
  <2>7. \A e, f \in D : All(e) \cap All(f) # {} => e = f
    BY <1>2, <2>2, <2>5 DEF Divides
  <2>8. D \subseteq Cluster
    BY <1>1, <2>5
  <2> HIDE DEF D
  <2> QED
    BY <2>4, <2>6, <2>7, <2>8 DEF Divides
<1> QED
  BY <1>3, <1>4

\* cluster_greedy puts every article of the batch into exactly one cluster.
LEMMA GreedyDivides ==
    ASSUME NEW sim \in [Pair(Article) -> Level]
    PROVE  Divides(ClusterGreedy(sim), Article)
<1> DEFINE N == BatchLength
           X == SUBSET Cluster
           step == [p \in X \X (0 .. N) |-> IF p[2] = 0 THEN {} ELSE Joined(p[1], sim, p[2])]
           base == {}
           after == CHOOSE t : t = [i \in 0 .. N |->
                        IF i = 0 THEN {} ELSE Joined(t[i - 1], sim, i)]
<1>1. N \in Nat /\ N \in Int /\ 0 \in Int /\ Article = 1 .. N /\ base \in X
  BY ClusteringAssumption DEF Article
<1>2. step \in [X \X (0 .. N) -> X]
  <2> SUFFICES ASSUME NEW C \in X, NEW i \in 0 .. N, i # 0
               PROVE  Joined(C, sim, i) \in X
    BY <1>1
  <2>1. i \in Article
    BY <1>1
  <2>2. \A d \in C : [d EXCEPT !.members = @ \cup {i}] \in Cluster
    BY <2>1 DEF Cluster
  <2>3. [rep |-> i, members |-> {}] \in Cluster
    BY <2>1 DEF Cluster
  <2>4. Closest(C, sim, i) \subseteq C
    BY DEF Closest
  <2> QED
    BY <2>2, <2>3, <2>4 DEF Joined
<1>3. PICK g \in [0 .. N -> X] : Iterates(g, base, step, 0, N)
  <2> HIDE DEF step, X, base, after, N
  <2> QED
    BY <1>1, <1>2, RecursionSolved
<1>4. \A i \in 0 .. N : i # 0 => i - 1 \in 0 .. N /\ g[i - 1] \in X
  <2> SUFFICES ASSUME NEW i \in 0 .. N, i # 0 PROVE i - 1 \in 0 .. N /\ g[i - 1] \in X
    OBVIOUS
  <2>1. i - 1 \in 0 .. N
    BY <1>1
  <2> QED
    BY <2>1
<1>5. g = [i \in 0 .. N |-> IF i = 0 THEN {} ELSE Joined(g[i - 1], sim, i)]
  <2>1. \A i \in 0 .. N : i # 0 => step[<<g[i - 1], i>>] = Joined(g[i - 1], sim, i)
    BY <1>4
  <2>2. \A i \in 0 .. N : g[i] = IF i = 0 THEN {} ELSE step[<<g[i - 1], i>>]
    BY <1>3 DEF Iterates
  <2> HIDE DEF step
  <2>3. \A i \in 0 .. N : g[i] = IF i = 0 THEN {} ELSE Joined(g[i - 1], sim, i)
    BY <2>1, <2>2
  <2> QED
    BY <2>3
<1>6. after = [i \in 0 .. N |-> IF i = 0 THEN {} ELSE Joined(after[i - 1], sim, i)]
  <2> HIDE DEF X, step
  <2> QED
    BY <1>5
<1>7. ClusterGreedy(sim) = after[N]
  BY DEF ClusterGreedy
<1> HIDE DEF after, step, X, base, N
<1> DEFINE B == {i \in Nat : i <= N /\ ~Divides(after[i], 1 .. i)}
<1>8. ASSUME B # {} PROVE FALSE
  <2>1. PICK i \in B : \A k \in B : i <= k
    <3> HIDE DEF B
    <3>1. B \subseteq Nat
      BY DEF B
    <3> QED
      BY <1>8, <3>1, LeastNumber
  <2>2. i # 0
    <3>1. after[0] = {} /\ 1 .. 0 = {}
      BY <1>1, <1>6
    <3>2. Divides({}, {})
      BY DEF Divides
    <3> QED
      BY <3>1, <3>2
  <2>3. i - 1 \in Nat /\ i - 1 <= N /\ ~(i <= i - 1) /\ i \in 0 .. N /\ i \in Article
    BY <1>1, <2>2
  <2>4. Divides(after[i - 1], 1 .. i - 1)
    BY <2>1, <2>3
  <2>5. after[i] = Joined(after[i - 1], sim, i)
    BY <1>6, <2>2, <2>3
  <2>6. Divides(Joined(after[i - 1], sim, i), 1 .. i)
    <3> DEFINE C == after[i - 1]
    <3> HIDE DEF C
    <3>1. Divides(Joined(C, sim, i), 1 .. i)
      BY <2>3, <2>4, JoinedDivides DEF C
    <3> QED
      BY <3>1 DEF C
  <2> QED
    BY <2>5, <2>6
<1>9. Divides(after[N], 1 .. N)
  BY <1>1, <1>8
<1> QED
  BY <1>1, <1>7, <1>9

\* A representative is one of the articles it stands for.
LEMMA RepresentativeOf ==
    ASSUME NEW near \in [Article -> Level], NEW S \in SUBSET Article, S # {}
    PROVE  PickRepresentative(S, near) \in S
<1> DEFINE best == {i \in S : \A j \in S : near[j] <= near[i]}
<1>1. IsFiniteSet(S) /\ S \subseteq Nat
  <2>1. IsFiniteSet(Article) /\ Article \subseteq Nat
    BY ClusteringAssumption, FS_Interval DEF Article
  <2> QED
    BY <2>1, FS_Subset
<1>2. \A i \in S : near[i] \in Int
  <2> SUFFICES ASSUME NEW i \in S PROVE near[i] \in Int
    OBVIOUS
  <2>1. near[i] \in Level
    OBVIOUS
  <2>2. \A x \in Level : x \in Int
    BY ClusteringAssumption
  <2> QED
    BY <2>1, <2>2
<1>3. \E m \in S : \A x \in S : near[x] <= near[m]
  BY <1>1, <1>2, LargestValue
<1>4. best # {} /\ best \subseteq S /\ best \subseteq Nat
  BY <1>1, <1>3
<1> HIDE DEF best
<1>5. Min(best) \in best
  BY <1>4, MinIsLeast
<1> QED
  BY <1>4, <1>5 DEF PickRepresentative, best

\* Dense sets and single articles divide what they cover.
LEMMA HdbscanDivides ==
    ASSUME NEW near \in [Article -> Level], NEW dense \in Dense, NEW rich \in SUBSET Article
    PROVE  Divides(ClusterHdbscan(dense, rich, near), rich \cup UNION dense)
<1> DEFINE found(S) == [rep |-> PickRepresentative(S, near),
                        members |-> S \ {PickRepresentative(S, near)}]
           alone(i) == [rep |-> i, members |-> {}]
           C == {found(S) : S \in dense} \cup {alone(i) : i \in rich \ UNION dense}
<1>1. /\ dense \subseteq SUBSET Article /\ \A S \in dense : S # {}
      /\ \A S, T \in dense : S = T \/ S \cap T = {}
  <2>1. \A S \in dense : S \subseteq Article /\ Cardinality(S) >= 2
    BY DEF Dense
  <2>2. \A S \in dense : S # {}
    <3>1. Cardinality({}) = 0 /\ ~(0 >= 2)
      BY FS_EmptySet
    <3> QED
      BY <2>1, <3>1
  <2> QED
    BY <2>1, <2>2 DEF Dense
<1>2. \A S \in dense : found(S) \in Cluster /\ All(found(S)) = S
  <2> SUFFICES ASSUME NEW S \in dense PROVE found(S) \in Cluster /\ All(found(S)) = S
    OBVIOUS
  <2>1. PickRepresentative(S, near) \in S /\ S \subseteq Article
    BY <1>1, RepresentativeOf
  <2> QED
    BY <2>1 DEF Cluster, All
<1>3. \A i \in rich : alone(i) \in Cluster /\ All(alone(i)) = {i}
  BY DEF Cluster, All
<1> HIDE DEF found, alone
<1>4. C \subseteq Cluster
  BY <1>2, <1>3
<1>5. \A x : (\E d \in C : x \in All(d)) <=> x \in rich \cup UNION dense
  BY <1>2, <1>3
<1>6. UNION {All(d) : d \in C} = rich \cup UNION dense
  <2> HIDE DEF C
  <2> QED
    BY <1>5
<1>7. \A d, e \in C : All(d) \cap All(e) # {} => d = e
  <2> SUFFICES ASSUME NEW d \in C, NEW e \in C, NEW x, x \in All(d), x \in All(e)
               PROVE  d = e
    OBVIOUS
  <2>1. ASSUME NEW S \in dense, NEW T \in dense, d = found(S), e = found(T) PROVE d = e
    BY <1>1, <1>2, <2>1
  <2>2. ASSUME NEW S \in dense, NEW i \in rich \ UNION dense,
               (d = found(S) /\ e = alone(i)) \/ (d = alone(i) /\ e = found(S))
        PROVE  FALSE
    BY <1>2, <1>3, <2>2
  <2>3. ASSUME NEW i \in rich \ UNION dense, NEW j \in rich \ UNION dense,
               d = alone(i), e = alone(j)
        PROVE  d = e
    BY <1>3, <2>3
  <2>4. /\ (\E S \in dense : d = found(S)) \/ \E i \in rich \ UNION dense : d = alone(i)
        /\ (\E S \in dense : e = found(S)) \/ \E i \in rich \ UNION dense : e = alone(i)
    OBVIOUS
  <2>5. CASE \E S \in dense : d = found(S)
    <3>1. PICK S \in dense : d = found(S)
      BY <2>5
    <3>2. ASSUME NEW T \in dense, e = found(T) PROVE d = e
      BY <2>1, <3>1, <3>2
    <3>3. ASSUME NEW i \in rich \ UNION dense, e = alone(i) PROVE FALSE
      BY <2>2, <3>1, <3>3
    <3> QED
      BY <2>4, <3>2, <3>3
  <2>6. CASE \E i \in rich \ UNION dense : d = alone(i)
    <3>1. PICK i \in rich \ UNION dense : d = alone(i)
      BY <2>6
    <3>2. ASSUME NEW T \in dense, e = found(T) PROVE FALSE
      BY <2>2, <3>1, <3>2
    <3>3. ASSUME NEW j \in rich \ UNION dense, e = alone(j) PROVE d = e
      BY <2>3, <3>1, <3>3
    <3> QED
      BY <2>4, <3>2, <3>3
  <2> QED
    BY <2>4, <2>5, <2>6
<1>8. ClusterHdbscan(dense, rich, near) = C
  BY DEF ClusterHdbscan, found, alone
<1> HIDE DEF C
<1> QED
  BY <1>4, <1>6, <1>7, <1>8 DEF Divides

\* The member closest to the centroid is at the mean or above it, so some member is kept.
LEMMA SomeoneKept ==
    ASSUME NEW near \in [Article -> Level], NEW d \in Cluster
    PROVE  \E m \in All(d) : ~IsOutlier(d, near, m)
<1> DEFINE A == All(d)
           n == Cardinality(A)
<1>1. IsFiniteSet(A) /\ A # {} /\ A \subseteq Article
  BY ClusterArticles
<1>2. \A i \in A : near[i] \in Int
  <2> SUFFICES ASSUME NEW i \in A PROVE near[i] \in Int
    OBVIOUS
  <2>1. near[i] \in Level
    BY <1>1
  <2>2. \A x \in Level : x \in Int
    BY ClusteringAssumption
  <2> QED
    BY <2>1, <2>2
<1>3. PICK m \in A : \A x \in A : near[x] <= near[m]
  <2> HIDE DEF A
  <2> QED
    BY <1>1, <1>2, LargestValue
<1>4. Total(near, A) <= n * near[m] /\ Total(near, A) \in Int /\ n \in Nat
  <2> HIDE DEF A
  <2> QED
    BY <1>1, <1>2, <1>3, TotalAtMost, TotalType, FS_CardinalityType
<1>5. ASSUME IsOutlier(d, near, m) PROVE FALSE
  <2>1. Total(near, A) - n * near[m] > 0
    BY <1>5 DEF IsOutlier, Total
  <2>2. n * near[m] \in Int
    <3>1. near[m] \in Int
      BY <1>2
    <3> HIDE DEF n
    <3> QED
      BY <1>4, <3>1
  <2> DEFINE p == n * near[m]
  <2> HIDE DEF p, n, A
  <2>3. p \in Int /\ Total(near, A) <= p /\ Total(near, A) - p > 0
    BY <1>4, <2>1, <2>2 DEF p
  <2> QED
    BY <1>4, <2>3
<1> QED
  BY <1>5

\* The outliers of a cluster become clusters of their own, and nothing else of it changes.
LEMMA RefinedDivides ==
    ASSUME NEW near \in [Article -> Level], NEW d \in Cluster
    PROVE  Divides(Refined(d, near), All(d))
<1> DEFINE outliers == {i \in All(d) : IsOutlier(d, near, i)}
           keep == All(d) \ outliers
           rep == IF d.rep \in keep THEN d.rep ELSE Min(keep)
           kept == [rep |-> rep, members |-> keep \ {rep}]
           alone(i) == [rep |-> i, members |-> {}]
           C == {kept} \cup {alone(i) : i \in outliers}
<1>1. Divides({d}, All(d))
  BY DEF Divides
<1>2. keep # {} /\ keep \subseteq Article /\ outliers \subseteq Article /\ keep \cap outliers = {}
  BY SomeoneKept, ClusterArticles
<1>3. keep \cup outliers = All(d)
  OBVIOUS
<1> HIDE DEF outliers, keep
<1>4. rep \in keep
  <2>1. keep \subseteq Nat
    BY <1>2, ClusterArticles
  <2>2. Min(keep) \in keep
    BY <1>2, <2>1, MinIsLeast
  <2> QED
    BY <2>2
<1> HIDE DEF rep
<1>5. kept \in Cluster /\ All(kept) = keep
  BY <1>2, <1>4 DEF Cluster, All
<1>6. \A i \in outliers : alone(i) \in Cluster /\ All(alone(i)) = {i}
  BY <1>2 DEF Cluster, All
<1> HIDE DEF kept, alone
<1>7. \A x : (\E e \in C : x \in All(e)) <=> x \in All(d)
  BY <1>3, <1>5, <1>6
<1>8. \A e, f \in C : All(e) \cap All(f) # {} => e = f
  BY <1>2, <1>5, <1>6
<1>9. C \subseteq Cluster
  BY <1>5, <1>6
<1>10. Divides(C, All(d))
  <2> HIDE DEF C
  <2> QED
    BY <1>7, <1>8, <1>9 DEF Divides
<1>11. Refined(d, near) = {d} \/ Refined(d, near) = C
  BY DEF Refined, C, kept, alone, rep, keep, outliers
<1> QED
  BY <1>1, <1>10, <1>11

\* refine_clusters divides what it was given.
LEMMA RefineDivides ==
    ASSUME NEW near \in [Article -> Level], NEW C, NEW S, Divides(C, S)
    PROVE  Divides(RefineClusters(C, near), S)
<1> DEFINE D == RefineClusters(C, near)
<1>1. \A d \in C : Divides(Refined(d, near), All(d))
  BY RefinedDivides DEF Divides
<1>2. D = UNION {Refined(d, near) : d \in C}
  BY DEF RefineClusters
<1> HIDE DEF D
<1>3. D \subseteq Cluster
  BY <1>1, <1>2 DEF Divides
<1>4. \A d \in C : UNION {All(e) : e \in Refined(d, near)} = All(d)
  BY <1>1 DEF Divides
<1>5. \A d \in C : \A e \in Refined(d, near) : All(e) \subseteq All(d)
  BY <1>4
<1>6. UNION {All(e) : e \in D} = S
  <2>1. \A x : (\E e \in D : x \in All(e)) <=> (\E d \in C : x \in All(d))
    BY <1>2, <1>4
  <2>2. UNION {All(d) : d \in C} = S
    BY DEF Divides
  <2> QED
    BY <2>1, <2>2
<1>7. \A e, f \in D : All(e) \cap All(f) # {} => e = f
  <2> SUFFICES ASSUME NEW e \in D, NEW f \in D, All(e) \cap All(f) # {} PROVE e = f
    OBVIOUS
  <2>1. PICK d \in C : e \in Refined(d, near)
    BY <1>2
  <2>2. PICK c \in C : f \in Refined(c, near)
    BY <1>2
  <2>3. d = c
    BY <1>5, <2>1, <2>2 DEF Divides
  <2> QED
    BY <1>1, <2>1, <2>2, <2>3 DEF Divides
<1> QED
  BY <1>3, <1>6, <1>7 DEF Divides, D

\* The clusters divide what was not left out.
ClusteringInv ==
    /\ ClusteringTypeOK
    /\ \E S \in SUBSET Article :
          Divides(clusters, S) /\ S \cap dropped = {} /\ (clusters # {} => S \cup dropped = Article)

\* Meta trends are sets of groups.
LEMMA MetaTrendsTyped == ASSUME NEW L PROVE MetaTrends(L) \subseteq SUBSET MetaGroup
<1>1. DividedTo(ClusterGroupsByKeywords(L), L, MetaLength)
  BY GroupsDivided
<1> QED
  BY <1>1 DEF MetaTrends, DividedTo

\* Nothing is clustered yet.
LEMMA ClusteringInit == InitClustering => ClusteringInv
<1> SUFFICES ASSUME InitClustering PROVE ClusteringInv
  OBVIOUS
<1>1. Divides({}, {})
  BY DEF Divides
<1>2. articleMap \in ArticleMaps
  <2>1. articleMap = [i \in Article |-> i] /\ \A i \in Article : i \in Int
    BY DEF InitClustering, Article
  <2> HIDE DEF Article
  <2> QED
    BY <2>1 DEF ArticleMaps
<1>3. ClusteringTypeOK
  BY <1>2 DEF InitClustering, ClusteringTypeOK
<1> QED
  BY <1>1, <1>3 DEF InitClustering, ClusteringInv

\* Clustering a batch, by either algorithm, keeps the invariant.
LEMMA BatchStep ==
    ASSUME ClusteringInv, NextBatch
    PROVE  ClusteringInv'
<1>1. ASSUME StageClusterFails PROVE ClusteringInv'
  <2>1. Divides({}, {}) /\ Article \in SUBSET Article
    BY DEF Divides
  <2>2. clusters' = {} /\ dropped' = Article /\ UNCHANGED <<articleMap, links, metaCache>>
    BY <1>1 DEF StageClusterFails, metaVars
  <2>3. ClusteringTypeOK'
    BY <2>2 DEF ClusteringInv, ClusteringTypeOK, ArticleMaps
  <2> QED
    BY <2>1, <2>2, <2>3 DEF ClusteringInv, Divides
<1>2. ASSUME NEW S \in SUBSET Article, Divides(clusters', S), dropped' = Article \ S,
             articleMap' \in ArticleMaps, UNCHANGED metaVars
      PROVE  ClusteringInv'
  <2>1. clusters' \subseteq [rep : Article, members : SUBSET Article]
    BY <1>2 DEF Divides, Cluster
  <2>2. ClusteringTypeOK'
    BY <1>2, <2>1 DEF ClusteringInv, ClusteringTypeOK, metaVars, ArticleMaps
  <2>3. S \cap dropped' = {} /\ S \cup dropped' = Article
    BY <1>2
  <2> QED
    BY <1>2, <2>2, <2>3 DEF ClusteringInv, Divides
<1>3. ASSUME NEW near \in [Article -> Level], NEW sim \in [Pair(Article) -> Level],
             StageClusterGreedy(sim, near)
      PROVE  ClusteringInv'
  <2>1. /\ Divides(clusters', Article) /\ dropped' = Article \ Article
        /\ articleMap' \in ArticleMaps /\ UNCHANGED metaVars
    BY <1>3, GreedyDivides, RefineDivides DEF StageClusterGreedy
  <2> QED
    BY <1>2, <2>1
<1>4. ASSUME NEW near \in [Article -> Level], NEW dense \in Dense, NEW rich \in SUBSET Article,
             StageClusterHdbscan(dense, rich, near)
      PROVE  ClusteringInv'
  <2>1. /\ Divides(clusters', rich \cup UNION dense) /\ UNCHANGED metaVars
        /\ articleMap' \in ArticleMaps
        /\ dropped' = Article \ (rich \cup UNION dense)
    BY <1>4, HdbscanDivides, RefineDivides DEF StageClusterHdbscan
  <2>2. rich \cup UNION dense \in SUBSET Article
    BY DEF Dense
  <2> QED
    BY <1>2, <2>1, <2>2
<1> QED
  BY <1>1, <1>3, <1>4 DEF NextBatch

\* Clustering groups by keywords keeps the invariant.
LEMMA MetaStep ==
    ASSUME ClusteringInv, NextMeta
    PROVE  ClusteringInv'
<1>1. /\ clusters \subseteq [rep : Article, members : SUBSET Article]
      /\ dropped \subseteq Article /\ articleMap \in ArticleMaps /\ links \subseteq Pair(MetaGroup)
      /\ metaCache # <<>> => metaCache = <<metaCache[1]>> /\ metaCache[1] \subseteq SUBSET MetaGroup
  BY DEF ClusteringInv, ClusteringTypeOK
<1>2. ASSUME UNCHANGED batchVars, links' \subseteq Pair(MetaGroup),
             metaCache' # <<>> =>
                 metaCache' = <<metaCache'[1]>> /\ metaCache'[1] \subseteq SUBSET MetaGroup
      PROVE  ClusteringInv'
  BY <1>1, <1>2 DEF ClusteringInv, ClusteringTypeOK, batchVars, Divides
<1>3. ASSUME NEW L \in SUBSET Pair(MetaGroup), GroupsChange(L) PROVE ClusteringInv'
  BY <1>1, <1>2, <1>3 DEF GroupsChange
<1>4. ASSUME NEW limit \in MetaLimit, NEW top \in SUBSET MetaTrends(links),
             GetMetaTrends(limit, top)
      PROVE  ClusteringInv'
  <2>1. top \subseteq SUBSET MetaGroup
    BY MetaTrendsTyped
  <2>2. UNCHANGED batchVars /\ links' = links /\ metaCache' \in {metaCache, <<top>>, <<>>}
    BY <1>4 DEF GetMetaTrends
  <2>3. metaCache' # <<>> =>
            metaCache' = <<metaCache'[1]>> /\ metaCache'[1] \subseteq SUBSET MetaGroup
    BY <1>1, <2>1, <2>2
  <2> QED
    BY <1>1, <1>2, <2>2, <2>3
<1>5. ASSUME MetaCacheExpires PROVE ClusteringInv'
  BY <1>1, <1>2, <1>5 DEF MetaCacheExpires
<1> QED
  BY <1>3, <1>4, <1>5 DEF NextMeta

\* No step breaks the invariant.
LEMMA ClusteringStep == ClusteringInv /\ [NextClustering]_clusteringVars => ClusteringInv'
<1>1. ASSUME ClusteringInv, UNCHANGED clusteringVars PROVE ClusteringInv'
  BY <1>1 DEF ClusteringInv, ClusteringTypeOK, clusteringVars, Divides
<1> QED
  BY <1>1, BatchStep, MetaStep DEF NextClustering

\* The invariant implies what the runs check.
LEMMA ClusteringImplies == ClusteringInv => ClusteringTypeOK /\ ClustersSound
<1> SUFFICES ASSUME ClusteringInv PROVE ClustersSound
  BY DEF ClusteringInv
<1>1. PICK S \in SUBSET Article :
          Divides(clusters, S) /\ S \cap dropped = {} /\ (clusters # {} => S \cup dropped = Article)
  BY DEF ClusteringInv
<1>2. ASSUME NEW i \in UNION {All(d) : d \in clusters}
      PROVE  i \notin dropped /\ Cardinality({d \in clusters : i \in All(d)}) = 1
  <2>1. PICK d \in clusters : i \in All(d)
    OBVIOUS
  <2>2. {e \in clusters : i \in All(e)} = {d}
    BY <1>1, <2>1 DEF Divides
  <2> QED
    BY <1>1, <2>2, FS_Singleton DEF Divides
<1>3. clusters # {} => (UNION {All(d) : d \in clusters}) \cup dropped = Article
  BY <1>1 DEF Divides
<1>4. ASSUME NEW i \in Article, \A j \in Article \ {i} : articleMap[j] # articleMap[i],
             NEW d \in clusters
      PROVE  i \in Rows(d) <=> i \in All(d)
  <2>1. All(d) \subseteq Article
    BY <1>1, ClusterArticles DEF Divides
  <2>2. /\ \A j \in Article : articleMap[j] \in Article
        /\ \A j \in Article : articleMap[articleMap[j]] = articleMap[j]
    BY DEF ClusteringInv, ClusteringTypeOK, ArticleMaps
  <2>3. articleMap[i] = i
    BY <1>4, <2>2
  <2>4. ASSUME NEW j \in Article, articleMap[j] = i PROVE j = i
    BY <1>4, <2>3, <2>4
  <2> QED
    BY <2>1, <2>3, <2>4 DEF Rows
<1> QED
  BY <1>2, <1>3, <1>4, MetaTrendsSound DEF ClustersSound

\* Clusters and meta trends are sets of articles and of groups, in every reachable state.
THEOREM ClusteringTypes == SpecClustering => []ClusteringTypeOK
  BY ClusteringInit, ClusteringStep, ClusteringImplies, PTL DEF SpecClustering

\* Whatever the similarities, whichever algorithm, whatever it drops as noise: no article is in
\* two clusters, none gets lost, a row with a url_hash of its own goes where its article goes,
\* every representative is an article of its own cluster, and no meta trend is a chain of
\* groups without a link.
THEOREM ClustersDivide == SpecClustering => []ClustersSound
  BY ClusteringInit, ClusteringStep, ClusteringImplies, PTL DEF SpecClustering

(***************************************************************************)
(* What is counted of a group.                                             *)
(***************************************************************************)

\* Numbers of articles by source and time.
Counted(A) == A \in [Outlet \X Moment -> Nat]

\* The articles of a group, as a finite set.
LEMMA PresentFinite ==
    ASSUME NEW A, Counted(A)
    PROVE  /\ IsFiniteSet(Present(A)) /\ Present(A) \subseteq Outlet \X Moment
           /\ \A p \in Present(A) : A[p] \in Nat \ {0}
           /\ DOMAIN A = Outlet \X Moment
<1>1. IsFiniteSet(Outlet \X Moment)
  BY ScoringAssumption, FS_Product
<1>2. Present(A) \subseteq Outlet \X Moment /\ DOMAIN A = Outlet \X Moment
  BY DEF Present, Counted
<1>3. \A p \in Present(A) : A[p] \in Nat \ {0}
  BY DEF Present, Counted
<1> QED
  BY <1>1, <1>2, <1>3, FS_Subset

\* Its size is a natural number.
LEMMA SizeIsTotal ==
    ASSUME NEW A, Counted(A)
    PROVE  /\ SizeOf(A) = Total(A, Present(A)) /\ SizeOf(A) \in Nat
           /\ \A p \in Present(A) : A[p] <= SizeOf(A)
<1>1. SizeOf(A) = Total(A, Present(A))
  BY DEF SizeOf, Total
<1>2. IsFiniteSet(Present(A)) /\ \A p \in Present(A) : A[p] \in Nat
  BY PresentFinite
<1> QED
  BY <1>1, <1>2, TotalNat

\* It has at most as many sources as articles.
LEMMA OutletsCounted ==
    ASSUME NEW A, Counted(A)
    PROVE  /\ IsFiniteSet(Outlets(A)) /\ Cardinality(Outlets(A)) \in Nat
           /\ Cardinality(Outlets(A)) <= SizeOf(A)
           /\ Present(A) # {} => SizeOf(A) > 0
<1> DEFINE P == Present(A)
           f == [p \in P |-> p[1]]
           one == [p \in P |-> 1]
<1>1. IsFiniteSet(P) /\ \A p \in P : A[p] \in Nat \ {0}
  BY PresentFinite
<1>2. f \in Surjection(P, Outlets(A))
  BY DEF Outlets, Surjection
<1>3. IsFiniteSet(Outlets(A)) /\ Cardinality(Outlets(A)) <= Cardinality(P)
  <2> HIDE DEF f, P
  <2> QED
    BY <1>1, <1>2, FS_Surjection
<1>4. Cardinality(Outlets(A)) \in Nat /\ Cardinality(P) \in Nat
  BY <1>1, <1>3, FS_CardinalityType
<1>5. Cardinality(P) <= SizeOf(A)
  <2> HIDE DEF f
  <2> QED
    BY <1>1, TotalCounts, SizeIsTotal
<1>6. SizeOf(A) \in Nat
  BY SizeIsTotal
<1>7. Present(A) # {} => SizeOf(A) > 0
  BY <1>1, <1>6, SizeIsTotal
<1> HIDE DEF f, P
<1> QED
  BY <1>3, <1>4, <1>5, <1>6, <1>7

\* One article more.
LEMMA OneMore ==
    ASSUME NEW A, Counted(A), NEW p \in Outlet \X Moment, NEW C, C = [A EXCEPT ![p] = @ + 1]
    PROVE  /\ Counted(C) /\ Present(C) = Present(A) \cup {p}
           /\ SizeOf(C) = SizeOf(A) + 1
           /\ Outlets(A) \subseteq Outlets(C)
           /\ Cardinality(Outlets(A)) <= Cardinality(Outlets(C))
<1>1. Counted(C)
  BY DEF Counted
<1>2. \A q \in Outlet \X Moment : A[q] \in Nat /\ C[q] = IF q = p THEN A[q] + 1 ELSE A[q]
  BY DEF Counted
<1>3. Present(C) = Present(A) \cup {p}
  BY <1>1, <1>2, PresentFinite DEF Present
<1>4. Outlets(A) \subseteq Outlets(C)
  BY <1>3 DEF Outlets
<1>5. Cardinality(Outlets(A)) <= Cardinality(Outlets(C))
  BY <1>1, <1>4, OutletsCounted, FS_Subset
<1>6. SizeOf(C) = SizeOf(A) + 1
  <2> DEFINE P == Present(A)  Q == Present(C)  R == P \ {p}
  <2>1. IsFiniteSet(P) /\ IsFiniteSet(Q) /\ IsFiniteSet(R)
    BY <1>1, PresentFinite, FS_Subset
  <2>2. Q \ {p} = R /\ p \in Q
    BY <1>3
  <2>3. \A q \in Q : C[q] \in Int
    BY <1>1, PresentFinite
  <2>4. \A q \in P : A[q] \in Int
    BY PresentFinite
  <2>5. Total(C, Q) = C[p] + Total(C, R)
    <3> HIDE DEF P, Q, R
    <3> QED
      BY <2>1, <2>2, <2>3, TotalRemove
  <2>6. Total(C, R) = Total(A, R) /\ Total(A, R) \in Int
    <3>1. \A q \in R : A[q] \in Int /\ C[q] = A[q]
      BY <1>2, PresentFinite
    <3> HIDE DEF P, Q, R
    <3> QED
      BY <2>1, <3>1, TotalSame, TotalType
  <2>7. Total(A, P) = A[p] + Total(A, R)
    <3>1. CASE p \in P
      <4> HIDE DEF Q, P
      <4> QED
        BY <2>1, <2>4, <3>1, TotalRemove DEF R
    <3>2. CASE p \notin P
      <4>1. A[p] = 0
        BY <1>2, <3>2, PresentFinite DEF Present
      <4>2. R = P
        BY <3>2
      <4> HIDE DEF P, R
      <4> QED
        BY <2>6, <4>1, <4>2
    <3> QED
      BY <3>1, <3>2
  <2>8. SizeOf(A) = Total(A, P) /\ SizeOf(C) = Total(C, Q)
    BY <1>1, SizeIsTotal
  <2> HIDE DEF P, Q, R
  <2> QED
    BY <1>2, <2>5, <2>6, <2>7, <2>8
<1> QED
  BY <1>1, <1>3, <1>4, <1>5, <1>6

(***************************************************************************)
(* The early score, by each of its writers.                                *)
(***************************************************************************)

\* A share, in ten-thousandths.
Share(x) == x \in Nat /\ x <= 10000

\* The parts of the early score.
LEMMA VelocityPart ==
    ASSUME NEW recent, recent \in Nat, NEW day, day \in Nat
    PROVE  Share(Velocity(recent, day))
<1> DEFINE mean == IF 10 * day > 24 THEN 10 * day ELSE 24
           q == (480000 * recent) \div mean
<1>1. mean \in Nat \ {0} /\ 480000 * recent \in Nat
  OBVIOUS
<1>2. q \in Nat
  <2> HIDE DEF mean
  <2> QED
    BY <1>1, DivNat
<1>3. Velocity(recent, day) = Least(10000, q)
  BY DEF Velocity
<1> HIDE DEF q
<1> QED
  BY <1>2, <1>3 DEF Least, Share

\* At most as many sources as articles.
LEMMA DiversityPart ==
    ASSUME NEW n, n \in Nat \ {0}, NEW outlets, outlets \in Nat, outlets <= n
    PROVE  Share(Diversity(outlets, n))
<1> DEFINE q == (10000 * outlets) \div n
<1>1. 10000 * outlets \in Nat /\ 10000 * outlets <= 10000 * n
  OBVIOUS
<1>2. q \in Nat /\ q <= 10000
  BY <1>1, DivNat, DivAtMost
<1> QED
  BY <1>2 DEF Diversity, Share

\* It falls for 48 hours and stays at 0.
LEMMA RecencyPart ==
    ASSUME NEW age, age \in Nat
    PROVE  Share(Recency(age))
<1>1. CASE age > 2880
  BY <1>1 DEF Recency, Share
<1>2. CASE ~(age > 2880)
  <2> DEFINE q == (10000 * age) \div 2880
  <2>1. q \in Nat /\ q <= 10000
    BY <1>2
  <2>2. Recency(age) = 10000 - q
    BY <1>2 DEF Recency
  <2> HIDE DEF q
  <2> QED
    BY <2>1, <2>2 DEF Share
<1> QED
  BY <1>1, <1>2

\* The articles of a group were published by now.
PublishedByNow(A) == Counted(A) /\ clock \in Nat /\ \A p \in Present(A) : p[2] <= clock

\* A window of time has a number of articles.
LEMMA AgedCount ==
    ASSUME NEW A, Counted(A), NEW from, NEW to
    PROVE  Aged(A, from, to) \in Nat
<1> DEFINE S == {p \in Present(A) : clock - p[2] >= from /\ clock - p[2] < to}
<1>1. IsFiniteSet(S) /\ \A p \in S : A[p] \in Nat
  BY PresentFinite, FS_Subset
<1>2. Aged(A, from, to) = Total(A, S)
  BY DEF Aged, Total
<1> HIDE DEF S
<1> QED
  BY <1>1, <1>2, TotalNat

\* The newest article is not of the future.
LEMMA AgeOfNewest ==
    ASSUME NEW A, PublishedByNow(A), Present(A) # {}
    PROVE  clock - Newest(A) \in Nat
<1> DEFINE P == Present(A)  f == [p \in P |-> p[2]]  T == {p[2] : p \in P}
<1>1. IsFiniteSet(P) /\ P # {} /\ P \subseteq Outlet \X Moment
  BY PresentFinite DEF PublishedByNow
<1>2. f \in Surjection(P, T)
  BY DEF Surjection
<1>3. IsFiniteSet(T)
  <2> HIDE DEF P, f, T
  <2> QED
    BY <1>1, <1>2, FS_Surjection
<1>4. T # {}
  BY <1>1
<1>5. \A t \in T : t \in Nat /\ t <= clock
  <2> SUFFICES ASSUME NEW p \in P PROVE p[2] \in Nat /\ p[2] <= clock
    OBVIOUS
  <2> QED
    BY <1>1, ScoringAssumption DEF PublishedByNow
<1>6. Newest(A) = Max(T)
  BY DEF Newest
<1>7. clock \in Nat
  BY DEF PublishedByNow
<1> HIDE DEF T, P, f
<1>8. T \subseteq Int
  BY <1>5
<1>9. Max(T) \in T
  BY <1>3, <1>4, <1>8, MaxIsLargest
<1> QED
  BY <1>5, <1>6, <1>7, <1>9

\* The cap of a small cluster.
LEMMA SmallCapped ==
    ASSUME NEW n, n \in Nat, NEW early, Share(early)
    PROVE  Share(SmallCap(n, early)) /\ (n < 3 => SmallCap(n, early) <= 3000)
  BY DEF SmallCap, Least, Share

\* What stage_score writes is above 0.3 only with three articles of two sources.
LEMMA EarlySaved ==
    ASSUME NEW A, PublishedByNow(A)
    PROVE  /\ Share(EarlyOfSave(A))
           /\ EarlyOfSave(A) > 3000 => SizeOf(A) >= 3 /\ Cardinality(Outlets(A)) >= 2
<1> DEFINE o == Cardinality(Outlets(A))  n == SizeOf(A)
           a == Aged(A, 0, 60)  b == Aged(A, 0, 1440)  g == clock - Newest(A)
           v == Velocity(a, b)  d == Diversity(o, n)  r == Recency(g)
           e == (4 * v + 3 * d + 3 * r) \div 10
<1>1. o \in Nat /\ n \in Nat /\ o <= n /\ (Present(A) # {} => n > 0)
  BY OutletsCounted, SizeIsTotal DEF PublishedByNow
<1>2. CASE o < 2
  BY <1>1, <1>2 DEF EarlyOfSave, Share
<1>3. CASE ~(o < 2)
  <2>1. Present(A) # {}
    <3>1. Present(A) = {} => Outlets(A) = {}
      BY DEF Outlets
    <3> QED
      BY <3>1, <1>3, FS_EmptySet
  <2>2. a \in Nat /\ b \in Nat
    BY AgedCount DEF PublishedByNow
  <2>3. g \in Nat
    BY <2>1, AgeOfNewest
  <2>4. EarlyOfSave(A) = SmallCap(n, e)
    BY <1>3 DEF EarlyOfSave
  <2> HIDE DEF o, n, a, b, g
  <2>5. Share(v)
    BY <2>2, VelocityPart
  <2>6. Share(d)
    BY <1>1, <2>1, DiversityPart
  <2>7. Share(r)
    BY <2>3, RecencyPart
  <2> HIDE DEF v, d, r
  <2>8. Share(e)
    BY <2>5, <2>6, <2>7 DEF Share
  <2> HIDE DEF e
  <2>9. Share(SmallCap(n, e)) /\ (n < 3 => SmallCap(n, e) <= 3000)
    BY <1>1, <2>8, SmallCapped
  <2>10. Share(EarlyOfSave(A)) /\ (EarlyOfSave(A) > 3000 => n >= 3 /\ o >= 2)
    BY <1>1, <1>3, <2>4, <2>9 DEF Share
  <2> QED
    BY <2>10 DEF n, o
<1> QED
  BY <1>2, <1>3

\* What the match writes is above the list's 0.4 only from the third article on.
LEMMA EarlyMatched ==
    ASSUME NEW n, n \in Nat
    PROVE  Share(EarlyOfMatch(n)) /\ (EarlyOfMatch(n) > 4000 => n >= 3)
  BY DEF EarlyOfMatch, Least, Share

\* What the settings hold, or their defaults.
Weights == [{"burst", "velocity", "diversity", "recency"} -> Int]

\* What the job has selected of a group.
JobRow(row) ==
    /\ row.size \in Nat \ {0} /\ row.outlets \in Nat /\ row.outlets <= row.size
    /\ row.age \in Nat /\ row.burst \in Nat
    /\ row.quarter \in Nat /\ row.hour \in Nat /\ row.day \in Nat

\* The job's score is a share whatever the weights, that need not sum up to 1.
LEMMA EarlyByJob ==
    ASSUME NEW w, w \in Weights, NEW row, JobRow(row)
    PROVE  Share(EarlyOfJob(w, row))
<1> DEFINE a == row.quarter + row.hour  b == row.day  g == row.age
           o == row.outlets  n == row.size
           v == Velocity(a, b)  d == Diversity(o, n)  r == Recency(g)
           pb == w.burst * row.burst  pv == w.velocity * v
           pd == w.diversity * d  pr == w.recency * r
           q == (pb + pv + pd + pr) \div 10
<1>1. /\ a \in Nat /\ b \in Nat /\ g \in Nat
      /\ o \in Nat /\ n \in Nat \ {0} /\ o <= n /\ row.burst \in Nat
  BY DEF JobRow
<1>2. EarlyOfJob(w, row) = IF q < 0 THEN 0 ELSE Least(10000, q)
  BY DEF EarlyOfJob
<1> HIDE DEF a, b, g, o, n
<1>3. Share(v)
  BY <1>1, VelocityPart
<1>4. Share(d)
  BY <1>1, DiversityPart
<1>5. Share(r)
  BY <1>1, RecencyPart
<1>6. w.burst \in Int /\ w.velocity \in Int /\ w.diversity \in Int /\ w.recency \in Int
  BY DEF Weights
<1>7. v \in Int /\ d \in Int /\ r \in Int /\ row.burst \in Int
  BY <1>1, <1>3, <1>4, <1>5 DEF Share
<1> HIDE DEF v, d, r
<1>8. pb \in Int /\ pv \in Int /\ pd \in Int /\ pr \in Int
  BY <1>6, <1>7, TimesInt
<1> HIDE DEF pb, pv, pd, pr
<1>9. q \in Int
  BY <1>8
<1> HIDE DEF q
<1> QED
  BY <1>2, <1>9 DEF Least, Share

\* The cap of a small group and the largest boost stay below the list.
LEMMA CappedAndBoosted ==
    ASSUME NEW w, w \in Weights, NEW row, JobRow(row), NEW boost, boost \in {100, 110, 130}
    PROVE  /\ Share(Boosted(w, row, boost))
           /\ Boosted(w, row, boost) > 4000 => row.size >= 3 /\ row.outlets >= 2
<1> DEFINE e == EarlyOfJob(w, row)  n == row.size
           c == IF row.outlets < 2 THEN 0 ELSE SmallCap(n, e)  q == (c * boost) \div 100
<1>1. Share(e) /\ n \in Nat /\ row.outlets \in Nat
  BY EarlyByJob DEF JobRow
<1>2. c = IF row.outlets < 2 THEN 0 ELSE SmallCap(n, e)
  OBVIOUS
<1>3. Boosted(w, row, boost) = Least(10000, q)
  BY DEF Boosted
<1> HIDE DEF e, n, c
<1>4. Share(SmallCap(n, e)) /\ (n < 3 => SmallCap(n, e) <= 3000)
  BY <1>1, SmallCapped
<1>5. Share(c) /\ (c > 3000 => n >= 3 /\ row.outlets >= 2)
  BY <1>1, <1>2, <1>4 DEF Share
<1>6. q \in Nat /\ (q > 4000 => c > 3000)
  BY <1>5 DEF Share
<1> HIDE DEF q
<1>7. Share(Boosted(w, row, boost)) /\ (Boosted(w, row, boost) > 4000 => n >= 3 /\ row.outlets >= 2)
  BY <1>3, <1>5, <1>6 DEF Least, Share
<1> QED
  BY <1>7 DEF n

(***************************************************************************)
(* Bursts, and the score.                                                  *)
(***************************************************************************)

\* Numbers of articles by hour, the earliest first.
LEMMA SeriesOfNumbers ==
    ASSUME NEW A, Counted(A)
    PROVE  \E n \in Nat : BurstSeries(A) \in [1 .. n -> Nat]
<1> DEFINE P == Present(A)  H == Hours(A)  n == Cardinality(H)
           f == [p \in P |-> p[2] \div 60]
           hour(i) == CHOOSE h \in H : Cardinality({g \in H : g < h}) = i - 1
           Q(i) == {p \in P : p[2] \div 60 = hour(i)}
           sum(i) == MapThenSumSet(LAMBDA p : A[p], Q(i))
<1>1. IsFiniteSet(P) /\ \A p \in P : A[p] \in Nat
  BY PresentFinite
<1>2. f \in Surjection(P, H)
  BY DEF Hours, Surjection
<1>3. n \in Nat
  <2> HIDE DEF P, f, H
  <2> QED
    BY <1>1, <1>2, FS_Surjection, FS_CardinalityType
<1>4. \A i : sum(i) \in Nat
  <2> SUFFICES ASSUME NEW i PROVE sum(i) \in Nat
    OBVIOUS
  <2> DEFINE q == Q(i)
  <2>1. IsFiniteSet(q) /\ \A p \in q : A[p] \in Nat
    BY <1>1, FS_Subset
  <2>2. sum(i) = Total(A, q)
    BY DEF Total
  <2> HIDE DEF q, sum
  <2> QED
    BY <2>1, <2>2, TotalNat
<1>5. BurstSeries(A) = [i \in 1 .. n |-> sum(i)]
  BY DEF BurstSeries
<1> HIDE DEF sum, n
<1> QED
  BY <1>3, <1>4, <1>5

\* A fold of a series of integers is an integer.
LEMMA SumOfSeries ==
    ASSUME NEW n \in Nat, NEW v, v \in [1 .. n -> Int]
    PROVE  SeriesSum(v) \in Int
<1> DEFINE S == 1 .. n
           of(g, s) == IF s = {} THEN 0 ELSE g[s \ {Max(s)}] + v[Max(s)]
           iter == CHOOSE g : g = [s \in SUBSET S |-> of(g, s)]
           h == [s \in SUBSET S |-> Total(v, s)]
<1>1. IsFiniteSet(S) /\ S \subseteq Int /\ \A i \in S : v[i] \in Int
  BY FS_Interval
<1>2. DOMAIN v = S
  OBVIOUS
<1>3. SeriesSum(v) = iter[S]
  BY <1>2 DEF SeriesSum, FoldLeft, MapThenFoldSet
<1>4. ASSUME NEW s \in SUBSET S, s # {}
      PROVE  IsFiniteSet(s) /\ Max(s) \in s
  <2> HIDE DEF S
  <2>1. IsFiniteSet(s) /\ s \subseteq Int
    BY <1>1, FS_Subset
  <2> QED
    BY <1>4, <2>1, MaxIsLargest
<1>5. ASSUME NEW s \in SUBSET S PROVE h[s] = of(h, s)
  <2>1. CASE s = {}
    BY <2>1, TotalUnfolds, FS_EmptySet
  <2>2. CASE s # {}
    <3> DEFINE m == Max(s)
    <3>1. IsFiniteSet(s) /\ m \in s
      BY <2>2, <1>4
    <3>2. \A i \in s : v[i] \in Int
      BY <1>1
    <3> HIDE DEF m, S
    <3>3. Total(v, s) = v[m] + Total(v, s \ {m})
      BY <3>1, <3>2, TotalRemove
    <3>4. Total(v, s \ {m}) \in Int /\ v[m] \in Int
      <4>1. IsFiniteSet(s \ {m})
        BY <3>1, FS_Subset
      <4> QED
        BY <3>1, <3>2, <4>1, TotalType
    <3>5. h[s] = Total(v, s) /\ h[s \ {m}] = Total(v, s \ {m})
      OBVIOUS
    <3> HIDE DEF h
    <3> QED
      BY <2>2, <3>3, <3>4, <3>5 DEF m
  <2> QED
    BY <2>1, <2>2
<1>6. h = [s \in SUBSET S |-> of(h, s)]
  <2> HIDE DEF of
  <2> QED
    BY <1>5
<1>7. iter = [s \in SUBSET S |-> of(iter, s)]
  <2> HIDE DEF h
  <2> QED
    BY <1>6
<1> HIDE DEF iter
<1>8. \A s \in SUBSET S : iter[s] = of(iter, s)
  <2> HIDE DEF of
  <2> QED
    BY <1>7
<1> DEFINE B == {s \in SUBSET S : iter[s] \notin Int}
<1>9. SUFFICES ASSUME B # {} PROVE FALSE
  BY <1>3
<1>10. PICK m \in B : \A s \in B : s \subseteq m => s = m
  <2>1. B \subseteq SUBSET S
    OBVIOUS
  <2>2. IsFiniteSet(S)
    BY <1>1
  <2> HIDE DEF B, S
  <2> QED
    BY <1>9, <2>1, <2>2, SmallestSet
<1>11. m # {}
  <2>1. m \in SUBSET S /\ iter[m] \notin Int
    OBVIOUS
  <2>2. iter[m] = of(iter, m)
    <3> HIDE DEF of
    <3> QED
      BY <2>1, <1>8
  <2> HIDE DEF B
  <2> QED
    BY <2>1, <2>2
<1>12. Max(m) \in m
  BY <1>4, <1>11
<1>13. m \ {Max(m)} \notin B /\ m \ {Max(m)} \in SUBSET S
  BY <1>10, <1>12
<1>14. iter[m \ {Max(m)}] \in Int /\ v[Max(m)] \in Int
  BY <1>1, <1>12, <1>13
<1> QED
  BY <1>8, <1>11, <1>14

\* A number of percent.
Percent(x) == x \in Nat /\ x <= 100

\* A variance is a number.
LEMMA SpreadOfSeries ==
    ASSUME NEW n \in Nat, NEW v, v \in [1 .. n -> Int]
    PROVE  Len(v) = n /\ Spread(v) \in Int
<1> DEFINE squares == [i \in 1 .. n |-> v[i] * v[i]]
           a == SeriesSum(squares)  b == SeriesSum(v)
<1>1. Len(v) = n
  OBVIOUS
<1>2. squares \in [1 .. n -> Int]
  <2>1. \A i \in 1 .. n : v[i] \in Int
    OBVIOUS
  <2>2. \A i \in 1 .. n : v[i] * v[i] \in Int
    BY <2>1, TimesInt
  <2> QED
    BY <2>2
<1>3. Spread(v) = n * a - b * b
  BY <1>1 DEF Spread
<1> HIDE DEF squares
<1>4. a \in Int /\ b \in Int
  BY <1>2, SumOfSeries
<1> HIDE DEF a, b
<1>5. n * a \in Int /\ b * b \in Int
  BY <1>4, TimesInt
<1> DEFINE c == n * a  d == b * b
<1>6. Spread(v) = c - d
  BY <1>3
<1>7. c \in Int /\ d \in Int
  BY <1>5
<1> HIDE DEF c, d
<1> QED
  BY <1>1, <1>6, <1>7

\* A quotient by a root, at most 100.
LEMMA RootInPercent ==
    ASSUME NEW m, m \in Int, NEW n, n \in Int, NEW D, D \in Int
    PROVE  Percent(PercentOfRoot(m, n, D))
<1> DEFINE I == 0 .. 100
           T == {q \in I : q * q * n * n * D <= 10000 * m * m}
<1>1. 0 \in T
  <2>1. 10000 * m * m \in Nat
    <3>1. m * m \in Nat
      BY SquareNat
    <3>2. \A k \in Nat : 10000 * k \in Nat
      OBVIOUS
    <3>3. 10000 * m * m = 10000 * (m * m)
      OBVIOUS
    <3> QED
      BY <3>1, <3>2, <3>3
  <2>2. 0 * 0 * n * n * D = 0
    OBVIOUS
  <2> DEFINE z == 0 * 0 * n * n * D  y == 10000 * m * m
  <2>3. z = 0 /\ y \in Nat
    BY <2>1, <2>2
  <2> HIDE DEF z, y
  <2>4. z <= y
    BY <2>3
  <2> QED
    BY <2>4 DEF z, y
<1>2. IsFiniteSet(I) /\ I \subseteq Int
  <2> DEFINE most == 100
  <2>1. most \in Int /\ 0 \in Int /\ I = 0 .. most
    OBVIOUS
  <2> HIDE DEF most, I
  <2>2. IsFiniteSet(0 .. most) /\ 0 .. most \subseteq Int
    BY <2>1, FS_Interval
  <2> QED
    BY <2>1, <2>2
<1>3. T \subseteq I
  OBVIOUS
<1>4. PercentOfRoot(m, n, D) = Max(T)
  BY DEF PercentOfRoot
<1> HIDE DEF T
<1>5. IsFiniteSet(T) /\ T \subseteq Int /\ T # {}
  <2> HIDE DEF I
  <2> QED
    BY <1>1, <1>2, <1>3, FS_Subset
<1>6. Max(T) \in T
  BY <1>5, MaxIsLargest
<1>7. PercentOfRoot(m, n, D) \in I
  BY <1>3, <1>4, <1>6
<1> QED
  BY <1>7 DEF Percent

\* The substitute of Prophet answers in percent.
LEMMA StatisticalPart ==
    ASSUME NEW n, n \in Nat, n >= 2, NEW v, v \in [1 .. n -> Nat]
    PROVE  Percent(StatisticalAnomaly(v))
<1> DEFINE before == Front(v)
           excess == Len(before) * Last(v) - SeriesSum(before)
           k == n - 1
           d == Spread(before)
           over == PercentOfRoot(excess, 6, d)
           under == PercentOfRoot(-excess, 6, d)
<1>1. k \in Nat /\ before \in [1 .. k -> Int]
  <2>1. v \in Seq(Nat) /\ Len(v) = n
    OBVIOUS
  <2>2. Front(v) \in Seq(Nat) /\ Len(Front(v)) = n - 1
    BY <2>1, SubSeqProperties DEF Front
  <2> QED
    BY <2>2
<1>2. Last(v) \in Int
  BY DEF Last
<1>3. StatisticalAnomaly(v) =
          CASE d = 0 -> IF excess > 0 THEN 100 ELSE 0
            [] d # 0 /\ excess >= 0 -> Least(100, 50 + over)
            [] OTHER -> 50 - Least(50, under)
  BY DEF StatisticalAnomaly
<1> HIDE DEF before, k
<1>4. Len(before) = k /\ d \in Int /\ SeriesSum(before) \in Int
  BY <1>1, SpreadOfSeries, SumOfSeries
<1>5. excess \in Int
  <2> DEFINE p == Len(before) * Last(v)  s == SeriesSum(before)
  <2>1. p \in Int /\ s \in Int
    BY <1>1, <1>2, <1>4, TimesInt
  <2> HIDE DEF p, s
  <2>2. p - s \in Int
    BY <2>1
  <2> QED
    BY <2>2 DEF p, s
<1> HIDE DEF excess, d
<1>6. Percent(over)
  <2>1. 6 \in Int
    OBVIOUS
  <2> QED
    BY <1>4, <1>5, <2>1, RootInPercent, Zenon
<1>7. Percent(under)
  <2> DEFINE m == -excess
  <2>1. m \in Int /\ 6 \in Int
    BY <1>5
  <2> HIDE DEF m
  <2>2. Percent(PercentOfRoot(m, 6, d))
    BY <1>4, <2>1, RootInPercent, Zenon
  <2> QED
    BY <2>2 DEF m
<1> HIDE DEF over, under
<1> QED
  BY <1>3, <1>4, <1>5, <1>6, <1>7 DEF Percent, Least

\* The substitute of IsolationForest answers in percent.
LEMMA PercentilePart ==
    ASSUME NEW n, n \in Nat \ {0}, NEW v, v \in [1 .. n -> Nat]
    PROVE  Percent(PercentileAnomaly(v))
<1> DEFINE T == {i \in 1 .. n : v[i] <= Last(v)}
           place == Cardinality(T)
           q == (200 * place) \div n
<1>1. Len(v) = n
  OBVIOUS
<1>2. place \in Nat /\ place <= n
  <2> DEFINE I == 1 .. n
  <2>1. IsFiniteSet(I) /\ Cardinality(I) = n
    BY FS_Interval
  <2>2. T \in SUBSET I
    OBVIOUS
  <2> HIDE DEF T, I
  <2>3. IsFiniteSet(T) /\ Cardinality(T) <= n
    BY <2>1, <2>2, FS_Subset
  <2> QED
    BY <2>3, FS_CardinalityType
<1>3. PercentileAnomaly(v) = IF 2 * place <= n THEN 0 ELSE q - 100
  BY <1>1 DEF PercentileAnomaly
<1> HIDE DEF place
<1>4. q \in Nat /\ q <= 200
  BY <1>2, DivNat, DivAtMost
<1>5. ~(2 * place <= n) => 100 <= q
  BY <1>2, DivAtLeast
<1> HIDE DEF q
<1> QED
  BY <1>2, <1>3, <1>4, <1>5 DEF Percent

\* So does the cumulative sum.
LEMMA CusumPart ==
    ASSUME NEW n, n \in Nat \ {0}, NEW v, v \in [1 .. n -> Nat]
    PROVE  Percent(Cusum(v))
<1> DEFINE total == SeriesSum(v)  d == Spread(v)
           grown(x, i) == x + 2 * n * v[i] - 3 * total
           next(x, i) == IF grown(x, i) > 0 THEN grown(x, i) ELSE 0
           sum == CHOOSE s : s = [i \in 0 .. n |-> IF i = 0 THEN 0 ELSE next(s[i - 1], i)]
           T == {sum[i] : i \in 1 .. n}
<1>1. v \in [1 .. n -> Int] /\ n \in Nat
  OBVIOUS
<1>2. Len(v) = n /\ d \in Int /\ total \in Int
  BY <1>1, SpreadOfSeries, SumOfSeries
<1>3. Cusum(v) = IF d = 0 THEN 0 ELSE PercentOfRoot(Max(T), 10, d)
  BY <1>2 DEF Cusum
<1> HIDE DEF total, d
<1>4. ASSUME NEW x \in Int, NEW i \in 1 .. n PROVE next(x, i) \in Int
  <2> DEFINE p == 2 * n * v[i]
  <2>1. v[i] \in Int /\ 2 * n \in Int
    OBVIOUS
  <2>2. p \in Int
    BY <2>1, TimesInt
  <2> HIDE DEF p
  <2>3. grown(x, i) \in Int
    <3>1. x + p - 3 * total \in Int
      BY <1>2, <2>2
    <3> QED
      BY <3>1 DEF p
  <2> HIDE DEF grown
  <2> QED
    BY <2>3
<1> HIDE DEF next
<1> DEFINE base == 0
           step == [p \in Int \X (0 .. n) |-> IF p[2] = 0 THEN 0 ELSE next(p[1], p[2])]
<1>5. step \in [Int \X (0 .. n) -> Int]
  <2> SUFFICES ASSUME NEW x \in Int, NEW i \in 0 .. n, i # 0 PROVE next(x, i) \in Int
    OBVIOUS
  <2> QED
    BY <1>4
<1>6. PICK g \in [0 .. n -> Int] : Iterates(g, base, step, 0, n)
  <2>1. base \in Int /\ 0 \in Int /\ n \in Int
    OBVIOUS
  <2> HIDE DEF base, step
  <2> QED
    BY <1>5, <2>1, RecursionSolved
<1>7. \A i \in 0 .. n : g[i] = IF i = 0 THEN 0 ELSE next(g[i - 1], i)
  <2> SUFFICES ASSUME NEW i \in 0 .. n, i # 0 PROVE g[i] = next(g[i - 1], i)
    BY <1>6 DEF Iterates
  <2>1. g[i] = step[<<g[i - 1], i>>]
    <3> HIDE DEF base, step
    <3> QED
      BY <1>6 DEF Iterates
  <2>2. i - 1 \in 0 .. n
    OBVIOUS
  <2>3. g[i - 1] \in Int
    BY <2>2
  <2> QED
    BY <2>1, <2>3
<1>8. g = [i \in 0 .. n |-> IF i = 0 THEN 0 ELSE next(g[i - 1], i)]
  BY <1>7
<1>9. sum = [i \in 0 .. n |-> IF i = 0 THEN 0 ELSE next(sum[i - 1], i)]
  <2> HIDE DEF step
  <2> QED
    BY <1>8
<1> HIDE DEF sum, step
<1>10. \A i \in 0 .. n : sum[i] = IF i = 0 THEN 0 ELSE next(sum[i - 1], i)
  BY <1>9
<1>11. \A i \in 0 .. n : sum[i] \in Int
  <2> DEFINE B == {i \in 0 .. n : sum[i] \notin Int}
  <2>1. SUFFICES ASSUME B # {} PROVE FALSE
    OBVIOUS
  <2>2. B \subseteq Nat
    OBVIOUS
  <2>3. PICK k \in B : \A i \in B : k <= i
    <3> HIDE DEF B
    <3> QED
      BY <2>1, <2>2, LeastNumber
  <2>4. k \in 0 .. n /\ sum[k] \notin Int
    OBVIOUS
  <2>5. k # 0
    BY <2>4, <1>10
  <2>6. k - 1 \in 0 .. n /\ k \in 1 .. n /\ ~(k <= k - 1)
    BY <2>4, <2>5
  <2>7. sum[k - 1] \in Int
    BY <2>3, <2>6
  <2> HIDE DEF B
  <2> QED
    BY <2>4, <2>5, <2>6, <2>7, <1>4, <1>10
<1>12. Max(T) \in Int
  <2> DEFINE f == [i \in 1 .. n |-> sum[i]]
  <2>1. f \in Surjection(1 .. n, T)
    BY DEF Surjection
  <2>2. IsFiniteSet(1 .. n)
    BY FS_Interval
  <2>3. 1 \in 1 .. n /\ \A i \in 1 .. n : i \in 0 .. n
    OBVIOUS
  <2>4. T # {} /\ T \subseteq Int
    BY <1>11, <2>3
  <2> HIDE DEF f, T
  <2>5. IsFiniteSet(T)
    BY <2>1, <2>2, FS_Surjection
  <2> QED
    BY <2>4, <2>5, MaxIsLargest
<1> DEFINE most == Max(T)
<1>13. most \in Int /\ Cusum(v) = IF d = 0 THEN 0 ELSE PercentOfRoot(most, 10, d)
  BY <1>3, <1>12
<1> HIDE DEF most
<1>14. Percent(PercentOfRoot(most, 10, d))
  <2>1. 10 \in Int
    OBVIOUS
  <2> QED
    BY <1>2, <1>13, <2>1, RootInPercent, Zenon
<1> QED
  BY <1>13, <1>14 DEF Percent

\* A burst is a share, whatever the libraries' models answer.
LEMMA BurstIsShare ==
    ASSUME NEW A, Counted(A), NEW burst, burst \in DetectBurst(A)
    PROVE  Share(burst)
<1> DEFINE v == BurstSeries(A)
<1>1. PICK n \in Nat : v \in [1 .. n -> Nat]
  BY SeriesOfNumbers
<1>2. Len(v) = n
  BY <1>1
<1>3. DetectBurst(A) =
          IF n < MinBurstSeries THEN {0}
          ELSE {40 * prophet + 35 * iforest + 25 * Cusum(v) :
                    prophet \in BurstPart \cup {StatisticalAnomaly(v)},
                    iforest \in BurstPart \cup {PercentileAnomaly(v)}}
  BY <1>2 DEF DetectBurst
<1> HIDE DEF v
<1>4. CASE n < MinBurstSeries
  BY <1>3, <1>4 DEF Share
<1>5. CASE ~(n < MinBurstSeries)
  <2>1. n \in Nat \ {0} /\ n >= 2
    BY <1>5, ScoringAssumption
  <2>2. Percent(StatisticalAnomaly(v)) /\ Percent(PercentileAnomaly(v)) /\ Percent(Cusum(v))
    BY <1>1, <2>1, StatisticalPart, PercentilePart, CusumPart
  <2>3. \A p \in BurstPart : Percent(p)
    BY ScoringAssumption DEF Percent
  <2>4. PICK prophet \in BurstPart \cup {StatisticalAnomaly(v)},
             iforest \in BurstPart \cup {PercentileAnomaly(v)} :
                 burst = 40 * prophet + 35 * iforest + 25 * Cusum(v)
    BY <1>3, <1>5
  <2>5. Percent(prophet) /\ Percent(iforest)
    BY <2>2, <2>3, <2>4
  <2> DEFINE c == Cusum(v)
  <2>6. Percent(c) /\ burst = 40 * prophet + 35 * iforest + 25 * c
    BY <2>2, <2>4
  <2> HIDE DEF c
  <2> QED
    BY <2>5, <2>6 DEF Percent, Share
<1> QED
  BY <1>4, <1>5

\* The penalties, by number of articles.
LEMMA PenaltyOfCount ==
    ASSUME NEW n, n \in Nat
    PROVE  CountPenalty(n) \in {30, 50, 70, 85, 100}
  BY DEF CountPenalty

\* calculate_score stays between 0 and 100.
LEMMA ScoreIsShare ==
    ASSUME NEW age, Percent(Freshness(age)), NEW n, n \in 0 .. MaxInGroup,
           NEW outlets, outlets \in 0 .. MaxInGroup, NEW importance, Percent(importance),
           NEW burst, Share(burst), NEW velocity, Share(velocity)
    PROVE  Share(CalculateScore(age, n, outlets, importance, burst, velocity))
<1> DEFINE f == Freshness(age)  o == OutletRatio(outlets)  a == ArticleRatio(n)
           b == (15 * (burst + velocity)) \div 100
           w == 15 * f + 15 * o + 30 * a + 10 * importance + b
           k == CountPenalty(n)
           q == (w * k) \div 100
<1>1. Percent(f) /\ Percent(o) /\ Percent(a)
  BY ScoringAssumption DEF Percent
<1>2. b \in Nat /\ b <= 3000
  BY DEF Share
<1>3. n \in Nat
  BY ScoringAssumption
<1>4. k \in {30, 50, 70, 85, 100}
  BY <1>3, PenaltyOfCount
<1>5. CalculateScore(age, n, outlets, importance, burst, velocity) = q
  BY DEF CalculateScore
<1> HIDE DEF f, o, a, b, k
<1>6. w \in Nat /\ w <= 10000
  BY <1>1, <1>2 DEF Percent
<1> HIDE DEF w
<1>7. q \in Nat /\ q <= 10000
  <2>1. k = 30 \/ k = 50 \/ k = 70 \/ k = 85 \/ k = 100
    BY <1>4
  <2> QED
    BY <1>6, <2>1
<1> QED
  BY <1>5, <1>7 DEF Share

(***************************************************************************)
(* The rows of Scoring.                                                    *)
(***************************************************************************)

\* What the columns of a row hold.
ScoringRow == [early : Nat, burst : Nat, score : Nat, growth : {"spike", "growth", "unknown"},
               created : Moment, by : {"save", "match", "job"}]

\* What a row promises of the group A it stands for.
Earned(r, A) ==
    r.early > 4000 => SizeOf(A) >= 3 /\ (Cardinality(Outlets(A)) >= 2 \/ r.by = "match")

\* There is one group.
AtMostOne(S) == S = {} \/ \E r : S = {r}

\* How far the save is, and what there is by then.
SavingInv ==
    /\ saving \in {"none", "batch", "each", "assign", "saved", "cut"}
    /\ saving \in {"none", "batch", "each"} => trendRow = {} /\ earlyJob = {}
    /\ saving \in {"none", "batch", "each", "assign"} =>
          \A p \in Outlet \X Moment : grouped[p] <= cluster[p]

\* Every row of a set is earned, by the cluster until all its articles are the group's.
RowsEarned(S) ==
    \A r \in S :
        /\ r \in ScoringRow /\ Share(r.early) /\ Share(r.burst) /\ Share(r.score)
        /\ Earned(r, ArticlesBehind(r))

\* What the save will write is earned by the cluster.
ScoredInv ==
    \A r \in scored :
        /\ r \in ScoringRow /\ Share(r.early) /\ Share(r.burst) /\ Share(r.score)
        /\ Earned(r, cluster) /\ r.by = "save"

\* What the job has selected is no more than the group has, since a group only grows.
JobInv ==
    \A row \in earlyJob :
        /\ JobRow(row) /\ row.size <= SizeOf(grouped)
        /\ row.outlets <= Cardinality(Outlets(grouped))

SettingsInv ==
    /\ earlySetting \in EarlyWeights \cup {DefaultWeights}
    /\ earlyCopy \subseteq EarlyWeights \cup {DefaultWeights} /\ platforms \in PlatformCount

\* The inductive invariant: the group has at most the cluster's articles until the save is
\* over, and a score computed of the one or of the other is earned when it is written.
ScoringInv ==
    /\ clock \in Moment
    /\ PublishedByNow(cluster) /\ SizeOf(cluster) <= MaxInGroup
    /\ PublishedByNow(grouped) /\ SizeOf(grouped) <= MaxInGroup
    /\ AtMostOne(trendRow) /\ AtMostOne(scored) /\ AtMostOne(earlyJob)
    /\ SavingInv /\ RowsEarned(trendRow) /\ ScoredInv /\ JobInv /\ SettingsInv

\* At most one element.
LEMMA CardinalityOfOne ==
    ASSUME NEW S, AtMostOne(S)
    PROVE  Cardinality(S) <= 1
<1>1. CASE S = {}
  BY <1>1, FS_EmptySet
<1>2. CASE \E r : S = {r}
  <2> PICK r : S = {r}
    BY <1>2
  <2>1. Cardinality({r}) = 1
    BY FS_Singleton
  <2> QED
    BY <2>1
<1> QED
  BY <1>1, <1>2 DEF AtMostOne

\* No source has more articles of one time than there are.
LEMMA CountsBounded ==
    ASSUME NEW A, Counted(A), SizeOf(A) <= MaxInGroup
    PROVE  A \in [Outlet \X Moment -> 0 .. MaxInGroup]
<1>1. SizeOf(A) \in Nat /\ MaxInGroup \in Nat
  BY SizeIsTotal, ScoringAssumption
<1> SUFFICES ASSUME NEW p \in Outlet \X Moment PROVE A[p] \in 0 .. MaxInGroup
  BY DEF Counted
<1>2. A[p] \in Nat
  BY DEF Counted
<1>3. CASE p \in Present(A)
  <2>1. A[p] <= SizeOf(A)
    BY <1>3, SizeIsTotal
  <2> QED
    BY <1>1, <1>2, <2>1
<1>4. CASE p \notin Present(A)
  <2>1. ~(A[p] > 0)
    BY <1>4 DEF Present, Counted
  <2> QED
    BY <1>1, <1>2, <2>1
<1> QED
  BY <1>3, <1>4

\* The invariant implies what the runs check.
LEMMA ScoringImplies == ScoringInv => ScoringTypeOK /\ EarlyTrendEarned
<1> SUFFICES ASSUME ScoringInv PROVE ScoringTypeOK /\ EarlyTrendEarned
  OBVIOUS
<1>1. \A A \in {cluster, grouped} : A \in [Outlet \X Moment -> 0 .. MaxInGroup]
  BY CountsBounded DEF ScoringInv, PublishedByNow
<1>2. ASSUME NEW r \in trendRow \cup scored
      PROVE  /\ \A x \in {r.early, r.burst, r.score} : x \in Nat /\ x <= 10000
             /\ r.growth \in {"spike", "growth", "unknown"} /\ r.by \in {"save", "match", "job"}
             /\ r.created \in Moment
  <2>1. r \in ScoringRow /\ Share(r.early) /\ Share(r.burst) /\ Share(r.score)
    BY DEF ScoringInv, RowsEarned, ScoredInv
  <2> QED
    BY <2>1 DEF ScoringRow, Share
<1>3. \A S \in {trendRow, scored, earlyJob} : Cardinality(S) <= 1
  BY CardinalityOfOne DEF ScoringInv
<1>4. clock \in Moment /\ saving \in {"none", "batch", "each", "assign", "saved", "cut"} /\ SettingsInv
  BY DEF ScoringInv, SavingInv
<1>5. ScoringTypeOK
  BY <1>1, <1>2, <1>3, <1>4 DEF SettingsInv, ScoringTypeOK
<1>6. EarlyTrendEarned
  BY DEF ScoringInv, RowsEarned, EarlyTrendEarned, ListedEarly, Earned
<1> QED
  BY <1>5, <1>6

\* There is no group yet.
LEMMA ScoringInit == InitScoring => ScoringInv
<1> SUFFICES ASSUME InitScoring PROVE ScoringInv
  OBVIOUS
<1>1. grouped = cluster /\ Counted(cluster) /\ Present(cluster) = {}
  BY DEF InitScoring, Counted, Present
<1>2. SizeOf(cluster) = 0
  BY <1>1, SizeIsTotal, TotalUnfolds, FS_EmptySet
<1>3. clock \in Moment /\ clock \in Nat /\ SizeOf(cluster) <= MaxInGroup
  BY <1>2, ScoringAssumption DEF InitScoring
<1>4. \A p \in Outlet \X Moment : grouped[p] <= cluster[p]
  BY DEF InitScoring
<1>5. SavingInv /\ SettingsInv
  BY <1>4, ScoringAssumption DEF InitScoring, SavingInv, SettingsInv
<1>6. trendRow = {} /\ scored = {} /\ earlyJob = {}
  BY DEF InitScoring
<1>7. RowsEarned(trendRow) /\ ScoredInv /\ JobInv
  BY <1>6 DEF RowsEarned, ScoredInv, JobInv
<1>8. PublishedByNow(cluster)
  BY <1>1, <1>3 DEF PublishedByNow
<1>9. PublishedByNow(grouped) /\ SizeOf(grouped) <= MaxInGroup
  BY <1>1, <1>3 DEF PublishedByNow
<1> QED
  BY <1>3, <1>5, <1>6, <1>7, <1>8, <1>9 DEF ScoringInv, AtMostOne

\* Of fewer articles, there are fewer in all.
LEMMA FewerArticles ==
    ASSUME NEW A, Counted(A), NEW C, Counted(C), \A p \in Outlet \X Moment : A[p] <= C[p]
    PROVE  Present(A) \subseteq Present(C) /\ SizeOf(A) <= SizeOf(C)
<1>1. \A p \in Outlet \X Moment : A[p] \in Nat /\ C[p] \in Nat
  BY DEF Counted
<1>2. Present(A) \subseteq Present(C)
  <2>1. DOMAIN A = Outlet \X Moment /\ DOMAIN C = Outlet \X Moment
    BY DEF Counted
  <2> SUFFICES ASSUME NEW p \in Outlet \X Moment, A[p] > 0 PROVE C[p] > 0
    BY <2>1 DEF Present
  <2>2. A[p] \in Nat /\ C[p] \in Nat /\ A[p] <= C[p]
    BY <1>1
  <2> QED
    BY <2>2
<1> DEFINE P == Present(A)  Q == Present(C)
<1>3. IsFiniteSet(Q) /\ P \subseteq Q /\ Q \subseteq Outlet \X Moment
  BY <1>2, PresentFinite
<1>4. SizeOf(A) = Total(A, P) /\ SizeOf(C) = Total(C, Q)
  BY SizeIsTotal
<1> HIDE DEF P, Q
<1>5. /\ \A q \in P : A[q] \in Int /\ A[q] <= C[q]
      /\ \A q \in Q : C[q] \in Int /\ C[q] >= 0
  BY <1>1, <1>3
<1>6. Total(A, P) <= Total(C, Q)
  BY <1>3, <1>5, TotalMonotone
<1> QED
  BY <1>2, <1>4, <1>6

\* A row keeps its promise as the group grows.
LEMMA EarnedKept ==
    ASSUME NEW A, Counted(A), NEW C, Counted(C), SizeOf(A) <= SizeOf(C),
           Cardinality(Outlets(A)) <= Cardinality(Outlets(C)), NEW r, Earned(r, A)
    PROVE  Earned(r, C)
<1>1. /\ SizeOf(A) \in Nat /\ SizeOf(C) \in Nat
      /\ Cardinality(Outlets(A)) \in Nat /\ Cardinality(Outlets(C)) \in Nat
  BY SizeIsTotal, OutletsCounted
<1> QED
  BY <1>1 DEF Earned

\* An article more, published by now, and the row and the job's counts still hold.
LEMMA JoinKeeps ==
    ASSUME ScoringInv, NEW p \in Outlet \X Moment, p[2] <= clock, SizeOf(grouped) < MaxInGroup,
           grouped' = [grouped EXCEPT ![p] = @ + 1], clock' = clock
    PROVE  /\ PublishedByNow(grouped)' /\ SizeOf(grouped') <= MaxInGroup
           /\ SizeOf(grouped') \in Nat
           /\ \A r \in trendRow :
                 Earned(r, IF r.by = "save" /\ saving \in {"assign", "cut"} THEN cluster
                           ELSE grouped')
           /\ \A row \in earlyJob :
                 /\ JobRow(row) /\ row.size <= SizeOf(grouped')
                 /\ row.outlets <= Cardinality(Outlets(grouped'))
<1> DEFINE A == grouped  C == grouped'
<1>1. Counted(A) /\ clock \in Nat /\ \A q \in Present(A) : q[2] <= clock
  BY DEF ScoringInv, PublishedByNow
<1>2. /\ Counted(C) /\ Present(C) = Present(A) \cup {p} /\ SizeOf(C) = SizeOf(A) + 1
      /\ Cardinality(Outlets(A)) <= Cardinality(Outlets(C))
  BY <1>1, OneMore
<1>3. /\ SizeOf(A) \in Nat /\ SizeOf(C) \in Nat /\ MaxInGroup \in Nat
      /\ Cardinality(Outlets(A)) \in Nat /\ Cardinality(Outlets(C)) \in Nat
  BY <1>1, <1>2, SizeIsTotal, OutletsCounted, ScoringAssumption
<1>4. PublishedByNow(grouped)'
  BY <1>1, <1>2 DEF PublishedByNow
<1>5. SizeOf(C) <= MaxInGroup /\ SizeOf(A) <= SizeOf(C)
  BY <1>2, <1>3
<1>6. ASSUME NEW r \in trendRow
      PROVE  Earned(r, IF r.by = "save" /\ saving \in {"assign", "cut"} THEN cluster ELSE C)
  <2>1. Earned(r, IF r.by = "save" /\ saving \in {"assign", "cut"} THEN cluster ELSE A)
    BY DEF ScoringInv, RowsEarned, ArticlesBehind, A
  <2> HIDE DEF A, C
  <2>2. CASE r.by = "save" /\ saving \in {"assign", "cut"}
    BY <2>1, <2>2
  <2>3. CASE ~(r.by = "save" /\ saving \in {"assign", "cut"})
    <3>1. Earned(r, A)
      BY <2>1, <2>3
    <3>2. Earned(r, C)
      BY <1>1, <1>2, <1>5, <3>1, EarnedKept
    <3> QED
      BY <2>3, <3>2
  <2> QED
    BY <2>2, <2>3
<1>7. ASSUME NEW row \in earlyJob
      PROVE  JobRow(row) /\ row.size <= SizeOf(C) /\ row.outlets <= Cardinality(Outlets(C))
  <2>1. JobRow(row) /\ row.size <= SizeOf(A) /\ row.outlets <= Cardinality(Outlets(A))
    BY DEF ScoringInv, JobInv
  <2>2. row.size \in Nat /\ row.outlets \in Nat
    BY <2>1 DEF JobRow
  <2> HIDE DEF A, C
  <2> QED
    BY <1>2, <1>3, <1>5, <2>1, <2>2
<1> QED
  BY <1>3, <1>4, <1>5, <1>6, <1>7

\* An article of the cluster is published.
LEMMA PublishStep ==
    ASSUME ScoringInv, NEW o \in Outlet, PublishForGroup(o)
    PROVE  ScoringInv'
<1> DEFINE p == <<o, clock>>  A == cluster  C == cluster'
<1>1. p \in Outlet \X Moment /\ p[2] <= clock
  BY ScoringAssumption DEF ScoringInv
<1>2. /\ saving = "none" /\ SizeOf(A) < MaxInGroup /\ C = [A EXCEPT ![p] = @ + 1]
      /\ UNCHANGED <<clock, scored, saving, grouped, trendRow, earlyJob, earlySetting, earlyCopy,
                     platforms>>
  BY DEF PublishForGroup
<1> HIDE DEF p
<1>3. Counted(A) /\ Counted(grouped) /\ clock \in Nat /\ \A q \in Present(A) : q[2] <= clock
  BY DEF ScoringInv, PublishedByNow
<1>4. /\ Counted(C) /\ Present(C) = Present(A) \cup {p} /\ SizeOf(C) = SizeOf(A) + 1
      /\ Cardinality(Outlets(A)) <= Cardinality(Outlets(C))
  BY <1>1, <1>2, <1>3, OneMore
<1>5. SizeOf(A) \in Nat /\ SizeOf(C) \in Nat /\ MaxInGroup \in Nat
  BY <1>3, <1>4, SizeIsTotal, ScoringAssumption
<1>6. PublishedByNow(cluster)' /\ SizeOf(C) <= MaxInGroup /\ SizeOf(A) <= SizeOf(C)
  <2>1. SizeOf(A) < MaxInGroup /\ clock' = clock
    BY <1>2
  <2>2. PublishedByNow(cluster)'
    BY <1>1, <1>3, <1>4, <2>1 DEF PublishedByNow
  <2> HIDE DEF A, C
  <2>3. SizeOf(C) <= MaxInGroup /\ SizeOf(A) <= SizeOf(C)
    BY <1>4, <1>5, <2>1
  <2> QED
    BY <2>2, <2>3 DEF C
<1>7. \A q \in Outlet \X Moment : grouped[q] <= C[q]
  <2>1. \A q \in Outlet \X Moment : grouped[q] \in Nat /\ A[q] \in Nat /\ grouped[q] <= A[q]
    BY <1>2, <1>3 DEF Counted, ScoringInv, SavingInv
  <2>2. \A q \in Outlet \X Moment : C[q] = IF q = p THEN A[q] + 1 ELSE A[q]
    BY <1>2, <1>3 DEF Counted
  <2> HIDE DEF A, C
  <2> QED
    BY <2>1, <2>2
<1>8. SavingInv'
  BY <1>2, <1>7 DEF ScoringInv, SavingInv
<1>9. ASSUME NEW r \in scored PROVE Earned(r, C)
  <2>1. Earned(r, A)
    BY DEF ScoringInv, ScoredInv
  <2> HIDE DEF A, C
  <2> QED
    BY <1>3, <1>4, <1>6, <2>1, EarnedKept
<1>10. ScoredInv'
  BY <1>2, <1>9 DEF ScoringInv, ScoredInv
<1>11. trendRow' = {} /\ earlyJob' = {}
  BY <1>2 DEF ScoringInv, SavingInv
<1> QED
  BY <1>2, <1>6, <1>8, <1>10, <1>11
     DEF ScoringInv, AtMostOne, RowsEarned, JobInv, SettingsInv, PublishedByNow

\* The scores of the cluster are computed.
LEMMA ScoreStep ==
    ASSUME ScoringInv, NEW first \in Present(cluster), NEW importance \in Importance,
           NEW burst \in DetectBurst(cluster), NEW boost \in ReadBoost,
           StageScore(first, importance, burst, boost)
    PROVE  ScoringInv'
<1> DEFINE A == cluster  outlets == Cardinality(Outlets(A))  n == SizeOf(A)
           a == Aged(A, 0, 60)  b == Aged(A, 0, 1440)  v == Velocity(a, b)
           age == clock - first[2]
           base == CalculateScore(age, n, outlets, importance, burst, v)
           cross == CrossPlatform(outlets)
           q == (base * cross * boost) \div 10000
           score == Least(10000, q)
           early == EarlyOfSave(A)
           new == [early |-> early, burst |-> burst, score |-> score,
                   growth |-> GrowthType(A), created |-> clock, by |-> "save"]
<1>1. /\ scored' = {new} /\ saving = "none" /\ saving' = "batch"
      /\ UNCHANGED <<clock, cluster, grouped, trendRow, earlyJob, earlySetting, earlyCopy,
                     platforms>>
  BY DEF StageScore
<1>2. /\ PublishedByNow(A) /\ Counted(A) /\ n <= MaxInGroup /\ clock \in Moment
      /\ \A p \in Present(A) : p[2] <= clock
  BY DEF ScoringInv, PublishedByNow
<1>3. n \in Nat /\ outlets \in Nat /\ outlets <= n /\ MaxInGroup \in Nat
  BY <1>2, SizeIsTotal, OutletsCounted, ScoringAssumption
<1>4. Share(burst)
  BY <1>2, BurstIsShare
<1>5. Percent(importance)
  BY ScoringAssumption DEF Percent
<1>6. Percent(Freshness(age))
  <2> DEFINE at == first[2]
  <2>1. at \in Moment /\ at <= clock /\ clock \in Moment
    BY <1>2, PresentFinite
  <2> HIDE DEF at
  <2>2. Percent(Freshness(clock - at))
    BY <2>1, ScoringAssumption DEF Percent
  <2> QED
    BY <2>2 DEF at
<1>7. a \in Nat /\ b \in Nat
  BY <1>2, AgedCount
<1>8. cross \in Nat
  BY <1>3 DEF CrossPlatform
<1>9. boost \in Nat
  BY DEF ReadBoost, ExternalBoost
<1>10. GrowthType(A) \in {"spike", "growth", "unknown"}
  BY DEF GrowthType
<1>11. /\ Share(early)
       /\ early > 3000 => n >= 3 /\ outlets >= 2
  BY <1>2, EarlySaved
<1> HIDE DEF n, outlets, a, b, age, cross
<1>12. Share(v)
  BY <1>7, VelocityPart
<1> HIDE DEF v
<1>13. n \in 0 .. MaxInGroup /\ outlets \in 0 .. MaxInGroup
  BY <1>2, <1>3
<1>14. Share(base)
  BY <1>4, <1>5, <1>6, <1>12, <1>13, ScoreIsShare
<1> HIDE DEF base
<1>15. q \in Nat
  <2> DEFINE x == base * cross  y == x * boost
  <2>1. x \in Nat
    BY <1>8, <1>14, TimesNat DEF Share
  <2> HIDE DEF x
  <2>2. y \in Nat
    BY <1>9, <2>1, TimesNat
  <2>3. q = y \div 10000
    BY DEF x
  <2> HIDE DEF y, q
  <2> QED
    BY <2>2, <2>3
<1> HIDE DEF q
<1>16. Share(score)
  BY <1>15 DEF Least, Share
<1> HIDE DEF score, early
<1>17. new \in ScoringRow /\ Share(new.early) /\ Share(new.burst) /\ Share(new.score)
  BY <1>2, <1>4, <1>10, <1>11, <1>16 DEF ScoringRow, Share
<1>18. new.early = early /\ new.by = "save"
  OBVIOUS
<1> HIDE DEF new
<1>19. Earned(new, A)
  BY <1>3, <1>11, <1>18 DEF Earned, n, outlets, Share
<1>20. AtMostOne(scored')
  BY <1>1 DEF AtMostOne
<1> HIDE DEF A
<1>21. A = cluster /\ A = cluster'
  BY <1>1 DEF A
<1>22. ScoredInv'
  BY <1>1, <1>17, <1>18, <1>19, <1>21 DEF ScoredInv
<1>23. SavingInv' /\ trendRow' = {} /\ earlyJob' = {}
  BY <1>1 DEF ScoringInv, SavingInv
<1> QED
  BY <1>1, <1>20, <1>22, <1>23
     DEF ScoringInv, AtMostOne, RowsEarned, JobInv, SettingsInv, PublishedByNow

\* The group is saved with all articles at once.
LEMMA BatchSaved ==
    ASSUME ScoringInv, SaveBatch
    PROVE  ScoringInv'
<1>1. /\ saving = "batch" /\ saving' = "saved" /\ trendRow' = scored /\ grouped' = cluster
      /\ scored' = {} /\ UNCHANGED <<clock, cluster, earlyJob, earlySetting, earlyCopy, platforms>>
  BY DEF SaveBatch
<1>2. earlyJob' = {} /\ SavingInv'
  BY <1>1 DEF ScoringInv, SavingInv
<1>3. RowsEarned(trendRow)'
  BY <1>1 DEF ScoringInv, ScoredInv, RowsEarned, ArticlesBehind
<1> QED
  BY <1>1, <1>2, <1>3 DEF ScoringInv, AtMostOne, ScoredInv, JobInv, SettingsInv, PublishedByNow

\* The fallback saves the group, whose articles still are the cluster's only.
LEMMA EachSaved ==
    ASSUME ScoringInv, SaveEach
    PROVE  ScoringInv'
<1>1. /\ saving = "each" /\ saving' \in {"assign", "cut"} /\ trendRow' = scored /\ scored' = {}
      /\ UNCHANGED <<clock, cluster, grouped, earlyJob, earlySetting, earlyCopy, platforms>>
  BY DEF SaveEach
<1>2. earlyJob' = {} /\ SavingInv'
  BY <1>1 DEF ScoringInv, SavingInv
<1>3. RowsEarned(trendRow)'
  BY <1>1 DEF ScoringInv, ScoredInv, RowsEarned, ArticlesBehind
<1> QED
  BY <1>1, <1>2, <1>3 DEF ScoringInv, AtMostOne, ScoredInv, JobInv, SettingsInv, PublishedByNow

\* One of the articles gets the group's id.
LEMMA AssignStep ==
    ASSUME ScoringInv, NEW p \in Outlet \X Moment, AssignArticle(p)
    PROVE  ScoringInv'
<1> DEFINE A == grouped  C == grouped'  L == cluster
<1>1. /\ saving = "assign" /\ A[p] < L[p] /\ C = [A EXCEPT ![p] = @ + 1]
      /\ saving' = IF C = L THEN "saved" ELSE "assign"
      /\ UNCHANGED <<clock, cluster, scored, trendRow, earlyJob, earlySetting, earlyCopy, platforms>>
  BY DEF AssignArticle
<1>2. /\ Counted(A) /\ Counted(L) /\ SizeOf(L) <= MaxInGroup
      /\ \A q \in Present(L) : q[2] <= clock
  BY DEF ScoringInv, PublishedByNow
<1>3. Counted(C) /\ SizeOf(C) = SizeOf(A) + 1
  BY <1>1, <1>2, OneMore
<1>4. \A q \in Outlet \X Moment : C[q] <= L[q]
  <2>1. \A q \in Outlet \X Moment : A[q] \in Nat /\ L[q] \in Nat /\ A[q] <= L[q]
    BY <1>1, <1>2 DEF Counted, ScoringInv, SavingInv
  <2>2. \A q \in Outlet \X Moment : C[q] = IF q = p THEN A[q] + 1 ELSE A[q]
    BY <1>1, <1>2 DEF Counted
  <2>3. A[p] < L[p]
    BY <1>1
  <2> HIDE DEF A, C, L
  <2> QED
    BY <2>1, <2>2, <2>3
<1>5. SizeOf(A) < MaxInGroup /\ p[2] <= clock
  <2>1. SizeOf(A) \in Nat /\ SizeOf(C) \in Nat /\ SizeOf(L) \in Nat /\ MaxInGroup \in Nat
    BY <1>2, <1>3, SizeIsTotal, ScoringAssumption
  <2>2. SizeOf(C) <= SizeOf(L)
    <3> HIDE DEF C, L
    <3> QED
      BY <1>2, <1>3, <1>4, FewerArticles
  <2>3. p \in Present(L)
    <3>1. A[p] \in Nat /\ L[p] \in Nat /\ DOMAIN L = Outlet \X Moment /\ A[p] < L[p]
      BY <1>1, <1>2 DEF Counted
    <3> HIDE DEF A, L
    <3> QED
      BY <3>1 DEF Present
  <2> QED
    BY <1>2, <1>3, <2>1, <2>2, <2>3
<1>6. /\ PublishedByNow(grouped)' /\ SizeOf(grouped') <= MaxInGroup
      /\ \A r \in trendRow :
            Earned(r, IF r.by = "save" /\ saving \in {"assign", "cut"} THEN cluster ELSE grouped')
      /\ \A row \in earlyJob :
            /\ JobRow(row) /\ row.size <= SizeOf(grouped')
            /\ row.outlets <= Cardinality(Outlets(grouped'))
  BY <1>1, <1>5, JoinKeeps
<1>7. JobInv'
  BY <1>1, <1>6 DEF JobInv
<1>8. SavingInv'
  BY <1>1, <1>4 DEF SavingInv
<1>9. ASSUME NEW r \in trendRow PROVE Earned(r, ArticlesBehind(r)')
  <2>1. CASE saving' = "assign"
    BY <1>1, <1>6, <2>1 DEF ArticlesBehind
  <2>2. CASE saving' = "saved" /\ C = L
    BY <1>1, <1>6, <2>2 DEF ArticlesBehind
  <2> QED
    BY <1>1, <2>1, <2>2
<1>10. RowsEarned(trendRow)'
  BY <1>1, <1>9 DEF ScoringInv, RowsEarned
<1> QED
  BY <1>1, <1>6, <1>7, <1>8, <1>10 DEF ScoringInv, AtMostOne, ScoredInv, SettingsInv, PublishedByNow

\* The save stops halfway.
LEMMA CutStep ==
    ASSUME ScoringInv, SaveEnds \/ BatchFails
    PROVE  ScoringInv'
<1>1. /\ UNCHANGED <<clock, cluster, grouped, trendRow, earlyJob, earlySetting, earlyCopy, platforms>>
      /\ scored' \in {{}, scored}
      /\ \/ saving \in {"batch", "each"} /\ saving' \in {"none", "each"}
         \/ saving = "assign" /\ saving' = "cut"
  BY DEF SaveEnds, BatchFails
<1>2. SavingInv' /\ ScoredInv' /\ AtMostOne(scored')
  BY <1>1 DEF ScoringInv, SavingInv, ScoredInv, AtMostOne
<1>3. RowsEarned(trendRow)'
  BY <1>1 DEF ScoringInv, SavingInv, RowsEarned, ArticlesBehind
<1> QED
  BY <1>1, <1>2, <1>3 DEF ScoringInv, AtMostOne, JobInv, SettingsInv, PublishedByNow

\* An article joins the saved group, and the scores are written or not.
LEMMA MatchStep ==
    ASSUME ScoringInv, NEW o \in Outlet, NEW at \in Moment, NEW importance \in Importance,
           MatchScores(o, at, importance)
    PROVE  ScoringInv'
<1> DEFINE p == <<o, at>>
<1>1. p \in Outlet \X Moment /\ p[2] <= clock
  BY DEF MatchScores
<1>2. /\ SizeOf(grouped) < MaxInGroup /\ clock' = clock /\ saving \in {"saved", "cut"}
      /\ grouped' = [grouped EXCEPT ![p] = @ + 1]
      /\ UNCHANGED <<cluster, scored, saving, earlyJob, earlySetting, earlyCopy, platforms>>
  BY DEF MatchScores, saveVars
<1> HIDE DEF p
<1>3. /\ PublishedByNow(grouped)' /\ SizeOf(grouped') <= MaxInGroup
      /\ SizeOf(grouped') \in Nat
      /\ \A r \in trendRow :
            Earned(r, IF r.by = "save" /\ saving \in {"assign", "cut"} THEN cluster ELSE grouped')
      /\ \A row \in earlyJob :
            /\ JobRow(row) /\ row.size <= SizeOf(grouped')
            /\ row.outlets <= Cardinality(Outlets(grouped'))
  BY <1>1, <1>2, JoinKeeps
<1> DEFINE C == grouped'  n == SizeOf(C)  outlets == Cardinality(Outlets(C))
           zero == 0
           new == CalculateScore(clock - at, n, outlets, importance, zero, zero)
           early == EarlyOfMatch(n)
<1>4. PICK r \in trendRow :
          trendRow' \in {trendRow, {[r EXCEPT !.early = early, !.by = "match",
                                              !.score = IF new > @ THEN new ELSE @]}}
  BY DEF MatchScores
<1>5. r \in ScoringRow /\ Share(r.early) /\ Share(r.burst) /\ Share(r.score)
  BY DEF ScoringInv, RowsEarned
<1>6. Share(new)
  <2>1. Counted(C) /\ MaxInGroup \in Nat
    BY <1>3, ScoringAssumption DEF PublishedByNow
  <2>2. outlets \in Nat /\ outlets <= n
    BY <2>1, OutletsCounted
  <2>3. n \in 0 .. MaxInGroup /\ outlets \in 0 .. MaxInGroup
    <3> HIDE DEF n, outlets
    <3>1. n \in Nat /\ n <= MaxInGroup
      BY <1>3 DEF n
    <3> QED
      BY <2>1, <2>2, <3>1
  <2> DEFINE age == clock - at
  <2>4. Percent(Freshness(age))
    BY <1>1, ScoringAssumption DEF Percent, ScoringInv, MatchScores
  <2>5. Percent(importance) /\ Share(zero)
    BY ScoringAssumption DEF Percent, Share
  <2> HIDE DEF n, outlets, age, zero
  <2>6. Share(CalculateScore(age, n, outlets, importance, zero, zero))
    BY <2>3, <2>4, <2>5, ScoreIsShare
  <2> QED
    BY <2>6 DEF age
<1>7. n \in Nat
  BY <1>3
<1>8. Share(early) /\ (early > 4000 => n >= 3)
  <2> HIDE DEF n
  <2> QED
    BY <1>7, EarlyMatched
<1> DEFINE score == IF new > r.score THEN new ELSE r.score
           row == [r EXCEPT !.early = early, !.by = "match", !.score = score]
<1>9. Share(score)
  <2> HIDE DEF new
  <2> QED
    BY <1>5, <1>6
<1>10. trendRow' = trendRow \/ trendRow' = {row}
  BY <1>4
<1> HIDE DEF score, early, new
<1>11. /\ row \in ScoringRow /\ row.early = early /\ row.by = "match" /\ row.score = score
       /\ row.burst = r.burst
  <2>1. early \in Nat /\ score \in Nat
    BY <1>8, <1>9 DEF Share
  <2> HIDE DEF n, outlets, C
  <2> QED
    BY <1>5, <2>1 DEF ScoringRow
<1> HIDE DEF row
<1>12. Earned(row, C)
  BY <1>8, <1>11 DEF Earned
<1>13. Share(row.early) /\ Share(row.burst) /\ Share(row.score)
  BY <1>5, <1>8, <1>9, <1>11
<1>14. AtMostOne(trendRow')
  BY <1>10 DEF ScoringInv, AtMostOne
<1>15. \A t \in trendRow : Earned(t, ArticlesBehind(t)')
  BY <1>2, <1>3 DEF ArticlesBehind
<1>16. \A t : t.by = "match" => ArticlesBehind(t)' = C
  BY DEF ArticlesBehind
<1>17. RowsEarned(trendRow)'
  <2>1. CASE trendRow' = trendRow
    BY <1>15, <2>1 DEF ScoringInv, RowsEarned
  <2>2. CASE trendRow' = {row}
    <3> HIDE DEF C
    <3>1. ASSUME NEW t \in trendRow' PROVE t = row /\ t.by = "match"
      BY <1>11, <2>2, <3>1
    <3>2. ASSUME NEW t \in trendRow'
          PROVE  /\ t \in ScoringRow /\ Share(t.early) /\ Share(t.burst) /\ Share(t.score)
                 /\ Earned(t, ArticlesBehind(t)')
      BY <1>11, <1>12, <1>13, <1>16, <3>1
    <3> QED
      BY <3>2 DEF RowsEarned
  <2> QED
    BY <1>10, <2>1, <2>2
<1>18. SavingInv' /\ JobInv'
  BY <1>2, <1>3 DEF ScoringInv, SavingInv, JobInv
<1> QED
  BY <1>2, <1>3, <1>14, <1>17, <1>18
     DEF ScoringInv, AtMostOne, ScoredInv, SettingsInv, PublishedByNow

\* The job selects the counts as they are.
LEMMA SelectStep ==
    ASSUME ScoringInv, SelectEarly
    PROVE  ScoringInv'
<1> DEFINE A == grouped  n == SizeOf(A)  o == Cardinality(Outlets(A))  age == clock - Newest(A)
           quarter == Aged(A, 0, 15)  hour == Aged(A, 0, 60)  day == Aged(A, 0, 1440)
           of(r) == [size |-> n, outlets |-> o, age |-> age, burst |-> r.burst,
                     quarter |-> quarter, hour |-> hour, day |-> day]
<1>1. PICK r \in trendRow : earlyJob' = {of(r)}
  BY DEF SelectEarly
<1>2. /\ UNCHANGED <<clock, cluster, scored, saving, grouped, trendRow, earlySetting, earlyCopy,
                     platforms>>
      /\ Present(A) # {}
  BY DEF SelectEarly, saveVars
<1>3. PublishedByNow(A) /\ Counted(A) /\ Share(r.burst)
  BY DEF ScoringInv, RowsEarned, PublishedByNow
<1>4. n \in Nat \ {0} /\ o \in Nat /\ o <= n
  BY <1>2, <1>3, SizeIsTotal, OutletsCounted
<1>5. age \in Nat /\ quarter \in Nat /\ hour \in Nat /\ day \in Nat
  BY <1>2, <1>3, AgeOfNewest, AgedCount
<1> HIDE DEF n, o, age, quarter, hour, day
<1>6. JobRow(of(r)) /\ of(r).size = n /\ of(r).outlets = o
  BY <1>3, <1>4, <1>5 DEF JobRow, Share
<1> HIDE DEF of
<1>7. /\ AtMostOne(earlyJob')
      /\ \A row \in earlyJob' :
            JobRow(row) /\ row.size <= n /\ row.outlets <= o
  BY <1>1, <1>4, <1>6 DEF AtMostOne
<1>8. JobInv'
  BY <1>2, <1>7 DEF JobInv, n, o
<1>9. SavingInv'
  BY <1>1, <1>2 DEF ScoringInv, SavingInv
<1>10. RowsEarned(trendRow)'
  BY <1>2 DEF ScoringInv, RowsEarned, ArticlesBehind
<1> QED
  BY <1>2, <1>7, <1>8, <1>9, <1>10 DEF ScoringInv, AtMostOne, ScoredInv, SettingsInv, PublishedByNow

\* Whichever of the three the weights come from.
LEMMA WeightsLoaded ==
    ASSUME ScoringInv, NEW w, LoadWeights(w)
    PROVE  /\ w \in Weights /\ earlyCopy' \subseteq EarlyWeights \cup {DefaultWeights}
<1>1. DefaultWeights \in Weights
  BY DEF DefaultWeights, Weights
<1>2. EarlyWeights \subseteq Weights
  BY ScoringAssumption DEF Weights
<1> QED
  BY <1>1, <1>2 DEF ScoringInv, SettingsInv, LoadWeights

\* The job writes what it computed of counts that may be stale by now.
LEMMA UpdateStep ==
    ASSUME ScoringInv, NEW w, NEW boost \in ReadBoost, UpdateEarly(w, boost)
    PROVE  ScoringInv'
<1>1. w \in Weights /\ earlyCopy' \subseteq EarlyWeights \cup {DefaultWeights}
  BY WeightsLoaded DEF UpdateEarly
<1>2. boost \in {100, 110, 130}
  BY DEF ReadBoost, ExternalBoost
<1>3. earlyJob' = {} /\ UNCHANGED <<clock, cluster, scored, saving, grouped, earlySetting, platforms>>
  BY DEF UpdateEarly, saveVars
<1>4. PICK row \in earlyJob, r \in trendRow :
          trendRow' = {[r EXCEPT !.early = Boosted(w, row, boost), !.by = "job"]}
  BY DEF UpdateEarly
<1> DEFINE early == Boosted(w, row, boost)
           new == [r EXCEPT !.early = early, !.by = "job"]
<1>5. r \in ScoringRow /\ Share(r.burst) /\ Share(r.score)
  BY DEF ScoringInv, RowsEarned
<1>6. JobRow(row) /\ row.size <= SizeOf(grouped) /\ row.outlets <= Cardinality(Outlets(grouped))
  BY DEF ScoringInv, JobInv
<1>7. Share(early) /\ (early > 4000 => row.size >= 3 /\ row.outlets >= 2)
  BY <1>1, <1>2, <1>6, CappedAndBoosted
<1> HIDE DEF early
<1>8. /\ new \in ScoringRow /\ new.early = early /\ new.burst = r.burst /\ new.score = r.score
      /\ new.by = "job"
  <2>1. early \in Nat
    BY <1>7 DEF Share
  <2> QED
    BY <1>5, <2>1 DEF ScoringRow
<1>9. trendRow' = {new}
  BY <1>4 DEF early
<1> HIDE DEF new
<1>10. Earned(new, grouped)
  <2>1. SizeOf(grouped) \in Nat /\ Cardinality(Outlets(grouped)) \in Nat
    BY SizeIsTotal, OutletsCounted DEF ScoringInv, PublishedByNow
  <2>2. row.size \in Nat /\ row.outlets \in Nat
    BY <1>6 DEF JobRow
  <2> QED
    BY <1>6, <1>7, <1>8, <2>1, <2>2 DEF Earned
<1>11. ArticlesBehind(new)' = grouped
  BY <1>3, <1>8 DEF ArticlesBehind
<1>12. RowsEarned(trendRow)'
  BY <1>5, <1>7, <1>8, <1>9, <1>10, <1>11 DEF RowsEarned
<1>13. SavingInv'
  BY <1>3, <1>4 DEF ScoringInv, SavingInv
<1>14. AtMostOne(trendRow') /\ AtMostOne(earlyJob') /\ JobInv'
  BY <1>3, <1>9 DEF AtMostOne, JobInv
<1> QED
  BY <1>1, <1>3, <1>12, <1>13, <1>14 DEF ScoringInv, AtMostOne, ScoredInv, SettingsInv, PublishedByNow

\* Time passes.
LEMMA TimeStep ==
    ASSUME ScoringInv, NEW t \in Moment, PassTime(t)
    PROVE  ScoringInv'
<1>1. /\ clock < t /\ clock' = t
      /\ UNCHANGED <<cluster, scored, saving, grouped, trendRow, earlyJob, earlySetting, earlyCopy,
                     platforms>>
  BY DEF PassTime, saveVars
<1>2. clock \in Nat /\ t \in Nat
  BY ScoringAssumption DEF ScoringInv
<1>3. ASSUME NEW A, PublishedByNow(A)
      PROVE  Counted(A) /\ \A p \in Present(A) : p[2] <= t
  <2>1. Counted(A) /\ \A p \in Present(A) : p[2] <= clock
    BY <1>3 DEF PublishedByNow
  <2>2. Present(A) \subseteq Outlet \X Moment /\ Moment \subseteq Nat
    BY <2>1, PresentFinite, ScoringAssumption
  <2>3. \A p \in Present(A) : p[2] \in Nat
    BY <2>2
  <2> QED
    BY <1>1, <1>2, <2>1, <2>3
<1>4. PublishedByNow(cluster)' /\ PublishedByNow(grouped)'
  BY <1>1, <1>2, <1>3 DEF ScoringInv, PublishedByNow
<1>5. RowsEarned(trendRow)'
  BY <1>1 DEF ScoringInv, RowsEarned, ArticlesBehind
<1> QED
  BY <1>1, <1>4, <1>5 DEF ScoringInv, SavingInv, AtMostOne, ScoredInv, JobInv, SettingsInv

\* No step breaks the invariant.
LEMMA ScoringStep ==
    ASSUME ScoringInv, [NextScoring]_scoringVars
    PROVE  ScoringInv'
<1> USE DEF saveVars
<1>1. ASSUME NEW o \in Outlet, PublishForGroup(o) PROVE ScoringInv'
  BY <1>1, PublishStep
<1>2. ASSUME NEW first \in Present(cluster), NEW importance \in Importance,
             NEW burst \in DetectBurst(cluster), NEW boost \in ReadBoost,
             StageScore(first, importance, burst, boost)
      PROVE  ScoringInv'
  BY <1>2, ScoreStep
<1>3. ASSUME SaveBatch PROVE ScoringInv'
  BY <1>3, BatchSaved
<1>4. ASSUME SaveEach PROVE ScoringInv'
  BY <1>4, EachSaved
<1>5. ASSUME SaveEnds \/ BatchFails PROVE ScoringInv'
  BY <1>5, CutStep
<1>6. ASSUME NEW p \in Outlet \X Moment, AssignArticle(p) PROVE ScoringInv'
  BY <1>6, AssignStep
<1>7. ASSUME NEW o \in Outlet, NEW at \in Moment, NEW importance \in Importance,
             MatchScores(o, at, importance)
      PROVE  ScoringInv'
  BY <1>7, MatchStep
<1>8. ASSUME SelectEarly PROVE ScoringInv'
  BY <1>8, SelectStep
<1>9. ASSUME NEW w \in earlyCopy \cup {earlySetting, DefaultWeights}, NEW boost \in ReadBoost,
             UpdateEarly(w, boost)
      PROVE  ScoringInv'
  BY <1>9, UpdateStep
<1>10. ASSUME NEW t \in Moment, PassTime(t) PROVE ScoringInv'
  BY <1>10, TimeStep
<1>11. ASSUME SkipEarly PROVE ScoringInv'
  BY <1>11 DEF SkipEarly, ScoringInv, AtMostOne, SavingInv, RowsEarned, ArticlesBehind, ScoredInv,
               JobInv, SettingsInv, PublishedByNow
<1>12. ASSUME /\ UNCHANGED <<clock, saveVars, grouped, trendRow, earlyJob>>
              /\ SettingsInv => SettingsInv'
       PROVE  ScoringInv'
  BY <1>12 DEF ScoringInv, AtMostOne, SavingInv, RowsEarned, ArticlesBehind, ScoredInv, JobInv,
               PublishedByNow
<1>13. ASSUME WeightsExpire PROVE ScoringInv'
  BY <1>12, <1>13 DEF WeightsExpire, SettingsInv
<1>14. ASSUME NEW w \in EarlyWeights, StoreWeights(w) PROVE ScoringInv'
  BY <1>12, <1>14 DEF StoreWeights, SettingsInv
<1>15. ASSUME NEW n \in PlatformCount, PlatformsChange(n) PROVE ScoringInv'
  BY <1>12, <1>15 DEF PlatformsChange, SettingsInv
<1>16. ASSUME UNCHANGED scoringVars PROVE ScoringInv'
  BY <1>12, <1>16 DEF scoringVars, SettingsInv
<1> QED
  BY <1>1, <1>2, <1>3, <1>4, <1>5, <1>6, <1>7, <1>8, <1>9, <1>10, <1>11, <1>13, <1>14, <1>15, <1>16
     DEF NextScoring

\* Every score the three writers store is between 0 and 1 (or 0 and 100), in every reachable
\* state: whatever the models answer for a burst, whatever weights an administrator stores and
\* whichever copy of them is read.
THEOREM ScoringTypes == SpecScoring => []ScoringTypeOK
<1> QED
  BY ScoringInit, ScoringStep, ScoringImplies, PTL DEF SpecScoring

\* A group that /trends/early lists has three articles, and two sources unless the match wrote
\* last, for any number of articles, outlets and moments and any weights; and of a group that
\* the fallback has not given all its articles this holds of the cluster it was saved from.
THEOREM EarlyTrendProven == SpecScoring => []EarlyTrendEarned
<1> QED
  BY ScoringInit, ScoringStep, ScoringImplies, PTL DEF SpecScoring

===============================================================================
