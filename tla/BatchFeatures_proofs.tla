----------------------- MODULE BatchFeatures_proofs -----------------------
(***************************************************************************)
(* Proofs about the feature computations of BatchFeatures, for any sample: *)
(* the wide table has one row for each transaction, and the queries that   *)
(* aggregate the rows of a user give the features of that user back.       *)
(*                                                                         *)
(* They need facts about sums and maxima of finite sets.  These are shown  *)
(* by induction on the subsets of a set, with the well-foundedness of the  *)
(* strict subset ordering, which is a theorem of the library.              *)
(***************************************************************************)
EXTENDS BatchFeatures, FiniteSetTheorems, TLAPS

(* Induction over a finite set: the subsets of S that are not good have a  *)
(* minimal one, and it is not empty.                                       *)
LEMMA SetInduction ==
    ASSUME NEW S, IsFiniteSet(S), NEW Good,
           {} \in Good,
           \A T \in SUBSET S : \A x \in S \ T : T \in Good => T \union {x} \in Good
    PROVE  S \in Good
<1> DEFINE Bad == {T \in SUBSET S : T \notin Good}
<1> SUFFICES ASSUME S \notin Good PROVE FALSE
  OBVIOUS
<1>1. IsWellFoundedOn(StrictSubsetOrdering(S), FiniteSubsetsOf(S))
  BY FS_StrictSubsetOrderingWellFounded
<1>2. Bad \subseteq FiniteSubsetsOf(S) /\ Bad # {}
  BY FS_FiniteSubsetsOfFinite
<1>3. PICK T \in Bad : \A U \in Bad : ~(<<U, T>> \in StrictSubsetOrdering(S))
  <2> HIDE DEF Bad
  <2> QED
    BY <1>1, <1>2, WFMin, Zenon
<1>4. PICK x \in T : TRUE
  BY <1>3
<1>5. T \ {x} \notin Bad
  BY <1>3, <1>4 DEF StrictSubsetOrdering
<1> QED
  BY <1>3, <1>4, <1>5

(* Induction over the natural numbers, as the sizes of finite sets.        *)
LEMMA NatSetInduction ==
    ASSUME NEW Good, 0 \in Good, \A n \in Nat : n \in Good => n + 1 \in Good
    PROVE  Nat \subseteq Good
<1> SUFFICES ASSUME NEW m \in Nat PROVE m \in Good
  OBVIOUS
<1> DEFINE S == 1 .. m
           Sizes == {T \in SUBSET S : Cardinality(T) \in Good}
<1>1. IsFiniteSet(S) /\ Cardinality(S) = m
  BY FS_Interval
<1>2. {} \in Sizes
  BY FS_EmptySet
<1>3. ASSUME NEW T \in SUBSET S, NEW x \in S \ T, T \in Sizes
      PROVE  T \union {x} \in Sizes
  <2>1. IsFiniteSet(T) /\ Cardinality(T) \in Nat
    BY <1>1, FS_Subset, FS_CardinalityType
  <2>2. Cardinality(T \union {x}) = Cardinality(T) + 1
    BY <2>1, FS_AddElement
  <2> QED
    BY <1>3, <2>1, <2>2
<1>4. S \in Sizes
  <2> HIDE DEF S, Sizes
  <2> QED
    BY <1>1, <1>2, <1>3, SetInduction
<1> QED
  BY <1>1, <1>4

-----------------------------------------------------------------------------
(* Sums over finite sets.  The library folds with a recursive function     *)
(* that it chooses; such a function exists, and the sums of two of them    *)
(* agree.                                                                  *)
Chosen(s) == CHOOSE x \in s : TRUE
SumStep(g, F, s) == IF s = {} THEN 0 ELSE F[Chosen(s)] + g[s \ {Chosen(s)}]
IsSum(g, F, S) == g = [s \in SUBSET S |-> SumStep(g, F, s)]

LEMMA SumDefinition ==
    ASSUME NEW F, NEW S
    PROVE  SumFunctionOnSet(F, S) = (CHOOSE g : IsSum(g, F, S))[S]
BY DEF SumFunctionOnSet, FoldFunctionOnSet, MapThenFoldSet, IsSum, SumStep, Chosen

LEMMA ChosenIsElement == \A s : s # {} => Chosen(s) \in s
BY DEF Chosen

LEMMA SumExists ==
    ASSUME NEW F, NEW S, IsFiniteSet(S)
    PROVE  \E g : IsSum(g, F, S)
<1> DEFINE Upto(n) == {s \in SUBSET S : Cardinality(s) <= n}
           Good == {n \in Nat : \E g : g = [s \in Upto(n) |-> SumStep(g, F, s)]}
<1>1. \A s \in SUBSET S : IsFiniteSet(s) /\ Cardinality(s) \in Nat
  BY FS_Subset, FS_CardinalityType
<1>2. 0 \in Good
  <2> DEFINE g == [s \in Upto(0) |-> 0]
  <2>1. Upto(0) = {{}}
    BY <1>1, FS_EmptySet
  <2>2. g = [s \in Upto(0) |-> SumStep(g, F, s)]
    BY <2>1 DEF SumStep
  <2> QED
    BY <2>2
<1>3. ASSUME NEW n \in Nat, n \in Good
      PROVE  n + 1 \in Good
  <2>1. PICK g : g = [s \in Upto(n) |-> SumStep(g, F, s)]
    BY <1>3
  <2> DEFINE h == [s \in Upto(n + 1) |-> SumStep(g, F, s)]
  <2>2. Upto(n) \subseteq Upto(n + 1)
    BY <1>1
  <2>3. \A s \in Upto(n + 1) : s # {} => s \ {Chosen(s)} \in Upto(n)
    BY <1>1, FS_RemoveElement, ChosenIsElement
  <2>4. \A s \in Upto(n) : h[s] = g[s]
    BY <2>1, <2>2
  <2>5. h = [s \in Upto(n + 1) |-> SumStep(g, F, s)]
    OBVIOUS
  <2> HIDE DEF h, Upto
  <2>6. ASSUME NEW s \in Upto(n + 1)
        PROVE  SumStep(h, F, s) = SumStep(g, F, s)
    <3>1. CASE s = {}
      BY <3>1 DEF SumStep
    <3>2. CASE s # {}
      BY <2>3, <2>4, <3>2 DEF SumStep
    <3> QED
      BY <3>1, <3>2
  <2>7. h = [s \in Upto(n + 1) |-> SumStep(h, F, s)]
    BY <2>5, <2>6
  <2> QED
    BY <2>7
<1>4. Cardinality(S) \in Good
  <2> HIDE DEF Good
  <2> QED
    BY <1>1, <1>2, <1>3, NatSetInduction
<1>5. Upto(Cardinality(S)) = SUBSET S
  BY FS_Subset
<1> QED
  BY <1>4, <1>5 DEF IsSum

LEMMA SumIsUnique ==
    ASSUME NEW F, NEW S, IsFiniteSet(S), NEW T \in SUBSET S,
           NEW g, IsSum(g, F, S), NEW h, IsSum(h, F, T)
    PROVE  g[T] = h[T]
<1> DEFINE Good == {n \in Nat : \A s \in SUBSET T : Cardinality(s) = n => g[s] = h[s]}
<1>1. \A s \in SUBSET T : IsFiniteSet(s) /\ Cardinality(s) \in Nat
  BY FS_Subset, FS_CardinalityType
<1>2. \A s \in SUBSET T : g[s] = SumStep(g, F, s) /\ h[s] = SumStep(h, F, s)
  BY DEF IsSum
<1>3. 0 \in Good
  BY <1>1, <1>2, FS_EmptySet DEF SumStep
<1>4. ASSUME NEW n \in Nat, n \in Good
      PROVE  n + 1 \in Good
  <2> SUFFICES ASSUME NEW s \in SUBSET T, Cardinality(s) = n + 1 PROVE g[s] = h[s]
    OBVIOUS
  <2>1. s # {} /\ Chosen(s) \in s
    BY FS_EmptySet, ChosenIsElement
  <2>2. Cardinality(s \ {Chosen(s)}) = n
    <3>1. Cardinality(s \ {Chosen(s)}) = Cardinality(s) - 1
      BY <1>1, <2>1, FS_RemoveElement
    <3> QED
      BY <3>1
  <2>3. g[s \ {Chosen(s)}] = h[s \ {Chosen(s)}]
    BY <1>4, <2>2
  <2> QED
    BY <1>2, <2>1, <2>3 DEF SumStep
<1>5. Nat \subseteq Good
  <2> HIDE DEF Good
  <2> QED
    BY <1>3, <1>4, NatSetInduction
<1> QED
  BY <1>1, <1>5

LEMMA SumOfEmpty == ASSUME NEW F PROVE SumFunctionOnSet(F, {}) = 0
<1>1. PICK g : IsSum(g, F, {})
  BY SumExists, FS_EmptySet
<1>2. IsSum((CHOOSE h : IsSum(h, F, {})), F, {})
  BY <1>1
<1> QED
  BY <1>2, SumDefinition DEF IsSum, SumStep

LEMMA SumOfChosen ==
    ASSUME NEW F, NEW S, IsFiniteSet(S), S # {}
    PROVE  SumFunctionOnSet(F, S) = F[Chosen(S)] + SumFunctionOnSet(F, S \ {Chosen(S)})
<1> DEFINE T == S \ {Chosen(S)}
           g == CHOOSE f : IsSum(f, F, S)
           h == CHOOSE f : IsSum(f, F, T)
<1>1. IsFiniteSet(T) /\ T \in SUBSET S
  BY FS_Subset
<1>2. IsSum(g, F, S) /\ IsSum(h, F, T)
  BY <1>1, SumExists
<1>3. g[T] = h[T]
  <2> HIDE DEF g, h, T
  <2> QED
    BY <1>1, <1>2, SumIsUnique
<1>4. g[S] = F[Chosen(S)] + g[T]
  <2>1. g[S] = SumStep(g, F, S)
    <3> HIDE DEF g
    <3> QED
      BY <1>2 DEF IsSum
  <2> QED
    BY <2>1 DEF SumStep
<1> QED
  BY <1>3, <1>4, SumDefinition

(* A sum of integers is an integer.                                        *)
LEMMA SumType ==
    ASSUME NEW F, NEW S, IsFiniteSet(S), \A x \in S : F[x] \in Int
    PROVE  SumFunctionOnSet(F, S) \in Int
<1> DEFINE Good == {n \in Nat : \A T \in SUBSET S : Cardinality(T) = n => SumFunctionOnSet(F, T) \in Int}
<1>1. \A T \in SUBSET S : IsFiniteSet(T) /\ Cardinality(T) \in Nat
  BY FS_Subset, FS_CardinalityType
<1>2. 0 \in Good
  BY <1>1, SumOfEmpty, FS_EmptySet
<1>3. ASSUME NEW n \in Nat, n \in Good
      PROVE  n + 1 \in Good
  <2> SUFFICES ASSUME NEW T \in SUBSET S, Cardinality(T) = n + 1
               PROVE  SumFunctionOnSet(F, T) \in Int
    OBVIOUS
  <2>1. T # {} /\ Chosen(T) \in T
    BY FS_EmptySet, ChosenIsElement
  <2>2. Cardinality(T \ {Chosen(T)}) = n
    BY <1>1, <2>1, FS_RemoveElement
  <2>3. SumFunctionOnSet(F, T \ {Chosen(T)}) \in Int
    BY <1>3, <2>2
  <2> QED
    BY <1>1, <2>1, <2>3, SumOfChosen
<1>4. Nat \subseteq Good
  <2> HIDE DEF Good
  <2> QED
    BY <1>2, <1>3, NatSetInduction
<1> QED
  BY <1>1, <1>4

(* The order in which a sum is taken does not matter.                      *)
LEMMA SumOfAny ==
    ASSUME NEW F, NEW S, IsFiniteSet(S), \A x \in S : F[x] \in Int, NEW x \in S
    PROVE  SumFunctionOnSet(F, S) = F[x] + SumFunctionOnSet(F, S \ {x})
<1> DEFINE Sum(T) == SumFunctionOnSet(F, T)
           Good == {n \in Nat : \A T \in SUBSET S : Cardinality(T) = n =>
                       \A y \in T : Sum(T) = F[y] + Sum(T \ {y})}
<1>1. \A T \in SUBSET S : IsFiniteSet(T) /\ Cardinality(T) \in Nat /\ Sum(T) \in Int
  BY FS_Subset, FS_CardinalityType, SumType
<1>2. \A T \in SUBSET S : T # {} => Sum(T) = F[Chosen(T)] + Sum(T \ {Chosen(T)})
  BY <1>1, SumOfChosen
<1> HIDE DEF Sum
<1>3. 0 \in Good
  BY <1>1, FS_EmptySet
<1>4. ASSUME NEW n \in Nat, n \in Good
      PROVE  n + 1 \in Good
  <2> SUFFICES ASSUME NEW T \in SUBSET S, Cardinality(T) = n + 1, NEW y \in T
               PROVE  Sum(T) = F[y] + Sum(T \ {y})
    OBVIOUS
  <2> DEFINE c == Chosen(T)
  <2>1. c \in T /\ Sum(T) = F[c] + Sum(T \ {c})
    BY <1>2, ChosenIsElement
  <2> HIDE DEF c
  <2>2. CASE y = c
    BY <2>1, <2>2
  <2>3. CASE y # c
    <3>1. Cardinality(T \ {c}) = n /\ Cardinality(T \ {y}) = n
      BY <1>1, <2>1, FS_RemoveElement
    <3>2. Sum(T \ {c}) = F[y] + Sum((T \ {c}) \ {y})
      BY <1>4, <2>1, <2>3, <3>1
    <3>3. Sum(T \ {y}) = F[c] + Sum((T \ {y}) \ {c})
      BY <1>4, <2>1, <2>3, <3>1
    <3>4. (T \ {c}) \ {y} = (T \ {y}) \ {c}
      OBVIOUS
    <3> DEFINE rest == Sum((T \ {y}) \ {c})
    <3>5. F[c] \in Int /\ F[y] \in Int /\ rest \in Int
      BY <1>1, <2>1
    <3>6. Sum(T) = F[c] + (F[y] + rest) /\ Sum(T \ {y}) = F[c] + rest
      BY <2>1, <3>2, <3>3, <3>4, Zenon
    <3> HIDE DEF rest
    <3> QED
      BY <3>5, <3>6
  <2> QED
    BY <2>2, <2>3
<1>5. Nat \subseteq Good
  <2> HIDE DEF Good
  <2> QED
    BY <1>3, <1>4, NatSetInduction
<1> QED
  BY <1>1, <1>5 DEF Sum

LEMMA SumOfInsert ==
    ASSUME NEW F, NEW S, IsFiniteSet(S), \A y \in S : F[y] \in Int,
           NEW x, x \notin S, F[x] \in Int
    PROVE  SumFunctionOnSet(F, S \union {x}) = F[x] + SumFunctionOnSet(F, S)
<1> DEFINE T == S \union {x}
<1>1. IsFiniteSet(T)
  BY FS_AddElement
<1>2. x \in T /\ T \ {x} = S /\ \A y \in T : F[y] \in Int
  OBVIOUS
<1> HIDE DEF T
<1>3. SumFunctionOnSet(F, T) = F[x] + SumFunctionOnSet(F, T \ {x})
  BY <1>1, <1>2, SumOfAny
<1> QED
  BY <1>2, <1>3 DEF T

LEMMA Distribution ==
    ASSUME NEW k \in Int, NEW a \in Int, NEW f \in Int, NEW s \in Int, NEW n \in Int
    PROVE  (k * f - a) + (k * s - n * a) = k * (f + s) - (n + 1) * a
<1>1. k * (f + s) = k * f + k * s
  BY Z3T(30)
<1>2. (n + 1) * a = n * a + a
  BY Z3T(30)
<1>3. k * f \in Int /\ k * s \in Int /\ n * a \in Int
  OBVIOUS
<1> QED
  BY <1>1, <1>2, <1>3

(* The sum of scaled and shifted values.                                   *)
Scaled(F, G, S, k, a) ==
    SumFunctionOnSet(G, S) = k * SumFunctionOnSet(F, S) - Cardinality(S) * a

LEMMA SumOfScaled ==
    ASSUME NEW F, NEW G, NEW S, IsFiniteSet(S), NEW k \in Int, NEW a \in Int,
           \A x \in S : F[x] \in Int /\ G[x] = k * F[x] - a
    PROVE  Scaled(F, G, S, k, a)
<1> DEFINE Good == {T \in SUBSET S : Scaled(F, G, T, k, a)}
<1>1. {} \in Good
  BY SumOfEmpty, FS_EmptySet DEF Scaled
<1>2. ASSUME NEW T \in SUBSET S, NEW x \in S \ T, T \in Good
      PROVE  T \union {x} \in Good
  <2>1. IsFiniteSet(T) /\ Cardinality(T) \in Nat
    BY FS_Subset, FS_CardinalityType
  <2>2. Cardinality(T \union {x}) = Cardinality(T) + 1
    BY <2>1, FS_AddElement
  <2>3. \A y \in T \union {x} : F[y] \in Int /\ G[y] \in Int
    OBVIOUS
  <2>4. /\ SumFunctionOnSet(F, T \union {x}) = F[x] + SumFunctionOnSet(F, T)
        /\ SumFunctionOnSet(G, T \union {x}) = G[x] + SumFunctionOnSet(G, T)
        /\ SumFunctionOnSet(F, T) \in Int
    BY <2>1, <2>3, SumOfInsert, SumType
  <2>5. SumFunctionOnSet(G, T) = k * SumFunctionOnSet(F, T) - Cardinality(T) * a
    BY <1>2 DEF Scaled
  <2>6. F[x] \in Int /\ G[x] = k * F[x] - a
    OBVIOUS
  <2>7. (k * F[x] - a) + (k * SumFunctionOnSet(F, T) - Cardinality(T) * a)
           = k * (F[x] + SumFunctionOnSet(F, T)) - (Cardinality(T) + 1) * a
    BY <2>1, <2>4, <2>6, Distribution
  <2>8. Scaled(F, G, T \union {x}, k, a)
    BY <2>2, <2>4, <2>5, <2>6, <2>7, Zenon DEF Scaled
  <2> QED
    BY <2>8
<1>3. S \in Good
  <2> HIDE DEF Good
  <2> QED
    BY <1>1, <1>2, SetInduction
<1> QED
  BY <1>3

(* A sum over S is one over T when the elements correspond.                *)
LEMMA SumReindexed ==
    ASSUME NEW F, NEW G, NEW S, IsFiniteSet(S), NEW T, NEW f \in Bijection(S, T),
           \A x \in S : F[x] \in Int /\ F[x] = G[f[x]]
    PROVE  SumFunctionOnSet(F, S) = SumFunctionOnSet(G, T)
<1> DEFINE Image(U) == {f[x] : x \in U}
           Good == {U \in SUBSET S : /\ SumFunctionOnSet(F, U) = SumFunctionOnSet(G, Image(U))
                                     /\ IsFiniteSet(Image(U))}
<1>1. {} \in Good
  <2>1. Image({}) = {}
    OBVIOUS
  <2> QED
    BY <2>1, SumOfEmpty, FS_EmptySet
<1>2. ASSUME NEW U \in SUBSET S, NEW x \in S \ U, U \in Good
      PROVE  U \union {x} \in Good
  <2>1. Image(U \union {x}) = Image(U) \union {f[x]} /\ f[x] \notin Image(U)
    BY DEF Bijection, Injection, IsInjective
  <2>2. IsFiniteSet(U) /\ IsFiniteSet(Image(U)) /\ IsFiniteSet(Image(U) \union {f[x]})
    BY <1>2, FS_Subset, FS_AddElement
  <2>3. (\A y \in Image(U) : G[y] \in Int) /\ G[f[x]] \in Int
    OBVIOUS
  <2> HIDE DEF Image
  <2>4. SumFunctionOnSet(F, U \union {x}) = F[x] + SumFunctionOnSet(F, U)
    BY <2>2, SumOfInsert
  <2>5. SumFunctionOnSet(G, Image(U) \union {f[x]}) = G[f[x]] + SumFunctionOnSet(G, Image(U))
    BY <2>1, <2>2, <2>3, SumOfInsert
  <2> QED
    BY <1>2, <2>1, <2>2, <2>4, <2>5
<1>3. S \in Good
  <2> HIDE DEF Good
  <2> QED
    BY <1>1, <1>2, SetInduction
<1>4. Image(S) = T
  BY DEF Bijection, Surjection
<1> QED
  BY <1>3, <1>4

-----------------------------------------------------------------------------
(* The largest number of a finite set.                                     *)
LEMMA MaxExists ==
    ASSUME NEW S \in SUBSET Int, IsFiniteSet(S), S # {}
    PROVE  \E x \in S : \A y \in S : x >= y
<1> DEFINE Good == {T \in SUBSET S : T = {} \/ \E x \in T : \A y \in T : x >= y}
<1>1. {} \in Good
  OBVIOUS
<1>2. ASSUME NEW T \in SUBSET S, NEW x \in S \ T, T \in Good
      PROVE  T \union {x} \in Good
  <2>1. CASE T = {}
    BY <2>1
  <2>2. CASE \E m \in T : \A y \in T : m >= y
    <3>1. PICK m \in T : \A y \in T : m >= y
      BY <2>2
    <3>2. m \in Int /\ x \in Int /\ \A y \in T : y \in Int
      OBVIOUS
    <3>3. CASE m >= x
      BY <3>1, <3>2, <3>3
    <3>4. CASE x >= m
      BY <3>1, <3>2, <3>4
    <3> QED
      BY <3>2, <3>3, <3>4
  <2> QED
    BY <1>2, <2>1, <2>2
<1>3. S \in Good
  <2> HIDE DEF Good
  <2> QED
    BY <1>1, <1>2, SetInduction
<1> QED
  BY <1>3

-----------------------------------------------------------------------------
(* The pipeline computes finite tables from finite samples.                *)

LEMMA FiniteUsers ==
    ASSUME NEW sample, IsFiniteSet(sample)
    PROVE  IsFiniteSet(Users(sample))
<1> DEFINE f == [t \in sample |-> t.user]
<1>1. f \in Surjection(sample, Users(sample))
  BY DEF Surjection, Users
<1> QED
  BY <1>1, FS_Surjection

LEMMA FiniteRolling ==
    ASSUME NEW sample, IsFiniteSet(sample)
    PROVE  IsFiniteSet(RollingTable(sample))
<1> DEFINE Entry(t) ==
      [user |-> t.user, txn |-> t.id, day |-> t.day,
       rolling |-> Average({x \in Of(t.user, sample) : t.day - 7 <= x.day /\ x.day <= t.day})]
           f == [t \in sample |-> Entry(t)]
<1>1. RollingTable(sample) = {Entry(t) : t \in sample}
  BY Zenon DEF RollingTable
<1> HIDE DEF Entry
<1>2. f \in Surjection(sample, RollingTable(sample))
  BY <1>1 DEF Surjection
<1> QED
  BY <1>2, FS_Surjection

LEMMA FiniteAnomalies ==
    ASSUME NEW sample, IsFiniteSet(sample)
    PROVE  IsFiniteSet(AnomalyTable(sample))
<1> DEFINE Entry(t) ==
      [user |-> t.user, txn |-> t.id, day |-> t.day,
       anomaly |-> Cardinality(Of(t.user, sample)) * t.amount - Amount(Of(t.user, sample))]
           f == [t \in sample |-> Entry(t)]
<1>1. AnomalyTable(sample) = {Entry(t) : t \in sample}
  BY Zenon DEF AnomalyTable
<1> HIDE DEF Entry
<1>2. f \in Surjection(sample, AnomalyTable(sample))
  BY <1>1 DEF Surjection
<1> QED
  BY <1>2, FS_Surjection

LEMMA FiniteCategories ==
    ASSUME NEW sample, IsFiniteSet(sample), NEW categories \in CategoryTables(sample)
    PROVE  IsFiniteSet(categories)
<1> DEFINE Entry(t) == [user |-> t.user, category |-> t.category,
                        count |-> CategoryCount(t.user, t.category, sample)]
           all == {Entry(t) : t \in sample}
           f == [t \in sample |-> Entry(t)]
<1>1. categories \subseteq all
  BY Zenon DEF CategoryTables
<1> HIDE DEF Entry
<1>2. f \in Surjection(sample, all)
  BY DEF Surjection
<1>3. IsFiniteSet(all)
  BY <1>2, FS_Surjection
<1> QED
  BY <1>1, <1>3, FS_Subset

LEMMA FiniteRfm ==
    ASSUME NEW sample, IsFiniteSet(sample)
    PROVE  IsFiniteSet(RfmTable(sample))
<1> DEFINE Entry(u) ==
      [user |-> u, recency |-> Today - Max({t.day : t \in Of(u, sample)}),
       frequency |-> Cardinality(Of(u, sample)), monetary |-> Amount(Of(u, sample))]
           f == [u \in Users(sample) |-> Entry(u)]
<1>1. RfmTable(sample) = {Entry(u) : u \in Users(sample)}
  BY Zenon DEF RfmTable
<1> HIDE DEF Entry
<1>2. f \in Surjection(Users(sample), RfmTable(sample))
  BY <1>1 DEF Surjection
<1> QED
  BY <1>2, FiniteUsers, FS_Surjection

LEMMA FiniteWideTable ==
    ASSUME NEW sample, IsFiniteSet(sample), NEW categories \in CategoryTables(sample)
    PROVE  IsFiniteSet(WideTable(sample, categories))
<1> DEFINE Joined(r, a, c, m) ==
      [user |-> r.user, txn |-> r.txn, day |-> r.day, rolling |-> r.rolling,
       anomaly |-> a.anomaly, category |-> c.category, count |-> c.count,
       recency |-> m.recency, frequency |-> m.frequency, monetary |-> m.monetary]
           R == RollingTable(sample)
           A == AnomalyTable(sample)
           M == RfmTable(sample)
           product == (R \X A) \X (categories \X M)
           all == {Joined(q[1][1], q[1][2], q[2][1], q[2][2]) : q \in product}
           f == [q \in product |-> Joined(q[1][1], q[1][2], q[2][1], q[2][2])]
<1>1. IsFiniteSet(product)
  BY FiniteRolling, FiniteAnomalies, FiniteCategories, FiniteRfm, FS_Product
<1>2. WideTable(sample, categories) \subseteq all
  <2>1. ASSUME NEW row \in WideTable(sample, categories)
        PROVE  \E r \in R, a \in A, c \in categories, m \in M : row = Joined(r, a, c, m)
    BY DEF WideTable, Of
  <2> HIDE DEF Joined
  <2> SUFFICES ASSUME NEW row \in WideTable(sample, categories) PROVE row \in all
    OBVIOUS
  <2>2. PICK r \in R, a \in A, c \in categories, m \in M : row = Joined(r, a, c, m)
    BY <2>1
  <2> DEFINE q == <<<<r, a>>, <<c, m>>>>
  <2>3. q \in product /\ q[1][1] = r /\ q[1][2] = a /\ q[2][1] = c /\ q[2][2] = m
    OBVIOUS
  <2> HIDE DEF q, product
  <2> QED
    BY <2>2, <2>3
<1> HIDE DEF Joined, product
<1>3. f \in Surjection(product, all)
  BY DEF Surjection
<1>4. IsFiniteSet(all)
  BY <1>1, <1>3, FS_Surjection
<1> QED
  BY <1>2, <1>4, FS_Subset

-----------------------------------------------------------------------------
(* The categories: one row for each user, with the largest count.          *)

LEMMA CategoryCountType ==
    ASSUME NEW txns, IsFiniteSet(txns), NEW u, NEW c
    PROVE  CategoryCount(u, c, txns) \in Nat
<1>1. {t \in Of(u, txns) : t.category = c} \subseteq txns
  BY DEF Of
<1> QED
  BY <1>1, FS_Subset, FS_CardinalityType DEF CategoryCount

LEMMA MostFrequentCategory ==
    ASSUME NEW txns, IsFiniteSet(txns), NEW u \in Users(txns)
    PROVE  \E t \in Of(u, txns) : \A x \in Of(u, txns) :
              CategoryCount(u, t.category, txns) >= CategoryCount(u, x.category, txns)
<1> DEFINE f == [t \in Of(u, txns) |-> CategoryCount(u, t.category, txns)]
           counts == {f[t] : t \in Of(u, txns)}
<1>1. IsFiniteSet(Of(u, txns)) /\ Of(u, txns) # {}
  BY FS_Subset DEF Of, Users
<1>2. f \in Surjection(Of(u, txns), counts)
  BY DEF Surjection
<1>3. IsFiniteSet(counts)
  BY <1>1, <1>2, FS_Surjection
<1>4. counts # {} /\ counts \in SUBSET Int
  <2>1. \A t \in Of(u, txns) : f[t] \in Int
    BY CategoryCountType
  <2> HIDE DEF f
  <2> QED
    BY <1>1, <2>1
<1>5. PICK m \in counts : \A n \in counts : m >= n
  <2> HIDE DEF counts
  <2> QED
    BY <1>3, <1>4, MaxExists
<1>6. PICK t \in Of(u, txns) : m = f[t]
  OBVIOUS
<1> QED
  BY <1>5, <1>6

LEMMA CategoryOfUser ==
    ASSUME NEW txns, IsFiniteSet(txns), NEW categories \in CategoryTables(txns),
           NEW u \in Users(txns)
    PROVE  \E c \in categories :
              /\ Of(u, categories) = {c}
              /\ c.count \in Nat
              /\ \A k : c.count >= CategoryCount(u, k, txns)
<1> DEFINE Entry(t) == [user |-> t.user, category |-> t.category,
                        count |-> CategoryCount(t.user, t.category, txns)]
           Candidates == {Entry(t) : t \in txns}
           Best == {r \in Candidates : \A s \in Of(r.user, Candidates) : s.count <= r.count}
<1>1. categories \in SUBSET Best /\ \A v \in Users(Best) : Cardinality(Of(v, categories)) = 1
  BY Zenon DEF CategoryTables
<1>2. \A s : s \in Of(u, Candidates) <=> \E x \in Of(u, txns) : s = Entry(x)
  BY DEF Of
<1>3. \A x : /\ Entry(x).user = x.user /\ Entry(x).category = x.category
             /\ Entry(x).count = CategoryCount(x.user, x.category, txns)
  OBVIOUS
<1>4. \A x \in Of(u, txns) : x \in txns /\ x.user = u
  BY DEF Of
<1>5. \A k : CategoryCount(u, k, txns) \in Nat
  BY CategoryCountType
<1> HIDE DEF Entry
<1>6. u \in Users(Best)
  <2>1. PICK t \in Of(u, txns) : \A x \in Of(u, txns) :
           CategoryCount(u, t.category, txns) >= CategoryCount(u, x.category, txns)
    BY MostFrequentCategory
  <2>2. Entry(t) \in Candidates /\ Entry(t).user = u
    BY <1>3, <1>4
  <2>3. \A s \in Of(u, Candidates) : s.count <= Entry(t).count
    BY <2>1, <1>2, <1>3, <1>4, <1>5
  <2> HIDE DEF Candidates
  <2>4. Entry(t) \in Best
    BY <2>2, <2>3
  <2> QED
    BY <2>2, <2>4 DEF Users
<1>7. IsFiniteSet(Of(u, categories))
  <2>1. Of(u, categories) \subseteq categories
    BY DEF Of
  <2> QED
    BY <2>1, FiniteCategories, FS_Subset
<1> HIDE DEF Best
<1>8. PICK c : Of(u, categories) = {c}
  BY <1>1, <1>6, <1>7, FS_Singleton
<1>9. c \in categories /\ c.user = u
  BY <1>8 DEF Of
<1>10. /\ c \in Candidates
       /\ \A s \in Of(u, Candidates) : s.count <= c.count
  BY <1>1, <1>9 DEF Best
<1>11. c.count \in Nat
  BY <1>3, <1>5, <1>9, <1>10
<1>12. ASSUME NEW k PROVE c.count >= CategoryCount(u, k, txns)
  <2>1. CASE \E x \in Of(u, txns) : x.category = k
    <3>1. PICK x \in Of(u, txns) : x.category = k
      BY <2>1
    <3>2. Entry(x) \in Of(u, Candidates) /\ Entry(x).count = CategoryCount(u, k, txns)
      BY <1>2, <1>3, <1>4, <3>1
    <3> QED
      BY <1>5, <1>10, <1>11, <3>2
  <2>2. CASE ~ \E x \in Of(u, txns) : x.category = k
    <3>1. {t \in Of(u, txns) : t.category = k} = {}
      BY <2>2
    <3>2. CategoryCount(u, k, txns) = 0
      BY <3>1, FS_EmptySet DEF CategoryCount
    <3> QED
      BY <1>11, <3>2
  <2> QED
    BY <2>1, <2>2
<1> QED
  BY <1>8, <1>9, <1>11, <1>12

-----------------------------------------------------------------------------
(* The rows of the wide table.                                             *)

CategoryOf(u, categories) == CHOOSE c : Of(u, categories) = {c}
RollingOf(t, txns) ==
    Average({x \in Of(t.user, txns) : t.day - 7 <= x.day /\ x.day <= t.day})
AnomalyOf(t, txns) ==
    Cardinality(Of(t.user, txns)) * t.amount - Amount(Of(t.user, txns))
RowOf(t, txns, categories) ==
    [user |-> t.user, txn |-> t.id, day |-> t.day,
     rolling |-> RollingOf(t, txns), anomaly |-> AnomalyOf(t, txns),
     category |-> CategoryOf(t.user, categories).category,
     count |-> CategoryOf(t.user, categories).count,
     recency |-> Today - Max({x.day : x \in Of(t.user, txns)}),
     frequency |-> Cardinality(Of(t.user, txns)),
     monetary |-> Amount(Of(t.user, txns))]

(* The joins neither lose nor multiply a transaction.                      *)
THEOREM OneRowPerTransaction ==
    ASSUME NEW txns, IsSample(txns), NEW categories \in CategoryTables(txns)
    PROVE  WideTable(txns, categories) = {RowOf(t, txns, categories) : t \in txns}
<1> DEFINE
      Joined(r, a, c, m) ==
        [user |-> r.user, txn |-> r.txn, day |-> r.day, rolling |-> r.rolling,
         anomaly |-> a.anomaly, category |-> c.category, count |-> c.count,
         recency |-> m.recency, frequency |-> m.frequency, monetary |-> m.monetary]
      Rolling(t) == [user |-> t.user, txn |-> t.id, day |-> t.day, rolling |-> RollingOf(t, txns)]
      Anomaly(t) == [user |-> t.user, txn |-> t.id, day |-> t.day, anomaly |-> AnomalyOf(t, txns)]
      Rfm(u) == [user |-> u, recency |-> Today - Max({x.day : x \in Of(u, txns)}),
                 frequency |-> Cardinality(Of(u, txns)), monetary |-> Amount(Of(u, txns))]
      A(r) == {x \in AnomalyTable(txns) : JoinKey(x) = JoinKey(r)}
      C(r) == Of(r.user, categories)
      M(r) == Of(r.user, RfmTable(txns))
      J(r) == {Joined(r, a, c, m) : a \in A(r), c \in C(r), m \in M(r)}
<1>1. RollingTable(txns) = {Rolling(t) : t \in txns}
  BY Zenon DEF RollingTable, RollingOf
<1>2. AnomalyTable(txns) = {Anomaly(t) : t \in txns}
  BY Zenon DEF AnomalyTable, AnomalyOf
<1>3. RfmTable(txns) = {Rfm(u) : u \in Users(txns)}
  BY Zenon DEF RfmTable
<1>4. WideTable(txns, categories) = UNION {J(r) : r \in RollingTable(txns)}
  BY DEF WideTable
<1>5. ASSUME NEW t \in txns
      PROVE  J(Rolling(t)) = {RowOf(t, txns, categories)}
  <2>1. A(Rolling(t)) = {Anomaly(t)}
    <3>1. \A x : JoinKey(Anomaly(x)) = <<x.user, x.id, x.day>>
      BY DEF JoinKey
    <3>2. \A x : JoinKey(Rolling(x)) = <<x.user, x.id, x.day>>
      BY DEF JoinKey
    <3> HIDE DEF Anomaly, Rolling
    <3>3. ASSUME NEW x \in txns, JoinKey(Anomaly(x)) = JoinKey(Rolling(t))
          PROVE  x = t
      <4>1. <<x.user, x.id, x.day>> = <<t.user, t.id, t.day>>
        BY <3>1, <3>2, <3>3, Zenon
      <4>2. x.id = t.id
        BY <4>1
      <4> QED
        BY <4>2 DEF IsSample
    <3>4. JoinKey(Anomaly(t)) = JoinKey(Rolling(t))
      BY <3>1, <3>2
    <3> QED
      BY <1>2, <3>3, <3>4
  <2>2. Rolling(t).user = t.user /\ t.user \in Users(txns)
    BY DEF Users
  <2>3. M(Rolling(t)) = {Rfm(t.user)}
    <3>1. \A u : Rfm(u).user = u
      OBVIOUS
    <3> HIDE DEF Rfm, Rolling
    <3> QED
      BY <1>3, <2>2, <3>1 DEF Of
  <2>4. C(Rolling(t)) = {CategoryOf(t.user, categories)}
    <3>1. \E c : Of(t.user, categories) = {c}
      BY <2>2, CategoryOfUser DEF IsSample
    <3> HIDE DEF Rolling
    <3> QED
      BY <2>2, <3>1 DEF CategoryOf
  <2> DEFINE r == Rolling(t)
             c == CategoryOf(t.user, categories)
  <2>5. J(r) = {Joined(r, Anomaly(t), c, Rfm(t.user))}
    <3> HIDE DEF Joined, A, C, M, r, Rolling, c, Anomaly, Rfm
    <3>1. A(r) = {Anomaly(t)} /\ C(r) = {c} /\ M(r) = {Rfm(t.user)}
      BY <2>1, <2>3, <2>4 DEF r, c
    <3> QED
      BY <3>1
  <2>6. Joined(r, Anomaly(t), c, Rfm(t.user)) = RowOf(t, txns, categories)
    BY Zenon DEF RowOf
  <2> HIDE DEF J, Joined, Anomaly, Rfm, Rolling, c
  <2> QED
    BY <2>5, <2>6
<1> HIDE DEF J, Rolling
<1> QED
  BY <1>1, <1>4, <1>5

(* The row of a transaction names it.                                      *)
LEMMA RowsAreDistinct ==
    ASSUME NEW txns, IsSample(txns), NEW categories, NEW t \in txns, NEW x \in txns,
           RowOf(t, txns, categories) = RowOf(x, txns, categories)
    PROVE  t = x
<1>1. RowOf(t, txns, categories).txn = t.id /\ RowOf(x, txns, categories).txn = x.id
  BY DEF RowOf
<1> QED
  BY <1>1 DEF IsSample

LEMMA RowsCorrespond ==
    ASSUME NEW txns, IsSample(txns), NEW categories, NEW some \in SUBSET txns
    PROVE  [t \in some |-> RowOf(t, txns, categories)]
              \in Bijection(some, {RowOf(t, txns, categories) : t \in some})
<1> DEFINE R(t) == RowOf(t, txns, categories)
<1>1. \A t, x \in some : R(t) = R(x) => t = x
  BY RowsAreDistinct
<1> HIDE DEF R
<1>2. [t \in some |-> R(t)] \in Bijection(some, {R(t) : t \in some})
  BY <1>1 DEF Bijection, Injection, Surjection, IsInjective
<1> QED
  BY <1>2, Zenon DEF R

(* As many rows as transactions, with their ids, users and dates.          *)
THEOREM RowsAndTransactions ==
    ASSUME NEW txns, IsSample(txns), NEW categories \in CategoryTables(txns),
           NEW table, table = WideTable(txns, categories)
    PROVE  /\ {<<r.txn, r.user, r.day>> : r \in table} = {<<t.id, t.user, t.day>> : t \in txns}
           /\ Cardinality(table) = Cardinality(txns)
           /\ Cardinality({r.txn : r \in table}) = Cardinality(table)
<1> DEFINE R(t) == RowOf(t, txns, categories)
           f == [t \in txns |-> R(t)]
<1>1. table = {R(t) : t \in txns}
  BY OneRowPerTransaction
<1>2. \A t : R(t).txn = t.id /\ R(t).user = t.user /\ R(t).day = t.day
  BY DEF RowOf
<1>3. f \in Bijection(txns, table)
  BY <1>1, RowsCorrespond
<1> HIDE DEF R, f
<1>4. {<<r.txn, r.user, r.day>> : r \in table} = {<<t.id, t.user, t.day>> : t \in txns}
  BY <1>1, <1>2
<1>5. IsFiniteSet(table) /\ Cardinality(table) = Cardinality(txns)
  BY <1>3, FS_Bijection DEF IsSample, ExistsBijection
<1>6. Cardinality({r.txn : r \in table}) = Cardinality(table)
  <2> DEFINE g == [r \in table |-> r.txn]
             ids == {r.txn : r \in table}
  <2>1. \A r, s \in table : r.txn = s.txn => r = s
    BY <1>1, <1>2 DEF IsSample
  <2>2. g \in Bijection(table, ids)
    BY <2>1 DEF Bijection, Injection, Surjection, IsInjective
  <2> QED
    BY <1>5, <2>2, FS_Bijection DEF ExistsBijection
<1> QED
  BY <1>4, <1>5, <1>6

-----------------------------------------------------------------------------
(* What get_user_features aggregates.                                      *)

LEMMA RowsOfUser ==
    ASSUME NEW txns, IsSample(txns), NEW categories \in CategoryTables(txns), NEW u
    PROVE  Of(u, WideTable(txns, categories)) =
              {RowOf(t, txns, categories) : t \in Of(u, txns)}
<1> DEFINE R(t) == RowOf(t, txns, categories)
<1>1. WideTable(txns, categories) = {R(t) : t \in txns}
  BY OneRowPerTransaction
<1>2. \A t : R(t).user = t.user
  BY DEF RowOf
<1> HIDE DEF R
<1>3. Of(u, WideTable(txns, categories)) = {R(t) : t \in Of(u, txns)}
  BY <1>1, <1>2 DEF Of
<1> QED
  BY <1>3, Zenon DEF R

LEMMA UsersOfTable ==
    ASSUME NEW txns, IsSample(txns), NEW categories \in CategoryTables(txns)
    PROVE  Users(WideTable(txns, categories)) = Users(txns)
<1> DEFINE R(t) == RowOf(t, txns, categories)
<1>1. WideTable(txns, categories) = {R(t) : t \in txns}
  BY OneRowPerTransaction
<1>2. \A t : R(t).user = t.user
  BY DEF RowOf
<1> HIDE DEF R
<1> QED
  BY <1>1, <1>2 DEF Users

LEMMA MaxOfOne ==
    ASSUME NEW x \in Int
    PROVE  Max({x}) = x
BY DEF Max

LEMMA FeaturesAreIntegers ==
    ASSUME NEW txns, IsSample(txns), NEW u \in Users(txns)
    PROVE  /\ Amount(Of(u, txns)) \in Int
           /\ Cardinality(Of(u, txns)) \in Nat
           /\ Max({t.day : t \in Of(u, txns)}) \in Int
<1> DEFINE U == Of(u, txns)
           f == [t \in U |-> t.day]
           days == {t.day : t \in U}
<1>1. U \in SUBSET txns /\ U # {}
  BY DEF Of, Users
<1>2. IsFiniteSet(U)
  BY <1>1, FS_Subset DEF IsSample
<1>3. Amount(U) \in Int
  <2> DEFINE F == [t \in U |-> t.amount]
  <2>1. \A t \in U : F[t] \in Int
    BY <1>1 DEF IsSample
  <2>2. DOMAIN F = U
    OBVIOUS
  <2> HIDE DEF F, U
  <2>3. SumFunctionOnSet(F, DOMAIN F) \in Int
    BY <1>2, <2>1, <2>2, SumType
  <2> QED
    BY <2>3 DEF Amount, SumFunction, F
<1>4. IsFiniteSet(days)
  <2>1. f \in Surjection(U, days)
    BY DEF Surjection
  <2> QED
    BY <1>2, <2>1, FS_Surjection
<1>5. days \in SUBSET Int /\ days # {}
  BY <1>1 DEF IsSample
<1>6. Max(days) \in Int
  <2> HIDE DEF days
  <2>1. \E x \in days : \A y \in days : x >= y
    BY <1>4, <1>5, MaxExists
  <2> QED
    BY <1>5, <2>1 DEF Max
<1> QED
  BY <1>2, <1>3, <1>6, FS_CardinalityType

(* The anomaly scores of a user cancel out: each is the distance from the  *)
(* user's own mean.                                                        *)
LEMMA AnomaliesCancel ==
    ASSUME NEW txns, IsSample(txns), NEW categories \in CategoryTables(txns),
           NEW u \in Users(txns), NEW table, table = Of(u, WideTable(txns, categories))
    PROVE  SumFunction([r \in table |-> r.anomaly]) = 0
<1> DEFINE U == Of(u, txns)
           R(t) == RowOf(t, txns, categories)
           n == Cardinality(U)
           a == Amount(U)
           amounts == [t \in U |-> t.amount]
           scores == [t \in U |-> AnomalyOf(t, txns)]
           column == [r \in table |-> r.anomaly]
           row == [t \in U |-> R(t)]
<1>1. U \in SUBSET txns /\ \A t \in U : t.user = u
  BY DEF Of
<1>2. IsFiniteSet(U) /\ n \in Int /\ a \in Int
  <2>1. IsFiniteSet(U)
    BY <1>1, FS_Subset DEF IsSample
  <2>2. n \in Nat /\ a \in Int
    BY FeaturesAreIntegers
  <2> QED
    BY <2>1, <2>2
<1>3. table = {R(t) : t \in U}
  BY RowsOfUser
<1>4. row \in Bijection(U, table)
  BY <1>1, <1>3, RowsCorrespond
<1>5. \A t \in U : amounts[t] \in Int /\ scores[t] = n * amounts[t] - a
  BY <1>1 DEF IsSample, AnomalyOf
<1>6. a = SumFunctionOnSet(amounts, U)
  BY DEF Amount, SumFunction
<1>7. \A t \in U : scores[t] = column[row[t]]
  <2>1. \A t \in U : R(t).anomaly = scores[t]
    BY DEF RowOf
  <2>2. \A t \in U : R(t) \in table
    BY <1>3
  <2> HIDE DEF R, scores
  <2> QED
    BY <2>1, <2>2
<1>8. DOMAIN column = table
  OBVIOUS
<1> HIDE DEF U, R, n, a, amounts, scores, column, row
<1>9. \A t \in U : scores[t] \in Int
  BY <1>2, <1>5
<1>10. SumFunctionOnSet(scores, U) = n * a - n * a
  <2>1. Scaled(amounts, scores, U, n, a)
    BY <1>2, <1>5, SumOfScaled, Zenon
  <2> QED
    BY <1>6, <2>1 DEF Scaled, n
<1>11. SumFunctionOnSet(column, table) = SumFunctionOnSet(scores, U)
  BY <1>2, <1>4, <1>7, <1>9, SumReindexed
<1>12. n * a - n * a = 0
  <2>1. n * a \in Int
    BY <1>2
  <2> QED
    BY <2>1
<1>13. SumFunctionOnSet(column, DOMAIN column) = 0
  BY <1>8, <1>10, <1>11, <1>12
<1> QED
  BY <1>13 DEF SumFunction, column

(* A query for a user gives the features that were computed for that user. *)
THEOREM UserFeaturesAreExact ==
    ASSUME NEW txns, IsSample(txns), NEW categories \in CategoryTables(txns),
           NEW table, table = WideTable(txns, categories), NEW u \in Users(txns)
    PROVE  \E v \in UserFeatures(u, table) :
              /\ v.recency = Today - Max({t.day : t \in Of(u, txns)})
              /\ v.frequency = Cardinality(Of(u, txns))
              /\ v.monetary = Amount(Of(u, txns))
              /\ v.anomaly = 0
              /\ v.rolling = {<<t.id, RollingOf(t, txns)>> : t \in Of(u, txns)}
              /\ \A c : v.count >= CategoryCount(u, c, txns)
<1> DEFINE some == Of(u, table)
           R(t) == RowOf(t, txns, categories)
           recency == Today - Max({t.day : t \in Of(u, txns)})
           frequency == Cardinality(Of(u, txns))
           monetary == Amount(Of(u, txns))
           count == CategoryOf(u, categories).count
           v == [rolling |-> {<<r.txn, r.rolling>> : r \in some},
                 anomaly |-> SumFunction([r \in some |-> r.anomaly]),
                 recency |-> Max({r.recency : r \in some}),
                 frequency |-> Max({r.frequency : r \in some}),
                 monetary |-> Max({r.monetary : r \in some}),
                 count |-> Max({r.count : r \in some})]
<1>1. some = {R(t) : t \in Of(u, txns)}
  BY RowsOfUser
<1>2. ASSUME NEW t \in Of(u, txns)
      PROVE  /\ R(t).recency = recency /\ R(t).frequency = frequency
             /\ R(t).monetary = monetary /\ R(t).count = count
  <2>1. t.user = u
    BY DEF Of
  <2> QED
    BY <2>1 DEF RowOf
<1>3. Of(u, txns) # {}
  BY DEF Of, Users
<1>4. v.rolling = {<<t.id, RollingOf(t, txns)>> : t \in Of(u, txns)}
  <2>1. \A t : R(t).txn = t.id /\ R(t).rolling = RollingOf(t, txns)
    BY DEF RowOf
  <2> HIDE DEF R, some
  <2>2. {<<r.txn, r.rolling>> : r \in some} = {<<t.id, RollingOf(t, txns)>> : t \in Of(u, txns)}
    BY <1>1, <2>1
  <2> QED
    BY <2>2
<1>5. UserFeatures(u, table) = {v}
  <2>1. some # {}
    BY <1>1, <1>3
  <2> QED
    BY <2>1, Zenon DEF UserFeatures
<1>6. recency \in Int /\ frequency \in Int /\ monetary \in Int
  <2>1. frequency \in Nat /\ monetary \in Int /\ Max({t.day : t \in Of(u, txns)}) \in Int
    BY FeaturesAreIntegers
  <2> QED
    BY <2>1, TodayAssumption
<1>7. count \in Int /\ \A c : count >= CategoryCount(u, c, txns)
  <2>1. PICK c \in categories : /\ Of(u, categories) = {c}
                                /\ c.count \in Nat
                                /\ \A k : c.count >= CategoryCount(u, k, txns)
    BY CategoryOfUser DEF IsSample
  <2>2. CategoryOf(u, categories) = c
    BY <2>1 DEF CategoryOf
  <2> QED
    BY <2>1, <2>2
<1> HIDE DEF some, R, recency, frequency, monetary, count
<1>8. /\ {r.recency : r \in some} = {recency} /\ {r.frequency : r \in some} = {frequency}
      /\ {r.monetary : r \in some} = {monetary} /\ {r.count : r \in some} = {count}
  BY <1>1, <1>2, <1>3
<1>9. /\ v.recency = recency /\ v.frequency = frequency
      /\ v.monetary = monetary /\ v.count = count
  BY <1>6, <1>7, <1>8, MaxOfOne
<1>10. v.anomaly = 0
  BY AnomaliesCancel DEF some
<1> HIDE DEF v
<1>11. v \in UserFeatures(u, table)
  BY <1>5
<1> QED
  BY <1>7, <1>9, <1>10, <1>11, <1>4 DEF recency, frequency, monetary

(* What get_top_k_users orders by.                                         *)
LEMMA MonetaryOfUser ==
    ASSUME NEW txns, IsSample(txns), NEW categories \in CategoryTables(txns),
           NEW u \in Users(txns)
    PROVE  Monetary(u, WideTable(txns, categories)) = Amount(Of(u, txns))
<1> DEFINE R(t) == RowOf(t, txns, categories)
           some == Of(u, WideTable(txns, categories))
           monetary == Amount(Of(u, txns))
<1>1. some = {R(t) : t \in Of(u, txns)}
  BY RowsOfUser
<1>2. \A t \in Of(u, txns) : R(t).monetary = monetary
  BY DEF RowOf, Of
<1>3. Of(u, txns) # {}
  BY DEF Of, Users
<1>4. monetary \in Int
  BY FeaturesAreIntegers
<1> HIDE DEF R, monetary, some
<1>5. {r.monetary : r \in some} = {monetary}
  BY <1>1, <1>2, <1>3
<1>6. Max({r.monetary : r \in some}) = monetary
  BY <1>4, <1>5, MaxOfOne
<1> QED
  BY <1>6 DEF Monetary, some, monetary

(* Nobody outside an answer of get_top_k_users has spent more than anybody *)
(* in it.                                                                  *)
THEOREM TopUsersSpendMost ==
    ASSUME NEW txns, IsSample(txns), NEW categories \in CategoryTables(txns),
           NEW table, table = WideTable(txns, categories), NEW k \in Nat,
           NEW us \in TopUsers(k, table), NEW u \in us, NEW v \in Users(txns) \ us
    PROVE  Amount(Of(u, txns)) >= Amount(Of(v, txns))
<1>1. Users(table) = Users(txns)
  BY UsersOfTable
<1>2. u \in Users(txns) /\ Monetary(u, table) >= Monetary(v, table)
  BY <1>1 DEF TopUsers
<1> QED
  BY <1>2, MonetaryOfUser

(* For k = 1 the answer is one of the largest spenders.                    *)
THEOREM TopUserSpendsMost ==
    ASSUME NEW txns, IsSample(txns), NEW categories \in CategoryTables(txns),
           NEW table, table = WideTable(txns, categories),
           NEW us \in TopUsers(1, table), NEW u \in us, NEW v \in Users(txns)
    PROVE  Amount(Of(u, txns)) >= Amount(Of(v, txns))
<1>1. Users(table) = Users(txns) /\ IsFiniteSet(Users(txns))
  BY UsersOfTable, FiniteUsers DEF IsSample
<1>2. us \subseteq Users(txns) /\ IsFiniteSet(us)
  BY <1>1, FS_Subset DEF TopUsers
<1>3. Cardinality(us) <= 1
  BY <1>1, FS_CardinalityType DEF TopUsers
<1>4. us = {u}
  BY <1>2, <1>3, FS_Singleton, FS_EmptySet, FS_CardinalityType
<1>5. Amount(Of(u, txns)) \in Int
  BY <1>2, FeaturesAreIntegers
<1>6. CASE v = u
  BY <1>5, <1>6
<1>7. CASE v # u
  BY <1>4, <1>7, TopUsersSpendMost
<1> QED
  BY <1>6, <1>7

(* The window of a transaction holds the transaction itself: no average of *)
(* the rolling spend is one of nothing.                                    *)
THEOREM WindowsAreNotEmpty ==
    ASSUME NEW txns, IsSample(txns), NEW t \in txns
    PROVE  RollingOf(t, txns)[2] \in Nat \ {0}
<1> DEFINE window == {x \in Of(t.user, txns) : t.day - 7 <= x.day /\ x.day <= t.day}
<1>1. t \in window
  BY DEF Of, IsSample
<1>2. IsFiniteSet(window)
  BY FS_Subset DEF Of, IsSample
<1> HIDE DEF window
<1>3. Cardinality(window) \in Nat /\ Cardinality(window) # 0
  BY <1>1, <1>2, FS_EmptySet, FS_CardinalityType
<1>4. RollingOf(t, txns) = Average(window)
  BY DEF RollingOf, window
<1> QED
  BY <1>3, <1>4 DEF Average

(* The mean of feature_drift_summary, and of a snapshot's statistics, is   *)
(* one over transactions: the spending of a user counts as often as the    *)
(* user spends.                                                            *)
THEOREM MeansAreOverTransactions ==
    ASSUME NEW txns, IsSample(txns), NEW categories \in CategoryTables(txns),
           NEW table, table = WideTable(txns, categories),
           NEW summary \in Summary(table)
    PROVE  summary.mean = <<SumFunction([t \in txns |-> Amount(Of(t.user, txns))]),
                            Cardinality(txns)>>
<1> DEFINE R(t) == RowOf(t, txns, categories)
           row == [t \in txns |-> R(t)]
           spent == [t \in txns |-> Amount(Of(t.user, txns))]
           column == [r \in table |-> r.monetary]
<1>1. table = {R(t) : t \in txns}
  BY OneRowPerTransaction
<1>2. row \in Bijection(txns, table)
  BY <1>1, RowsCorrespond
<1>3. ASSUME NEW t \in txns
      PROVE  spent[t] \in Int /\ spent[t] = column[row[t]]
  <2>1. t.user \in Users(txns) /\ R(t) \in table
    BY <1>1 DEF Users
  <2>2. R(t).monetary = Amount(Of(t.user, txns))
    BY DEF RowOf
  <2> HIDE DEF R
  <2> QED
    BY <2>1, <2>2, FeaturesAreIntegers
<1>4. summary.mean = <<SumFunction(column), Cardinality(table)>>
  BY DEF Summary
<1>5. DOMAIN spent = txns /\ DOMAIN column = table
  OBVIOUS
<1>6. Cardinality(table) = Cardinality(txns)
  BY RowsAndTransactions
<1> HIDE DEF R, row, spent, column
<1>7. SumFunctionOnSet(spent, txns) = SumFunctionOnSet(column, table)
  BY <1>2, <1>3, SumReindexed DEF IsSample
<1>8. SumFunction(spent) = SumFunction(column)
  BY <1>5, <1>7 DEF SumFunction
<1> QED
  BY <1>4, <1>6, <1>8 DEF spent
=============================================================================
