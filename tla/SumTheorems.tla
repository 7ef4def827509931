---------------------------- MODULE SumTheorems ----------------------------
(***************************************************************************)
(* What the proofs need of naturals, finite sets and sums over them.  Each *)
(* fact is shown by a minimal counterexample: the order on the naturals,   *)
(* and set inclusion on finite sets, are well founded.                     *)
(***************************************************************************)
EXTENDS Integers, FiniteSets, FiniteSetsExt, FiniteSetTheorems, WellFoundedInduction, TLAPS

(* A set of naturals has a least element. *)
LEMMA LeastNatural ==
    ASSUME NEW S \in SUBSET Nat, S # {}
    PROVE  \E m \in S : \A n \in S : m <= n
<1> DEFINE R == {ss \in Nat \X Nat : ss[1] < ss[2]}
<1>1. IsWellFoundedOn(R, Nat)
  BY NatLessThanWellFounded DEF OpToRel
<1> HIDE DEF R
<1>2. PICK m \in S : \A n \in S : ~(<<n, m>> \in R)
  BY <1>1, WFMin
<1>3. \A n \in S : ~(n < m)
  BY <1>2 DEF R
<1> QED
  BY <1>3

(* A minimal finite counterexample. *)
LEMMA LeastFiniteSet ==
    ASSUME NEW S, NEW T, T \subseteq FiniteSubsetsOf(S), T # {}
    PROVE  \E s \in T : \A t \in T : t \subseteq s => t = s
<1>1. IsWellFoundedOn(StrictSubsetOrdering(S), FiniteSubsetsOf(S))
  BY FS_StrictSubsetOrderingWellFounded
<1>2. PICK s \in T : \A t \in T : ~(<<t, s>> \in StrictSubsetOrdering(S))
  BY <1>1, WFMin
<1> QED
  BY <1>2 DEF StrictSubsetOrdering, FiniteSubsetsOf

(* A finite set of integers has a greatest element. *)
LEMMA GreatestInteger ==
    ASSUME NEW S \in SUBSET Int, S # {}, IsFiniteSet(S)
    PROVE  \E m \in S : \A n \in S : n <= m
<1> SUFFICES ASSUME ~ \E m \in S : \A n \in S : n <= m
             PROVE  FALSE
  OBVIOUS
<1> DEFINE T == {s \in SUBSET S : s # {} /\ ~ \E m \in s : \A n \in s : n <= m}
<1>1. S \in T
  OBVIOUS
<1>2. \A s \in T : IsFiniteSet(s)
  BY FS_Subset
<1>3. PICK s \in T : \A t \in T : t \subseteq s => t = s
  <2>1. T \subseteq FiniteSubsetsOf(S) /\ T # {}
    BY <1>1, <1>2 DEF FiniteSubsetsOf
  <2> HIDE DEF T
  <2> QED
    BY <2>1, LeastFiniteSet
<1>4. PICK x \in s : TRUE
  BY <1>3
<1>5. s \ {x} \notin T
  BY <1>3, <1>4
<1>6. CASE s \ {x} = {}
  BY <1>4, <1>6
<1>7. CASE s \ {x} # {}
  <2>1. PICK m \in s \ {x} : \A n \in s \ {x} : n <= m
    BY <1>5, <1>7
  <2>2. m \in Int /\ x \in Int /\ \A n \in s : n \in Int
    BY <2>1, <1>4
  <2>3. \A n \in s : n = x \/ n <= m
    BY <2>1
  <2>4. \E p \in s : \A n \in s : n <= p
    <3>1. CASE x <= m
      BY <2>1, <2>2, <2>3, <3>1
    <3>2. CASE m <= x
      BY <2>1, <2>2, <2>3, <3>2, <1>4
    <3> QED BY <3>1, <3>2, <2>2
  <2> QED BY <2>4
<1> QED
  BY <1>6, <1>7
-----------------------------------------------------------------------------
(* One element of a set, as FiniteSetsExt takes it to fold over the set. *)
Pick(s) == CHOOSE x \in s : TRUE
(* One step of the fold: the picked element and what g says of the rest. *)
Unroll(f, g, s) == IF s = {} THEN 0 ELSE f[Pick(s)] + g[s \ {Pick(s)}]
(* g folds f over every subset of S. *)
Unrolls(f, g, S) == g = [s \in SUBSET S |-> Unroll(f, g, s)]
(* The fold itself. *)
Iter(f, S) == CHOOSE g : Unrolls(f, g, S)
(* The sum of f over S. *)
FnSum(f, S) == MapThenSumSet(LAMBDA x : f[x], S)

(* A set that is not empty has the element picked. *)
LEMMA PickIn ==
    ASSUME NEW s, s # {}
    PROVE  Pick(s) \in s
  BY DEF Pick

(* The sum that MapThenSumSet computes is what the fold says of the whole  *)
(* set.                                                                    *)
LEMMA FnSumIter ==
    ASSUME NEW f, NEW S
    PROVE  FnSum(f, S) = Iter(f, S)[S]
  BY DEF FnSum, MapThenSumSet, MapThenFoldSet, Iter, Unrolls, Unroll, Pick

(* Two folds of one function agree on the subsets they share: a smallest   *)
(* subset they differ on would differ on a smaller one.                    *)
LEMMA UnrollUnique ==
    ASSUME NEW f, NEW S, IsFiniteSet(S), NEW g, NEW h, NEW U, S \subseteq U,
           Unrolls(f, g, S), Unrolls(f, h, U)
    PROVE  \A s \in SUBSET S : g[s] = h[s]
<1> SUFFICES ASSUME NEW w \in SUBSET S, g[w] # h[w]
             PROVE  FALSE
  OBVIOUS
<1> DEFINE T == {s \in SUBSET S : g[s] # h[s]}
<1>1. T \subseteq FiniteSubsetsOf(S) /\ T # {}
  BY FS_Subset DEF FiniteSubsetsOf
<1>2. \A s \in SUBSET S : g[s] = Unroll(f, g, s) /\ h[s] = Unroll(f, h, s)
  BY DEF Unrolls
<1>3. PICK s \in T : \A t \in T : t \subseteq s => t = s
  <2> HIDE DEF T
  <2> QED
    BY <1>1, LeastFiniteSet
<1>4. s # {}
  BY <1>2, <1>3 DEF Unroll
<1>5. Pick(s) \in s
  BY <1>4, PickIn
<1>6. g[s \ {Pick(s)}] = h[s \ {Pick(s)}]
  BY <1>3, <1>5
<1> QED
  BY <1>2, <1>3, <1>4, <1>6 DEF Unroll

(* A finite set can be folded: over a smallest set that cannot, the folds  *)
(* of its parts make one.                                                  *)
LEMMA UnrollExists ==
    ASSUME NEW f, NEW S, IsFiniteSet(S)
    PROVE  Unrolls(f, Iter(f, S), S)
<1> SUFFICES ASSUME ~ \E g : Unrolls(f, g, S)
             PROVE  FALSE
  BY DEF Iter
<1> DEFINE T == {s \in SUBSET S : ~ \E g : Unrolls(f, g, s)}
<1>1. T \subseteq FiniteSubsetsOf(S) /\ T # {}
  BY FS_Subset DEF FiniteSubsetsOf
<1>2. PICK s \in T : \A t \in T : t \subseteq s => t = s
  <2> HIDE DEF T
  <2> QED
    BY <1>1, LeastFiniteSet
<1>3. ASSUME NEW t \in SUBSET s, t # s
      PROVE  Unrolls(f, Iter(f, t), t) /\ IsFiniteSet(t)
  <2>1. t \in SUBSET S /\ t \notin T
    BY <1>2, <1>3
  <2>2. \E g : Unrolls(f, g, t)
    BY <2>1
  <2> QED
    BY <2>1, <2>2, FS_Subset DEF Iter
<1> DEFINE p == [t \in SUBSET s |-> Iter(f, t)[t]]
           g == [t \in SUBSET s |-> Unroll(f, p, t)]
<1>4. ASSUME NEW t \in SUBSET s, t # s
      PROVE  g[t] = p[t]
  <2>1. Iter(f, t)[t] = Unroll(f, Iter(f, t), t)
    BY <1>3, <1>4 DEF Unrolls
  <2>2. ASSUME t # {}
        PROVE  Iter(f, t)[t \ {Pick(t)}] = p[t \ {Pick(t)}]
    <3> DEFINE u == t \ {Pick(t)}
    <3>1. u \in SUBSET s /\ u # s /\ u \subseteq t
      BY <2>2, PickIn
    <3>2. Iter(f, u)[u] = Iter(f, t)[u]
      BY <3>1, <1>3, <1>4, UnrollUnique
    <3> QED
      BY <3>1, <3>2
  <2> QED
    BY <2>1, <2>2 DEF Unroll
<1>5. ASSUME NEW t \in SUBSET s
      PROVE  Unroll(f, p, t) = Unroll(f, g, t)
  <2>1. CASE t = {}
    BY <2>1 DEF Unroll
  <2>2. CASE t # {}
    <3>1. t \ {Pick(t)} \in SUBSET s /\ t \ {Pick(t)} # s
      BY <2>2, PickIn
    <3>2. g[t \ {Pick(t)}] = p[t \ {Pick(t)}]
      BY <3>1, <1>4
    <3> HIDE DEF g, p
    <3> QED
      BY <3>2 DEF Unroll
  <2> QED
    BY <2>1, <2>2
<1>6. Unrolls(f, g, s)
  <2>1. g = [t \in SUBSET s |-> Unroll(f, g, t)]
    BY <1>5
  <2> HIDE DEF g
  <2> QED
    BY <2>1 DEF Unrolls
<1> QED
  BY <1>2, <1>6

(* A sum is the picked element and the sum of the rest. *)
LEMMA FnSumPick ==
    ASSUME NEW f, NEW S, IsFiniteSet(S)
    PROVE  FnSum(f, S) = IF S = {} THEN 0 ELSE f[Pick(S)] + FnSum(f, S \ {Pick(S)})
<1> DEFINE u == S \ {Pick(S)}
<1>1. Unrolls(f, Iter(f, S), S) /\ Unrolls(f, Iter(f, u), u) /\ IsFiniteSet(u)
  BY UnrollExists, FS_Subset
<1>2. Iter(f, S)[S] = Unroll(f, Iter(f, S), S)
  BY <1>1 DEF Unrolls
<1>3. Iter(f, u)[u] = Iter(f, S)[u]
  BY <1>1, UnrollUnique
<1> QED
  BY <1>2, <1>3, FnSumIter DEF Unroll

(* A sum of integers is an integer. *)
LEMMA FnSumType ==
    ASSUME NEW f, NEW S, IsFiniteSet(S), \A x \in S : f[x] \in Int
    PROVE  FnSum(f, S) \in Int
<1> SUFFICES ASSUME FnSum(f, S) \notin Int
             PROVE  FALSE
  OBVIOUS
<1> DEFINE T == {s \in SUBSET S : FnSum(f, s) \notin Int}
<1>1. T \subseteq FiniteSubsetsOf(S) /\ T # {}
  BY FS_Subset DEF FiniteSubsetsOf
<1>2. PICK s \in T : \A t \in T : t \subseteq s => t = s
  <2> HIDE DEF T
  <2> QED
    BY <1>1, LeastFiniteSet
<1>3. IsFiniteSet(s) /\ s \subseteq S
  BY <1>2, FS_Subset
<1>4. CASE s = {}
  <2>1. FnSum(f, s) = 0
    BY <1>3, <1>4, FnSumPick
  <2> QED
    BY <1>2, <2>1
<1>5. CASE s # {}
  <2>1. Pick(s) \in s
    BY <1>5, PickIn
  <2>2. FnSum(f, s \ {Pick(s)}) \in Int
    BY <1>2, <2>1
  <2>3. FnSum(f, s) = f[Pick(s)] + FnSum(f, s \ {Pick(s)})
    BY <1>3, <1>5, FnSumPick
  <2> QED
    BY <1>2, <1>3, <2>1, <2>2, <2>3
<1> QED
  BY <1>4, <1>5

(* A sum does not depend on the order: any element can be taken out first. *)
LEMMA FnSumTake ==
    ASSUME NEW f, NEW S, IsFiniteSet(S), \A x \in S : f[x] \in Int, NEW a \in S
    PROVE  FnSum(f, S) = f[a] + FnSum(f, S \ {a})
<1> SUFFICES ASSUME FnSum(f, S) # f[a] + FnSum(f, S \ {a})
             PROVE  FALSE
  OBVIOUS
<1> DEFINE Bad(s) == \E b \in s : FnSum(f, s) # f[b] + FnSum(f, s \ {b})
           T == {s \in SUBSET S : Bad(s)}
<1>1. T \subseteq FiniteSubsetsOf(S) /\ T # {}
  BY FS_Subset DEF FiniteSubsetsOf
<1>2. PICK s \in T : \A t \in T : t \subseteq s => t = s
  <2> HIDE DEF T
  <2> QED
    BY <1>1, LeastFiniteSet
<1>3. IsFiniteSet(s) /\ s \subseteq S
  BY <1>2, FS_Subset
<1>4. PICK b \in s : FnSum(f, s) # f[b] + FnSum(f, s \ {b})
  BY <1>2
<1> DEFINE c == Pick(s)
<1>5. c \in s /\ FnSum(f, s) = f[c] + FnSum(f, s \ {c})
  BY <1>3, <1>4, PickIn, FnSumPick
<1> HIDE DEF c
<1>6. b # c
  BY <1>4, <1>5
<1>7. FnSum(f, s \ {c}) = f[b] + FnSum(f, (s \ {c}) \ {b})
  <2>1. s \ {c} \notin T
    BY <1>2, <1>5
  <2> QED
    BY <1>3, <1>4, <1>6, <2>1
<1>8. FnSum(f, s \ {b}) = f[c] + FnSum(f, (s \ {b}) \ {c})
  <2>1. s \ {b} \notin T
    BY <1>2, <1>4
  <2> QED
    BY <1>3, <1>5, <1>6, <2>1
<1> DEFINE u == (s \ {b}) \ {c}
<1>9. (s \ {c}) \ {b} = u /\ u \subseteq s
  OBVIOUS
<1>10. f[b] \in Int /\ f[c] \in Int /\ FnSum(f, u) \in Int
  <2>1. IsFiniteSet(u)
    BY <1>3, FS_Subset
  <2>2. \A x \in u : f[x] \in Int
    BY <1>3
  <2> HIDE DEF u
  <2> QED
    BY <1>3, <1>4, <1>5, <2>1, <2>2, FnSumType
<1> HIDE DEF u, T, Bad
<1>11. FnSum(f, s) = f[c] + (f[b] + FnSum(f, u)) /\ FnSum(f, s \ {b}) = f[c] + FnSum(f, u)
  BY <1>5, <1>7, <1>8, <1>9 DEF u
<1> QED
  BY <1>4, <1>10, <1>11

(* The sum of a function depends on its values on the set only. *)
LEMMA FnSumSame ==
    ASSUME NEW S, IsFiniteSet(S), NEW f, NEW g, \A x \in S : f[x] = g[x]
    PROVE  FnSum(f, S) = FnSum(g, S)
<1> SUFFICES ASSUME FnSum(f, S) # FnSum(g, S)
             PROVE  FALSE
  OBVIOUS
<1> DEFINE T == {s \in SUBSET S : FnSum(f, s) # FnSum(g, s)}
<1>1. T \subseteq FiniteSubsetsOf(S) /\ T # {}
  BY FS_Subset DEF FiniteSubsetsOf
<1>2. PICK s \in T : \A t \in T : t \subseteq s => t = s
  <2> HIDE DEF T
  <2> QED
    BY <1>1, LeastFiniteSet
<1>3. IsFiniteSet(s) /\ s \subseteq S
  BY <1>2, FS_Subset
<1>4. s # {}
  BY <1>2, <1>3, FnSumPick
<1>5. Pick(s) \in s
  BY <1>4, PickIn
<1>6. FnSum(f, s \ {Pick(s)}) = FnSum(g, s \ {Pick(s)})
  BY <1>2, <1>5
<1> QED
  BY <1>2, <1>3, <1>4, <1>5, <1>6, FnSumPick

(* Where one value changes, the sum changes by as much. *)
LEMMA FnSumChange ==
    ASSUME NEW S, IsFiniteSet(S), NEW a \in S, NEW f, NEW g,
           \A x \in S : f[x] \in Int /\ g[x] \in Int, \A x \in S \ {a} : f[x] = g[x]
    PROVE  FnSum(g, S) = FnSum(f, S) + (g[a] - f[a])
<1>1. IsFiniteSet(S \ {a})
  BY FS_Subset
<1>2. FnSum(f, S \ {a}) = FnSum(g, S \ {a}) /\ FnSum(f, S \ {a}) \in Int
  BY <1>1, FnSumSame, FnSumType
<1>3. FnSum(f, S) = f[a] + FnSum(f, S \ {a}) /\ FnSum(g, S) = g[a] + FnSum(g, S \ {a})
  BY FnSumTake
<1> QED
  BY <1>2, <1>3

(* A sum of naturals is a natural. *)
LEMMA FnSumNonNegative ==
    ASSUME NEW f, NEW S, IsFiniteSet(S), \A x \in S : f[x] \in Nat
    PROVE  FnSum(f, S) \in Nat
<1> SUFFICES ASSUME FnSum(f, S) \notin Nat
             PROVE  FALSE
  OBVIOUS
<1> DEFINE T == {s \in SUBSET S : FnSum(f, s) \notin Nat}
<1>1. T \subseteq FiniteSubsetsOf(S) /\ T # {}
  BY FS_Subset DEF FiniteSubsetsOf
<1>2. PICK s \in T : \A t \in T : t \subseteq s => t = s
  <2> HIDE DEF T
  <2> QED
    BY <1>1, LeastFiniteSet
<1>3. IsFiniteSet(s) /\ s \subseteq S
  BY <1>2, FS_Subset
<1>4. CASE s = {}
  <2>1. FnSum(f, s) = 0
    BY <1>3, <1>4, FnSumPick
  <2> QED
    BY <1>2, <2>1
<1>5. CASE s # {}
  <2>1. Pick(s) \in s
    BY <1>5, PickIn
  <2>2. FnSum(f, s \ {Pick(s)}) \in Nat
    BY <1>2, <2>1
  <2>3. FnSum(f, s) = f[Pick(s)] + FnSum(f, s \ {Pick(s)})
    BY <1>3, <1>5, FnSumPick
  <2> QED
    BY <1>2, <1>3, <2>1, <2>2, <2>3
<1> QED
  BY <1>4, <1>5

(* A sum of zeroes is zero. *)
LEMMA FnSumZero ==
    ASSUME NEW f, NEW S, IsFiniteSet(S), \A x \in S : f[x] = 0
    PROVE  FnSum(f, S) = 0
<1> SUFFICES ASSUME FnSum(f, S) # 0
             PROVE  FALSE
  OBVIOUS
<1> DEFINE T == {s \in SUBSET S : FnSum(f, s) # 0}
<1>1. T \subseteq FiniteSubsetsOf(S) /\ T # {}
  BY FS_Subset DEF FiniteSubsetsOf
<1>2. PICK s \in T : \A t \in T : t \subseteq s => t = s
  <2> HIDE DEF T
  <2> QED
    BY <1>1, LeastFiniteSet
<1>3. IsFiniteSet(s) /\ s \subseteq S
  BY <1>2, FS_Subset
<1>4. s # {}
  BY <1>2, <1>3, FnSumPick
<1>5. Pick(s) \in s
  BY <1>4, PickIn
<1>6. FnSum(f, s \ {Pick(s)}) = 0
  BY <1>2, <1>5
<1>7. FnSum(f, s) = f[Pick(s)] + FnSum(f, s \ {Pick(s)})
  BY <1>3, <1>4, FnSumPick
<1> QED
  BY <1>2, <1>3, <1>5, <1>6, <1>7

=============================================================================
