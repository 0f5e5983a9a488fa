--------------------------- MODULE FiguresProofs ---------------------------
(***************************************************************************)
(* Sums over finite sets, and with them the proofs about Figures, for any  *)
(* number of items, any quantities, prices and rates.                      *)
(*                                                                         *)
(* The first part is about sums as such, and InvoicesProofs uses it for    *)
(* payments and credit notes: what a sum is of, and how it changes when an *)
(* amount is added, removed or replaced.  The folds of the community       *)
(* modules take the elements in an order of their own, so the lemmas first *)
(* show that the order does not matter.  The induction is over sets: a set *)
(* that contains the empty set, and with all the sets that lack one        *)
(* element of s also s, contains every subset.                             *)
(*                                                                         *)
(* The second part needs little of the states (FiguresInv): an invoice has *)
(* items, and none with VAT if its maker must not charge any.  The rest    *)
(* holds for every invoice: rounding is off by half a cent, the sum over   *)
(* the rates is the sum over the items, and each rule of the validation is *)
(* kept or is one that the property excepts.                               *)
(***************************************************************************)
EXTENDS Figures, FiniteSets, FiniteSetTheorems, WellFoundedInduction, TLAPS

(* The sum of f over s.                                                    *)
Total(f, s) == FoldFunctionOnSet(+, 0, f, s)

Pick(s) == CHOOSE x \in s : TRUE

LEMMA PickIn == \A s : s # {} => Pick(s) \in s
  BY DEF Pick

-----------------------------------------------------------------------------
(* Induction                                                               *)

(* A set of numbers with 0 and the successor of each of them has them all. *)
LEMMA NatSetInduction ==
  ASSUME NEW T \in SUBSET Nat, 0 \in T, \A n \in T : n + 1 \in T
  PROVE  T = Nat
<1> DEFINE R == OpToRel(<, Nat)  U == Nat \ T
<1>1. SUFFICES ASSUME U # {} PROVE FALSE
  OBVIOUS
<1>2. \A m, n \in Nat : m < n => <<m, n>> \in R
  BY DEF OpToRel
<1> HIDE DEF R, U
<1>3. PICK n \in U : \A m \in U : ~(<<m, n>> \in R)
  BY <1>1, NatLessThanWellFounded, WFMin, U \subseteq Nat DEF R, U
<1>4. n # 0 /\ n \in Nat /\ n \notin T
  BY DEF U
<1>5. n - 1 \in Nat /\ n - 1 \notin T
  BY <1>4
<1>6. <<n - 1, n>> \in R
  BY <1>2, <1>4, <1>5
<1>7. QED
  BY <1>3, <1>5, <1>6 DEF U

Upto(S, n) == {s \in SUBSET S : Cardinality(s) <= n}

(* The subsets of S with one element more.                                 *)
LEMMA UptoNext ==
  ASSUME NEW S, IsFiniteSet(S)
  PROVE  /\ Upto(S, 0) = {{}}
         /\ \A n \in Nat : Upto(S, n) \subseteq Upto(S, n + 1)
         /\ \A n \in Nat : \A s \in Upto(S, n + 1) : \A x \in s : s \ {x} \in Upto(S, n)
         /\ Upto(S, Cardinality(S)) = SUBSET S
         /\ Cardinality(S) \in Nat
<1>1. Upto(S, 0) = {{}}
  BY FS_EmptySet, FS_Subset, FS_CardinalityType DEF Upto
<1>2. \A n \in Nat : Upto(S, n) \subseteq Upto(S, n + 1)
  BY FS_Subset, FS_CardinalityType DEF Upto
<1>3. ASSUME NEW n \in Nat, NEW s \in Upto(S, n + 1), NEW x \in s PROVE s \ {x} \in Upto(S, n)
  BY FS_Subset, FS_RemoveElement, FS_CardinalityType DEF Upto
<1>4. Upto(S, Cardinality(S)) = SUBSET S
  BY FS_Subset DEF Upto
<1>5. QED
  BY <1>1, <1>2, <1>3, <1>4, FS_CardinalityType

LEMMA SubsetInduction ==
  ASSUME NEW S, IsFiniteSet(S), NEW T \in SUBSET SUBSET S,
         \A s \in SUBSET S : (\A x \in s : s \ {x} \in T) => s \in T
  PROVE  T = SUBSET S
<1> DEFINE N == {n \in Nat : Upto(S, n) \subseteq T}
<1>1. 0 \in N
  BY UptoNext
<1>2. ASSUME NEW n \in N PROVE n + 1 \in N
  <2>1. ASSUME NEW s \in Upto(S, n + 1) PROVE s \in T
    <3>1. s \in SUBSET S /\ \A x \in s : s \ {x} \in Upto(S, n)
      BY UptoNext DEF Upto
    <3>2. QED
      BY <3>1
  <2>2. QED
    BY <2>1
<1>3. N = Nat
  BY <1>1, <1>2, NatSetInduction
<1>4. QED
  BY <1>3, UptoNext

-----------------------------------------------------------------------------
(* The fold, taken apart                                                   *)

Folds(f, T, g) == g = [s \in T |-> IF s = {} THEN 0 ELSE f[Pick(s)] + g[s \ {Pick(s)}]]

FoldOf(f, S) == CHOOSE g : Folds(f, SUBSET S, g)

(* The function that the fold chooses exists.                              *)
LEMMA FoldExists ==
  ASSUME NEW S, IsFiniteSet(S), NEW f
  PROVE  \E g : Folds(f, SUBSET S, g)
<1> DEFINE T == {n \in Nat : \E g : Folds(f, Upto(S, n), g)}
<1>1. 0 \in T
  <2> DEFINE g == [s \in Upto(S, 0) |-> 0]
  <2>1. Folds(f, Upto(S, 0), g)
    BY UptoNext DEF Folds
  <2>2. QED
    BY <2>1
<1>2. ASSUME NEW n \in T PROVE n + 1 \in T
  <2>1. PICK g : Folds(f, Upto(S, n), g)
    BY <1>2
  <2> DEFINE h == [s \in Upto(S, n + 1) |-> IF s = {} THEN 0 ELSE f[Pick(s)] + g[s \ {Pick(s)}]]
  <2>2. ASSUME NEW s \in Upto(S, n + 1), s # {} PROVE s \ {Pick(s)} \in Upto(S, n)
    BY <2>2, UptoNext, PickIn
  <2>3. \A s \in Upto(S, n) : s \in Upto(S, n + 1)
    BY UptoNext
  <2>4. \A s \in Upto(S, n) : h[s] = g[s]
    BY <2>1, <2>3 DEF Folds
  <2>5. Folds(f, Upto(S, n + 1), h)
    BY <2>2, <2>3, <2>4 DEF Folds
  <2>6. QED
    BY <2>5
<1>3. T = Nat
  BY <1>1, <1>2, NatSetInduction
<1>4. PICK g : Folds(f, Upto(S, Cardinality(S)), g)
  <2>1. Cardinality(S) \in T
    BY <1>3, UptoNext
  <2>2. QED
    BY <2>1
<1>5. Upto(S, Cardinality(S)) = SUBSET S
  BY UptoNext
<1>6. QED
  BY <1>4, <1>5

(* ... and is what its definition says.                                    *)
LEMMA FoldAt ==
  ASSUME NEW S, IsFiniteSet(S), NEW f, NEW s \in SUBSET S
  PROVE  FoldOf(f, S)[s] = IF s = {} THEN 0 ELSE f[Pick(s)] + FoldOf(f, S)[s \ {Pick(s)}]
<1> DEFINE G == FoldOf(f, S)
<1>1. Folds(f, SUBSET S, G)
  BY FoldExists DEF FoldOf
<1>2. G = [t \in SUBSET S |-> IF t = {} THEN 0 ELSE f[Pick(t)] + G[t \ {Pick(t)}]]
  BY <1>1 DEF Folds
<1> HIDE DEF G
<1>3. G[s] = IF s = {} THEN 0 ELSE f[Pick(s)] + G[s \ {Pick(s)}]
  BY <1>2
<1>4. QED
  BY <1>3 DEF G

(* What is folded over a set does not depend on the set around it.         *)
LEMMA FoldInside ==
  ASSUME NEW S, IsFiniteSet(S), NEW f, NEW R \in SUBSET S
  PROVE  FoldOf(f, S)[R] = FoldOf(f, R)[R]
<1> DEFINE T == {s \in SUBSET R : FoldOf(f, S)[s] = FoldOf(f, R)[s]}
<1>1. IsFiniteSet(R)
  BY FS_Subset
<1>2. ASSUME NEW s \in SUBSET R, \A x \in s : s \ {x} \in T
      PROVE  s \in T
  <2>1. CASE s = {}
    BY <1>1, <2>1, FoldAt
  <2>2. CASE s # {}
    <3>1. s \in SUBSET S /\ s \ {Pick(s)} \in T
      BY <1>2, <2>2, PickIn
    <3>2. FoldOf(f, S)[s] = f[Pick(s)] + FoldOf(f, S)[s \ {Pick(s)}]
      BY <2>2, <3>1, FoldAt
    <3>3. FoldOf(f, R)[s] = f[Pick(s)] + FoldOf(f, R)[s \ {Pick(s)}]
      BY <1>1, <2>2, FoldAt
    <3>4. QED
      BY <3>1, <3>2, <3>3
  <2>3. QED
    BY <2>1, <2>2
<1>3. T = SUBSET R
  <2>1. T \in SUBSET SUBSET R
    OBVIOUS
  <2> HIDE DEF T
  <2>2. QED
    BY <1>1, <1>2, <2>1, SubsetInduction
<1>4. QED
  BY <1>3

LEMMA TotalIs ==
  ASSUME NEW f, NEW s PROVE Total(f, s) = FoldOf(f, s)[s]
  BY Zenon DEF Total, FoldFunctionOnSet, MapThenFoldSet, FoldOf, Folds, Pick

LEMMA SumIs ==
  ASSUME NEW f PROVE FoldFunction(+, 0, f) = Total(f, DOMAIN f)
  BY Zenon DEF Total, FoldFunction

(* A sum is that of one element and of the rest.                           *)
LEMMA TotalUnfold ==
  ASSUME NEW s, IsFiniteSet(s), NEW f
  PROVE  Total(f, s) = IF s = {} THEN 0 ELSE f[Pick(s)] + Total(f, s \ {Pick(s)})
<1>1. CASE s = {}
  BY <1>1, FoldAt, TotalIs
<1>2. CASE s # {}
  <2> DEFINE r == s \ {Pick(s)}
  <2>1. FoldOf(f, s)[s] = f[Pick(s)] + FoldOf(f, s)[r]
    BY <1>2, FoldAt
  <2>2. FoldOf(f, s)[r] = FoldOf(f, r)[r]
    BY FoldInside
  <2> HIDE DEF r
  <2>3. Total(f, s) = f[Pick(s)] + Total(f, r)
    BY <2>1, <2>2, TotalIs
  <2>4. QED
    BY <1>2, <2>3 DEF r
<1>3. QED
  BY <1>1, <1>2

-----------------------------------------------------------------------------
(* What a sum does                                                         *)

LEMMA TotalEmpty == ASSUME NEW f PROVE Total(f, {}) = 0
  BY TotalUnfold, FS_EmptySet

(* A sum of integers is an integer ...                                     *)
LEMMA TotalInt ==
  ASSUME NEW S, IsFiniteSet(S), NEW f, \A x \in S : f[x] \in Int
  PROVE  Total(f, S) \in Int
<1> DEFINE T == {s \in SUBSET S : Total(f, s) \in Int}
<1>1. ASSUME NEW s \in SUBSET S, \A x \in s : s \ {x} \in T
      PROVE  s \in T
  <2>1. IsFiniteSet(s)
    BY FS_Subset
  <2>2. CASE s = {}
    BY <2>2, TotalEmpty
  <2>3. CASE s # {}
    <3>1. Pick(s) \in s /\ s \ {Pick(s)} \in T
      BY <1>1, <2>3, PickIn
    <3>2. Total(f, s) = f[Pick(s)] + Total(f, s \ {Pick(s)})
      BY <2>1, <2>3, TotalUnfold
    <3>3. QED
      BY <3>1, <3>2
  <2>4. QED
    BY <2>2, <2>3
<1>2. T = SUBSET S
  <2>1. T \in SUBSET SUBSET S
    OBVIOUS
  <2> HIDE DEF T
  <2>2. QED
    BY <1>1, <2>1, SubsetInduction
<1>3. QED
  BY <1>2

(* ... and one of natural numbers a natural number.                        *)
LEMMA TotalNat ==
  ASSUME NEW S, IsFiniteSet(S), NEW f, \A x \in S : f[x] \in Nat
  PROVE  Total(f, S) \in Nat
<1> DEFINE T == {s \in SUBSET S : Total(f, s) \in Nat}
<1>1. ASSUME NEW s \in SUBSET S, \A x \in s : s \ {x} \in T
      PROVE  s \in T
  <2>1. IsFiniteSet(s)
    BY FS_Subset
  <2>2. CASE s = {}
    BY <2>2, TotalEmpty
  <2>3. CASE s # {}
    <3>1. Pick(s) \in s /\ s \ {Pick(s)} \in T
      BY <1>1, <2>3, PickIn
    <3>2. Total(f, s) = f[Pick(s)] + Total(f, s \ {Pick(s)})
      BY <2>1, <2>3, TotalUnfold
    <3>3. QED
      BY <3>1, <3>2
  <2>4. QED
    BY <2>2, <2>3
<1>2. T = SUBSET S
  <2>1. T \in SUBSET SUBSET S
    OBVIOUS
  <2> HIDE DEF T
  <2>2. QED
    BY <1>1, <2>1, SubsetInduction
<1>3. QED
  BY <1>2

(* Amounts outside of the set do not count.                                *)
LEMMA TotalSame ==
  ASSUME NEW S, IsFiniteSet(S), NEW f, NEW g, \A x \in S : f[x] = g[x]
  PROVE  Total(f, S) = Total(g, S)
<1> DEFINE T == {s \in SUBSET S : Total(f, s) = Total(g, s)}
<1>1. ASSUME NEW s \in SUBSET S, \A x \in s : s \ {x} \in T
      PROVE  s \in T
  <2>1. IsFiniteSet(s)
    BY FS_Subset
  <2>2. QED
    BY <1>1, <2>1, TotalUnfold, PickIn
<1>2. T = SUBSET S
  <2>1. T \in SUBSET SUBSET S
    OBVIOUS
  <2> HIDE DEF T
  <2>2. QED
    BY <1>1, <2>1, SubsetInduction
<1>3. QED
  BY <1>2

(* A sum is that of any one element and of the rest: the order in which    *)
(* the fold takes them does not matter.                                    *)
LEMMA TotalRemove ==
  ASSUME NEW S, IsFiniteSet(S), NEW f, \A x \in S : f[x] \in Int, NEW p \in S
  PROVE  Total(f, S) = f[p] + Total(f, S \ {p})
<1> DEFINE T == {s \in SUBSET S : \A x \in s : Total(f, s) = f[x] + Total(f, s \ {x})}
<1>1. ASSUME NEW s \in SUBSET S, \A x \in s : s \ {x} \in T
      PROVE  s \in T
  <2> SUFFICES ASSUME NEW x \in s PROVE Total(f, s) = f[x] + Total(f, s \ {x})
    OBVIOUS
  <2> DEFINE q == Pick(s)
  <2>1. q \in s /\ IsFiniteSet(s)
    BY PickIn, FS_Subset
  <2>2. Total(f, s) = f[q] + Total(f, s \ {q})
    BY <2>1, TotalUnfold
  <2> HIDE DEF q
  <2>3. CASE x = q
    BY <2>2, <2>3
  <2>4. CASE x # q
    <3> DEFINE r == (s \ {x}) \ {q}
    <3>1. r = (s \ {q}) \ {x} /\ x \in s \ {q} /\ q \in s \ {x}
      BY <2>1, <2>4
    <3>2. s \ {q} \in T /\ s \ {x} \in T
      BY <1>1, <2>1
    <3>3. Total(f, s \ {q}) = f[x] + Total(f, (s \ {q}) \ {x})
      BY <3>1, <3>2
    <3>4. Total(f, s \ {x}) = f[q] + Total(f, (s \ {x}) \ {q})
      BY <3>1, <3>2
    <3>5. f[x] \in Int /\ f[q] \in Int /\ Total(f, r) \in Int
      <4>1. IsFiniteSet(r) /\ r \subseteq S
        BY <2>1, FS_Subset
      <4>2. QED
        BY <2>1, <4>1, TotalInt
    <3> HIDE DEF r, T
    <3>6. Total(f, s \ {q}) = f[x] + Total(f, r)
      BY <3>1, <3>3
    <3>7. Total(f, s \ {x}) = f[q] + Total(f, r)
      BY <3>4 DEF r
    <3>8. QED
      BY <2>2, <3>5, <3>6, <3>7
  <2>5. QED
    BY <2>3, <2>4
<1>2. T = SUBSET S
  <2>1. T \in SUBSET SUBSET S
    OBVIOUS
  <2> HIDE DEF T
  <2>2. QED
    BY <1>1, <2>1, SubsetInduction
<1>3. QED
  BY <1>2

(* Replacing one amount changes the sum by the difference.                 *)
LEMMA TotalChange ==
  ASSUME NEW S, IsFiniteSet(S), NEW f, NEW g, NEW p \in S,
         \A x \in S : f[x] \in Int /\ g[x] \in Int,
         \A x \in S \ {p} : g[x] = f[x]
  PROVE  Total(g, S) = Total(f, S) - f[p] + g[p]
<1> DEFINE r == S \ {p}
<1>1. IsFiniteSet(r) /\ \A x \in r : f[x] \in Int /\ g[x] \in Int
  BY FS_Subset
<1>2. Total(f, S) = f[p] + Total(f, r) /\ Total(g, S) = g[p] + Total(g, r)
  BY TotalRemove
<1>3. Total(f, r) = Total(g, r) /\ Total(f, r) \in Int
  BY <1>1, TotalSame, TotalInt
<1> HIDE DEF r
<1>4. QED
  BY <1>2, <1>3

(* One more element adds its amount.                                       *)
LEMMA TotalAdd ==
  ASSUME NEW S, IsFiniteSet(S), NEW f, NEW p, p \notin S,
         \A x \in S \union {p} : f[x] \in Int
  PROVE  Total(f, S \union {p}) = Total(f, S) + f[p]
<1>1. IsFiniteSet(S \union {p}) /\ (S \union {p}) \ {p} = S
  BY FS_AddElement
<1>2. Total(f, S \union {p}) = f[p] + Total(f, S)
  BY <1>1, TotalRemove
<1>3. QED
  BY <1>2, TotalInt

(* Of natural numbers, fewer add up to no more.                            *)
LEMMA TotalSubset ==
  ASSUME NEW S, IsFiniteSet(S), NEW f, \A x \in S : f[x] \in Nat, NEW R \in SUBSET S
  PROVE  Total(f, R) <= Total(f, S)
<1> DEFINE T == {s \in SUBSET S : R \subseteq s => Total(f, R) <= Total(f, s)}
<1>1. ASSUME NEW s \in SUBSET S, \A x \in s : s \ {x} \in T
      PROVE  s \in T
  <2> SUFFICES ASSUME R \subseteq s PROVE Total(f, R) <= Total(f, s)
    OBVIOUS
  <2>1. IsFiniteSet(s) /\ IsFiniteSet(R)
    BY FS_Subset
  <2>2. Total(f, R) \in Nat /\ Total(f, s) \in Nat
    BY <2>1, TotalNat
  <2>3. CASE s = R
    BY <2>2, <2>3
  <2>4. CASE s # R
    <3>1. PICK x \in s : x \notin R
      BY <2>4
    <3>2. Total(f, s) = f[x] + Total(f, s \ {x})
      BY <2>1, TotalRemove
    <3>3. Total(f, R) <= Total(f, s \ {x})
      BY <1>1, <3>1
    <3>4. Total(f, s \ {x}) \in Nat /\ f[x] \in Nat
      BY <2>1, FS_Subset, TotalNat
    <3>5. QED
      BY <2>2, <3>2, <3>3, <3>4
  <2>5. QED
    BY <2>3, <2>4
<1>2. T = SUBSET S
  <2>1. T \in SUBSET SUBSET S
    OBVIOUS
  <2> HIDE DEF T
  <2>2. QED
    BY <1>1, <2>1, SubsetInduction
<1>3. QED
  BY <1>2

(* Nothing but zeros adds up to zero.                                      *)
LEMMA TotalZero ==
  ASSUME NEW S, IsFiniteSet(S), NEW f, \A x \in S : f[x] = 0
  PROVE  Total(f, S) = 0
<1> DEFINE T == {s \in SUBSET S : Total(f, s) = 0}
<1>1. ASSUME NEW s \in SUBSET S, \A x \in s : s \ {x} \in T
      PROVE  s \in T
  <2>1. IsFiniteSet(s)
    BY FS_Subset
  <2>2. CASE s = {}
    BY <2>2, TotalEmpty
  <2>3. CASE s # {}
    <3>1. Pick(s) \in s /\ s \ {Pick(s)} \in T
      BY <1>1, <2>3, PickIn
    <3>2. Total(f, s) = f[Pick(s)] + Total(f, s \ {Pick(s)})
      BY <2>1, <2>3, TotalUnfold
    <3>3. QED
      BY <3>1, <3>2
  <2>4. QED
    BY <2>2, <2>3
<1>2. T = SUBSET S
  <2>1. T \in SUBSET SUBSET S
    OBVIOUS
  <2> HIDE DEF T
  <2>2. QED
    BY <1>1, <2>1, SubsetInduction
<1>3. QED
  BY <1>2

(* Sums over sets that have nothing in common add up.                      *)
LEMMA TotalUnion ==
  ASSUME NEW A, NEW B, IsFiniteSet(A), IsFiniteSet(B), A \intersect B = {},
         NEW f, \A x \in A \union B : f[x] \in Int
  PROVE  Total(f, A \union B) = Total(f, A) + Total(f, B)
<1> DEFINE T == {s \in SUBSET B : Total(f, A \union s) = Total(f, A) + Total(f, s)}
<1>1. ASSUME NEW s \in SUBSET B, \A x \in s : s \ {x} \in T
      PROVE  s \in T
  <2>1. IsFiniteSet(s) /\ IsFiniteSet(A \union s)
    BY FS_Subset, FS_Union
  <2>2. Total(f, A) \in Int
    BY TotalInt
  <2>3. CASE s = {}
    <3>1. Total(f, s) = 0 /\ A \union s = A
      BY <2>3, TotalEmpty
    <3>2. Total(f, A \union s) = Total(f, A)
      BY <3>1
    <3> HIDE DEF T
    <3>3. Total(f, A \union s) = Total(f, A) + Total(f, s)
      BY <2>2, <3>1, <3>2
    <3>4. QED
      BY <3>3 DEF T
  <2>4. CASE s # {}
    <3>1. PICK x \in s : x \notin A
      BY <2>4
    <3>2. (A \union s) \ {x} = A \union (s \ {x})
      BY <3>1
    <3>3. Total(f, A \union s) = f[x] + Total(f, A \union (s \ {x}))
      <4>1. \A y \in A \union s : f[y] \in Int
        OBVIOUS
      <4>2. x \in A \union s
        OBVIOUS
      <4>3. Total(f, A \union s) = f[x] + Total(f, (A \union s) \ {x})
        BY <2>1, <4>1, <4>2, TotalRemove
      <4>4. QED
        BY <3>2, <4>3
    <3>4. Total(f, s) = f[x] + Total(f, s \ {x})
      BY <2>1, TotalRemove
    <3>5. Total(f, A \union (s \ {x})) = Total(f, A) + Total(f, s \ {x})
      BY <1>1
    <3>6. f[x] \in Int /\ Total(f, s \ {x}) \in Int
      <4>1. IsFiniteSet(s \ {x})
        BY <2>1, FS_Subset
      <4>2. QED
        BY <4>1, TotalInt
    <3> HIDE DEF T
    <3>7. Total(f, A \union s) = Total(f, A) + Total(f, s)
      BY <2>2, <3>3, <3>4, <3>5, <3>6
    <3>8. QED
      BY <3>7 DEF T
  <2>5. QED
    BY <2>3, <2>4
<1>2. T = SUBSET B
  <2>1. T \in SUBSET SUBSET B
    OBVIOUS
  <2> HIDE DEF T
  <2>2. QED
    BY <1>1, <2>1, SubsetInduction
<1>3. QED
  BY <1>2

WithKey(S, k, r) == {x \in S : k[x] = r}

(* Adding up by key and then over the keys is adding up everything.        *)
LEMMA TotalByKey ==
  ASSUME NEW S, IsFiniteSet(S), NEW f, \A x \in S : f[x] \in Int,
         NEW R, IsFiniteSet(R), NEW k, \A x \in S : k[x] \in R,
         NEW g, \A r \in R : g[r] = Total(f, WithKey(S, k, r))
  PROVE  Total(g, R) = Total(f, S)
<1> DEFINE At(s) == {x \in S : k[x] \in s}
           T == {s \in SUBSET R : Total(g, s) = Total(f, At(s))}
<1>1. ASSUME NEW s \in SUBSET R, \A r \in s : s \ {r} \in T
      PROVE  s \in T
  <2>1. IsFiniteSet(s)
    BY FS_Subset
  <2>2. CASE s = {}
    <3>1. At(s) = {}
      BY <2>2
    <3>2. QED
      BY <2>2, <3>1, TotalEmpty
  <2>3. CASE s # {}
    <3>1. Pick(s) \in s
      BY <2>3, PickIn
    <3>2. PICK r \in s : r = Pick(s)
      BY <3>1
    <3>3. Total(g, s) = g[r] + Total(g, s \ {r})
      BY <2>1, <2>3, <3>2, TotalUnfold
    <3>4. Total(g, s \ {r}) = Total(f, At(s \ {r}))
      BY <1>1
    <3>5. PICK A, B : A = {x \in S : k[x] = r} /\ B = At(s \ {r})
      OBVIOUS
    <3>6. A \subseteq S /\ B \subseteq S /\ A \intersect B = {} /\ A \union B = At(s)
      BY <3>5
    <3>7. g[r] = Total(f, A)
      BY <3>5 DEF WithKey
    <3> HIDE DEF At, T
    <3>8. IsFiniteSet(A) /\ IsFiniteSet(B) /\ \A x \in A \union B : f[x] \in Int
      BY <3>6, FS_Subset
    <3>9. Total(f, A \union B) = Total(f, A) + Total(f, B)
      BY <3>6, <3>8, TotalUnion
    <3>10. Total(g, s) = Total(f, At(s))
      BY <3>3, <3>4, <3>5, <3>6, <3>7, <3>9
    <3>11. QED
      BY <3>10 DEF T
  <2>4. QED
    BY <2>2, <2>3
<1>2. T = SUBSET R
  <2>1. T \in SUBSET SUBSET R
    OBVIOUS
  <2> HIDE DEF T
  <2>2. QED
    BY <1>1, <2>1, SubsetInduction
<1>3. Total(g, R) = Total(f, At(R))
  BY <1>2
<1>4. At(R) = S
  OBVIOUS
<1>5. QED
  BY <1>3, <1>4

(* Amounts that each are near another one in hundredths add up to a sum    *)
(* that is as near for each of them.                                       *)
LEMMA TotalNear ==
  ASSUME NEW S, IsFiniteSet(S), NEW f, NEW e,
         \A x \in S : f[x] \in Int /\ e[x] \in Int /\ Near(100 * f[x], e[x], 50)
  PROVE  Near(100 * Total(f, S), Total(e, S), 50 * Cardinality(S))
<1> DEFINE T == {s \in SUBSET S : Near(100 * Total(f, s), Total(e, s), 50 * Cardinality(s))}
<1>1. ASSUME NEW s \in SUBSET S, \A x \in s : s \ {x} \in T
      PROVE  s \in T
  <2>1. IsFiniteSet(s)
    BY FS_Subset
  <2>2. CASE s = {}
    <3>1. Total(f, s) = 0 /\ Total(e, s) = 0 /\ Cardinality(s) = 0
      BY <2>2, TotalEmpty, FS_EmptySet
    <3>2. QED
      BY <3>1 DEF Near
  <2>3. CASE s # {}
    <3>1. PICK x : x \in s
      BY <2>3
    <3>2. PICK r : r = s \ {x}
      OBVIOUS
    <3>3. IsFiniteSet(r) /\ Cardinality(r) \in Nat /\ Cardinality(s) = Cardinality(r) + 1
      <4>1. IsFiniteSet(s \ {x}) /\ Cardinality(s \ {x}) = Cardinality(s) - 1
        BY <2>1, <3>1, FS_RemoveElement
      <4>2. Cardinality(s) \in Nat /\ Cardinality(s \ {x}) \in Nat
        BY <2>1, <4>1, FS_CardinalityType
      <4>3. QED
        BY <3>2, <4>1, <4>2
    <3>4. Total(f, s) = f[x] + Total(f, r) /\ Total(e, s) = e[x] + Total(e, r)
      BY <2>1, <3>1, <3>2, TotalRemove
    <3>5. Total(f, r) \in Int /\ Total(e, r) \in Int
      BY <3>2, <3>3, TotalInt
    <3>6. Near(100 * Total(f, r), Total(e, r), 50 * Cardinality(r))
      BY <1>1, <3>1, <3>2
    <3>7. f[x] \in Int /\ e[x] \in Int /\ Near(100 * f[x], e[x], 50)
      BY <3>1
    <3> HIDE DEF T
    <3>8. Near(100 * Total(f, s), Total(e, s), 50 * Cardinality(s))
      BY <3>3, <3>4, <3>5, <3>6, <3>7 DEF Near
    <3>9. QED
      BY <3>8 DEF T
  <2>4. QED
    BY <2>2, <2>3
<1>2. T = SUBSET S
  <2>1. T \in SUBSET SUBSET S
    OBVIOUS
  <2> HIDE DEF T
  <2>2. QED
    BY <1>1, <2>1, SubsetInduction
<1>3. QED
  BY <1>2

-----------------------------------------------------------------------------
(* Rounding                                                                *)

(* Rounding is off by half of a whole at most.                             *)
LEMMA Rounding ==
  ASSUME NEW x \in Nat
  PROVE  /\ RoundHalfUp(x, 100) \in Nat
         /\ Near(100 * RoundHalfUp(x, 100), x, 50)
         /\ x = 0 => RoundHalfUp(x, 100) = 0
  BY DEF RoundHalfUp, Near

(* The two roundings differ in nothing but halves.                         *)
LEMMA RoundingsAgree ==
  ASSUME NEW x \in Nat, x % 100 # 50
  PROVE  Quantize(x, 100) = RoundHalfUp(x, 100)
<1>1. PICK q \in Nat, m \in 0 .. 99 : x = 100 * q + m /\ q = x \div 100 /\ m = x % 100
  OBVIOUS
<1>2. CASE m < 50
  BY <1>1, <1>2 DEF Quantize, RoundHalfUp
<1>3. CASE m > 50
  BY <1>1, <1>3 DEF Quantize, RoundHalfUp
<1>4. QED
  BY <1>1, <1>2, <1>3
-----------------------------------------------------------------------------
(* The items of an invoice                                                 *)

LineBases(items) == [i \in DOMAIN items |-> LineBase(items[i])]
Exacts(items) == [i \in DOMAIN items |-> Exact(items[i])]

(* The exact amount of an item is a natural number.                        *)
LEMMA ExactType == \A item \in Item : Exact(item) \in Nat
<1> SUFFICES ASSUME NEW item \in Item PROVE Exact(item) \in Nat
  OBVIOUS
<1>1. PICK q \in Nat, p \in Nat : q = item.quantity /\ p = item.price
  BY FiguresAssumption DEF Item
<1>2. q * p \in Nat
  OBVIOUS
<1>3. QED
  BY <1>1, <1>2 DEF Exact

(* What is added up: for each item a natural number near the exact amount, *)
(* and a rate.                                                             *)
LEMMA ItemsType ==
  ASSUME NEW items \in Seq(Item)
  PROVE  /\ IsFiniteSet(DOMAIN items) /\ Cardinality(DOMAIN items) = Len(items)
         /\ \A i \in DOMAIN items :
              /\ LineBases(items)[i] \in Nat /\ Exacts(items)[i] \in Nat
              /\ Near(100 * LineBases(items)[i], Exacts(items)[i], 50)
              /\ items[i].rate \in Nat
         /\ IsFiniteSet(Rates(items)) /\ Rates(items) \subseteq Nat
<1>1. DOMAIN items = 1 .. Len(items) /\ Len(items) \in Nat
  OBVIOUS
<1>2. IsFiniteSet(DOMAIN items) /\ Cardinality(DOMAIN items) = Len(items)
  BY <1>1, FS_Interval
<1>3. ASSUME NEW i \in DOMAIN items
      PROVE  /\ LineBases(items)[i] \in Nat /\ Exacts(items)[i] \in Nat
             /\ Near(100 * LineBases(items)[i], Exacts(items)[i], 50)
             /\ items[i].rate \in Nat
  <2>1. items[i] \in Item
    OBVIOUS
  <2>2. PICK x \in Nat : x = Exact(items[i])
    BY <2>1, ExactType
  <2>3. LineBases(items)[i] = RoundHalfUp(x, 100) /\ Exacts(items)[i] = x
    BY <2>2 DEF LineBases, Exacts, LineBase
  <2>4. items[i].rate \in Nat
    <3>1. items[i].rate \in VatRates
      BY <2>1 DEF Item
    <3>2. VatRates \subseteq Nat
      BY FiguresAssumption
    <3>3. QED
      BY <3>1, <3>2
  <2>5. QED
    BY <2>2, <2>3, <2>4, Rounding
<1>4. IsFiniteSet(Rates(items))
  <2> DEFINE rate == [i \in DOMAIN items |-> items[i].rate]
  <2>1. Rates(items) = {rate[i] : i \in DOMAIN items}
    BY DEF Rates
  <2>2. rate \in Surjection(DOMAIN items, Rates(items))
    BY <2>1 DEF Surjection
  <2>3. QED
    BY <1>2, <2>2, FS_Surjection
<1>5. QED
  BY <1>2, <1>3, <1>4 DEF Rates

(* The base of a rate is the sum of the amounts of its items.              *)
LEMMA BaseIs ==
  ASSUME NEW items \in Seq(Item), NEW r
  PROVE  BaseOf(items, r) = Total(LineBases(items), WithRate(items, r)) /\ BaseOf(items, r) \in Nat
<1> DEFINE S == WithRate(items, r)
           f == [i \in S |-> LineBase(items[i])]
<1>1. BaseOf(items, r) = Total(f, S)
  BY DEF BaseOf, SumOver, Total
<1>2. S \subseteq DOMAIN items /\ IsFiniteSet(S)
  <2>1. S \subseteq DOMAIN items
    BY DEF WithRate
  <2>2. QED
    BY <2>1, ItemsType, FS_Subset
<1>3. \A i \in S : f[i] = LineBases(items)[i] /\ f[i] \in Nat
  BY <1>2, ItemsType DEF LineBases
<1> HIDE DEF S, f
<1>4. Total(f, S) = Total(LineBases(items), S) /\ Total(f, S) \in Nat
  BY <1>2, <1>3, TotalSame, TotalNat
<1>5. QED
  BY <1>1, <1>4 DEF S

(* So the tax of a rate is a natural number near that of its base.         *)
LEMMA VatIs ==
  ASSUME NEW items \in Seq(Item), NEW r \in Nat
  PROVE  /\ VatOf(items, r) \in Nat
         /\ Near(100 * VatOf(items, r), BaseOf(items, r) * r, 50)
         /\ r = 0 => VatOf(items, r) = 0
<1>1. PICK b \in Nat : b = BaseOf(items, r)
  BY BaseIs
<1>2. PICK x \in Nat : x = b * r
  OBVIOUS
<1>3. r = 0 => x = 0
  BY <1>2
<1>4. VatOf(items, r) = RoundHalfUp(x, 100)
  BY <1>1, <1>2 DEF VatOf
<1>5. QED
  BY <1>1, <1>2, <1>3, <1>4, Rounding

(* The totals are sums over the rates; that of the bases is the sum over   *)
(* all items.                                                              *)
LEMMA TotalsAre ==
  ASSUME NEW items \in Seq(Item)
  PROVE  /\ InvoiceTotals(items).base = Total(LineBases(items), DOMAIN items)
         /\ InvoiceTotals(items).base \in Nat
         /\ InvoiceTotals(items).vat = Total([r \in Rates(items) |-> VatOf(items, r)], Rates(items))
         /\ InvoiceTotals(items).gross = InvoiceTotals(items).base + InvoiceTotals(items).vat
<1> DEFINE R == Rates(items)
           bases == [r \in R |-> BaseOf(items, r)]
           vats == [r \in R |-> VatOf(items, r)]
           rows == Breakdown(items)
           rate == [i \in DOMAIN items |-> items[i].rate]
<1>1. DOMAIN rows = R /\ \A r \in R : rows[r].base = bases[r] /\ rows[r].vat = vats[r]
  BY DEF Breakdown
<1>2. [r \in DOMAIN rows |-> rows[r].base] = bases /\ [r \in DOMAIN rows |-> rows[r].vat] = vats
  BY <1>1
<1>3. /\ InvoiceTotals(items).base = Total(bases, R)
      /\ InvoiceTotals(items).vat = Total(vats, R)
      /\ InvoiceTotals(items).gross = InvoiceTotals(items).base + InvoiceTotals(items).vat
  <2>1. InvoiceTotals(items).base = Total([r \in DOMAIN rows |-> rows[r].base], DOMAIN rows)
    BY DEF InvoiceTotals, SumOver, Total
  <2>2. InvoiceTotals(items).vat = Total([r \in DOMAIN rows |-> rows[r].vat], DOMAIN rows)
    BY DEF InvoiceTotals, SumOver, Total
  <2>3. InvoiceTotals(items).gross = InvoiceTotals(items).base + InvoiceTotals(items).vat
    BY DEF InvoiceTotals
  <2> HIDE DEF rows, bases, vats, R
  <2>4. QED
    BY <1>1, <1>2, <2>1, <2>2, <2>3
<1>4. \A r \in R : bases[r] = Total(LineBases(items), WithKey(DOMAIN items, rate, r))
  <2>1. \A r \in R : WithKey(DOMAIN items, rate, r) = WithRate(items, r)
    BY DEF WithRate, WithKey
  <2>2. QED
    BY <2>1, BaseIs
<1>5. \A i \in DOMAIN items : rate[i] \in R
  BY DEF Rates
<1>6. /\ IsFiniteSet(DOMAIN items) /\ IsFiniteSet(R)
      /\ \A i \in DOMAIN items : LineBases(items)[i] \in Nat
  BY ItemsType
<1> HIDE DEF R, bases, vats, rate, rows
<1>7. Total(bases, R) = Total(LineBases(items), DOMAIN items)
  <2>1. PICK f, D : f = LineBases(items) /\ D = DOMAIN items
    OBVIOUS
  <2>2. /\ IsFiniteSet(D) /\ IsFiniteSet(R) /\ \A i \in D : f[i] \in Int
        /\ \A i \in D : rate[i] \in R
    BY <1>5, <1>6, <2>1
  <2>3. \A r \in R : bases[r] = Total(f, WithKey(D, rate, r))
    BY <1>4, <2>1
  <2>4. Total(bases, R) = Total(f, D)
    BY <2>2, <2>3, TotalByKey
  <2>5. QED
    BY <2>1, <2>4
<1>8. Total(LineBases(items), DOMAIN items) \in Nat
  BY <1>6, TotalNat
<1>9. QED
  BY <1>3, <1>7, <1>8 DEF R, vats
-----------------------------------------------------------------------------
(* The invoice that was made: it has items, and no VAT if its maker must   *)
(* not charge any.                                                         *)
FiguresInv ==
  /\ form \in Seq(Item)
  /\ invoice # Absent =>
       /\ invoice.items \in Seq(Item) /\ invoice.items # <<>>
       /\ invoice.reverse \/ ~invoice.payer => Rates(invoice.items) \subseteq {0}

(* Initially there is no invoice.                                          *)
LEMMA FiguresStarts == FiguresInit => FiguresInv
  BY DEF FiguresInit, FiguresInv

(* Every step keeps the invariant.                                         *)
LEMMA FiguresStep == FiguresInv /\ [FiguresNext]_figuresVars => FiguresInv'
<1> SUFFICES ASSUME FiguresInv, [FiguresNext]_figuresVars PROVE FiguresInv'
  OBVIOUS
<1>1. ASSUME AddItem PROVE FiguresInv'
  <2>1. PICK item \in Item : form' = Append(form, item)
    BY <1>1 DEF AddItem
  <2>2. form' \in Seq(Item)
    BY <2>1 DEF FiguresInv
  <2>3. UNCHANGED invoice
    BY <1>1 DEF AddItem
  <2>4. QED
    BY <2>2, <2>3 DEF FiguresInv, Rates
<1>2. ASSUME SaveInvoice PROVE FiguresInv'
  <2>1. PICK reverse \in BOOLEAN :
          /\ ValidVat(reverse, form)
          /\ invoice' = [items |-> form, reverse |-> reverse, payer |-> company.payer]
    BY <1>2 DEF SaveInvoice
  <2>2. form # <<>> /\ form' = <<>>
    BY <1>2 DEF SaveInvoice
  <2>3. /\ invoice'.items = form /\ invoice'.reverse = reverse
        /\ invoice'.payer = company.payer
    BY <2>1
  <2>4. reverse \/ ~company.payer => Rates(form) \subseteq {0}
    BY <2>1 DEF ValidVat, RegimeAllows
  <2>5. form' \in Seq(Item)
    BY <2>2
  <2>6. /\ invoice'.items \in Seq(Item) /\ invoice'.items # <<>>
        /\ invoice'.reverse \/ ~invoice'.payer => Rates(invoice'.items) \subseteq {0}
    BY <2>2, <2>3, <2>4 DEF FiguresInv
  <2>7. Rates(invoice.items)' = Rates(invoice'.items)
    BY DEF Rates
  <2>8. QED
    BY <2>5, <2>6, <2>7 DEF FiguresInv
<1>3. ASSUME UNCHANGED <<form, invoice>> PROVE FiguresInv'
  BY <1>3 DEF FiguresInv, Rates
<1>4. QED
  BY <1>1, <1>2, <1>3
  DEF FiguresNext, SaveSettings, CreateCustomer, UpdateCustomer, figuresVars

(* So it always holds.                                                     *)
LEMMA FiguresInvariant == FiguresSpec => []FiguresInv
  BY FiguresStarts, FiguresStep, PTL DEF FiguresSpec

(* The totals of an invoice of any number of items of any quantities and   *)
(* prices (TotalsAreNear): they differ from the exact amounts by half a    *)
(* cent per line at most, and add up.                                      *)
THEOREM FiguresAreNear == FiguresSpec => []TotalsAreNear
<1>1. FiguresInv => TotalsAreNear
  <2> SUFFICES ASSUME FiguresInv, invoice # Absent PROVE TotalsAreNear
    BY DEF TotalsAreNear
  <2>1. PICK items \in Seq(Item) : items = invoice.items
    BY DEF FiguresInv
  <2> DEFINE bases == Total(LineBases(items), DOMAIN items)
             exact == Total(Exacts(items), DOMAIN items)
  <2>2. /\ SumOver(DOMAIN items, LAMBDA i : LineBase(items[i])) = bases
        /\ SumOver(DOMAIN items, LAMBDA i : Exact(items[i])) = exact
    BY DEF SumOver, Total, LineBases, Exacts
  <2>3. InvoiceTotals(items).base = bases
    BY TotalsAre
  <2>4. Near(100 * bases, exact, 50 * Len(items))
    <3>1. PICK f, e, D : f = LineBases(items) /\ e = Exacts(items) /\ D = DOMAIN items
      OBVIOUS
    <3>2. /\ IsFiniteSet(D) /\ Cardinality(D) = Len(items)
          /\ \A i \in D : f[i] \in Int /\ e[i] \in Int /\ Near(100 * f[i], e[i], 50)
      BY <3>1, ItemsType
    <3>3. Near(100 * Total(f, D), Total(e, D), 50 * Cardinality(D))
      BY <3>2, TotalNear
    <3>4. QED
      BY <3>1, <3>2, <3>3
  <2>5. \A r \in Rates(items) : Near(100 * VatOf(items, r), BaseOf(items, r) * r, 50)
    <3>1. Rates(items) \subseteq Nat
      BY ItemsType
    <3>2. QED
      BY <3>1, VatIs
  <2> HIDE DEF bases, exact
  <2>6. QED
    BY <2>1, <2>2, <2>3, <2>4, <2>5 DEF TotalsAreNear
<1>2. QED
  BY <1>1, FiguresInvariant, PTL

(* No invoice carries VAT that its maker must not charge (NoUnlawfulVat),  *)
(* whatever the settings are changed to before and after.                  *)
THEOREM VatIsLawful == FiguresSpec => []NoUnlawfulVat
<1>1. FiguresInv => NoUnlawfulVat
  <2> SUFFICES ASSUME FiguresInv, invoice # Absent, invoice.reverse \/ ~invoice.payer
               PROVE  InvoiceTotals(invoice.items).vat = 0
    BY DEF NoUnlawfulVat
  <2>1. PICK items \in Seq(Item) : items = invoice.items /\ Rates(items) \subseteq {0}
    BY DEF FiguresInv
  <2> DEFINE vats == [r \in Rates(items) |-> VatOf(items, r)]
  <2>2. \A r \in Rates(items) : vats[r] = 0
    BY <2>1, VatIs
  <2>3. InvoiceTotals(items).vat = Total(vats, Rates(items))
    BY TotalsAre
  <2>4. IsFiniteSet(Rates(items))
    BY ItemsType
  <2> HIDE DEF vats
  <2>5. QED
    BY <2>1, <2>2, <2>3, <2>4, TotalZero
<1>2. QED
  BY <1>1, FiguresInvariant, PTL
-----------------------------------------------------------------------------
(* The exported XML and its validation                                   *)

(* A rule that is kept is not reported.                                    *)
LEMMA RuleKept == ASSUME NEW ok, ok, NEW rule PROVE Unless(ok, rule) = {}
  BY Zenon DEF Unless

(* A rule that is kept whenever another condition holds is reported at     *)
(* most when that condition fails.                                         *)
LEMMA RuleImplied ==
  ASSUME NEW p, NEW ok, p => ok, NEW rule PROVE Unless(ok, rule) \subseteq Unless(p, rule)
  BY Zenon DEF Unless

(* The lines and subtotals of the XML, from the items.                     *)
LEMMA XmlIs ==
  ASSUME NEW inv, inv.items \in Seq(Item), inv.items # <<>>
  PROVE  LET x == Xml(inv)  items == inv.items IN
         /\ DOMAIN x.lines = DOMAIN items /\ x.lines # <<>>
         /\ \A i \in DOMAIN items :
              /\ x.lines[i].category = Category(items[i].rate, inv.reverse)
              /\ x.lines[i].percent = items[i].rate
              /\ x.lines[i].amount = Quantize(Exact(items[i]), 100)
         /\ DOMAIN x.subtotals = Rates(items)
         /\ \A r \in Rates(items) :
              /\ x.subtotals[r].category = Category(r, inv.reverse)
              /\ x.subtotals[r].percent = r
              /\ x.subtotals[r].taxable = BaseOf(items, r)
              /\ x.subtotals[r].tax = VatOf(items, r)
              /\ x.subtotals[r].reason = inv.reverse
         /\ x.tax = InvoiceTotals(items).vat
         /\ x.lineExtension = InvoiceTotals(items).base /\ x.exclusive = InvoiceTotals(items).base
         /\ x.inclusive = InvoiceTotals(items).gross /\ x.payable = InvoiceTotals(items).gross
         /\ x.supplier = Supplier /\ x.buyer = Buyer
<1> DEFINE x == Xml(inv)
           items == inv.items
           rows == Breakdown(items)
<1>1. /\ x.lines = [i \in DOMAIN items |-> XmlLine(inv, items[i])]
      /\ x.subtotals = XmlSubtotals(inv)
      /\ x.tax = InvoiceTotals(items).vat
      /\ x.lineExtension = InvoiceTotals(items).base /\ x.exclusive = InvoiceTotals(items).base
      /\ x.inclusive = InvoiceTotals(items).gross /\ x.payable = InvoiceTotals(items).gross
      /\ x.supplier = Supplier /\ x.buyer = Buyer
  BY DEF Xml
<1> HIDE DEF x
<1>2. /\ DOMAIN rows = Rates(items)
      /\ \A r \in Rates(items) : rows[r].base = BaseOf(items, r) /\ rows[r].vat = VatOf(items, r)
  BY DEF Breakdown
<1>3. /\ DOMAIN x.lines = DOMAIN items
      /\ \A i \in DOMAIN items : x.lines[i] = XmlLine(inv, items[i])
  BY <1>1
<1>4. \A i \in DOMAIN items :
        /\ x.lines[i].category = Category(items[i].rate, inv.reverse)
        /\ x.lines[i].percent = items[i].rate
        /\ x.lines[i].amount = Quantize(Exact(items[i]), 100)
  <2>1. \A i \in DOMAIN items :
          XmlLine(inv, items[i]) = [category |-> Category(items[i].rate, inv.reverse),
                                    percent |-> items[i].rate,
                                    amount |-> Quantize(Exact(items[i]), 100)]
    BY DEF XmlLine
  <2> HIDE DEF items
  <2>2. QED
    BY <1>3, <2>1
<1>5. x.lines # <<>>
  BY <1>3
<1>6. /\ DOMAIN x.subtotals = DOMAIN rows
      /\ \A r \in DOMAIN rows :
           x.subtotals[r] = [category |-> Category(r, inv.reverse), percent |-> r,
                             taxable |-> rows[r].base, tax |-> rows[r].vat,
                             reason |-> inv.reverse]
  BY <1>1 DEF XmlSubtotals
<1> HIDE DEF rows, items
<1>7. ASSUME NEW r \in Rates(items)
      PROVE  /\ x.subtotals[r].category = Category(r, inv.reverse)
             /\ x.subtotals[r].percent = r
             /\ x.subtotals[r].taxable = BaseOf(items, r)
             /\ x.subtotals[r].tax = VatOf(items, r)
             /\ x.subtotals[r].reason = inv.reverse
  <2>1. x.subtotals[r] = [category |-> Category(r, inv.reverse), percent |-> r,
                          taxable |-> rows[r].base, tax |-> rows[r].vat,
                          reason |-> inv.reverse]
    BY <1>2, <1>6
  <2>2. rows[r].base = BaseOf(items, r) /\ rows[r].vat = VatOf(items, r)
    BY <1>2
  <2>3. QED
    BY <2>1, <2>2
<1>8. QED
  BY <1>1, <1>2, <1>3, <1>4, <1>5, <1>6, <1>7 DEF x, items

(* Without half cents the lines of the XML add up to what the invoice has. *)
LEMMA AmountsAre ==
  ASSUME NEW inv, inv.items \in Seq(Item), inv.items # <<>>,
         NEW S \in SUBSET DOMAIN inv.items, \A i \in S : ~HalfCent(inv.items[i])
  PROVE  Amounts(Xml(inv), S) = Total(LineBases(inv.items), S)
<1> DEFINE x == Xml(inv)
           f == [l \in S |-> x.lines[l].amount]
<1>1. Amounts(x, S) = Total(f, S)
  BY DEF Amounts, SumOver, Total
<1>2. IsFiniteSet(S)
  BY ItemsType, FS_Subset
<1>3. ASSUME NEW i \in S PROVE f[i] = LineBases(inv.items)[i]
  <2>1. x.lines[i].amount = Quantize(Exact(inv.items[i]), 100)
    BY XmlIs
  <2>2. Exact(inv.items[i]) \in Nat /\ Exact(inv.items[i]) % 100 # 50
    BY ExactType DEF HalfCent
  <2>3. QED
    BY <2>1, <2>2, RoundingsAgree DEF LineBases, LineBase
<1> HIDE DEF f, x
<1>4. Total(f, S) = Total(LineBases(inv.items), S)
  BY <1>2, <1>3, TotalSame
<1>5. QED
  BY <1>1, <1>4 DEF x

(* The categories without tax are about the items of rate 0.               *)
LEMMA Untaxed ==
  ASSUME NEW inv, inv.items \in Seq(Item), inv.items # <<>>,
         inv.reverse => Rates(inv.items) \subseteq {0}, NEW c \in {"Z", "AE"}
  PROVE  LET x == Xml(inv)  zero == WithRate(inv.items, 0) IN
         /\ SubtotalsOf(x, c) \subseteq {0} \intersect Rates(inv.items)
         /\ SubtotalsOf(x, c) # {} => (inv.reverse <=> c = "AE")
         /\ LinesOf(x, c) # {} => LinesOf(x, c) = zero /\ SubtotalsOf(x, c) = {0}
         /\ LinesOf(x, c) \subseteq zero
<1> DEFINE x == Xml(inv)
           items == inv.items
<1>1. /\ DOMAIN x.lines = DOMAIN items /\ DOMAIN x.subtotals = Rates(items)
      /\ \A i \in DOMAIN items : x.lines[i].category = Category(items[i].rate, inv.reverse)
      /\ \A r \in Rates(items) : x.subtotals[r].category = Category(r, inv.reverse)
  BY XmlIs
<1> HIDE DEF x
<1>2. \A i \in DOMAIN items : items[i].rate \in Rates(items)
  BY DEF Rates
<1>3. \A r \in Rates(items) : Category(r, inv.reverse) = c <=> r = 0 /\ (inv.reverse <=> c = "AE")
  BY DEF Category
<1>4. SubtotalsOf(x, c) = {r \in Rates(items) : r = 0 /\ (inv.reverse <=> c = "AE")}
  BY <1>1, <1>3 DEF SubtotalsOf
<1>5. LinesOf(x, c) = {i \in DOMAIN items : items[i].rate = 0 /\ (inv.reverse <=> c = "AE")}
  BY <1>1, <1>2, <1>3 DEF LinesOf
<1>6. LinesOf(x, c) # {} => LinesOf(x, c) = WithRate(items, 0) /\ SubtotalsOf(x, c) = {0}
  BY <1>2, <1>4, <1>5 DEF WithRate
<1>7. LinesOf(x, c) \subseteq WithRate(items, 0)
  BY <1>5 DEF WithRate
<1>8. QED
  BY <1>4, <1>6, <1>7 DEF x

(* So their rules are kept, but for the sums with half cents.              *)
LEMMA UntaxedIssuesAre ==
  ASSUME NEW inv, inv.items \in Seq(Item), inv.items # <<>>,
         inv.reverse => Rates(inv.items) \subseteq {0}, NEW c \in {"Z", "AE"}
  PROVE  UntaxedIssues(Xml(inv), c) \subseteq
           Unless(\A i \in WithRate(inv.items, 0) : ~HalfCent(inv.items[i]), "BR-08")
<1> DEFINE x == Xml(inv)
           items == inv.items
           zero == WithRate(items, 0)
           rows == SubtotalsOf(x, c)
           used == LinesOf(x, c) # {}
           fits == \A s \in rows : used => x.subtotals[s].taxable = Amounts(x, LinesOf(x, c))
           whole == \A i \in zero : ~HalfCent(items[i])
<1>1. /\ rows \subseteq {0} /\ rows \subseteq Rates(items)
      /\ rows # {} => (inv.reverse <=> c = "AE")
      /\ used => LinesOf(x, c) = zero /\ rows = {0}
  BY Untaxed
<1>2. \A r \in Rates(items) : /\ x.subtotals[r].taxable = BaseOf(items, r)
                              /\ x.subtotals[r].tax = VatOf(items, r)
                              /\ x.subtotals[r].reason = inv.reverse
  BY XmlIs
<1>3. used => \E s \in rows : rows = {s}
  BY <1>1
<1>4. \A s \in rows : x.subtotals[s].tax = 0
  <2>1. VatOf(items, 0) = 0
    BY VatIs
  <2>2. QED
    BY <1>1, <1>2, <2>1
<1>5. \A s \in rows : x.subtotals[s].reason <=> c = "AE"
  BY <1>1, <1>2
<1>6. ASSUME whole, used, NEW s \in rows
      PROVE  x.subtotals[s].taxable = Amounts(x, LinesOf(x, c))
  <2>1. zero \in SUBSET DOMAIN items
    BY DEF WithRate
  <2>2. Amounts(x, zero) = Total(LineBases(items), zero)
    BY <1>6, <2>1, AmountsAre
  <2>3. BaseOf(items, 0) = Total(LineBases(items), zero)
    BY BaseIs
  <2>4. s = 0 /\ s \in Rates(items) /\ LinesOf(x, c) = zero
    BY <1>1, <1>6
  <2>5. QED
    BY <1>2, <2>2, <2>3, <2>4
<1>7. UntaxedIssues(x, c) =
        Unless(used => \E s \in rows : rows = {s}, "BR-01")
          \union Unless(fits, "BR-08")
          \union Unless(\A s \in rows : x.subtotals[s].tax = 0, "BR-09")
          \union Unless(\A s \in rows : x.subtotals[s].reason <=> c = "AE", "BR-10")
  BY Zenon DEF UntaxedIssues
<1>8. whole => fits
  BY <1>6
<1>9. Unless(fits, "BR-08") \subseteq Unless(whole, "BR-08")
  BY <1>8, RuleImplied, Zenon
<1>10. /\ Unless(used => \E s \in rows : rows = {s}, "BR-01") = {}
       /\ Unless(\A s \in rows : x.subtotals[s].tax = 0, "BR-09") = {}
       /\ Unless(\A s \in rows : x.subtotals[s].reason <=> c = "AE", "BR-10") = {}
  BY <1>3, <1>4, <1>5, Zenon DEF Unless
<1> HIDE DEF x, items, rows, used, fits, whole
<1>11. UntaxedIssues(x, c) \subseteq Unless(whole, "BR-08")
  BY <1>7, <1>9, <1>10
<1>12. QED
  BY <1>11 DEF x, items, zero, whole
(* The application's own validation finds nothing wrong with the XML of    *)
(* an invoice of any number of items (OnlyPartiesAndHalfCents) but what    *)
(* the parties have not filled in, or no longer have, and sums where the   *)
(* exact amount of a line ends in half a cent.                             *)
THEOREM ExportsAreValid == FiguresSpec => []OnlyPartiesAndHalfCents
<1>1. FiguresInv => OnlyPartiesAndHalfCents
  <2> SUFFICES ASSUME FiguresInv, invoice # Absent PROVE OnlyPartiesAndHalfCents
    BY DEF OnlyPartiesAndHalfCents
  <2>1. /\ invoice.items \in Seq(Item) /\ invoice.items # <<>>
        /\ invoice.reverse => Rates(invoice.items) \subseteq {0}
    BY DEF FiguresInv
  <2> DEFINE x == Xml(invoice)
             items == invoice.items
             totals == InvoiceTotals(items)
             zero == WithRate(items, 0)
             ae == Unless(invoice.reverse => company.vatId /\ customer.vatId, "BR-AE-02")
             z == Unless(~invoice.reverse /\ 0 \in Rates(items) => company.vatId, "BR-Z-02")
             sums == Unless(\A i \in DOMAIN items : ~HalfCent(items[i]), "BR-CO-10")
             zeros == Unless(\A i \in zero : ~HalfCent(items[i]), "BR-08")
             parties == Unless(company.name, "BR-06") \union Unless(company.endpoint, "R020")
                          \union Unless(customer.endpoint, "R010")
  <2>2. x.supplier = Supplier /\ x.buyer = Buyer /\ x.lines # <<>> /\ DOMAIN x.lines = DOMAIN items
    BY <2>1, XmlIs
  <2>3. PartyIssues(x) \subseteq parties
    <3>1. /\ Supplier.name = company.name /\ Supplier.endpoint = company.endpoint
          /\ Buyer.name = TRUE /\ Buyer.endpoint = customer.endpoint
      BY DEF Supplier, Buyer
    <3>2. Unless(TRUE, "BR-07") = {}
      BY RuleKept
    <3>3. PartyIssues(x) = Unless(Supplier.name, "BR-06") \union Unless(Buyer.name, "BR-07")
                             \union Unless(Supplier.endpoint, "R020")
                             \union Unless(Buyer.endpoint, "R010")
      BY <2>2, Zenon DEF PartyIssues
    <3>4. PartyIssues(x) = Unless(company.name, "BR-06") \union Unless(TRUE, "BR-07")
                             \union Unless(company.endpoint, "R020")
                             \union Unless(customer.endpoint, "R010")
      BY <3>1, <3>3, Zenon
    <3>5. QED
      BY <3>2, <3>4
  <2>4. LineIssues(x) = {}
    <3> DEFINE untaxed == LinesOf(x, "Z") \union LinesOf(x, "AE")
    <3>1. untaxed \subseteq zero
      BY <2>1, Untaxed
    <3>2. \A l \in untaxed : x.lines[l].percent = 0
      BY <2>1, <3>1, XmlIs DEF WithRate
    <3>3. LineIssues(x) = Unless(x.lines # <<>>, "BR-16")
                            \union Unless(\A l \in untaxed : x.lines[l].percent = 0, "BR-05")
      BY Zenon DEF LineIssues
    <3>4. Unless(x.lines # <<>>, "BR-16") = {}
      BY <2>2, Zenon DEF Unless
    <3>5. Unless(\A l \in untaxed : x.lines[l].percent = 0, "BR-05") = {}
      BY <3>2, Zenon DEF Unless
    <3>6. QED
      BY <3>3, <3>4, <3>5
  <2>5. SumIssues(x) \subseteq sums
    <3>1. /\ x.lineExtension = totals.base /\ x.exclusive = totals.base /\ x.tax = totals.vat
          /\ x.inclusive = totals.gross /\ x.payable = totals.gross
          /\ totals.gross = totals.base + totals.vat
      BY <2>1, XmlIs, TotalsAre
    <3>2. (\A i \in DOMAIN items : ~HalfCent(items[i])) => x.lineExtension = Amounts(x, DOMAIN x.lines)
      <4>1. ASSUME \A i \in DOMAIN items : ~HalfCent(items[i])
            PROVE  Amounts(x, DOMAIN items) = totals.base
        <5>1. DOMAIN items \in SUBSET DOMAIN items
          OBVIOUS
        <5>2. Amounts(x, DOMAIN items) = Total(LineBases(items), DOMAIN items)
          BY <2>1, <4>1, <5>1, AmountsAre
        <5>3. QED
          BY <2>1, <5>2, TotalsAre
      <4>2. QED
        BY <2>2, <3>1, <4>1
    <3>3. x.tax = SumOver(DOMAIN x.subtotals, LAMBDA s : x.subtotals[s].tax)
      <4>1. /\ DOMAIN x.subtotals = Rates(items)
            /\ \A r \in Rates(items) : x.subtotals[r].tax = VatOf(items, r)
        BY <2>1, XmlIs
      <4>2. [s \in DOMAIN x.subtotals |-> x.subtotals[s].tax] = [r \in Rates(items) |-> VatOf(items, r)]
        BY <4>1
      <4>3. SumOver(DOMAIN x.subtotals, LAMBDA s : x.subtotals[s].tax)
              = Total([s \in DOMAIN x.subtotals |-> x.subtotals[s].tax], DOMAIN x.subtotals)
        BY DEF SumOver, Total
      <4>4. totals.vat = Total([r \in Rates(items) |-> VatOf(items, r)], Rates(items))
        BY <2>1, TotalsAre
      <4> HIDE DEF x, items, totals
      <4>5. QED
        BY <3>1, <4>1, <4>2, <4>3, <4>4
    <3>4. SumIssues(x) =
            Unless(x.lineExtension = Amounts(x, DOMAIN x.lines), "BR-CO-10")
              \union Unless(x.exclusive = x.lineExtension, "BR-CO-13")
              \union Unless(x.tax = SumOver(DOMAIN x.subtotals, LAMBDA s : x.subtotals[s].tax), "BR-CO-14")
              \union Unless(x.inclusive = x.exclusive + x.tax, "BR-CO-15")
              \union Unless(x.payable = x.inclusive, "PayableAmount")
      BY Zenon DEF SumIssues
    <3>5. Unless(x.lineExtension = Amounts(x, DOMAIN x.lines), "BR-CO-10") \subseteq sums
      BY <3>2, Zenon DEF Unless
    <3>6. x.exclusive = x.lineExtension /\ x.inclusive = x.exclusive + x.tax /\ x.payable = x.inclusive
      BY <3>1
    <3>7. /\ Unless(x.exclusive = x.lineExtension, "BR-CO-13") = {}
          /\ Unless(x.inclusive = x.exclusive + x.tax, "BR-CO-15") = {}
          /\ Unless(x.payable = x.inclusive, "PayableAmount") = {}
      BY <3>6, Zenon DEF Unless
    <3>8. Unless(x.tax = SumOver(DOMAIN x.subtotals, LAMBDA s : x.subtotals[s].tax), "BR-CO-14") = {}
      BY <3>3, Zenon DEF Unless
    <3> HIDE DEF x, sums
    <3>9. QED
      BY <3>4, <3>5, <3>7, <3>8
  <2>6. UntaxedIssues(x, "Z") \subseteq zeros /\ UntaxedIssues(x, "AE") \subseteq zeros
    BY <2>1, UntaxedIssuesAre
  <2>7. RateIssues(x) = {}
    <3>1. ASSUME NEW r \in DOMAIN x.subtotals
          PROVE  LET s == x.subtotals[r] IN s.tax = RoundHalfUp(s.taxable * s.percent, 100)
      <4>1. /\ x.subtotals[r].percent = r /\ x.subtotals[r].taxable = BaseOf(items, r)
            /\ x.subtotals[r].tax = VatOf(items, r)
        BY <2>1, <3>1, XmlIs
      <4>2. VatOf(items, r) = RoundHalfUp(BaseOf(items, r) * r, 100)
        BY DEF VatOf
      <4> HIDE DEF x, items
      <4>3. QED
        BY <4>1, <4>2
    <3>2. QED
      BY <3>1, Zenon DEF RateIssues, Unless
  <2>8. VatIdIssues(x) \subseteq ae \union z
    <3>1. Supplier.vatId = company.vatId /\ Buyer.vatId = customer.vatId
      BY DEF Supplier, Buyer
    <3>2. /\ SubtotalsOf(x, "AE") # {} => invoice.reverse
          /\ SubtotalsOf(x, "Z") # {} => ~invoice.reverse /\ 0 \in Rates(items)
      BY <2>1, Untaxed
    <3>3. VatIdIssues(x) =
            Unless(SubtotalsOf(x, "AE") # {} => Supplier.vatId /\ Buyer.vatId, "BR-AE-02")
              \union Unless(SubtotalsOf(x, "Z") # {} => Supplier.vatId, "BR-Z-02")
      BY <2>2, Zenon DEF VatIdIssues
    <3>4. Unless(SubtotalsOf(x, "AE") # {} => Supplier.vatId /\ Buyer.vatId, "BR-AE-02") \subseteq ae
      BY <3>1, <3>2, Zenon DEF Unless
    <3>5. Unless(SubtotalsOf(x, "Z") # {} => Supplier.vatId, "BR-Z-02") \subseteq z
      BY <3>1, <3>2, Zenon DEF Unless
    <3> HIDE DEF x, ae, z
    <3>6. QED
      BY <3>3, <3>4, <3>5
  <2> HIDE DEF x, parties, ae, z, sums, zeros
  <2>9. Issues(x) \subseteq parties \union ae \union z \union sums \union zeros
    BY <2>3, <2>4, <2>5, <2>6, <2>7, <2>8 DEF Issues
  <2>10. QED
    BY <2>9, Zenon DEF OnlyPartiesAndHalfCents, x, parties, ae, z, sums, zeros
<1>2. QED
  BY <1>1, FiguresInvariant, PTL
=============================================================================
