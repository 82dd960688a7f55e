--------------------------- MODULE FinanceProofs ---------------------------
(***************************************************************************)
(* What holds of the views of the ledger and of suggestAllocation, for any *)
(* number of children, categories and rows, and any amounts and days: the  *)
(* views show the same money, and what is suggested is accepted and pays   *)
(* off the oldest debts.                                                   *)
(*                                                                         *)
(* Sums over children and categories are folds, and the suggestion is a    *)
(* loop.  What they compute is proved by induction, on the size of a set   *)
(* and on the steps of the loop, in first-order steps: a statement that is *)
(* false for some number is false for a least one.                         *)
(***************************************************************************)
EXTENDS FinanceViews, LedgerProofs

-----------------------------------------------------------------------------
(* Induction                                                               *)

LEMMA LeastOf ==
  ASSUME NEW S \in SUBSET Nat, S # {}
  PROVE  \E n \in S : \A m \in S : n <= m
<1> DEFINE R == OpToRel(<, Nat)
<1>1. \A m, n \in Nat : m < n => <<m, n>> \in R
  BY DEF OpToRel
<1>2. IsWellFoundedOn(R, Nat)
  BY NatLessThanWellFounded
<1> HIDE DEF R
<1>3. PICK n \in S : \A m \in S : <<m, n>> \notin R
  BY <1>2, WFMin
<1>4. \A m \in S : ~(m < n)
  BY <1>1, <1>3
<1> QED
  BY <1>4

(* What holds of 0, and of a number if of the one before it, holds of all  *)
(* up to a bound.                                                          *)
LEMMA UpTo ==
  ASSUME NEW N \in Nat, NEW S, 0 \in S,
         \A n \in 1..N : n - 1 \in S => n \in S
  PROVE  0..N \subseteq S
<1> DEFINE Missing == {n \in 0..N : n \notin S}
<1> SUFFICES ASSUME Missing # {} PROVE FALSE
  OBVIOUS
<1>1. PICK n \in Missing : \A m \in Missing : n <= m
  <2>1. Missing \in SUBSET Nat
    OBVIOUS
  <2> HIDE DEF Missing
  <2> QED
    BY <2>1, LeastOf
<1>2. n \in 1..N /\ n - 1 \in 0..N /\ ~(n <= n - 1)
  BY <1>1
<1> QED
  BY <1>1, <1>2

(* A family of subsets that has the empty set, and with a set each that is *)
(* larger by one element, has them all.                                    *)
LEMMA OneByOne ==
  ASSUME NEW K, IsFiniteSet(K), NEW F, {} \in F,
         \A s \in SUBSET K : \A x \in K \ s : s \in F => s \cup {x} \in F
  PROVE  K \in F
<1> DEFINE left(s) == Cardinality(K \ s)
           sizes == {left(s) : s \in {t \in SUBSET K : t \in F}}
<1>1. \A s \in SUBSET K : IsFiniteSet(K \ s) /\ left(s) \in Nat
  BY FS_Subset, FS_CardinalityType
<1>2. sizes \in SUBSET Nat /\ sizes # {}
  BY <1>1
<1>3. PICK n \in sizes : \A m \in sizes : n <= m
  <2> HIDE DEF sizes
  <2> QED
    BY <1>2, LeastOf
<1>4. PICK s \in SUBSET K : s \in F /\ n = left(s)
  OBVIOUS
<1>5. ASSUME NEW x \in K \ s PROVE FALSE
  <2>1. s \cup {x} \in SUBSET K /\ s \cup {x} \in F
    BY <1>4
  <2>2. left(s \cup {x}) = n - 1
    <3>1. K \ (s \cup {x}) = (K \ s) \ {x}
      OBVIOUS
    <3>2. IsFiniteSet(K \ s) /\ x \in K \ s
      BY <1>1
    <3>3. Cardinality((K \ s) \ {x}) = Cardinality(K \ s) - 1
      BY <3>2, FS_RemoveElement
    <3> QED
      BY <1>4, <3>1, <3>3
  <2>3. left(s \cup {x}) \in sizes
    BY <2>1
  <2>4. n \in Nat
    BY <1>2
  <2> HIDE DEF sizes, left
  <2> QED
    BY <1>3, <2>2, <2>3, <2>4
<1> QED
  BY <1>4, <1>5

-----------------------------------------------------------------------------
(* Sums over children and categories                                       *)

pick(s) == CHOOSE x \in s : TRUE

(* The fold, as it computes the sum over each subset.                      *)
folded(g, f, s) == IF s = {} THEN 0 ELSE f[pick(s)] + g[s \ {pick(s)}]

IsSum(g, f, K) == g = [s \in SUBSET K |-> folded(g, f, s)]

LEMMA SumExists ==
  ASSUME NEW K, IsFiniteSet(K), NEW f
  PROVE  \E g : IsSum(g, f, K)
<1> DEFINE N == Cardinality(K)
           upTo(g, n) == \A s \in SUBSET K : Cardinality(s) <= n => g[s] = folded(g, f, s)
           S == {n \in 0..N : \E g : upTo(g, n)}
<1>0. \A s \in SUBSET K : /\ IsFiniteSet(s) /\ Cardinality(s) \in 0..N
                          /\ Cardinality(s) = 0 <=> s = {}
  BY FS_Subset, FS_CardinalityType, FS_EmptySet
<1>1. N \in Nat
  BY FS_CardinalityType
<1>2. ASSUME NEW s \in SUBSET K, s # {}
      PROVE  /\ s \ {pick(s)} \in SUBSET K
             /\ Cardinality(s \ {pick(s)}) = Cardinality(s) - 1
  <2>1. pick(s) \in s
    BY <1>2 DEF pick
  <2> QED
    BY <1>0, <1>2, <2>1, FS_RemoveElement
<1>3. 0 \in S
  <2> DEFINE g == [s \in SUBSET K |-> 0]
  <2>1. upTo(g, 0)
    <3> SUFFICES ASSUME NEW s \in SUBSET K, Cardinality(s) <= 0
                 PROVE  g[s] = folded(g, f, s)
      OBVIOUS
    <3>1. s = {}
      BY <1>0
    <3> QED
      BY <3>1 DEF folded
  <2> HIDE DEF upTo
  <2> QED
    BY <1>1, <2>1
<1>4. ASSUME NEW n \in 1..N, n - 1 \in S PROVE n \in S
  <2>1. PICK g : upTo(g, n - 1)
    BY <1>4
  <2> DEFINE h == [s \in SUBSET K |-> folded(g, f, s)]
  <2>2. ASSUME NEW s \in SUBSET K, Cardinality(s) <= n
        PROVE  h[s] = folded(h, f, s)
    <3>1. CASE s = {}
      BY <3>1 DEF folded
    <3>2. CASE s # {}
      <4> DEFINE r == s \ {pick(s)}
      <4>1. r \in SUBSET K /\ Cardinality(r) <= n - 1
        BY <1>0, <1>2, <2>2, <3>2
      <4> HIDE DEF r
      <4>2. g[r] = folded(g, f, r)
        BY <2>1, <4>1
      <4>3. h[r] = g[r]
        BY <4>1, <4>2
      <4> HIDE DEF h
      <4>4. h[s] = f[pick(s)] + g[r]
        BY <3>2 DEF h, folded, r
      <4> QED
        BY <3>2, <4>3, <4>4 DEF folded, r
    <3> QED
      BY <3>1, <3>2
  <2>3. upTo(h, n)
    <3> HIDE DEF h
    <3> QED
      BY <2>2
  <2> HIDE DEF upTo
  <2> QED
    BY <2>3
<1>5. N \in S
  <2> HIDE DEF S, N
  <2> QED
    BY <1>1, <1>3, <1>4, UpTo
<1>6. PICK g : upTo(g, N)
  BY <1>5
<1> DEFINE h == [s \in SUBSET K |-> folded(g, f, s)]
<1>7. \A s \in SUBSET K : h[s] = g[s]
  BY <1>0, <1>1, <1>6
<1>8. ASSUME NEW s \in SUBSET K PROVE folded(h, f, s) = folded(g, f, s)
  <2> HIDE DEF h
  <2> QED
    BY <1>2, <1>7 DEF folded
<1>9. h = [s \in SUBSET K |-> folded(h, f, s)]
  <2> DEFINE body(s) == folded(g, f, s)
  <2>1. \A s \in SUBSET K : folded(h, f, s) = body(s)
    BY <1>8
  <2> QED
    BY <2>1
<1> QED
  BY <1>9 DEF IsSum

LEMMA SumUnfolds ==
  ASSUME NEW K, NEW f, DOMAIN f = K, \E g : IsSum(g, f, K)
  PROVE  \E g : IsSum(g, f, K) /\ Sums!SumFunction(f) = g[K]
<1> DEFINE G == CHOOSE g : IsSum(g, f, K)
<1>1. IsSum(G, f, K)
  OBVIOUS
<1>2. Sums!SumFunction(f) = G[K]
  BY DEF Sums!SumFunction, Sums!SumFunctionOnSet, Sums!FoldFunctionOnSet,
     Sums!MapThenFoldSet, IsSum, folded, pick
<1> QED
  BY <1>1, <1>2

(* The sum over a set is that over it without any one of its elements, and *)
(* what this element has.                                                  *)
StepOf(g, f, s, x) ==
  g[s] \in Int /\ g[s \ {x}] \in Int /\ g[s] = f[x] + g[s \ {x}]

LEMMA SumLessOne ==
  ASSUME NEW K, IsFiniteSet(K), NEW f \in [K -> Int], NEW g, IsSum(g, f, K),
         NEW s \in SUBSET K, NEW x \in s
  PROVE  StepOf(g, f, s, x)
<1> DEFINE N == Cardinality(K)
           good(t) == /\ g[t] \in Int
                      /\ \A y \in t : g[t] = f[y] + g[t \ {y}]
           S == {n \in 0..N : \A t \in SUBSET K : Cardinality(t) <= n => good(t)}
<1>0. \A t \in SUBSET K : /\ IsFiniteSet(t) /\ Cardinality(t) \in 0..N
                          /\ Cardinality(t) = 0 <=> t = {}
  BY FS_Subset, FS_CardinalityType, FS_EmptySet
<1>1. N \in Nat
  BY FS_CardinalityType
<1>2. \A t \in SUBSET K : \A y \in t : Cardinality(t \ {y}) = Cardinality(t) - 1
  BY <1>0, FS_RemoveElement
<1>3. \A t \in SUBSET K : g[t] = folded(g, f, t)
  BY DEF IsSum
<1>4. 0 \in S
  <2>1. ASSUME NEW t \in SUBSET K, Cardinality(t) <= 0 PROVE good(t)
    <3>1. t = {}
      BY <1>0, <2>1
    <3>2. g[t] = 0
      BY <1>3, <3>1 DEF folded
    <3> QED
      BY <3>1, <3>2
  <2> HIDE DEF good
  <2> QED
    BY <1>1, <2>1
<1>5. ASSUME NEW n \in 1..N, n - 1 \in S PROVE n \in S
  <2>1. ASSUME NEW t \in SUBSET K, Cardinality(t) <= n PROVE good(t)
    <3>1. CASE t = {}
      BY <1>3, <3>1 DEF folded
    <3>2. CASE t # {}
      <4> DEFINE p == pick(t)
      <4>1. p \in t /\ g[t] = f[p] + g[t \ {p}]
        BY <1>3, <3>2 DEF folded, pick
      <4> HIDE DEF p
      <4>2. \A y \in t : /\ t \ {y} \in SUBSET K
                         /\ Cardinality(t \ {y}) <= n - 1
        BY <1>0, <1>2, <2>1
      <4>3. \A y \in t : good(t \ {y})
        <5> HIDE DEF good
        <5> QED
          BY <1>5, <4>2
      <4>4. g[t] \in Int
        BY <4>1, <4>3
      <4>5. ASSUME NEW y \in t, y # p PROVE g[t] = f[y] + g[t \ {y}]
        <5>1. g[t \ {p}] = f[y] + g[(t \ {p}) \ {y}]
          BY <4>1, <4>3, <4>5
        <5>2. g[t \ {y}] = f[p] + g[(t \ {y}) \ {p}]
          BY <4>1, <4>3, <4>5
        <5>3. (t \ {p}) \ {y} = (t \ {y}) \ {p}
          OBVIOUS
        <5> DEFINE r == (t \ {p}) \ {y}
        <5>4. g[r] \in Int
          <6>1. r \in SUBSET K /\ Cardinality(r) <= n - 1
            <7>1. y \in t \ {p} /\ t \ {p} \in SUBSET K
              BY <4>5
            <7>2. Cardinality(r) = Cardinality(t \ {p}) - 1
              BY <1>2, <7>1
            <7> QED
              BY <1>0, <4>1, <4>2, <7>1, <7>2
          <6> HIDE DEF good, r
          <6>2. good(r)
            BY <1>5, <6>1
          <6> QED
            BY <6>2 DEF good
        <5>5. g[t \ {p}] = f[y] + g[r] /\ g[t \ {y}] = f[p] + g[r]
          BY <5>1, <5>2, <5>3
        <5> HIDE DEF r
        <5>6. f[p] \in Int /\ f[y] \in Int
          BY <4>1
        <5> QED
          BY <4>1, <5>4, <5>5, <5>6
      <4> QED
        BY <4>1, <4>4, <4>5
    <3> QED
      BY <3>1, <3>2
  <2> HIDE DEF good
  <2> QED
    BY <2>1
<1>6. N \in S
  <2> HIDE DEF S, N
  <2> QED
    BY <1>1, <1>4, <1>5, UpTo
<1>7. good(s) /\ good(s \ {x})
  <2> HIDE DEF good
  <2> QED
    BY <1>0, <1>6
<1> QED
  BY <1>7 DEF StepOf

MoreBy(g, f, s, x) == g[s \cup {x}] = f[x] + g[s]

LEMMA SumOneMore ==
  ASSUME NEW K, IsFiniteSet(K), NEW f \in [K -> Int], NEW g, IsSum(g, f, K),
         NEW s \in SUBSET K, NEW x \in K \ s
  PROVE  MoreBy(g, f, s, x)
<1> DEFINE t == s \cup {x}
<1>1. t \in SUBSET K /\ x \in t /\ t \ {x} = s
  OBVIOUS
<1> HIDE DEF t
<1>2. StepOf(g, f, t, x)
  BY <1>1, SumLessOne
<1> QED
  BY <1>1, <1>2 DEF t, StepOf, MoreBy

(* A sum is known by its steps.                                            *)
LEMMA SumIs ==
  ASSUME NEW K, IsFiniteSet(K), NEW f \in [K -> Int], NEW h, h[{}] = 0,
         \A s \in SUBSET K : \A x \in K \ s : h[s \cup {x}] = f[x] + h[s]
  PROVE  Sums!SumFunction(f) = h[K]
<1>1. PICK g : IsSum(g, f, K) /\ Sums!SumFunction(f) = g[K]
  BY SumExists, SumUnfolds
<1> DEFINE F == {s \in SUBSET K : g[s] = h[s]}
<1>2. {} \in F
  <2>1. g[{}] = 0
    BY <1>1 DEF IsSum, folded
  <2> QED
    BY <2>1
<1>3. ASSUME NEW s \in SUBSET K, NEW x \in K \ s, s \in F PROVE s \cup {x} \in F
  <2>1. MoreBy(g, f, s, x)
    BY <1>1, SumOneMore
  <2> QED
    BY <1>3, <2>1 DEF MoreBy
<1>4. K \in F
  <2> HIDE DEF F
  <2> QED
    BY <1>2, <1>3, OneByOne
<1> QED
  BY <1>1, <1>4

Adds(g, f, K) ==
  /\ g \in [SUBSET K -> Int] /\ g[{}] = 0
  /\ \A s \in SUBSET K : \A x \in K \ s : g[s \cup {x}] = f[x] + g[s]

LEMMA SumHas ==
  ASSUME NEW K, IsFiniteSet(K), NEW f \in [K -> Int]
  PROVE  \E g : Adds(g, f, K) /\ Sums!SumFunction(f) = g[K]
<1>1. PICK g : IsSum(g, f, K) /\ Sums!SumFunction(f) = g[K]
  BY SumExists, SumUnfolds
<1>2. g[{}] = 0
  BY <1>1 DEF IsSum, folded
<1>3. ASSUME NEW s \in SUBSET K, NEW x \in K \ s
      PROVE  MoreBy(g, f, s, x)
  BY <1>1, SumOneMore
<1>4. ASSUME NEW s \in SUBSET K PROVE g[s] \in Int
  <2>1. ASSUME NEW x \in s PROVE g[s] \in Int
    BY <1>1, SumLessOne DEF StepOf
  <2> QED
    BY <1>2, <2>1
<1>5. g \in [SUBSET K -> Int]
  <2>1. DOMAIN g = SUBSET K /\ g = [s \in SUBSET K |-> g[s]]
    BY <1>1 DEF IsSum
  <2> QED
    BY <1>4, <2>1
<1> QED
  BY <1>1, <1>2, <1>3, <1>5 DEF Adds, MoreBy

LEMMA SumInteger ==
  ASSUME NEW K, IsFiniteSet(K), NEW f \in [K -> Int]
  PROVE  Sums!SumFunction(f) \in Int
<1>1. PICK g : Adds(g, f, K) /\ Sums!SumFunction(f) = g[K]
  BY SumHas
<1> QED
  BY <1>1 DEF Adds

LEMMA SumDifference ==
  ASSUME NEW K, IsFiniteSet(K), NEW f \in [K -> Int], NEW g \in [K -> Int]
  PROVE  Sums!SumFunction([k \in K |-> f[k] - g[k]]) =
           Sums!SumFunction(f) - Sums!SumFunction(g)
<1>1. PICK a : Adds(a, f, K) /\ Sums!SumFunction(f) = a[K]
  BY SumHas
<1>2. PICK b : Adds(b, g, K) /\ Sums!SumFunction(g) = b[K]
  BY SumHas
<1> DEFINE h == [s \in SUBSET K |-> a[s] - b[s]]
           d == [k \in K |-> f[k] - g[k]]
<1>3. h[{}] = 0
  BY <1>1, <1>2 DEF Adds
<1>4. ASSUME NEW s \in SUBSET K, NEW x \in K \ s
      PROVE  h[s \cup {x}] = d[x] + h[s]
  <2>1. s \cup {x} \in SUBSET K /\ x \in K
    OBVIOUS
  <2>2. a[s] \in Int /\ b[s] \in Int /\ f[x] \in Int /\ g[x] \in Int
    BY <1>1, <1>2 DEF Adds
  <2>3. /\ h[s \cup {x}] = (f[x] + a[s]) - (g[x] + b[s])
        /\ d[x] + h[s] = (f[x] - g[x]) + (a[s] - b[s])
    BY <1>1, <1>2, <2>1 DEF Adds
  <2> QED
    BY <2>2, <2>3
<1>5. d \in [K -> Int]
  OBVIOUS
<1>6. h[K] = a[K] - b[K]
  OBVIOUS
<1> HIDE DEF h, d
<1>7. Sums!SumFunction(d) = h[K]
  BY ZenonT(60), <1>3, <1>4, <1>5, SumIs
<1> QED
  BY <1>1, <1>2, <1>6, <1>7 DEF d

LEMMA SumOverOne ==
  ASSUME NEW k, NEW f, f \in [{k} -> Int]
  PROVE  Sums!SumFunction(f) = f[k]
<1>1. IsFiniteSet({k})
  BY FS_Singleton
<1>2. PICK g : Adds(g, f, {k}) /\ Sums!SumFunction(f) = g[{k}]
  BY <1>1, SumHas
<1>3. /\ g[{} \cup {k}] = f[k] + g[{}] /\ {} \cup {k} = {k}
      /\ g[{}] = 0 /\ f[k] \in Int
  BY <1>2 DEF Adds
<1> QED
  BY <1>2, <1>3

LEMMA SumGrows ==
  ASSUME NEW K, IsFiniteSet(K), NEW f \in [K -> Int], NEW g \in [K -> Int],
         \A k \in K : f[k] <= g[k]
  PROVE  Sums!SumFunction(f) <= Sums!SumFunction(g)
<1>1. PICK a : Adds(a, f, K) /\ Sums!SumFunction(f) = a[K]
  BY SumHas
<1>2. PICK b : Adds(b, g, K) /\ Sums!SumFunction(g) = b[K]
  BY SumHas
<1> DEFINE F == {s \in SUBSET K : a[s] <= b[s]}
<1>3. {} \in F
  BY <1>1, <1>2 DEF Adds
<1>4. ASSUME NEW s \in SUBSET K, NEW x \in K \ s, s \in F PROVE s \cup {x} \in F
  <2>1. a[s] \in Int /\ b[s] \in Int /\ f[x] \in Int /\ g[x] \in Int /\ f[x] <= g[x]
    BY <1>1, <1>2 DEF Adds
  <2>2. a[s] <= b[s]
    BY <1>4
  <2>3. a[s \cup {x}] = f[x] + a[s] /\ b[s \cup {x}] = g[x] + b[s]
    BY <1>1, <1>2 DEF Adds
  <2>4. s \cup {x} \in SUBSET K
    OBVIOUS
  <2>5. a[s \cup {x}] <= b[s \cup {x}]
    BY <2>1, <2>2, <2>3
  <2> QED
    BY <2>4, <2>5
<1>5. K \in F
  <2> HIDE DEF F
  <2> QED
    BY <1>3, <1>4, OneByOne
<1> QED
  BY <1>1, <1>2, <1>5

LEMMA SumOfZeros ==
  ASSUME NEW K, IsFiniteSet(K), NEW f \in [K -> Int], \A k \in K : f[k] = 0
  PROVE  Sums!SumFunction(f) = 0
<1> DEFINE h == [s \in SUBSET K |-> 0]
<1>1. h[{}] = 0 /\ \A s \in SUBSET K : \A x \in K \ s : h[s \cup {x}] = f[x] + h[s]
  OBVIOUS
<1>2. h[K] = 0
  OBVIOUS
<1> HIDE DEF h
<1> QED
  BY <1>1, <1>2, SumIs

(* Money by child or by category is all of the money.                      *)
LEMMA MoneyByKey ==
  ASSUME NEW K, IsFiniteSet(K), NEW R, IsFiniteSet(R), NEW amount,
         NEW A \in [K -> SUBSET R],
         \A k, l \in K : k # l => A[k] \cap A[l] = {}
  PROVE  /\ [k \in K |-> sumMoney(A[k], amount)] \in [K -> Int]
         /\ Sums!SumFunction([k \in K |-> sumMoney(A[k], amount)]) =
              sumMoney(UNION {A[k] : k \in K}, amount)
<1> DEFINE f == [k \in K |-> sumMoney(A[k], amount)]
           all(s) == UNION {A[k] : k \in s}
           h == [s \in SUBSET K |-> sumMoney(all(s), amount)]
<1>1. ASSUME NEW k \in K
      PROVE  IsFiniteSet(A[k]) /\ sumMoney(A[k], amount) \in Int
  <2>1. IsFiniteSet(A[k])
    BY FS_Subset
  <2>2. /\ IsFiniteSet(Units(A[k], amount))
        /\ sumMoney(A[k], amount) \in Nat
    BY <2>1, SumType
  <2> QED
    BY <2>1, <2>2
<1>2. f \in [K -> Int]
  BY <1>1
<1>3. h[{}] = 0
  <2>1. all({}) = {}
    OBVIOUS
  <2>2. h[{}] = sumMoney(all({}), amount)
    OBVIOUS
  <2> QED
    BY <2>1, <2>2, SumEmpty
<1>4. ASSUME NEW s \in SUBSET K, NEW x \in K \ s
      PROVE  h[s \cup {x}] = f[x] + h[s]
  <2>1. all(s) \in SUBSET R /\ all(s \cup {x}) = all(s) \cup A[x] /\ all(s) \cap A[x] = {}
    OBVIOUS
  <2>2. IsFiniteSet(all(s)) /\ IsFiniteSet(A[x])
    BY <1>1, <2>1, FS_Subset
  <2>3. /\ h[s \cup {x}] = sumMoney(all(s \cup {x}), amount)
        /\ h[s] = sumMoney(all(s), amount) /\ f[x] = sumMoney(A[x], amount)
    OBVIOUS
  <2> HIDE DEF all, h, f
  <2>4. sumMoney(all(s) \cup A[x], amount) = sumMoney(all(s), amount) + sumMoney(A[x], amount)
    BY <2>1, <2>2, SumDisjointUnion
  <2>5. sumMoney(all(s), amount) \in Nat
    BY <2>2, SumType
  <2>6. sumMoney(A[x], amount) \in Nat
    BY <2>2, SumType
  <2>7. h[s \cup {x}] = sumMoney(all(s), amount) + sumMoney(A[x], amount)
    BY <2>1, <2>3, <2>4
  <2> QED
    BY <2>3, <2>5, <2>6, <2>7
<1>5. h[K] = sumMoney(UNION {A[k] : k \in K}, amount)
  OBVIOUS
<1>6. Sums!SumFunction(f) = h[K]
  <2> HIDE DEF f, h
  <2> QED
    BY <1>2, <1>3, <1>4, SumIs
<1> QED
  BY <1>2, <1>5, <1>6

-----------------------------------------------------------------------------
(* Crediting an online payment is a step of the ledger                     *)

LEMMA CreditIsPayment ==
  ASSUME NEW p \in Payments, NEW ch \in Children, NEW cat \in Categories,
         NEW n \in Amounts, CreditOnline(p, ch, cat, n)
  PROVE  Next
<1> DEFINE row == [child |-> ch, category |-> cat, amount |-> n,
                   status |-> "confirmed", voided |-> FALSE]
<1>1. row \in NewPayment
  BY DEF NewPayment
<1>2. \E items \in ItemSets : CreatePayment(p, row, items)
  BY DEF CreditOnline, Insertions
<1> QED
  BY <1>1, <1>2 DEF Next

LEMMA SuggestionStep == [SuggestionNext]_vars => [Next]_vars
BY CreditIsPayment DEF SuggestionNext

(* Crediting online payments adds no behaviour to the ledger: the lines of *)
(* suggestAllocation are applied by PaymentsService.create as any others.  *)
THEOREM CreditImplementsLedger == SuggestionSpec => Spec
BY SuggestionStep, PTL DEF SuggestionSpec, Spec

-----------------------------------------------------------------------------
(* Money of a child                                                        *)

chargesOf(ch) == {c \in NotVoided(charge) : charge[c].child = ch}

paymentsOf(ch) ==
  {p \in Rows(payment) : payment[p].child = ch /\ isCountedPayment(p)}

settledIn(ch, cat) == UNION {ofCharge(c) : c \in ownCharges(ch, cat)}
spentIn(ch, cat)   == UNION {ofPayment(p) : p \in counted(ch, cat)}

(* The active allocations of a child, as its charges and its payments see  *)
(* them.                                                                   *)
settledOf(ch) ==
  {a \in NotVoided(allocation) : charge[allocation[a].charge].child = ch}

LEMMA RowSets ==
  ASSUME TypeOK
  PROVE  /\ IsFiniteSet(Rows(charge)) /\ Rows(charge) \subseteq Charges
         /\ IsFiniteSet(Rows(payment)) /\ Rows(payment) \subseteq Payments
         /\ IsFiniteSet(NotVoided(charge)) /\ NotVoided(charge) \subseteq Rows(charge)
         /\ IsFiniteSet(NotVoided(allocation))
<1>1. /\ Rows(charge) \subseteq Charges /\ Rows(payment) \subseteq Payments
      /\ NotVoided(charge) \subseteq Rows(charge)
  BY DEF TypeOK, Rows, NotVoided
<1>2. IsFiniteSet(Rows(charge)) /\ IsFiniteSet(Rows(payment))
  BY <1>1, IdsAssumption, FS_Subset
<1> QED
  BY <1>1, <1>2, ActiveFinite, FS_Subset

LEMMA Matched ==
  ASSUME Integrity, NEW ch \in Children, NEW a \in settledOf(ch)
  PROVE  LET c == allocation[a].charge
             p == allocation[a].payment
         IN  /\ c \in chargesOf(ch) /\ p \in paymentsOf(ch)
             /\ c \in ownCharges(ch, charge[c].category)
             /\ p \in counted(ch, payment[p].category)
             /\ charge[c].category \in Categories
             /\ payment[p].category \in Categories \cup {None}
             /\ a \in ofCharge(c) /\ a \in ofPayment(p)
<1>1. MayJoin(allocation[a].charge, allocation[a].payment)
  BY DEF Integrity, AllocationsMatch, settledOf
<1> QED
  BY <1>1 DEF MayJoin, settledOf, chargesOf, paymentsOf, ownCharges, counted,
              NotVoided, Rows, ofCharge, ofPayment, Integrity, TypeOK,
              ChargeRow, PaymentRow

LEMMA ChargesByCategory ==
  ASSUME Integrity, NEW ch \in Children
  PROVE  /\ UNION {ownCharges(ch, cat) : cat \in Categories} = chargesOf(ch)
         /\ UNION {settledIn(ch, cat) : cat \in Categories} = settledOf(ch)
         /\ \A k, l \in Categories : k # l =>
              /\ ownCharges(ch, k) \cap ownCharges(ch, l) = {}
              /\ settledIn(ch, k) \cap settledIn(ch, l) = {}
         /\ \A cat \in Categories :
              /\ ownCharges(ch, cat) \subseteq NotVoided(charge)
              /\ settledIn(ch, cat) \subseteq NotVoided(allocation)
<1>1. UNION {ownCharges(ch, cat) : cat \in Categories} = chargesOf(ch)
  BY DEF ownCharges, chargesOf, Integrity, TypeOK, NotVoided, Rows, ChargeRow
<1>2. \A a \in settledOf(ch) : \E cat \in Categories : a \in settledIn(ch, cat)
  BY Matched DEF settledIn
<1>3. \A cat \in Categories : settledIn(ch, cat) \subseteq settledOf(ch)
  BY DEF settledIn, settledOf, ofCharge, ownCharges
<1>4. UNION {settledIn(ch, cat) : cat \in Categories} = settledOf(ch)
  BY <1>2, <1>3
<1>5. \A k, l \in Categories : k # l =>
        /\ ownCharges(ch, k) \cap ownCharges(ch, l) = {}
        /\ settledIn(ch, k) \cap settledIn(ch, l) = {}
  BY DEF ownCharges, settledIn, ofCharge
<1>6. \A cat \in Categories :
        /\ ownCharges(ch, cat) \subseteq NotVoided(charge)
        /\ settledIn(ch, cat) \subseteq NotVoided(allocation)
  BY DEF ownCharges, settledIn, ofCharge
<1> QED
  BY <1>1, <1>4, <1>5, <1>6

LEMMA PaymentsByCategory ==
  ASSUME Integrity, NEW ch \in Children
  PROVE  /\ (UNION {counted(ch, cat) : cat \in Categories})
              \cup counted(ch, None) = paymentsOf(ch)
         /\ (UNION {spentIn(ch, cat) : cat \in Categories})
              \cup spentIn(ch, None) = settledOf(ch)
         /\ \A k, l \in Categories \cup {None} : k # l =>
              /\ counted(ch, k) \cap counted(ch, l) = {}
              /\ spentIn(ch, k) \cap spentIn(ch, l) = {}
         /\ \A cat \in Categories \cup {None} :
              /\ counted(ch, cat) \subseteq Rows(payment)
              /\ spentIn(ch, cat) \subseteq NotVoided(allocation)
<1>1. \A p \in Rows(payment) : payment[p].category \in Categories \cup {None}
  BY DEF Integrity, TypeOK, Rows, PaymentRow
<1>2. (UNION {counted(ch, cat) : cat \in Categories}) \cup counted(ch, None)
        = paymentsOf(ch)
  <2>1. ASSUME NEW p \in paymentsOf(ch)
        PROVE  \E cat \in Categories \cup {None} : p \in counted(ch, cat)
    BY <1>1 DEF counted, paymentsOf
  <2>2. \A cat \in Categories \cup {None} : counted(ch, cat) \subseteq paymentsOf(ch)
    BY DEF counted, paymentsOf
  <2> DEFINE U == UNION {counted(ch, cat) : cat \in Categories}
  <2>3. \A p : p \in U <=> \E cat \in Categories : p \in counted(ch, cat)
    OBVIOUS
  <2> HIDE DEF U
  <2>4. U \cup counted(ch, None) = paymentsOf(ch)
    BY <2>1, <2>2, <2>3
  <2> QED
    BY <2>4 DEF U
<1>3. \A a \in settledOf(ch) :
        \E cat \in Categories \cup {None} : a \in spentIn(ch, cat)
  BY Matched DEF spentIn
<1>4. \A cat \in Categories \cup {None} : spentIn(ch, cat) \subseteq settledOf(ch)
  BY DEF spentIn, settledOf, ofPayment, counted, Integrity, AllocationsMatch,
         MayJoin
<1>5. (UNION {spentIn(ch, cat) : cat \in Categories}) \cup spentIn(ch, None)
        = settledOf(ch)
  <2> DEFINE U == UNION {spentIn(ch, cat) : cat \in Categories}
  <2>1. \A a : a \in U <=> \E cat \in Categories : a \in spentIn(ch, cat)
    OBVIOUS
  <2> HIDE DEF U
  <2>2. U \cup spentIn(ch, None) = settledOf(ch)
    BY <1>3, <1>4, <2>1
  <2> QED
    BY <2>2 DEF U
<1>6. \A k, l \in Categories \cup {None} : k # l =>
        /\ counted(ch, k) \cap counted(ch, l) = {}
        /\ spentIn(ch, k) \cap spentIn(ch, l) = {}
  BY DEF counted, spentIn, ofPayment
<1>7. \A cat \in Categories \cup {None} :
        /\ counted(ch, cat) \subseteq Rows(payment)
        /\ spentIn(ch, cat) \subseteq NotVoided(allocation)
  BY DEF counted, spentIn, ofPayment
<1> QED
  BY <1>2, <1>5, <1>6, <1>7

-----------------------------------------------------------------------------
(* Debts and prepayments by category                                       *)

TotalIs(f, K, total) == f \in [K -> Int] /\ Sums!SumFunction(f) = total

LEMMA ChargedByCategory ==
  ASSUME Integrity, NEW ch \in Children
  PROVE  TotalIs([cat \in Categories |->
                    sumMoney(ownCharges(ch, cat), amounts(charge))],
                 Categories, sumMoney(chargesOf(ch), amounts(charge)))
<1> DEFINE A == [cat \in Categories |-> ownCharges(ch, cat)]
           R == NotVoided(charge)
<1>1. IsFiniteSet(R) /\ IsFiniteSet(Categories)
  BY RowSets, IdsAssumption DEF Integrity
<1>2. A \in [Categories -> SUBSET R]
  BY ChargesByCategory
<1>3. \A k, l \in Categories : k # l => A[k] \cap A[l] = {}
  BY ChargesByCategory
<1>4. UNION {A[k] : k \in Categories} = chargesOf(ch)
  <2>1. {A[k] : k \in Categories} = {ownCharges(ch, k) : k \in Categories}
    OBVIOUS
  <2> QED
    BY <2>1, ChargesByCategory
<1>5. [k \in Categories |-> sumMoney(A[k], amounts(charge))]
        = [cat \in Categories |-> sumMoney(ownCharges(ch, cat), amounts(charge))]
  OBVIOUS
<1> HIDE DEF A, R
<1>6. TotalIs([k \in Categories |-> sumMoney(A[k], amounts(charge))], Categories,
              sumMoney(UNION {A[k] : k \in Categories}, amounts(charge)))
  BY <1>1, <1>2, <1>3, MoneyByKey DEF TotalIs
<1> QED
  BY <1>4, <1>5, <1>6

LEMMA SettledByCategory ==
  ASSUME Integrity, NEW ch \in Children
  PROVE  TotalIs([cat \in Categories |-> activeAllocated(settledIn(ch, cat))],
                 Categories, activeAllocated(settledOf(ch)))
<1> DEFINE A == [cat \in Categories |-> settledIn(ch, cat)]
           R == NotVoided(allocation)
<1>1. IsFiniteSet(R) /\ IsFiniteSet(Categories)
  BY RowSets, IdsAssumption DEF Integrity
<1>2. A \in [Categories -> SUBSET R]
  BY ChargesByCategory
<1>3. \A k, l \in Categories : k # l => A[k] \cap A[l] = {}
  BY ChargesByCategory
<1>4. UNION {A[k] : k \in Categories} = settledOf(ch)
  <2>1. {A[k] : k \in Categories} = {settledIn(ch, k) : k \in Categories}
    OBVIOUS
  <2> QED
    BY <2>1, ChargesByCategory
<1>5. [k \in Categories |-> sumMoney(A[k], amounts(allocation))]
        = [cat \in Categories |-> activeAllocated(settledIn(ch, cat))]
  BY DEF activeAllocated
<1> HIDE DEF A, R
<1>6. TotalIs([k \in Categories |-> sumMoney(A[k], amounts(allocation))], Categories,
              sumMoney(UNION {A[k] : k \in Categories}, amounts(allocation)))
  BY <1>1, <1>2, <1>3, MoneyByKey DEF TotalIs
<1> QED
  BY <1>4, <1>5, <1>6 DEF activeAllocated

LEMMA ReceivedByCategory ==
  ASSUME Integrity, NEW ch \in Children
  PROVE  TotalIs([cat \in Categories |->
                    sumMoney(counted(ch, cat), amounts(payment))],
                 Categories,
                 sumMoney(UNION {counted(ch, cat) : cat \in Categories},
                          amounts(payment)))
<1> DEFINE A == [cat \in Categories |-> counted(ch, cat)]
           R == Rows(payment)
<1>1. IsFiniteSet(R) /\ IsFiniteSet(Categories)
  BY RowSets, IdsAssumption DEF Integrity
<1>2. A \in [Categories -> SUBSET R]
  BY PaymentsByCategory
<1>3. \A k, l \in Categories : k # l => A[k] \cap A[l] = {}
  BY PaymentsByCategory
<1>4. {A[k] : k \in Categories} = {counted(ch, cat) : cat \in Categories}
  OBVIOUS
<1>5. [k \in Categories |-> sumMoney(A[k], amounts(payment))]
        = [cat \in Categories |-> sumMoney(counted(ch, cat), amounts(payment))]
  OBVIOUS
<1> HIDE DEF A, R
<1>6. TotalIs([k \in Categories |-> sumMoney(A[k], amounts(payment))], Categories,
              sumMoney(UNION {A[k] : k \in Categories}, amounts(payment)))
  BY <1>1, <1>2, <1>3, MoneyByKey DEF TotalIs
<1> QED
  BY <1>4, <1>5, <1>6

LEMMA SpentByCategory ==
  ASSUME Integrity, NEW ch \in Children
  PROVE  TotalIs([cat \in Categories |-> activeAllocated(spentIn(ch, cat))],
                 Categories,
                 activeAllocated(UNION {spentIn(ch, cat) : cat \in Categories}))
<1> DEFINE A == [cat \in Categories |-> spentIn(ch, cat)]
           R == NotVoided(allocation)
<1>1. IsFiniteSet(R) /\ IsFiniteSet(Categories)
  BY RowSets, IdsAssumption DEF Integrity
<1>2. A \in [Categories -> SUBSET R]
  BY PaymentsByCategory
<1>3. \A k, l \in Categories : k # l => A[k] \cap A[l] = {}
  BY PaymentsByCategory
<1>4. {A[k] : k \in Categories} = {spentIn(ch, cat) : cat \in Categories}
  OBVIOUS
<1>5. [k \in Categories |-> sumMoney(A[k], amounts(allocation))]
        = [cat \in Categories |-> activeAllocated(spentIn(ch, cat))]
  BY DEF activeAllocated
<1> HIDE DEF A, R
<1>6. TotalIs([k \in Categories |-> sumMoney(A[k], amounts(allocation))], Categories,
              sumMoney(UNION {A[k] : k \in Categories}, amounts(allocation)))
  BY <1>1, <1>2, <1>3, MoneyByKey DEF TotalIs
<1> QED
  BY <1>4, <1>5, <1>6 DEF activeAllocated

LEMMA SplitDifference ==
  ASSUME NEW K, IsFiniteSet(K), NEW f, NEW g, NEW m, NEW n,
         TotalIs(f, K, m), TotalIs(g, K, n)
  PROVE  TotalIs([k \in K |-> f[k] - g[k]], K, m - n) /\ m \in Int /\ n \in Int
<1>1. /\ f \in [K -> Int] /\ g \in [K -> Int]
      /\ Sums!SumFunction(f) = m /\ Sums!SumFunction(g) = n
  BY DEF TotalIs
<1>2. m \in Int /\ n \in Int
  BY <1>1, SumInteger
<1>3. Sums!SumFunction([k \in K |-> f[k] - g[k]]) = m - n
  BY <1>1, SumDifference
<1>4. [k \in K |-> f[k] - g[k]] \in [K -> Int]
  BY <1>1
<1> QED
  BY <1>2, <1>3, <1>4 DEF TotalIs

(* What the open charges of a child still need, over all categories.       *)
LEMMA DebtTotal ==
  ASSUME Integrity, NEW ch \in Children
  PROVE  /\ TotalIs([cat \in Categories |-> debt(ch, cat)], Categories,
                    sumMoney(chargesOf(ch), amounts(charge))
                      - activeAllocated(settledOf(ch)))
         /\ sumMoney(chargesOf(ch), amounts(charge)) \in Int
         /\ activeAllocated(settledOf(ch)) \in Int
<1> DEFINE f == [cat \in Categories |-> sumMoney(ownCharges(ch, cat), amounts(charge))]
           g == [cat \in Categories |-> activeAllocated(settledIn(ch, cat))]
           m == sumMoney(chargesOf(ch), amounts(charge))
           n == activeAllocated(settledOf(ch))
<1>1. TotalIs(f, Categories, m) /\ TotalIs(g, Categories, n)
  BY ChargedByCategory, SettledByCategory
<1>2. [cat \in Categories |-> f[cat] - g[cat]] = [cat \in Categories |-> debt(ch, cat)]
  BY DEF debt, settledIn
<1> HIDE DEF f, g, m, n
<1>3. TotalIs([cat \in Categories |-> f[cat] - g[cat]], Categories, m - n)
        /\ m \in Int /\ n \in Int
  BY <1>1, IdsAssumption, SplitDifference
<1> QED
  BY <1>2, <1>3 DEF m, n

(* What the payments of a child have left, with those of no category.      *)
LEMMA PrepaymentTotal ==
  ASSUME Integrity, NEW ch \in Children
  PROVE  /\ [cat \in Categories |-> prepayment(ch, cat)] \in [Categories -> Int]
         /\ prepayment(ch, None) \in Int
         /\ Sums!SumFunction([cat \in Categories |-> prepayment(ch, cat)])
              + prepayment(ch, None) =
            sumMoney(paymentsOf(ch), amounts(payment))
              - activeAllocated(settledOf(ch))
         /\ sumMoney(paymentsOf(ch), amounts(payment)) \in Int
<1> DEFINE f == [cat \in Categories |-> sumMoney(counted(ch, cat), amounts(payment))]
           g == [cat \in Categories |-> activeAllocated(spentIn(ch, cat))]
           P == UNION {counted(ch, cat) : cat \in Categories}
           A == UNION {spentIn(ch, cat) : cat \in Categories}
           m == sumMoney(P, amounts(payment))
           n == activeAllocated(A)
           h == [cat \in Categories |-> prepayment(ch, cat)]
<1>1. TotalIs(f, Categories, m) /\ TotalIs(g, Categories, n)
  BY ReceivedByCategory, SpentByCategory
<1>2. [cat \in Categories |-> f[cat] - g[cat]] = h
  BY DEF prepayment, spentIn
<1>3. /\ P \cup counted(ch, None) = paymentsOf(ch)
      /\ A \cup spentIn(ch, None) = settledOf(ch)
  BY PaymentsByCategory
<1>4. \A cat \in Categories : cat # None
  BY NoneAssumption
<1>5. /\ P \cap counted(ch, None) = {}
      /\ A \cap spentIn(ch, None) = {}
  BY <1>4, PaymentsByCategory
<1>6. IsFiniteSet(paymentsOf(ch)) /\ IsFiniteSet(settledOf(ch))
  <2>1. paymentsOf(ch) \subseteq Rows(payment) /\ settledOf(ch) \subseteq NotVoided(allocation)
    BY DEF paymentsOf, settledOf
  <2> QED
    BY <2>1, RowSets, FS_Subset DEF Integrity
<1>7. prepayment(ch, None) = sumMoney(counted(ch, None), amounts(payment))
                               - activeAllocated(spentIn(ch, None))
  BY DEF prepayment, spentIn
<1> HIDE DEF f, g, h, P, A
<1>8. IsFiniteSet(P) /\ IsFiniteSet(counted(ch, None)) /\ IsFiniteSet(A)
        /\ IsFiniteSet(spentIn(ch, None))
  BY <1>3, <1>6, FS_Subset
<1>9. /\ sumMoney(paymentsOf(ch), amounts(payment)) = m + sumMoney(counted(ch, None), amounts(payment))
      /\ m \in Nat /\ sumMoney(counted(ch, None), amounts(payment)) \in Nat
  BY <1>3, <1>5, <1>8, SumDisjointUnion, SumType
<1>10. /\ activeAllocated(settledOf(ch)) = n + activeAllocated(spentIn(ch, None))
       /\ n \in Nat /\ activeAllocated(spentIn(ch, None)) \in Nat
  <2>1. /\ sumMoney(A \cup spentIn(ch, None), amounts(allocation)) =
             sumMoney(A, amounts(allocation))
               + sumMoney(spentIn(ch, None), amounts(allocation))
        /\ sumMoney(A, amounts(allocation)) \in Nat
        /\ sumMoney(spentIn(ch, None), amounts(allocation)) \in Nat
    BY <1>5, <1>8, SumDisjointUnion, SumType
  <2> QED
    BY <1>3, <2>1 DEF activeAllocated
<1> HIDE DEF m, n
<1>11. TotalIs([cat \in Categories |-> f[cat] - g[cat]], Categories, m - n)
  BY <1>1, IdsAssumption, SplitDifference
<1>12. h \in [Categories -> Int] /\ Sums!SumFunction(h) = m - n
  BY <1>2, <1>11 DEF TotalIs
<1> DEFINE total == Sums!SumFunction(h)
<1>13. total = m - n
  BY <1>12
<1> HIDE DEF total
<1>14. total + prepayment(ch, None) =
         sumMoney(paymentsOf(ch), amounts(payment)) - activeAllocated(settledOf(ch))
  BY <1>7, <1>9, <1>10, <1>13
<1> QED
  BY <1>7, <1>9, <1>10, <1>12, <1>14 DEF total, h

LEMMA ChargedMinusReceived ==
  ASSUME Integrity, NEW ch \in Children
  PROVE  /\ totalDue(ch) = sumMoney(chargesOf(ch), amounts(charge))
                             - sumMoney(paymentsOf(ch), amounts(payment))
         /\ sumMoney(chargesOf(ch), amounts(charge)) \in Int
         /\ sumMoney(paymentsOf(ch), amounts(payment)) \in Int
<1> DEFINE owed == Sums!SumFunction([cat \in Categories |-> debt(ch, cat)])
           ahead == Sums!SumFunction([cat \in Categories |-> prepayment(ch, cat)])
<1>1. totalDue(ch) = owed - ahead - prepayment(ch, None)
  BY DEF totalDue
<1>2. /\ owed = sumMoney(chargesOf(ch), amounts(charge))
                  - activeAllocated(settledOf(ch))
      /\ sumMoney(chargesOf(ch), amounts(charge)) \in Int
      /\ activeAllocated(settledOf(ch)) \in Int
  BY DebtTotal DEF TotalIs
<1>3. /\ ahead + prepayment(ch, None) =
           sumMoney(paymentsOf(ch), amounts(payment))
             - activeAllocated(settledOf(ch))
      /\ prepayment(ch, None) \in Int
      /\ sumMoney(paymentsOf(ch), amounts(payment)) \in Int
  BY PrepaymentTotal
<1>4. ahead \in Int
  BY PrepaymentTotal, SumInteger, IdsAssumption
<1> HIDE DEF owed, ahead
<1> QED
  BY <1>1, <1>2, <1>3, <1>4

LEMMA NoMoneyLost == Integrity => TotalDueIsChargedMinusReceived
<1> SUFFICES ASSUME Integrity, NEW ch \in Children
             PROVE  totalDue(ch) =
                      sumMoney({c \in NotVoided(charge) : charge[c].child = ch},
                               amounts(charge))
                        - sumMoney({p \in Rows(payment) :
                                      payment[p].child = ch /\ isCountedPayment(p)},
                                   amounts(payment))
  BY DEF TotalDueIsChargedMinusReceived
<1> QED
  BY ChargedMinusReceived DEF chargesOf, paymentsOf

-----------------------------------------------------------------------------
(* The reports                                                             *)

LEMMA LargestOf ==
  ASSUME NEW S \in SUBSET Nat, IsFiniteSet(S), S # {}
  PROVE  \E n \in S : \A m \in S : m <= n
<1> DEFINE top(s) == \E n \in s : \A m \in s : m <= n
           F == {s \in SUBSET S : s = {} \/ top(s)}
<1>1. {} \in F
  OBVIOUS
<1>2. ASSUME NEW s \in SUBSET S, NEW x \in S \ s, s \in F PROVE s \cup {x} \in F
  <2>1. CASE s = {}
    <3>1. s \cup {x} = {x} /\ x <= x
      BY <2>1
    <3> QED
      BY <3>1
  <2>2. CASE s # {}
    <3>1. PICK n \in s : \A m \in s : m <= n
      BY <1>2, <2>2
    <3>2. CASE x <= n
      BY <3>1, <3>2
    <3>3. CASE ~(x <= n)
      <4>1. x <= x /\ \A m \in s : m <= x
        BY <3>1, <3>3
      <4> QED
        BY <4>1
    <3> QED
      BY <3>2, <3>3
  <2> QED
    BY <2>1, <2>2
<1>3. S \in F
  <2> HIDE DEF F
  <2> QED
    BY <1>1, <1>2, OneByOne
<1> QED
  BY <1>3

LEMMA DayBounds ==
  ASSUME NEW today \in Days
  PROVE  /\ today \in Nat
         /\ SetsExt!Min(Days) \in Nat /\ SetsExt!Max(Days) \in Nat
         /\ \A d \in Days : /\ d \in Nat
                            /\ SetsExt!Min(Days) <= d /\ d <= SetsExt!Max(Days)
<1>1. Days \in SUBSET Nat /\ IsFiniteSet(Days) /\ Days # {}
  BY DaysAssumption
<1>2. \E n \in Days : \A m \in Days : n <= m
  BY <1>1, LeastOf
<1>3. \E n \in Days : \A m \in Days : m <= n
  BY <1>1, LargestOf
<1>4. /\ SetsExt!Min(Days) \in Days
      /\ \A d \in Days : SetsExt!Min(Days) <= d
  BY <1>2 DEF SetsExt!Min
<1>5. \E n \in Days : \A m \in Days : n >= m
  BY <1>1, <1>3
<1>6. /\ SetsExt!Max(Days) \in Days
      /\ \A d \in Days : SetsExt!Max(Days) >= d
  BY <1>5 DEF SetsExt!Max
<1> QED
  BY <1>1, <1>4, <1>6

(* The rows of a report up to a day, and those after it.                   *)
Splits(today, S, amount, day) ==
  LET until == {r \in S : SetsExt!Min(Days) <= day[r] /\ day[r] <= today}
      after == {r \in S : today + 1 <= day[r] /\ day[r] <= SetsExt!Max(Days)}
  IN  /\ sumMoney(until, amount) + sumMoney(after, amount) = sumMoney(S, amount)
      /\ sumMoney(until, amount) \in Int
      /\ sumMoney(after, amount) \in Int

LEMMA SplitAt ==
  ASSUME NEW today \in Days, NEW S, IsFiniteSet(S), NEW amount, NEW day,
         \A r \in S : day[r] \in Days
  PROVE  Splits(today, S, amount, day)
<1> DEFINE first == SetsExt!Min(Days)
           last  == SetsExt!Max(Days)
           until == {r \in S : first <= day[r] /\ day[r] <= today}
           after == {r \in S : today + 1 <= day[r] /\ day[r] <= last}
           both  == until \cup after
<1>1. /\ today \in Nat /\ first \in Nat /\ last \in Nat
      /\ \A d \in Days : d \in Nat /\ first <= d /\ d <= last
  BY DayBounds
<1> HIDE DEF first, last
<1>2. \A r \in S : day[r] \in Nat /\ first <= day[r] /\ day[r] <= last
  BY <1>1
<1>3. both = S /\ until \cap after = {}
  BY <1>1, <1>2
<1>4. IsFiniteSet(until) /\ IsFiniteSet(after)
  BY FS_Subset
<1> HIDE DEF until, after
<1>5. sumMoney(both, amount) = sumMoney(until, amount) + sumMoney(after, amount)
  BY <1>3, <1>4, SumDisjointUnion
<1> HIDE DEF both
<1>6. sumMoney(until, amount) \in Nat /\ sumMoney(after, amount) \in Nat
  BY <1>4, SumType
<1>7. /\ sumMoney(until, amount) + sumMoney(after, amount) = sumMoney(S, amount)
      /\ sumMoney(until, amount) \in Int /\ sumMoney(after, amount) \in Int
  BY <1>3, <1>5, <1>6
<1> QED
  BY <1>7 DEF until, after, first, last, Splits

allCounted == {p \in Rows(payment) : isCountedPayment(p)}

LEMMA ReportsSplit ==
  ASSUME TypeOK, NEW today \in Days
  PROVE  LET first == SetsExt!Min(Days)
             last  == SetsExt!Max(Days)
         IN  /\ chargesReport(first, today) + chargesReport(today + 1, last) =
                  sumMoney(NotVoided(charge), amounts(charge))
             /\ paymentsReport(first, today) + paymentsReport(today + 1, last) =
                  sumMoney(allCounted, amounts(payment))
             /\ chargesReport(first, today) \in Int
             /\ chargesReport(today + 1, last) \in Int
             /\ paymentsReport(first, today) \in Int
             /\ paymentsReport(today + 1, last) \in Int
<1> DEFINE first == SetsExt!Min(Days)
           last  == SetsExt!Max(Days)
<1>1. /\ IsFiniteSet(NotVoided(charge)) /\ NotVoided(charge) \subseteq Charges
      /\ IsFiniteSet(allCounted) /\ allCounted \subseteq Payments
  <2>1. allCounted \subseteq Rows(payment)
    BY DEF allCounted
  <2> QED
    BY <2>1, RowSets, FS_Subset
<1>2. /\ \A c \in NotVoided(charge) : Due[c] \in Days
      /\ \A p \in allCounted : ReceivedOn[p] \in Days
  BY <1>1, DaysAssumption
<1>3. /\ chargesReport(first, today) + chargesReport(today + 1, last) =
           sumMoney(NotVoided(charge), amounts(charge))
      /\ chargesReport(first, today) \in Int
      /\ chargesReport(today + 1, last) \in Int
  <2>1. Splits(today, NotVoided(charge), amounts(charge), Due)
    BY <1>1, <1>2, SplitAt
  <2> QED
    BY <2>1 DEF Splits, chargesReport, chargeDay
<1>4. \A from, to :
        paymentsReport(from, to) =
          sumMoney({p \in allCounted : from <= ReceivedOn[p] /\ ReceivedOn[p] <= to},
                   amounts(payment))
  <2> SUFFICES ASSUME NEW from, NEW to
               PROVE  {p \in Rows(payment) : /\ isCountedPayment(p)
                                             /\ from <= ReceivedOn[p] /\ ReceivedOn[p] <= to}
                        = {p \in allCounted : from <= ReceivedOn[p] /\ ReceivedOn[p] <= to}
    BY DEF paymentsReport
  <2> QED
    BY DEF allCounted
<1>5. /\ paymentsReport(first, today) + paymentsReport(today + 1, last) =
           sumMoney(allCounted, amounts(payment))
      /\ paymentsReport(first, today) \in Int
      /\ paymentsReport(today + 1, last) \in Int
  <2> DEFINE until == {p \in allCounted : first <= ReceivedOn[p] /\ ReceivedOn[p] <= today}
             after == {p \in allCounted : today + 1 <= ReceivedOn[p] /\ ReceivedOn[p] <= last}
  <2>1. /\ paymentsReport(first, today) = sumMoney(until, amounts(payment))
        /\ paymentsReport(today + 1, last) = sumMoney(after, amounts(payment))
    BY <1>4
  <2>2. /\ sumMoney(until, amounts(payment)) + sumMoney(after, amounts(payment))
             = sumMoney(allCounted, amounts(payment))
        /\ sumMoney(until, amounts(payment)) \in Int
        /\ sumMoney(after, amounts(payment)) \in Int
    <3>1. Splits(today, allCounted, amounts(payment), ReceivedOn)
      BY <1>1, <1>2, SplitAt
    <3> QED
      BY <3>1 DEF Splits
  <2> HIDE DEF until, after, first, last
  <2> QED
    BY <2>1, <2>2
<1> QED
  BY <1>3, <1>5

(* All the charges and all the payments, child by child.                   *)
LEMMA ChargedByChild ==
  ASSUME TypeOK
  PROVE  TotalIs([ch \in Children |-> sumMoney(chargesOf(ch), amounts(charge))],
                 Children, sumMoney(NotVoided(charge), amounts(charge)))
<1> DEFINE A == [ch \in Children |-> chargesOf(ch)]
           R == NotVoided(charge)
<1>1. IsFiniteSet(R) /\ IsFiniteSet(Children)
  BY RowSets, IdsAssumption
<1>2. A \in [Children -> SUBSET R]
  BY DEF chargesOf
<1>3. \A k, l \in Children : k # l => A[k] \cap A[l] = {}
  BY DEF chargesOf
<1>4. UNION {A[k] : k \in Children} = R
  <2>1. \A c \in R : c \in A[charge[c].child] /\ charge[c].child \in Children
    BY DEF TypeOK, NotVoided, Rows, ChargeRow, chargesOf
  <2> HIDE DEF R, A
  <2> QED
    BY <1>2, <2>1
<1>5. [k \in Children |-> sumMoney(A[k], amounts(charge))]
        = [ch \in Children |-> sumMoney(chargesOf(ch), amounts(charge))]
  OBVIOUS
<1> HIDE DEF A, R
<1>6. TotalIs([k \in Children |-> sumMoney(A[k], amounts(charge))], Children,
              sumMoney(UNION {A[k] : k \in Children}, amounts(charge)))
  BY <1>1, <1>2, <1>3, MoneyByKey DEF TotalIs
<1> QED
  BY <1>4, <1>5, <1>6 DEF R

LEMMA ReceivedByChild ==
  ASSUME TypeOK
  PROVE  TotalIs([ch \in Children |-> sumMoney(paymentsOf(ch), amounts(payment))],
                 Children, sumMoney(allCounted, amounts(payment)))
<1> DEFINE A == [ch \in Children |-> paymentsOf(ch)]
           R == allCounted
<1>1. IsFiniteSet(R) /\ IsFiniteSet(Children)
  <2>1. allCounted \subseteq Rows(payment)
    BY DEF allCounted
  <2> QED
    BY <2>1, RowSets, FS_Subset, IdsAssumption
<1>2. A \in [Children -> SUBSET R]
  BY DEF paymentsOf, allCounted
<1>3. \A k, l \in Children : k # l => A[k] \cap A[l] = {}
  BY DEF paymentsOf
<1>4. UNION {A[k] : k \in Children} = R
  <2>1. \A p \in R : p \in A[payment[p].child] /\ payment[p].child \in Children
    BY DEF TypeOK, allCounted, Rows, PaymentRow, paymentsOf
  <2> HIDE DEF R, A
  <2> QED
    BY <1>2, <2>1
<1>5. [k \in Children |-> sumMoney(A[k], amounts(payment))]
        = [ch \in Children |-> sumMoney(paymentsOf(ch), amounts(payment))]
  OBVIOUS
<1> HIDE DEF A, R
<1>6. TotalIs([k \in Children |-> sumMoney(A[k], amounts(payment))], Children,
              sumMoney(UNION {A[k] : k \in Children}, amounts(payment)))
  BY <1>1, <1>2, <1>3, MoneyByKey DEF TotalIs
<1> QED
  BY <1>4, <1>5, <1>6 DEF R

LEMMA ReportsShowAll ==
  ASSUME Integrity, NEW today \in Days
  PROVE  ReportsAddUp(today)
<1> DEFINE f == [ch \in Children |-> sumMoney(chargesOf(ch), amounts(charge))]
           g == [ch \in Children |-> sumMoney(paymentsOf(ch), amounts(payment))]
           m == sumMoney(NotVoided(charge), amounts(charge))
           n == sumMoney(allCounted, amounts(payment))
           rows == [ch \in Children |-> balanceRow(ch, None).totalDue]
<1>1. TotalIs(f, Children, m) /\ TotalIs(g, Children, n)
  BY ChargedByChild, ReceivedByChild DEF Integrity
<1>2. [ch \in Children |-> f[ch] - g[ch]] = rows
  BY ChargedMinusReceived DEF balanceRow
<1> HIDE DEF f, g, rows
<1>3. TotalIs([ch \in Children |-> f[ch] - g[ch]], Children, m - n)
        /\ m \in Int /\ n \in Int
  <2> HIDE DEF m, n
  <2> QED
    BY <1>1, IdsAssumption, SplitDifference
<1>4. Sums!SumFunction(rows) = m - n
  BY <1>2, <1>3 DEF TotalIs
<1> DEFINE first == SetsExt!Min(Days)
           last  == SetsExt!Max(Days)
           a == chargesReport(first, today)
           b == chargesReport(today + 1, last)
           c == paymentsReport(first, today)
           d == paymentsReport(today + 1, last)
<1>5. a + b = m /\ c + d = n /\ a \in Int /\ b \in Int /\ c \in Int /\ d \in Int
  BY ReportsSplit DEF Integrity
<1>6. a + b - c - d = m - n
  <2> HIDE DEF a, b, c, d, m, n
  <2> QED
    BY <1>3, <1>5
<1> QED
  BY <1>4, <1>6 DEF ReportsAddUp, rows

-----------------------------------------------------------------------------
(* What is left to pay                                                     *)

needs == [c \in NotVoided(charge) |-> chargeRemaining(c)]

settledBy(own) == UNION {ofCharge(c) : c \in own}

LEMMA OneRowMore ==
  ASSUME NEW s, IsFiniteSet(s), NEW x, x \notin s, NEW amount, amount[x] \in Amounts
  PROVE  /\ sumMoney(s \cup {x}, amount) = sumMoney(s, amount) + amount[x]
         /\ sumMoney(s, amount) \in Nat /\ amount[x] \in Nat
<1>1. IsFiniteSet({x}) /\ s \cap {x} = {}
  BY FS_Singleton
<1>2. sumMoney(s \cup {x}, amount) = sumMoney(s, amount) + sumMoney({x}, amount)
  BY <1>1, SumDisjointUnion
<1>3. sumMoney({x}, amount) = amount[x]
  BY SumSingleton
<1>4. sumMoney(s, amount) \in Nat /\ amount[x] \in Nat
  BY SumType, MaxAmountAssumption DEF Amounts
<1> QED
  BY <1>2, <1>3, <1>4

LEMMA NeedsType ==
  ASSUME Integrity, NEW c \in NotVoided(charge)
  PROVE  /\ needs[c] = chargeRemaining(c) /\ needs[c] \in Amounts
         /\ amounts(charge)[c] = charge[c].amount
         /\ amounts(charge)[c] \in Amounts
         /\ activeAllocated(ofCharge(c)) \in Nat
         /\ amounts(charge)[c] = needs[c] + activeAllocated(ofCharge(c))
<1>1. charge[c].amount \in Amounts /\ c \in Rows(charge)
  BY DEF Integrity, TypeOK, NotVoided, Rows, ChargeRow
<1>2. charge[c].amount \in Int /\ charge[c].amount <= MaxAmount /\ MaxAmount \in Int
  BY <1>1, MaxAmountAssumption DEF Amounts
<1>3. activeAllocated(ofCharge(c)) \in Nat
  <2>1. ofCharge(c) \in SUBSET NotVoided(allocation)
    BY DEF ofCharge
  <2> QED
    BY <2>1, ActiveFinite DEF Integrity
<1>4. chargeRemaining(c) >= 0
  BY DEF Integrity, ChargeNotOverpaid
<1>5. chargeRemaining(c) = charge[c].amount - activeAllocated(ofCharge(c))
  BY DEF chargeRemaining
<1>6. chargeRemaining(c) \in Amounts
  BY <1>2, <1>3, <1>4, <1>5 DEF Amounts
<1>7. needs[c] = chargeRemaining(c) /\ amounts(charge)[c] = charge[c].amount
  BY <1>1 DEF needs, amounts
<1>8. charge[c].amount = chargeRemaining(c) + activeAllocated(ofCharge(c))
  BY <1>2, <1>3, <1>5
<1> QED
  BY <1>1, <1>3, <1>6, <1>7, <1>8

(* A set of charges needs what it is of less what has been paid on it.     *)
LEMMA NeedsOf ==
  ASSUME Integrity, NEW own \in SUBSET NotVoided(charge)
  PROVE  /\ sumMoney(own, needs) =
              sumMoney(own, amounts(charge)) - activeAllocated(settledBy(own))
         /\ sumMoney(own, needs) \in Nat
<1> DEFINE paid(s) == activeAllocated(settledBy(s))
           good(s) == /\ sumMoney(s, amounts(charge)) = sumMoney(s, needs) + paid(s)
                      /\ paid(s) \in Nat
           F == {s \in SUBSET own : good(s)}
<1>1. IsFiniteSet(own)
  BY RowSets, FS_Subset DEF Integrity
<1>2. {} \in F
  <2>1. settledBy({}) = {}
    BY DEF settledBy
  <2>2. paid({}) = 0
    BY <2>1, SumEmpty DEF activeAllocated
  <2>3. sumMoney({}, amounts(charge)) = 0 /\ sumMoney({}, needs) = 0
    BY SumEmpty
  <2>4. good({})
    BY <2>2, <2>3
  <2> QED
    BY <2>4
<1>3. ASSUME NEW s \in SUBSET own, NEW x \in own \ s, s \in F
      PROVE  s \cup {x} \in F
  <2> DEFINE t == s \cup {x}
             A == settledBy(s)
  <2>1. IsFiniteSet(s) /\ x \notin s /\ x \in NotVoided(charge)
    BY <1>1, FS_Subset
  <2>2. /\ needs[x] \in Amounts /\ amounts(charge)[x] \in Amounts
        /\ activeAllocated(ofCharge(x)) \in Nat
        /\ amounts(charge)[x] = needs[x] + activeAllocated(ofCharge(x))
    BY <2>1, NeedsType
  <2>3. /\ sumMoney(t, needs) = sumMoney(s, needs) + needs[x]
        /\ sumMoney(s, needs) \in Nat /\ needs[x] \in Nat
    BY <2>1, <2>2, OneRowMore
  <2>4. /\ sumMoney(t, amounts(charge)) = sumMoney(s, amounts(charge)) + amounts(charge)[x]
        /\ sumMoney(s, amounts(charge)) \in Nat
    BY <2>1, <2>2, OneRowMore
  <2>5. /\ settledBy(t) = A \cup ofCharge(x)
        /\ A \cap ofCharge(x) = {}
        /\ A \subseteq NotVoided(allocation) /\ ofCharge(x) \subseteq NotVoided(allocation)
    BY <2>1 DEF settledBy, ofCharge
  <2> HIDE DEF A, t
  <2>6. IsFiniteSet(A) /\ IsFiniteSet(ofCharge(x))
    BY <2>5, ActiveFinite DEF Integrity
  <2>7. sumMoney(A \cup ofCharge(x), amounts(allocation)) =
          sumMoney(A, amounts(allocation)) + sumMoney(ofCharge(x), amounts(allocation))
    BY <2>5, <2>6, SumDisjointUnion
  <2>8. paid(t) = paid(s) + activeAllocated(ofCharge(x))
    BY <2>5, <2>7 DEF activeAllocated, A
  <2>9. good(s)
    BY <1>3
  <2> HIDE DEF paid
  <2>10. good(t)
    BY <2>2, <2>3, <2>4, <2>8, <2>9
  <2>11. t \in SUBSET own
    BY DEF t
  <2> QED
    BY <2>10, <2>11 DEF t
<1>4. own \in F
  <2> HIDE DEF F
  <2> QED
    BY <1>1, <1>2, <1>3, OneByOne
<1>5. good(own) /\ sumMoney(own, needs) \in Nat
  BY <1>1, <1>4, SumType
<1> QED
  BY <1>5

LEMMA RemainingIs ==
  ASSUME NEW own \in SUBSET NotVoided(charge)
  PROVE  remaining(own) = sumMoney(own, needs)
<1>1. \A c \in own : [d \in own |-> chargeRemaining(d)][c] = needs[c]
  BY DEF needs
<1> QED
  BY <1>1, SumCongruence DEF remaining

LEMMA DebtIs ==
  ASSUME Integrity, NEW ch \in Children, NEW cat
  PROVE  /\ debt(ch, cat) = sumMoney(ownCharges(ch, cat), needs)
         /\ debt(ch, cat) \in Nat
<1>1. ownCharges(ch, cat) \in SUBSET NotVoided(charge)
  BY DEF ownCharges
<1> QED
  BY <1>1, NeedsOf DEF debt, settledBy

LEMMA OverdueIsOwed ==
  ASSUME Integrity, NEW ch \in Children, NEW late,
         late \in [Categories -> SUBSET NotVoided(charge)],
         \A cat \in Categories : late[cat] \subseteq ownCharges(ch, cat)
  PROVE  Sums!SumFunction([cat \in Categories |-> remaining(late[cat])])
           \in 0..Sums!SumFunction([cat \in Categories |-> debt(ch, cat)])
<1> DEFINE f == [cat \in Categories |-> remaining(late[cat])]
           g == [cat \in Categories |-> debt(ch, cat)]
           z == [cat \in Categories |-> 0]
<1>1. ASSUME NEW cat \in Categories
      PROVE  f[cat] \in Nat /\ g[cat] \in Nat /\ f[cat] <= g[cat]
  <2> DEFINE own == ownCharges(ch, cat)
             some == late[cat]
  <2>1. some \in SUBSET own /\ own \in SUBSET NotVoided(charge) /\ IsFiniteSet(own)
    <3>1. own \in SUBSET NotVoided(charge)
      BY DEF ownCharges
    <3> QED
      BY <3>1, RowSets, FS_Subset DEF Integrity
  <2>2. f[cat] = remaining(some) /\ g[cat] = debt(ch, cat)
    OBVIOUS
  <2>3. debt(ch, cat) = sumMoney(own, needs) /\ debt(ch, cat) \in Nat
    BY DebtIs
  <2> HIDE DEF own, some
  <2>4. some \in SUBSET NotVoided(charge)
    BY <2>1
  <2>5. remaining(some) = sumMoney(some, needs) /\ sumMoney(some, needs) \in Nat
    BY <2>4, RemainingIs, NeedsOf
  <2>6. sumMoney(some, needs) <= sumMoney(own, needs)
    BY <2>1, SumMonotone
  <2> HIDE DEF f, g
  <2> QED
    BY <2>2, <2>3, <2>5, <2>6
<1>2. f \in [Categories -> Int] /\ g \in [Categories -> Int] /\ z \in [Categories -> Int]
  <2>1. /\ \A cat \in Categories : f[cat] \in Int /\ g[cat] \in Int
        /\ DOMAIN f = Categories /\ DOMAIN g = Categories
    BY <1>1
  <2> QED
    BY <2>1
<1>3. \A cat \in Categories : z[cat] = 0 /\ z[cat] <= f[cat] /\ f[cat] <= g[cat]
  BY <1>1
<1>4. Sums!SumFunction(z) <= Sums!SumFunction(f) /\ Sums!SumFunction(z) = 0
        /\ Sums!SumFunction(f) <= Sums!SumFunction(g)
  <2> HIDE DEF f, g, z
  <2> QED
    BY <1>2, <1>3, IdsAssumption, SumGrows, SumOfZeros
<1>5. Sums!SumFunction(f) \in Int /\ Sums!SumFunction(g) \in Int
  <2> HIDE DEF f, g
  <2> QED
    BY <1>2, IdsAssumption, SumInteger
<1> HIDE DEF z
<1>6. Sums!SumFunction(f) \in 0..Sums!SumFunction(g)
  <2> HIDE DEF f, g
  <2> QED
    BY <1>4, <1>5
<1> QED
  BY <1>6

LEMMA RowOfCategory ==
  ASSUME Integrity, NEW ch \in Children, NEW cat \in Categories
  PROVE  /\ balanceRow(ch, cat).totalDue = debt(ch, cat) - prepayment(ch, cat)
         /\ debt(ch, cat) \in Int /\ prepayment(ch, cat) \in Int
<1> DEFINE f == [c \in {cat} |-> debt(ch, c)]
           g == [c \in {cat} |-> prepayment(ch, c)]
<1>1. cat # None
  BY NoneAssumption
<1>2. balanceRow(ch, cat).totalDue = Sums!SumFunction(f) - Sums!SumFunction(g)
  BY <1>1 DEF balanceRow
<1>3. debt(ch, cat) \in Int /\ prepayment(ch, cat) \in Int
  <2>1. debt(ch, cat) \in Nat
    BY DebtIs
  <2>2. [c \in Categories |-> prepayment(ch, c)] \in [Categories -> Int]
    BY PrepaymentTotal
  <2>3. prepayment(ch, cat) = [c \in Categories |-> prepayment(ch, c)][cat]
    OBVIOUS
  <2> QED
    BY <2>1, <2>2, <2>3
<1>4. f \in [{cat} -> Int] /\ g \in [{cat} -> Int]
  BY <1>3
<1>5. f[cat] = debt(ch, cat) /\ g[cat] = prepayment(ch, cat)
  OBVIOUS
<1> HIDE DEF f, g
<1>6. Sums!SumFunction(f) = f[cat] /\ Sums!SumFunction(g) = g[cat]
  BY <1>4, SumOverOne
<1> QED
  BY <1>2, <1>3, <1>5, <1>6

LEMMA RowOfAll ==
  ASSUME NEW ch
  PROVE  /\ balanceRow(ch, None).debt =
              Sums!SumFunction([cat \in Categories |-> debt(ch, cat)])
         /\ balanceRow(ch, None).prepayment =
              Sums!SumFunction([cat \in Categories |-> prepayment(ch, cat)])
         /\ balanceRow(ch, None).unallocated = prepayment(ch, None)
         /\ balanceRow(ch, None).totalDue = totalDue(ch)
BY DEF balanceRow

LEMMA ViewsAgree == Integrity => BalancesAgree
<1> SUFFICES ASSUME Integrity, NEW ch \in Children
             PROVE  LET row == balanceRow(ch, None)
                        byCategory == [cat \in Categories |-> balanceRow(ch, cat).totalDue]
                    IN /\ row.totalDue = Sums!SumFunction(byCategory) - row.unallocated
                       /\ \A today \in Days :
                            LET money == childMoney(ch, today)
                            IN /\ money.due - money.prepayment = row.totalDue
                               /\ money.overdue \in 0..row.debt
  BY DEF BalancesAgree
<1> DEFINE f == [cat \in Categories |-> debt(ch, cat)]
           g == [cat \in Categories |-> prepayment(ch, cat)]
           b == [cat \in Categories |-> balanceRow(ch, cat).totalDue]
           row == balanceRow(ch, None)
<1>1. /\ row.debt = Sums!SumFunction(f)
      /\ row.unallocated = prepayment(ch, None)
      /\ row.totalDue = totalDue(ch)
  BY RowOfAll
<1>2. /\ totalDue(ch) = Sums!SumFunction(f) - Sums!SumFunction(g) - prepayment(ch, None)
      /\ prepayment(ch, None) \in Int
  BY PrepaymentTotal DEF totalDue
<1>3. f \in [Categories -> Int] /\ g \in [Categories -> Int]
  BY DebtTotal, PrepaymentTotal DEF TotalIs
<1>4. b = [cat \in Categories |-> f[cat] - g[cat]]
  BY RowOfCategory
<1>5. /\ Sums!SumFunction(b) = Sums!SumFunction(f) - Sums!SumFunction(g)
      /\ Sums!SumFunction(f) \in Int /\ Sums!SumFunction(g) \in Int
  <2> HIDE DEF f, g, b
  <2> QED
    BY <1>3, <1>4, IdsAssumption, SumDifference, SumInteger
<1>6. row.totalDue = Sums!SumFunction(b) - row.unallocated
  BY <1>1, <1>2, <1>5
<1>7. ASSUME NEW today \in Days
      PROVE  /\ childMoney(ch, today).due - childMoney(ch, today).prepayment = row.totalDue
             /\ childMoney(ch, today).overdue \in 0..row.debt
  <2> DEFINE late == [cat \in Categories |->
                        {c \in ownCharges(ch, cat) : isOverdue(c, today)}]
             o == [cat \in Categories |-> remaining(late[cat])]
             p == prepayment(ch, None)
  <2>1. /\ childMoney(ch, today).due = Sums!SumFunction(f)
        /\ childMoney(ch, today).prepayment = p + Sums!SumFunction(g)
    BY DEF childMoney
  <2>2. childMoney(ch, today).overdue = Sums!SumFunction(o)
    <3>1. o = [cat \in Categories |->
                 remaining({c \in ownCharges(ch, cat) : isOverdue(c, today)})]
      OBVIOUS
    <3> HIDE DEF o
    <3> QED
      BY <3>1 DEF childMoney
  <2>3. /\ late \in [Categories -> SUBSET NotVoided(charge)]
        /\ \A cat \in Categories : late[cat] \subseteq ownCharges(ch, cat)
    BY DEF ownCharges
  <2>4. Sums!SumFunction(o) \in 0..Sums!SumFunction(f)
    <3> HIDE DEF late
    <3> QED
      BY <2>3, OverdueIsOwed
  <2> DEFINE sf == Sums!SumFunction(f)
             sg == Sums!SumFunction(g)
  <2>5. row.totalDue = sf - sg - p /\ sf \in Int /\ sg \in Int /\ p \in Int
    BY <1>1, <1>2, <1>5
  <2>6. childMoney(ch, today).due = sf /\ childMoney(ch, today).prepayment = p + sg
    BY <2>1
  <2> HIDE DEF sf, sg, p, row
  <2>7. childMoney(ch, today).due - childMoney(ch, today).prepayment = row.totalDue
    BY <2>5, <2>6
  <2> QED
    BY <1>1, <2>2, <2>4, <2>7
<1> QED
  BY <1>6, <1>7

-----------------------------------------------------------------------------
(* The order of the charges                                                *)

LEMMA OlderOrder ==
  ASSUME NEW c \in Charges, NEW d \in Charges
  PROVE  /\ c # d => older(c, d) \/ older(d, c)
         /\ ~older(c, c)
         /\ older(c, d) => ~older(d, c)
BY OrderAssumption DEF older

LEMMA OldestOf ==
  ASSUME NEW S \in SUBSET Charges, S # {}
  PROVE  \E c \in S : \A d \in S \ {c} : older(c, d)
<1> DEFINE D == {Due[c] : c \in S}
<1>1. D \in SUBSET Nat /\ D # {}
  BY OrderAssumption
<1>2. PICK m \in D : \A n \in D : m <= n
  <2> HIDE DEF D
  <2> QED
    BY <1>1, LeastOf
<1> DEFINE T == {c \in S : Due[c] = m}
           E == {CreatedAt[c] : c \in T}
<1>3. E \in SUBSET Nat /\ E # {}
  BY <1>2, OrderAssumption
<1>4. PICK k \in E : \A n \in E : k <= n
  <2> HIDE DEF E
  <2> QED
    BY <1>3, LeastOf
<1>5. PICK c \in S : Due[c] = m /\ CreatedAt[c] = k
  BY <1>4
<1>6. ASSUME NEW d \in S \ {c} PROVE older(c, d)
  <2>1. /\ Due[c] \in Nat /\ Due[d] \in Nat /\ CreatedAt[c] \in Nat /\ CreatedAt[d] \in Nat
        /\ CreatedAt[c] # CreatedAt[d] /\ Due[c] <= Due[d]
    BY <1>2, <1>5, OrderAssumption
  <2>2. CASE Due[d] = m
    <3>1. CreatedAt[c] <= CreatedAt[d]
      BY <1>4, <1>5, <2>2
    <3> QED
      BY <1>5, <2>1, <2>2, <3>1 DEF older
  <2>3. CASE Due[d] # m
    BY <1>5, <2>1, <2>3 DEF older
  <2> QED
    BY <2>2, <2>3
<1> QED
  BY <1>6

InOrderOf(list, S) ==
  /\ list \in [1..Cardinality(S) -> S]
  /\ \A i, j \in 1..Cardinality(S) : i < j => older(list[i], list[j])

LEMMA OrderExists ==
  ASSUME NEW S \in SUBSET Charges
  PROVE  \E list : InOrderOf(list, S)
<1> DEFINE N == Cardinality(S)
           sorted(T) == \E list : InOrderOf(list, T)
           Good == {n \in 0..N : \A T \in SUBSET S : Cardinality(T) = n => sorted(T)}
<1>1. \A T \in SUBSET S : /\ IsFiniteSet(T) /\ Cardinality(T) \in Nat
                          /\ Cardinality(T) = 0 <=> T = {}
  BY IdsAssumption, FS_Subset, FS_CardinalityType, FS_EmptySet
<1>2. N \in Nat
  BY <1>1
<1>3. 0 \in Good
  <2>1. ASSUME NEW T \in SUBSET S, Cardinality(T) = 0 PROVE sorted(T)
    <3> DEFINE list == [i \in 1..Cardinality(T) |-> i]
    <3>1. 1..Cardinality(T) = {}
      BY <2>1
    <3>2. InOrderOf(list, T)
      BY <3>1 DEF InOrderOf
    <3> QED
      BY <3>2
  <2> HIDE DEF sorted
  <2> QED
    BY <1>2, <2>1
<1>4. ASSUME NEW n \in 1..N, n - 1 \in Good PROVE n \in Good
  <2>1. ASSUME NEW T \in SUBSET S, Cardinality(T) = n PROVE sorted(T)
    <3>1. T # {} /\ T \in SUBSET Charges /\ IsFiniteSet(T)
      BY <1>1, <2>1
    <3>2. PICK c \in T : \A d \in T \ {c} : older(c, d)
      BY <3>1, OldestOf
    <3> DEFINE R == T \ {c}
    <3>3. Cardinality(R) = n - 1 /\ R \in SUBSET S
      BY <2>1, <3>1, FS_RemoveElement
    <3>4. PICK rest : InOrderOf(rest, R)
      <4> HIDE DEF R
      <4> QED
        BY <1>4, <3>3
    <3> DEFINE list == [i \in 1..n |-> IF i = 1 THEN c ELSE rest[i - 1]]
    <3>5. \A i \in 1..(n - 1) : rest[i] \in R
      BY <3>3, <3>4 DEF InOrderOf
    <3>6. \A i, j \in 1..(n - 1) : i < j => older(rest[i], rest[j])
      BY <3>3, <3>4 DEF InOrderOf
    <3>7. list \in [1..n -> T]
      <4> SUFFICES ASSUME NEW i \in 1..n PROVE list[i] \in T
        OBVIOUS
      <4>1. i # 1 => i - 1 \in 1..(n - 1)
        OBVIOUS
      <4> QED
        BY <3>5, <4>1
    <3>8. ASSUME NEW i \in 1..n, NEW j \in 1..n, i < j
          PROVE  older(list[i], list[j])
      <4>1. j - 1 \in 1..(n - 1) /\ list[j] = rest[j - 1]
        BY <3>8
      <4>2. CASE i = 1
        BY <3>2, <3>5, <4>1, <4>2
      <4>3. CASE i # 1
        <5>1. i - 1 \in 1..(n - 1) /\ i - 1 < j - 1 /\ list[i] = rest[i - 1]
          BY <3>8, <4>3
        <5> QED
          BY <3>6, <4>1, <5>1
      <4> QED
        BY <4>2, <4>3
    <3>9. InOrderOf(list, T)
      <4> HIDE DEF list
      <4> QED
        BY <2>1, <3>7, <3>8 DEF InOrderOf
    <3> QED
      BY <3>9
  <2> HIDE DEF sorted
  <2> QED
    BY <2>1
<1>5. N \in Good
  <2> HIDE DEF Good, N
  <2> QED
    BY <1>2, <1>3, <1>4, UpTo
<1> QED
  BY <1>5

(* Sorting lists every charge once, each before those it goes before.      *)
LEMMA Sorted ==
  ASSUME NEW S \in SUBSET Charges
  PROVE  LET list == inOrder(S, older)
         IN  /\ InOrderOf(list, S)
             /\ \A i, j \in 1..Cardinality(S) : list[i] = list[j] => i = j
             /\ \A c \in S : \E i \in 1..Cardinality(S) : list[i] = c
<1> DEFINE list == inOrder(S, older)
           N == Cardinality(S)
<1>0. N \in Nat /\ IsFiniteSet(S)
  BY IdsAssumption, FS_Subset, FS_CardinalityType
<1>1. InOrderOf(list, S)
  <2>1. PICK q : InOrderOf(q, S)
    BY OrderExists
  <2>2. \E l \in [1..Cardinality(S) -> S] :
          \A i, j \in DOMAIN l : i < j => older(l[i], l[j])
    BY <2>1 DEF InOrderOf
  <2>3. /\ list \in [1..Cardinality(S) -> S]
        /\ \A i, j \in DOMAIN list : i < j => older(list[i], list[j])
    BY <2>2 DEF inOrder
  <2> HIDE DEF list
  <2> QED
    BY <2>3 DEF InOrderOf
<1> HIDE DEF list
<1>2. ASSUME NEW i \in 1..N, NEW j \in 1..N, list[i] = list[j] PROVE i = j
  <2>1. list[i] \in Charges /\ list[j] \in Charges
    BY <1>1 DEF InOrderOf
  <2>2. ~(i < j) /\ ~(j < i)
    BY <1>1, <1>2, <2>1, OlderOrder DEF InOrderOf
  <2> QED
    BY <1>0, <2>2
<1>3. list \in Injection(1..N, S)
  BY <1>1, <1>2 DEF InOrderOf, Injection, IsInjective
<1>4. IsFiniteSet(1..N) /\ Cardinality(1..N) = N
  BY <1>0, FS_Interval
<1>5. list \in Surjection(1..N, S)
  <2> HIDE DEF N
  <2>1. Cardinality(1..N) = Cardinality(S)
    BY <1>4 DEF N
  <2> QED
    BY <1>0, <1>3, <2>1, FS_Injection
<1>6. \A c \in S : \E i \in 1..N : list[i] = c
  BY <1>5 DEF Surjection
<1> QED
  BY <1>1, <1>2, <1>6 DEF list

-----------------------------------------------------------------------------
(* The loop of suggestAllocation                                           *)

(* All the charges of S, in order.                                         *)
Queue(list, S) ==
  /\ InOrderOf(list, S)
  /\ \A i, j \in 1..Cardinality(S) : list[i] = list[j] => i = j
  /\ \A c \in S : \E i \in 1..Cardinality(S) : list[i] = c

(* What the first k charges need.                                          *)
firstOf(list, k)  == {list[i] : i \in 1..k}
neededBy(list, k) == sumMoney(firstOf(list, k), needs)

(* What that leaves of an amount.                                          *)
rest(amount, needed) == IF needed >= amount THEN 0 ELSE amount - needed

leftAfter(left, open, amount, n) ==
  IF n = 0 THEN amount
  ELSE left[n-1] - Least(chargeRemaining(open[n]), left[n-1])

IsLeft(left, open, count, amount) ==
  left = [n \in 0..count |-> leftAfter(left, open, amount, n)]

Settled(suggestion, left, open, count) ==
  /\ DOMAIN suggestion.lines = 1..count
  /\ \A n \in 1..count :
       suggestion.lines[n] = [charge |-> open[n], amount |-> left[n-1] - left[n]]
  /\ suggestion.leftover = left[count]

LEMMA LeftExists ==
  ASSUME NEW open, NEW count \in Nat, NEW amount
  PROVE  \E left : /\ IsLeft(left, open, count, amount)
                   /\ Settled(settle(open, count, amount), left, open, count)
<1> DEFINE body(f, n) == leftAfter(f, open, amount, n)
           upTo(f, n) == \A m \in 0..n : f[m] = body(f, m)
           S == {n \in 0..count : \E f : upTo(f, n)}
<1>1. 0 \in S
  <2>1. upTo([m \in {0} |-> amount], 0)
    BY DEF leftAfter
  <2>2. 0 \in 0..count
    OBVIOUS
  <2> HIDE DEF upTo
  <2> QED
    BY <2>1, <2>2
<1>2. ASSUME NEW n \in 1..count, n - 1 \in S PROVE n \in S
  <2>1. PICK f : upTo(f, n - 1)
    BY <1>2
  <2> DEFINE g == [m \in 0..n |-> body(f, m)]
  <2>2. ASSUME NEW m \in 0..n PROVE g[m] = body(g, m)
    <3>1. CASE m = 0
      BY <3>1 DEF leftAfter
    <3>2. CASE m # 0
      <4>1. m - 1 \in 0..n - 1 /\ m - 1 \in 0..n
        BY <3>2
      <4>2. g[m - 1] = f[m - 1]
        BY <4>1, <2>1
      <4>3. g[m] = body(f, m)
        OBVIOUS
      <4> HIDE DEF g
      <4> QED
        BY <3>2, <4>2, <4>3 DEF leftAfter
    <3> QED
      BY <3>1, <3>2
  <2>3. upTo(g, n)
    <3> HIDE DEF g, body
    <3> QED
      BY <2>2
  <2> HIDE DEF upTo
  <2> QED
    BY <2>3
<1>3. count \in S
  <2> HIDE DEF S
  <2> QED
    BY <1>1, <1>2, UpTo
<1>4. PICK f : upTo(f, count)
  BY <1>3
<1> DEFINE g == [n \in 0..count |-> body(f, n)]
<1>5. IsLeft(g, open, count, amount)
  <2>1. \A n \in 0..count : g[n] = f[n]
    BY <1>4
  <2>2. ASSUME NEW n \in 0..count PROVE body(f, n) = body(g, n)
    <3>1. n # 0 => n - 1 \in 0..count
      OBVIOUS
    <3> HIDE DEF g
    <3> QED
      BY <2>1, <3>1 DEF leftAfter
  <2>3. g = [n \in 0..count |-> body(g, n)]
    <3> DEFINE h(n) == body(g, n)
    <3>1. \A n \in 0..count : body(f, n) = h(n)
      BY <2>2
    <3> HIDE DEF h
    <3>2. g = [n \in 0..count |-> h(n)]
      BY <3>1
    <3> QED
      BY <3>2 DEF h
  <2> QED
    BY <2>3 DEF IsLeft
<1> DEFINE left == CHOOSE l : IsLeft(l, open, count, amount)
<1>6. IsLeft(left, open, count, amount)
  BY <1>5
<1>7. settle(open, count, amount) =
        [lines |-> [n \in 1..count |->
                      [charge |-> open[n], amount |-> left[n-1] - left[n]]],
         leftover |-> left[count]]
  BY DEF settle, IsLeft, leftAfter
<1> HIDE DEF left
<1>8. Settled(settle(open, count, amount), left, open, count)
  BY <1>7 DEF Settled
<1> QED
  BY <1>6, <1>8

LEMMA NeededBy ==
  ASSUME Integrity, NEW S \in SUBSET NotVoided(charge), NEW list, Queue(list, S)
  PROVE  /\ neededBy(list, 0) = 0
         /\ \A k \in 1..Cardinality(S) :
              /\ neededBy(list, k) = neededBy(list, k - 1) + needs[list[k]]
              /\ neededBy(list, k - 1) \in Nat /\ neededBy(list, k) \in Nat
              /\ needs[list[k]] \in Nat
              /\ list[k] \in S /\ needs[list[k]] = chargeRemaining(list[k])
<1> DEFINE N == Cardinality(S)
<1>0. IsFiniteSet(S) /\ N \in Nat
  BY RowSets, FS_Subset, FS_CardinalityType DEF Integrity
<1>1. neededBy(list, 0) = 0
  <2>1. firstOf(list, 0) = {}
    BY DEF firstOf
  <2> QED
    BY <2>1, SumEmpty DEF neededBy
<1>2. ASSUME NEW k \in 1..N
      PROVE  /\ neededBy(list, k) = neededBy(list, k - 1) + needs[list[k]]
             /\ neededBy(list, k - 1) \in Nat /\ neededBy(list, k) \in Nat
             /\ needs[list[k]] \in Nat
             /\ list[k] \in S /\ needs[list[k]] = chargeRemaining(list[k])
  <2> DEFINE A == firstOf(list, k - 1)
             x == list[k]
  <2>1. k - 1 \in Nat /\ \A i \in 1..(k - 1) : i \in 1..N /\ i # k
    BY <1>0
  <2>2. \A i \in 1..N : list[i] \in S
    BY DEF Queue, InOrderOf
  <2>3. x \notin A
    BY <2>1 DEF firstOf, Queue
  <2>4. firstOf(list, k) = A \cup {x}
    <3>1. \A i : i \in 1..k <=> i \in 1..(k - 1) \/ i = k
      BY <1>0
    <3> QED
      BY <3>1 DEF firstOf
  <2>5. A \subseteq S /\ x \in S
    BY <2>1, <2>2 DEF firstOf
  <2> HIDE DEF A, x
  <2>6. IsFiniteSet(A) /\ needs[x] \in Amounts /\ needs[x] = chargeRemaining(x)
    BY <1>0, <2>5, NeedsType, FS_Subset
  <2>7. /\ sumMoney(A \cup {x}, needs) = sumMoney(A, needs) + needs[x]
        /\ sumMoney(A, needs) \in Nat /\ needs[x] \in Nat
    BY <2>3, <2>6, OneRowMore
  <2>8. /\ neededBy(list, k - 1) = sumMoney(A, needs)
        /\ neededBy(list, k) = sumMoney(A \cup {x}, needs)
    BY <2>4 DEF neededBy, A
  <2>9. /\ neededBy(list, k) = neededBy(list, k - 1) + needs[x]
        /\ neededBy(list, k - 1) \in Nat /\ neededBy(list, k) \in Nat
    BY <2>7, <2>8
  <2> QED
    BY <2>5, <2>6, <2>7, <2>9 DEF x
<1> QED
  BY <1>1, <1>2

(* After n charges, what the amount has over what they need is left.       *)
LEMMA LeftIs ==
  ASSUME Integrity, NEW S \in SUBSET NotVoided(charge), NEW list, Queue(list, S),
         NEW amount \in Nat, NEW left, IsLeft(left, list, Cardinality(S), amount)
  PROVE  \A k \in 0..Cardinality(S) : left[k] = rest(amount, neededBy(list, k))
<1> DEFINE N == Cardinality(S)
           G == {k \in 0..N : left[k] = rest(amount, neededBy(list, k))}
<1>0. N \in Nat
  BY RowSets, FS_Subset, FS_CardinalityType DEF Integrity
<1>1. 0 \in G
  <2>1. left[0] = amount
    BY <1>0 DEF IsLeft, leftAfter
  <2>2. neededBy(list, 0) = 0
    BY NeededBy
  <2> QED
    BY <1>0, <2>1, <2>2 DEF rest
<1>2. ASSUME NEW k \in 1..N, k - 1 \in G PROVE k \in G
  <2> DEFINE d == neededBy(list, k - 1)
             r == needs[list[k]]
             l == left[k - 1]
  <2>1. neededBy(list, k) = d + r /\ d \in Nat /\ r \in Nat /\ r = chargeRemaining(list[k])
    BY NeededBy
  <2>2. k \in 0..N /\ k # 0
    OBVIOUS
  <2>3. left[k] = leftAfter(left, list, amount, k)
    BY <2>2 DEF IsLeft
  <2>4. left[k] = l - Least(chargeRemaining(list[k]), l)
    BY <2>2, <2>3 DEF leftAfter
  <2>5. l = rest(amount, d)
    BY <1>2
  <2>6. left[k] = l - Least(r, l)
    BY <2>1, <2>4
  <2> HIDE DEF d, r, l
  <2>7. left[k] = rest(amount, d + r)
    BY <2>1, <2>5, <2>6 DEF Least, rest
  <2> QED
    BY <2>1, <2>2, <2>7
<1>3. 0..N \subseteq G
  <2> HIDE DEF G, N
  <2> QED
    BY <1>0, <1>1, <1>2, UpTo
<1> QED
  BY <1>3

(* What suggestAllocation returns.                                         *)
Suggests(suggestion, S, amount, list) ==
  /\ Queue(list, S)
  /\ DOMAIN suggestion.lines = 1..Cardinality(S)
  /\ \A k \in 1..Cardinality(S) :
       suggestion.lines[k] =
         [charge |-> list[k],
          amount |-> rest(amount, neededBy(list, k - 1))
                       - rest(amount, neededBy(list, k))]
  /\ suggestion.leftover = rest(amount, neededBy(list, Cardinality(S)))

LEMMA Suggested ==
  ASSUME Integrity, NEW own, NEW amount \in Nat
  PROVE  /\ openCharges(own) \in SUBSET NotVoided(charge)
         /\ \E list : Suggests(suggestAllocation(own, amount), openCharges(own), amount, list)
<1> DEFINE S == openCharges(own)
           N == Cardinality(S)
           list == inOrder(S, older)
<1>1. S \in SUBSET NotVoided(charge)
  BY DEF openCharges
<1>2. S \in SUBSET Charges /\ N \in Nat
  BY <1>1, RowSets, FS_Subset, FS_CardinalityType DEF Integrity
<1>3. Queue(list, S)
  <2> HIDE DEF S
  <2> QED
    BY <1>2, Sorted DEF Queue
<1>4. suggestAllocation(own, amount) = settle(list, N, amount)
  BY DEF suggestAllocation
<1> HIDE DEF S, list
<1>5. PICK left : /\ IsLeft(left, list, N, amount)
                  /\ Settled(settle(list, N, amount), left, list, N)
  BY <1>2, LeftExists
<1>6. \A k \in 0..N : left[k] = rest(amount, neededBy(list, k))
  BY <1>1, <1>3, <1>5, LeftIs
<1>7. Suggests(settle(list, N, amount), S, amount, list)
  <2>1. \A k \in 1..N : k \in 0..N /\ k - 1 \in 0..N
    BY <1>2
  <2>2. N \in 0..N
    BY <1>2
  <2> HIDE DEF N
  <2> QED
    BY <1>3, <1>5, <1>6, <2>1, <2>2 DEF Settled, Suggests, N
<1> QED
  BY <1>1, <1>4, <1>7 DEF S

-----------------------------------------------------------------------------
(* Oldest first                                                            *)

lineOf(list, amount, k) ==
  rest(amount, neededBy(list, k - 1)) - rest(amount, neededBy(list, k))

(* A charge gets what the older ones leave, up to what it needs.           *)
LEMMA LineIs ==
  ASSUME Integrity, NEW S \in SUBSET NotVoided(charge), NEW list, Queue(list, S),
         NEW amount \in Nat, NEW k \in 1..Cardinality(S)
  PROVE  /\ lineOf(list, amount, k) =
              (IF neededBy(list, k - 1) >= amount THEN 0
               ELSE Least(chargeRemaining(list[k]), amount - neededBy(list, k - 1)))
         /\ lineOf(list, amount, k) \in Nat
         /\ lineOf(list, amount, k) <= amount
         /\ lineOf(list, amount, k) <= chargeRemaining(list[k])
         /\ neededBy(list, k) < amount =>
              lineOf(list, amount, k) = chargeRemaining(list[k])
<1> DEFINE d == neededBy(list, k - 1)
           r == needs[list[k]]
<1>1. neededBy(list, k) = d + r /\ d \in Nat /\ r \in Nat /\ r = chargeRemaining(list[k])
  BY NeededBy
<1>2. lineOf(list, amount, k) = rest(amount, d) - rest(amount, d + r)
  BY <1>1 DEF lineOf
<1> HIDE DEF d, r
<1>3. /\ lineOf(list, amount, k) = IF d >= amount THEN 0 ELSE Least(r, amount - d)
      /\ lineOf(list, amount, k) \in Nat
      /\ lineOf(list, amount, k) <= amount
      /\ lineOf(list, amount, k) <= r
      /\ d + r < amount => lineOf(list, amount, k) = r
  BY <1>1, <1>2 DEF rest, Least
<1> QED
  BY <1>1, <1>3 DEF d

LEMMA SuggestedLine ==
  ASSUME NEW suggestion, NEW S, NEW amount, NEW list,
         Suggests(suggestion, S, amount, list), NEW k \in 1..Cardinality(S)
  PROVE  suggestion.lines[k] = [charge |-> list[k], amount |-> lineOf(list, amount, k)]
BY DEF Suggests, lineOf

(* What the older charges need, as due computes it.                        *)
LEMMA DueIs ==
  ASSUME Integrity, NEW own, NEW list, Queue(list, openCharges(own)),
         NEW amount \in Nat, NEW k \in 1..Cardinality(openCharges(own))
  PROVE  due(own, list[k], amount) = lineOf(list, amount, k)
<1> DEFINE S == openCharges(own)
           N == Cardinality(S)
           before == {d \in S : older(d, list[k])}
<1>1. S \in SUBSET NotVoided(charge) /\ S \in SUBSET Charges
  <2>1. S \in SUBSET NotVoided(charge)
    BY DEF openCharges
  <2> QED
    BY <2>1, RowSets DEF Integrity
<1>2. N \in Nat
  BY <1>1, RowSets, FS_Subset, FS_CardinalityType DEF Integrity
<1>3. before = firstOf(list, k - 1)
  <2>1. \A i \in 1..N : list[i] \in S /\ list[i] \in Charges
    BY <1>1 DEF Queue, InOrderOf
  <2>2. \A i, j \in 1..N : i < j => older(list[i], list[j])
    BY DEF Queue, InOrderOf
  <2>3. ASSUME NEW i \in 1..N PROVE older(list[i], list[k]) <=> i \in 1..(k - 1)
    <3>1. CASE i < k
      BY <1>2, <2>2, <3>1
    <3>2. CASE i = k
      BY <1>2, <2>1, <3>2, OlderOrder
    <3>3. CASE k < i
      <4>1. older(list[k], list[i]) /\ list[k] \in Charges /\ list[i] \in Charges
        BY <2>1, <2>2, <3>3
      <4>2. ~older(list[i], list[k])
        BY <4>1, OlderOrder
      <4> QED
        BY <1>2, <3>3, <4>2
    <3> QED
      BY <1>2, <3>1, <3>2, <3>3
  <2>4. \A i \in 1..(k - 1) : i \in 1..N
    BY <1>2
  <2>5. \A d \in S : \E i \in 1..N : list[i] = d
    BY DEF Queue
  <2> HIDE DEF S, N
  <2> QED
    BY <2>1, <2>3, <2>4, <2>5 DEF firstOf
<1>4. before \in SUBSET NotVoided(charge)
  BY <1>1
<1> DEFINE needed == sumMoney(before, amounts(charge))
                       - activeAllocated(UNION {ofCharge(d) : d \in before})
<1>5. due(own, list[k], amount) =
        IF needed >= amount THEN 0
        ELSE Least(chargeRemaining(list[k]), amount - needed)
  BY DEF due
<1>6. needed = neededBy(list, k - 1)
  <2> HIDE DEF before
  <2>1. sumMoney(before, needs) = needed
    BY <1>4, NeedsOf DEF settledBy
  <2> QED
    BY <1>3, <2>1 DEF neededBy
<1> HIDE DEF needed
<1>7. lineOf(list, amount, k) =
        IF neededBy(list, k - 1) >= amount THEN 0
        ELSE Least(chargeRemaining(list[k]), amount - neededBy(list, k - 1))
  <2> HIDE DEF S
  <2> QED
    BY <1>1, LineIs DEF S
<1> QED
  BY <1>5, <1>6, <1>7

LEMMA PaysOldestFirst == Integrity => OldestFirst
<1> SUFFICES ASSUME Integrity, NEW ch \in Children, NEW n \in Amounts
             PROVE  LET own == {c \in Rows(charge) : charge[c].child = ch}
                        suggestion == suggestAllocation(own, n)
                    IN  /\ {suggestion.lines[k] : k \in DOMAIN suggestion.lines} =
                             {[charge |-> c, amount |-> due(own, c, n)] :
                                c \in openCharges(own)}
                        /\ suggestion.leftover > 0 =>
                             \A k \in DOMAIN suggestion.lines :
                               suggestion.lines[k].amount =
                                 chargeRemaining(suggestion.lines[k].charge)
  BY DEF OldestFirst
<1> DEFINE own == {c \in Rows(charge) : charge[c].child = ch}
           suggestion == suggestAllocation(own, n)
           S == openCharges(own)
           N == Cardinality(S)
<1>1. n \in Nat
  BY MaxAmountAssumption DEF Amounts
<1> HIDE DEF own
<1>2. S \in SUBSET NotVoided(charge)
  BY <1>1, Suggested
<1>3. PICK list : Suggests(suggestion, S, n, list)
  BY <1>1, Suggested
<1>4. Queue(list, S) /\ DOMAIN suggestion.lines = 1..N
        /\ suggestion.leftover = rest(n, neededBy(list, N))
  BY <1>3 DEF Suggests
<1>5. N \in Nat /\ IsFiniteSet(S)
  BY <1>2, RowSets, FS_Subset, FS_CardinalityType DEF Integrity
<1>6. ASSUME NEW k \in 1..N
      PROVE  /\ suggestion.lines[k] = [charge |-> list[k], amount |-> due(own, list[k], n)]
             /\ suggestion.lines[k].charge = list[k]
             /\ suggestion.lines[k].amount = lineOf(list, n, k)
             /\ list[k] \in S
  <2>1. suggestion.lines[k] = [charge |-> list[k], amount |-> lineOf(list, n, k)]
    BY <1>3, SuggestedLine
  <2>2. due(own, list[k], n) = lineOf(list, n, k)
    BY <1>1, <1>4, DueIs
  <2>3. list[k] \in S
    BY <1>4 DEF Queue, InOrderOf
  <2> QED
    BY <2>1, <2>2, <2>3
<1>7. \A c \in S : \E k \in 1..N : list[k] = c
  BY <1>4 DEF Queue
<1> DEFINE got == {suggestion.lines[k] : k \in DOMAIN suggestion.lines}
           meant == {[charge |-> c, amount |-> due(own, c, n)] : c \in S}
<1>8. got = meant
  <2> DEFINE lines == suggestion.lines
             line(c) == [charge |-> c, amount |-> due(own, c, n)]
  <2>1. DOMAIN lines = 1..N /\ \A k \in 1..N : lines[k] = line(list[k]) /\ list[k] \in S
    BY <1>4, <1>6
  <2>2. \A k \in DOMAIN lines : lines[k] \in meant
    BY <2>1
  <2>3. ASSUME NEW c \in S PROVE line(c) \in got
    <3>1. PICK k \in 1..N : list[k] = c
      BY <1>7
    <3>2. lines[k] = line(c) /\ k \in DOMAIN lines
      BY <2>1, <3>1
    <3> HIDE DEF lines, line
    <3> QED
      BY <3>2 DEF lines
  <2> HIDE DEF suggestion, S, line
  <2> QED
    BY <2>2, <2>3 DEF line
<1>9. ASSUME suggestion.leftover > 0, NEW k \in 1..N
      PROVE  suggestion.lines[k].amount = chargeRemaining(suggestion.lines[k].charge)
  <2>1. neededBy(list, N) \in Nat /\ neededBy(list, k) \in Nat
    <3>1. N \in 1..N
      BY <1>5
    <3> HIDE DEF S
    <3> QED
      BY <1>2, <1>4, <3>1, NeededBy DEF S
  <2>2. neededBy(list, N) < n
    <3>1. ~(neededBy(list, N) >= n)
      BY <1>4, <1>9 DEF rest
    <3> QED
      BY <1>1, <2>1, <3>1
  <2>3. neededBy(list, k) <= neededBy(list, N)
    <3>1. firstOf(list, k) \in SUBSET firstOf(list, N)
      BY <1>5 DEF firstOf
    <3>2. firstOf(list, N) \in SUBSET S
      BY <1>6 DEF firstOf
    <3>3. IsFiniteSet(firstOf(list, N))
      BY <1>5, <3>2, FS_Subset
    <3> QED
      BY <3>1, <3>3, SumMonotone DEF neededBy
  <2>4. neededBy(list, k) < n
    BY <1>1, <2>1, <2>2, <2>3
  <2>5. lineOf(list, n, k) = chargeRemaining(list[k])
    <3> HIDE DEF S
    <3> QED
      BY <1>1, <1>2, <1>4, <2>4, LineIs DEF S
  <2> QED
    BY <1>6, <2>5
<1> QED
  BY <1>4, <1>8, <1>9 DEF own

-----------------------------------------------------------------------------
(* What is suggested is accepted                                           *)

(* The lines of more than zero among the first k.                          *)
applied(lines, k) == {lines[i] : i \in {m \in 1..k : lines[m].amount > 0}}

LEMMA AppliedTotal ==
  ASSUME Integrity, NEW S \in SUBSET NotVoided(charge), NEW n \in Amounts,
         NEW suggestion, NEW list, Suggests(suggestion, S, n, list),
         NEW L, applied(suggestion.lines, Cardinality(S)) \subseteq L
  PROVE  sumMoney(applied(suggestion.lines, Cardinality(S)),
                  [line \in L |-> line.amount]) <= n
<1> DEFINE N == Cardinality(S)
           lines == suggestion.lines
           f == [line \in L |-> line.amount]
           T(k) == applied(lines, k)
           left(k) == rest(n, neededBy(list, k))
           G == {k \in 0..N : /\ IsFiniteSet(T(k))
                              /\ sumMoney(T(k), f) + left(k) = n}
<1>0. N \in Nat /\ n \in Nat /\ n <= MaxAmount /\ MaxAmount \in Nat
  <2>1. N \in Nat
    BY RowSets, FS_Subset, FS_CardinalityType DEF Integrity
  <2> QED
    BY <2>1, MaxAmountAssumption DEF Amounts
<1>1. Queue(list, S)
  BY DEF Suggests
<1>2. ASSUME NEW k \in 1..N
      PROVE  /\ lines[k].charge = list[k]
             /\ lines[k].amount = lineOf(list, n, k)
             /\ lineOf(list, n, k) \in Nat /\ lineOf(list, n, k) <= n
             /\ lineOf(list, n, k) = left(k - 1) - left(k)
             /\ left(k - 1) \in Nat /\ left(k) \in Nat
  <2>1. lines[k] = [charge |-> list[k], amount |-> lineOf(list, n, k)]
    BY SuggestedLine
  <2>2. lineOf(list, n, k) \in Nat /\ lineOf(list, n, k) <= n
    BY <1>0, <1>1, LineIs
  <2>3. neededBy(list, k - 1) \in Nat /\ neededBy(list, k) \in Nat
    BY <1>1, NeededBy
  <2>4. left(k - 1) \in Nat /\ left(k) \in Nat
    BY <1>0, <2>3 DEF rest
  <2> QED
    BY <2>1, <2>2, <2>4 DEF lineOf
<1>3. 0 \in G
  <2>1. T(0) = {}
    BY DEF applied
  <2>2. IsFiniteSet(T(0)) /\ sumMoney(T(0), f) = 0
    <3> HIDE DEF f
    <3> QED
      BY <2>1, FS_EmptySet, SumEmpty
  <2>3. neededBy(list, 0) = 0
    BY <1>1, NeededBy
  <2>4. left(0) = n
    BY <1>0, <2>3 DEF rest
  <2> HIDE DEF T, left, f, N
  <2> QED
    BY <1>0, <2>2, <2>4
<1>4. ASSUME NEW k \in 1..N, k - 1 \in G PROVE k \in G
  <2> DEFINE A == T(k - 1)
             x == lines[k]
  <2>1. IsFiniteSet(A) /\ sumMoney(A, f) + left(k - 1) = n /\ k \in 0..N
    BY <1>4
  <2>2. /\ x.amount \in Nat /\ x.amount <= n /\ x.amount = left(k - 1) - left(k)
        /\ left(k - 1) \in Nat /\ left(k) \in Nat
    BY <1>2
  <2>3. sumMoney(A, f) \in Nat
    <3> HIDE DEF A, f
    <3> QED
      BY <2>1, SumType
  <2>4. CASE x.amount > 0
    <3>1. T(k) = A \cup {x}
      <4>1. \A i : i \in 1..k <=> i \in 1..(k - 1) \/ i = k
        BY <1>0
      <4> HIDE DEF lines
      <4> QED
        BY <2>4, <4>1 DEF applied
    <3>2. x \notin A
      <4>1. \A i \in 1..(k - 1) : i \in 1..N /\ i # k
        BY <1>0
      <4>2. \A i \in 1..(k - 1) : lines[i].charge # lines[k].charge
        BY <1>1, <1>2, <4>1 DEF Queue
      <4> QED
        BY <4>2 DEF applied
    <3>3. x \in L
      <4>1. x \in applied(lines, N)
        BY <2>4 DEF applied
      <4> QED
        BY <4>1
    <3>4. f[x] = x.amount /\ f[x] \in Amounts
      BY <1>0, <2>2, <3>3 DEF Amounts
    <3> HIDE DEF A, x, f, left
    <3>5. /\ sumMoney(A \cup {x}, f) = sumMoney(A, f) + f[x]
          /\ IsFiniteSet(A \cup {x})
      BY ZenonT(60), <2>1, <3>2, <3>4, OneRowMore, FS_AddElement
    <3>6. sumMoney(A \cup {x}, f) + left(k) = n
      BY <2>1, <2>2, <2>3, <3>4, <3>5
    <3>7. sumMoney(T(k), f) + left(k) = n /\ IsFiniteSet(T(k))
      BY <3>1, <3>5, <3>6
    <3> HIDE DEF T, N
    <3> QED
      BY <2>1, <3>7
  <2>5. CASE ~(x.amount > 0)
    <3>1. T(k) = A
      <4>1. \A i : i \in 1..k <=> i \in 1..(k - 1) \/ i = k
        BY <1>0
      <4> HIDE DEF lines
      <4> QED
        BY <2>5, <4>1 DEF applied
    <3>2. x.amount = 0
      BY <2>2, <2>5
    <3> HIDE DEF A, x, f, left
    <3>3. sumMoney(A, f) + left(k) = n
      BY <2>1, <2>2, <2>3, <3>2
    <3>4. sumMoney(T(k), f) + left(k) = n /\ IsFiniteSet(T(k))
      BY <2>1, <3>1, <3>3
    <3> HIDE DEF T, N
    <3> QED
      BY <2>1, <3>4
  <2> QED
    BY <2>4, <2>5
<1>5. N \in G
  <2>1. 0..N \subseteq G
    <3> HIDE DEF G, N
    <3> QED
      BY <1>0, <1>3, <1>4, UpTo
  <2> HIDE DEF G
  <2> QED
    BY <1>0, <2>1
<1>6. sumMoney(T(N), f) + left(N) = n /\ IsFiniteSet(T(N))
  BY <1>5
<1>7. left(N) \in Nat
  <2>1. neededBy(list, N) \in Nat
    <3>1. CASE N = 0
      BY <1>1, <3>1, NeededBy
    <3>2. CASE N # 0
      <4>1. N \in 1..N
        BY <1>0, <3>2
      <4> QED
        BY <1>1, <4>1, NeededBy
    <3> QED
      BY <3>1, <3>2
  <2> QED
    BY <1>0, <2>1 DEF rest
<1>8. sumMoney(T(N), f) \in Nat
  <2> HIDE DEF T, N, f
  <2> QED
    BY <1>6, SumType
<1>9. sumMoney(T(N), f) <= n
  <2> HIDE DEF T, N, f, left
  <2> QED
    BY <1>0, <1>6, <1>7, <1>8
<1> QED
  BY <1>9

LEMMA AcceptsCredit == Integrity => CreditIsAccepted
<1> SUFFICES ASSUME Integrity, NEW ch \in Children, NEW cat \in Categories,
                    NEW n \in 1..MaxAmount
             PROVE  LET row == [child |-> ch, category |-> cat, amount |-> n,
                                status |-> "confirmed", voided |-> FALSE]
                        lines == suggestAllocation(ownCharges(ch, cat), n).lines
                    IN  MayApply(row, n, [line \in positiveLines(lines) |-> line])
  BY DEF CreditIsAccepted
<1> DEFINE row == [child |-> ch, category |-> cat, amount |-> n,
                   status |-> "confirmed", voided |-> FALSE]
           own == ownCharges(ch, cat)
           suggestion == suggestAllocation(own, n)
           lines == suggestion.lines
           S == openCharges(own)
           N == Cardinality(S)
           L == positiveLines(lines)
           items == [line \in L |-> line]
<1>1. n \in Nat /\ n \in Amounts
  BY MaxAmountAssumption DEF Amounts
<1> HIDE DEF suggestion
<1>2. S \in SUBSET NotVoided(charge)
  BY <1>1, Suggested
<1>3. PICK list : Suggests(suggestion, S, n, list)
  BY <1>1, Suggested DEF suggestion
<1>4. Queue(list, S) /\ DOMAIN lines = 1..N
  BY <1>3 DEF Suggests
<1>5. ASSUME NEW k \in 1..N
      PROVE  /\ lines[k].charge = list[k] /\ list[k] \in S
             /\ lines[k].amount <= chargeRemaining(list[k])
  <2>1. lines[k] = [charge |-> list[k], amount |-> lineOf(list, n, k)]
    BY <1>3, SuggestedLine
  <2>2. lineOf(list, n, k) <= chargeRemaining(list[k])
    <3> HIDE DEF S
    <3> QED
      BY <1>1, <1>2, <1>4, LineIs DEF S
  <2>3. list[k] \in S
    BY <1>4 DEF Queue, InOrderOf
  <2> QED
    BY <2>1, <2>2, <2>3
<1> HIDE DEF S
<1>6. \A a \in L : \E k \in 1..N : a = lines[k] /\ lines[k].amount > 0
  BY <1>4 DEF positiveLines
<1>7. \A a, b \in L : a.charge = b.charge => a = b
  BY <1>4, <1>5, <1>6 DEF Queue
<1>8. ASSUME NEW a \in L PROVE a.amount > 0 /\ ItemAllowed(row, a)
  <2>1. PICK k \in 1..N : a = lines[k] /\ lines[k].amount > 0
    BY <1>6
  <2>2. a.charge \in S /\ a.amount <= chargeRemaining(a.charge)
    BY <1>5, <2>1
  <2>3. /\ charge[a.charge] # None /\ ~charge[a.charge].voided
        /\ charge[a.charge].child = ch /\ charge[a.charge].category = cat
    BY <2>2 DEF S, openCharges, ownCharges, NotVoided, Rows
  <2> HIDE DEF L
  <2> QED
    BY <2>1, <2>2, <2>3 DEF ItemAllowed
<1>9. sumMoney(L, [line \in L |-> line.amount]) <= n
  <2>1. applied(lines, N) = L
    BY <1>4 DEF applied, positiveLines
  <2> HIDE DEF L
  <2> QED
    BY <1>1, <1>2, <1>3, <2>1, AppliedTotal
<1>10. DOMAIN items = L /\ \A a \in L : items[a] = a
  OBVIOUS
<1>11. ItemAmounts(items) = [line \in L |-> line.amount]
  BY DEF ItemAmounts
<1> HIDE DEF L
<1>12. /\ \A a, b \in DOMAIN items : items[a].charge = items[b].charge => a = b
       /\ \A a \in DOMAIN items : items[a].amount > 0
       /\ \A a \in DOMAIN items : ItemAllowed(row, items[a])
  <2> HIDE DEF items, row
  <2> QED
    BY <1>7, <1>8, <1>10
<1>13. sumMoney(DOMAIN items, ItemAmounts(items)) <= n
  <2> HIDE DEF items
  <2> QED
    BY <1>9, <1>10, <1>11
<1>14. ~row.voided /\ row.status = "confirmed"
  OBVIOUS
<1>15. MayApply(row, n, items)
  <2> HIDE DEF row, items
  <2> QED
    BY <1>12, <1>13, <1>14 DEF MayApply
<1> QED
  BY <1>15 DEF L, suggestion

LEMMA NextSuggested == Integrity /\ [SuggestionNext]_vars => Integrity'
BY NextIntegrity, SuggestionStep

(* What suggestAllocation proposes is accepted by applyAllocations, and is *)
(* the oldest debts, paid off one after the other: for any number of       *)
(* charges, and any order in which they were entered and fall due.         *)
THEOREM SuggestionAccepted == SuggestionSpec => []SuggestionsHold
<1>1. Integrity => SuggestionsHold
  BY AcceptsCredit, PaysOldestFirst DEF SuggestionsHold
<1> QED
  BY InitIntegrity, NextSuggested, <1>1, PTL DEF SuggestionSpec

-----------------------------------------------------------------------------
(* The debtors                                                             *)

(* Who owes has a charge that is not paid.                                 *)
LEMMA NothingNeeded ==
  ASSUME NEW own, NEW amount, \A c \in own : amount[c] = 0
  PROVE  sumMoney(own, amount) = 0
<1>1. Units(own, amount) = {}
  <2>1. ASSUME NEW u \in Units(own, amount) PROVE FALSE
    <3>1. u[1] \in own /\ u[2] \in 1..MaxAmount /\ u[2] <= amount[u[1]]
      BY DEF Units
    <3>2. amount[u[1]] = 0
      BY <3>1
    <3> QED
      BY <3>1, <3>2
  <2> QED
    BY <2>1
<1> QED
  BY <1>1, FS_EmptySet DEF sumMoney

LEMMA DebtorHasOpenCharge ==
  ASSUME Integrity, NEW ch \in Children,
         Sums!SumFunction([cat \in Categories |-> debt(ch, cat)]) > 0
  PROVE  \E c \in NotVoided(charge) : charge[c].child = ch /\ chargeRemaining(c) > 0
<1> DEFINE f == [cat \in Categories |-> debt(ch, cat)]
<1>1. \A cat \in Categories : f[cat] \in Nat
  BY DebtIs
<1>2. f \in [Categories -> Int]
  BY <1>1
<1>3. PICK cat \in Categories : f[cat] # 0
  <2>1. SUFFICES ASSUME \A cat \in Categories : f[cat] = 0 PROVE FALSE
    OBVIOUS
  <2>2. Sums!SumFunction(f) = 0
    <3> HIDE DEF f
    <3> QED
      BY <1>2, <2>1, IdsAssumption, SumOfZeros
  <2>3. Sums!SumFunction(f) > 0
    OBVIOUS
  <2> HIDE DEF f
  <2> QED
    BY <2>2, <2>3
<1>4. sumMoney(ownCharges(ch, cat), needs) # 0
  BY <1>3, DebtIs
<1>5. PICK c \in ownCharges(ch, cat) : needs[c] # 0
  BY <1>4, NothingNeeded
<1>6. c \in NotVoided(charge) /\ charge[c].child = ch
  BY DEF ownCharges
<1>7. chargeRemaining(c) = needs[c] /\ needs[c] \in Nat
  BY <1>6, NeedsType, MaxAmountAssumption DEF Amounts
<1> QED
  BY <1>5, <1>6, <1>7

LEMMA FirstIsOldest ==
  ASSUME Integrity, NEW S \in SUBSET NotVoided(charge), S # {}, NEW list, Queue(list, S)
  PROVE  /\ 1 \in 1..Cardinality(S)
         /\ SetsExt!Min({chargeDay(c) : c \in S}) = Due[list[1]]
<1> DEFINE N == Cardinality(S)
           D == {chargeDay(c) : c \in S}
<1>1. N \in Nat /\ S \in SUBSET Charges
  BY RowSets, FS_Subset, FS_CardinalityType DEF Integrity
<1>2. PICK c \in S : TRUE
  OBVIOUS
<1>3. 1 \in 1..N
  <2>1. PICK i \in 1..N : list[i] = c
    BY DEF Queue
  <2> QED
    BY <1>1, <2>1
<1>4. list[1] \in S /\ list[1] \in Charges
  BY <1>1, <1>3 DEF Queue, InOrderOf
<1>5. ASSUME NEW d \in S PROVE Due[list[1]] <= Due[d]
  <2>1. PICK i \in 1..N : list[i] = d
    BY DEF Queue
  <2>2. Due[list[1]] \in Nat /\ Due[d] \in Nat
    BY <1>1, <1>4, OrderAssumption
  <2>3. CASE i = 1
    BY <2>1, <2>2, <2>3
  <2>4. CASE i # 1
    <3>1. 1 < i
      BY <1>1, <2>4
    <3>2. older(list[1], d)
      BY <1>3, <2>1, <3>1 DEF Queue, InOrderOf
    <3> QED
      BY <2>2, <3>2 DEF older
  <2> QED
    BY <2>3, <2>4
<1>6. Due[list[1]] \in D /\ \A x \in D : Due[list[1]] <= x
  BY <1>4, <1>5 DEF chargeDay
<1>7. \A x \in D : x \in Nat
  BY <1>1, OrderAssumption DEF chargeDay
<1> HIDE DEF D
<1>8. /\ SetsExt!Min(D) \in D
      /\ \A y \in D : SetsExt!Min(D) <= y
  BY <1>6 DEF SetsExt!Min
<1>9. SetsExt!Min(D) = Due[list[1]]
  BY <1>6, <1>7, <1>8
<1> QED
  BY <1>3, <1>9 DEF D

LEMMA DebtorsMatch == Integrity => DebtorsAgree
<1> SUFFICES ASSUME Integrity PROVE DebtorsAgree
  OBVIOUS
<1> DEFINE today == SetsExt!Max(Days)
           open(ch) == {c \in NotVoided(charge) : /\ charge[c].child = ch
                                                  /\ chargeRemaining(c) > 0}
           oldest(ch) == IF open(ch) = {} THEN None
                         ELSE SetsExt!Min({chargeDay(c) : c \in open(ch)})
           line(ch) == [child |-> ch, money |-> childMoney(ch, today),
                        oldest |-> oldest(ch)]
           report == debtsReport(today)
<1>1. report = {r \in {line(ch) : ch \in Children} : r.money.due > 0}
  BY DEF debtsReport
<1>2. \A ch \in Children : childMoney(ch, today).due = balanceRow(ch, None).debt
  BY RowOfAll DEF childMoney
<1>3. \A ch : /\ line(ch).child = ch /\ line(ch).oldest = oldest(ch)
              /\ line(ch).money.due = childMoney(ch, today).due
  OBVIOUS
<1>4. {r.child : r \in report} = getBalances(None)
  <2> HIDE DEF line, report
  <2>1. \A ch \in Children : balanceRow(ch, None).debt > 0 => line(ch) \in report
    BY <1>1, <1>2, <1>3
  <2>2. \A r \in report : /\ r.child \in Children
                          /\ balanceRow(r.child, None).debt > 0
    BY <1>1, <1>2, <1>3
  <2> DEFINE shown == {r.child : r \in report}
  <2>3. \A ch \in Children : balanceRow(ch, None).debt > 0 => ch \in shown
    BY <1>3, <2>1
  <2>4. \A ch \in shown : ch \in Children /\ balanceRow(ch, None).debt > 0
    BY <2>2
  <2> HIDE DEF shown
  <2> QED
    BY <2>3, <2>4 DEF getBalances, shown
<1>5. ASSUME NEW r \in report
      PROVE  LET own == {c \in Rows(charge) : charge[c].child = r.child}
             IN r.oldest = Due[suggestAllocation(own, 1).lines[1].charge]
  <2>1. PICK ch \in Children : r = line(ch) /\ r.money.due > 0
    BY <1>1
  <2> DEFINE own == {c \in Rows(charge) : charge[c].child = ch}
             S == open(ch)
             suggestion == suggestAllocation(own, 1)
  <2>2. r.child = ch /\ r.oldest = oldest(ch)
    BY <2>1
  <2>3. Sums!SumFunction([cat \in Categories |-> debt(ch, cat)]) > 0
    BY <2>1 DEF childMoney
  <2>4. S # {}
    BY <2>3, DebtorHasOpenCharge
  <2>5. openCharges(own) = S
    BY DEF openCharges, NotVoided
  <2>6. r.oldest = SetsExt!Min({chargeDay(c) : c \in S})
    BY <2>2, <2>4
  <2> HIDE DEF S, own
  <2>7. S \in SUBSET NotVoided(charge)
    BY DEF S
  <2>8. PICK list : Suggests(suggestion, S, 1, list)
    BY <2>5, Suggested
  <2>9. Queue(list, S)
    BY <2>8 DEF Suggests
  <2>10. 1 \in 1..Cardinality(S) /\ r.oldest = Due[list[1]]
    BY <2>4, <2>6, <2>7, <2>9, FirstIsOldest
  <2>11. suggestion.lines[1].charge = list[1]
    <3>1. suggestion.lines[1] = [charge |-> list[1], amount |-> lineOf(list, 1, 1)]
      <4> HIDE DEF suggestion
      <4> QED
        BY <2>8, <2>10, SuggestedLine
    <3> QED
      BY <3>1
  <2> QED
    BY <2>2, <2>10, <2>11 DEF own
<1> QED
  BY <1>4, <1>5 DEF DebtorsAgree

(* Whatever is charged, paid, allocated, credited and voided, every view   *)
(* of the ledger shows the same money (summarize, the balances page, the   *)
(* cabinet and the reports), for any children, categories and days.        *)
THEOREM ViewsAddUp == SuggestionSpec => []MoneyAddsUp
<1>1. Integrity => MoneyAddsUp
  BY NoMoneyLost, ViewsAgree, DebtorsMatch, ReportsShowAll DEF MoneyAddsUp
<1> QED
  BY InitIntegrity, NextSuggested, <1>1, PTL DEF SuggestionSpec

(* Crediting online payments keeps the integrity rules: the runs check     *)
(* them with these payments, TypeCorrect and LedgerIntegrity without.      *)
THEOREM CreditKeepsIntegrity ==
  SuggestionSpec => [](AllocationsMatch /\ NothingOverpaid)
BY CreditImplementsLedger, LedgerIntegrity

=============================================================================
