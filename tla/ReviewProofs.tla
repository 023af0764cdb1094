---------------------------- MODULE ReviewProofs ----------------------------
(***************************************************************************)
(* Proofs about Review: what getResourceRequest computes and changes, for  *)
(* every list of containers, and what the lists are that the programs make *)
(* of the pods of a file.                                                  *)
(*                                                                         *)
(* The functions are recursive.  A recursive function is the one chosen    *)
(* from all that satisfy its equation: that there is one is proved by      *)
(* induction, and after that the equation is all that is used of it.       *)
(***************************************************************************)
EXTENDS Review, FiniteSetTheorems, SequenceTheorems, WellFoundedInduction, TLAPS

-----------------------------------------------------------------------------
(* Recursion *)

(* Induction over a set of numbers.  The library states it for a predicate *)
(* that the provers cannot instantiate; from the fact that a non-empty set *)
(* of numbers has a least element it follows for sets.                     *)
LEMMA InductionUpTo ==
    ASSUME NEW n \in Nat, NEW S, 0 \in S, \A k \in 1..n : k - 1 \in S => k \in S
    PROVE  0..n \subseteq S
<1> DEFINE T == (0..n) \ S
           R == OpToRel(<, Nat)
<1> SUFFICES ASSUME T # {} PROVE FALSE
  OBVIOUS
<1>1. IsWellFoundedOn(R, Nat)
  BY NatLessThanWellFounded, Zenon
<1>2. T \subseteq Nat
  OBVIOUS
<1> HIDE DEF T, R
<1>3. PICK x \in T : \A y \in T : ~(<<y, x>> \in R)
  BY <1>1, <1>2, WFMin
<1>4. /\ x \in 1..n /\ x \in Nat /\ x - 1 \in Nat /\ x - 1 < x /\ x - 1 \in 0..n
      /\ x \notin S
  BY <1>2 DEF T
<1>5. <<x - 1, x>> \in R
  BY <1>4 DEF R, OpToRel
<1>6. x - 1 \in S
  BY <1>3, <1>4, <1>5 DEF T
<1> QED
  BY <1>4, <1>6

(* The partial results of getResourceRequest. *)
Partials(a, C) ==
    /\ a[0] = [containers |-> C, primary |-> [r \in Primary |-> Val(0)], scalar |-> <<>>]
    /\ \A i \in 1..Len(C) : a[i] = AddContainer(a[i - 1], i)

(* getResourceRequest computes what its loop does. *)
LEMMA RequestSteps ==
    ASSUME NEW C, Len(C) \in Nat
    PROVE  \E a : Partials(a, C) /\ getResourceRequest(C) = a[Len(C)]
<1> DEFINE n == Len(C)
           c == [containers |-> C, primary |-> [r \in Primary |-> Val(0)],
                 scalar |-> <<>>]
           F(g, m) == [i \in 0..m |-> IF i = 0 THEN c ELSE AddContainer(g[i - 1], i)]
           S == {m \in Nat : \E g : g = F(g, m)}
<1> HIDE DEF c, n
<1>0. n \in Nat
  BY DEF n
<1>1. 0 \in S
  <2> DEFINE g == [i \in 0..0 |-> c]
  <2>1. g = F(g, 0)
    OBVIOUS
  <2> QED
    BY <2>1
<1>2. ASSUME NEW m \in 1..n, m - 1 \in S
      PROVE  m \in S
  <2>1. PICK g : g = F(g, m - 1)
    BY <1>2
  <2> DEFINE h == [i \in 0..m |-> IF i = m THEN AddContainer(g[m - 1], m) ELSE g[i]]
  <2>2. m \in Nat /\ m # 0 /\ m - 1 \in 0..m
    BY <1>0
  <2>3. \A i \in 0..m : h[i] = IF i = 0 THEN c ELSE AddContainer(h[i - 1], i)
    <3> SUFFICES ASSUME NEW i \in 0..m
                 PROVE  h[i] = IF i = 0 THEN c ELSE AddContainer(h[i - 1], i)
      OBVIOUS
    <3>1. CASE i = 0
      BY <2>1, <2>2, <3>1
    <3>2. CASE i = m
      BY <2>2, <3>2
    <3>3. CASE i # 0 /\ i # m
      <4>1. i \in 1..(m - 1) /\ i \in 0..(m - 1) /\ i - 1 \in 0..(m - 1) /\ i - 1 # m
            /\ i - 1 \in 0..m
        BY <2>2, <3>3
      <4>2. g[i] = AddContainer(g[i - 1], i)
        BY <2>1, <3>3, <4>1
      <4>3. h[i] = g[i] /\ h[i - 1] = g[i - 1]
        BY <3>3, <4>1
      <4> QED
        BY <3>3, <4>2, <4>3
    <3> QED
      BY <3>1, <3>2, <3>3
  <2>4. h = F(h, m)
    BY <2>3
  <2> QED
    BY <2>2, <2>4
<1>3. n \in S
  <2> HIDE DEF S
  <2>1. 0..n \subseteq S
    BY <1>0, <1>1, <1>2, InductionUpTo
  <2> QED
    BY <1>0, <2>1
<1> DEFINE a == CHOOSE g : g = F(g, n)
<1>4. a = F(a, n)
  BY <1>3
<1>5. getResourceRequest(C) = a[n]
  BY DEF getResourceRequest, c, n
<1> HIDE DEF a
<1>6. \A i \in 1..n : a[i] = AddContainer(a[i - 1], i)
  BY <1>0, <1>4
<1>7. a[0] = c
  BY <1>0, <1>4
<1>8. Partials(a, C)
  BY <1>6, <1>7 DEF n, c, Partials
<1> QED
  BY <1>5, <1>8 DEF n

(* The partial results of FlattenSeq, for n lists. *)
Flattens(a, s, n) ==
    /\ a[1] = s[1]
    /\ \A i \in 2..n : a[i] = a[i - 1] \o s[i]
    /\ FlattenSeq(s) = a[n]

(* FlattenSeq puts one list after the other. *)
LEMMA FlattenSteps ==
    ASSUME NEW n \in Nat, n # 0, NEW s, Len(s) = n
    PROVE  \E a : Flattens(a, s, n)
<1> DEFINE F(g, m) == [i \in 1..m |-> IF i = 1 THEN s[i] ELSE g[i - 1] \o s[i]]
           S == {m \in Nat : \E g : g = F(g, m)}
<1>1. 0 \in S
  <2> DEFINE g == [i \in 1..0 |-> s]
  <2>1. g = F(g, 0)
    OBVIOUS
  <2> QED
    BY <2>1
<1>2. ASSUME NEW m \in 1..n, m - 1 \in S
      PROVE  m \in S
  <2>1. PICK g : g = F(g, m - 1)
    BY <1>2
  <2> DEFINE x == IF m = 1 THEN s[m] ELSE g[m - 1] \o s[m]
             h == [i \in 1..m |-> IF i = m THEN x ELSE g[i]]
  <2>2. m \in Nat /\ m # 0
    OBVIOUS
  <2>3. \A i \in 1..m : h[i] = IF i = 1 THEN s[i] ELSE h[i - 1] \o s[i]
    <3> SUFFICES ASSUME NEW i \in 1..m
                 PROVE  h[i] = IF i = 1 THEN s[i] ELSE h[i - 1] \o s[i]
      OBVIOUS
    <3>1. CASE i = m
      <4>1. m # 1 => m - 1 \in 1..m /\ m - 1 # m
        OBVIOUS
      <4> QED
        BY <3>1, <4>1
    <3>2. CASE i # m
      <4>1. i \in 1..(m - 1)
        BY <3>2
      <4>2. i # 1 => i - 1 \in 1..m /\ i - 1 # m
        BY <2>2
      <4>3. g[i] = IF i = 1 THEN s[i] ELSE g[i - 1] \o s[i]
        BY <2>1, <4>1
      <4>4. h[i] = g[i] /\ (i # 1 => h[i - 1] = g[i - 1])
        BY <3>2, <4>2
      <4> QED
        BY <4>3, <4>4
    <3> QED
      BY <3>1, <3>2
  <2> HIDE DEF h
  <2>4. DOMAIN h = 1..m /\ h = [i \in 1..m |-> h[i]]
    BY DEF h
  <2>5. h = F(h, m)
    BY <2>3, <2>4
  <2> QED
    BY <2>2, <2>5
<1>3. n \in S
  <2> HIDE DEF S
  <2>1. 0..n \subseteq S
    BY <1>1, <1>2, InductionUpTo
  <2> QED
    BY <2>1
<1> DEFINE a == CHOOSE g : g = F(g, n)
<1>4. a = F(a, n)
  BY <1>3
<1>5. FlattenSeq(s) = a[n]
  BY DEF FlattenSeq
<1> HIDE DEF a
<1>6. a[1] = s[1] /\ \A i \in 2..n : a[i] = a[i - 1] \o s[i]
  <2>1. \A i \in 1..n : a[i] = IF i = 1 THEN s[i] ELSE a[i - 1] \o s[i]
    BY <1>4, Zenon
  <2>2. 1 \in 1..n /\ \A i \in 2..n : i \in 1..n /\ i # 1
    OBVIOUS
  <2> QED
    BY <2>1, <2>2, Zenon
<1> QED
  BY <1>5, <1>6 DEF Flattens

-----------------------------------------------------------------------------
(* Sums *)

(* g has the sums over the subsets of D, made an element at a time. *)
IsSum(g, f, D) ==
    g = [T \in SUBSET D |->
           IF T = {} THEN 0 ELSE f[CHOOSE x \in T : TRUE] + g[T \ {CHOOSE x \in T : TRUE}]]

(* SumFunctionOnSet, too, computes what it is defined to. *)
LEMMA SumExists ==
    ASSUME NEW D, IsFiniteSet(D), NEW f
    PROVE  /\ SumFunctionOnSet(f, D) = (CHOOSE g : IsSum(g, f, D))[D]
           /\ IsSum(CHOOSE g : IsSum(g, f, D), f, D)
<1> DEFINE Pick(T) == CHOOSE x \in T : TRUE
           Small(m) == {T \in SUBSET D : Cardinality(T) <= m}
           F(g, m) == [T \in Small(m) |->
                         IF T = {} THEN 0 ELSE f[Pick(T)] + g[T \ {Pick(T)}]]
           n == Cardinality(D)
           S == {m \in Nat : \E g : g = F(g, m)}
<1>1. /\ n \in Nat
      /\ \A T \in SUBSET D : /\ IsFiniteSet(T)
                             /\ Cardinality(T) \in Nat /\ Cardinality(T) <= n
                             /\ Cardinality(T) = 0 => T = {}
  BY FS_Subset, FS_CardinalityType, FS_EmptySet
<1>2. \A T \in SUBSET D :
         T # {} => /\ Pick(T) \in T
                   /\ T \ {Pick(T)} \in SUBSET D
                   /\ Cardinality(T \ {Pick(T)}) = Cardinality(T) - 1
  <2> SUFFICES ASSUME NEW T \in SUBSET D, T # {}
               PROVE  /\ Pick(T) \in T
                      /\ Cardinality(T \ {Pick(T)}) = Cardinality(T) - 1
    OBVIOUS
  <2>1. Pick(T) \in T
    OBVIOUS
  <2> HIDE DEF Pick
  <2>2. IsFiniteSet(T)
    BY <1>1, Zenon
  <2> QED
    BY <2>1, <2>2, FS_RemoveElement
<1> HIDE DEF Pick, n
<1>3. 0 \in S
  <2> DEFINE g == [T \in Small(0) |-> 0]
  <2>1. \A T \in Small(0) : T = {}
    <3> SUFFICES ASSUME NEW T \in SUBSET D, Cardinality(T) <= 0
                 PROVE  T = {}
      OBVIOUS
    <3>1. Cardinality(T) \in Nat /\ (Cardinality(T) = 0 => T = {})
      BY <1>1, Zenon
    <3> QED
      BY <3>1
  <2>2. g = F(g, 0)
    BY <2>1
  <2> QED
    BY <2>2
<1>4. ASSUME NEW m \in 1..n, m - 1 \in S
      PROVE  m \in S
  <2>1. PICK g : g = F(g, m - 1)
    BY <1>4
  <2> DEFINE h == [T \in Small(m) |-> IF T \in Small(m - 1) THEN g[T]
                                      ELSE f[Pick(T)] + g[T \ {Pick(T)}]]
  <2>2. m \in Nat /\ m # 0 /\ m - 1 \in Nat
    BY <1>1
  <2>3. \A T \in Small(m) : T # {} => T \ {Pick(T)} \in Small(m - 1)
    <3> SUFFICES ASSUME NEW T \in SUBSET D, Cardinality(T) <= m, T # {}
                 PROVE  /\ T \ {Pick(T)} \in SUBSET D
                        /\ Cardinality(T \ {Pick(T)}) <= m - 1
      OBVIOUS
    <3>1. /\ Cardinality(T) \in Nat /\ T \ {Pick(T)} \in SUBSET D
          /\ Cardinality(T \ {Pick(T)}) = Cardinality(T) - 1
      BY <1>1, <1>2, Zenon
    <3> QED
      BY <2>2, <3>1
  <2>4. Small(m - 1) \subseteq Small(m) /\ {} \in Small(m - 1)
    BY <1>1, <2>2, FS_EmptySet
  <2> HIDE DEF Small
  <2>5. \A T \in Small(m) :
          h[T] = IF T = {} THEN 0 ELSE f[Pick(T)] + h[T \ {Pick(T)}]
    BY <2>1, <2>3, <2>4
  <2>6. h = F(h, m)
    BY <2>5
  <2> QED
    BY <2>2, <2>6
<1>5. n \in S
  <2> HIDE DEF S
  <2>1. 0..n \subseteq S
    BY <1>1, <1>3, <1>4, InductionUpTo
  <2> QED
    BY <1>1, <2>1
<1>6. Small(n) = SUBSET D
  BY <1>1
<1>7. \E g : IsSum(g, f, D)
  BY <1>5, <1>6 DEF IsSum, Pick
<1>8. IsSum(CHOOSE g : IsSum(g, f, D), f, D)
  BY <1>7
<1>9. SumFunctionOnSet(f, D) = (CHOOSE g : IsSum(g, f, D))[D]
  BY DEF SumFunctionOnSet, FoldFunctionOnSet, MapThenFoldSet, IsSum
<1> QED
  BY <1>8, <1>9

(* The sums, with any element taken first. *)
AddsUp(g, f, D) ==
    /\ g[{}] = 0
    /\ \A T \in SUBSET D : /\ g[T] \in Int
                           /\ \A x \in T : g[T] = f[x] + g[T \ {x}]

(* In a sum of numbers any element may be taken first. *)
LEMMA SumInAnyOrder ==
    ASSUME NEW D, IsFiniteSet(D), NEW f \in [D -> Int], NEW g, IsSum(g, f, D)
    PROVE  AddsUp(g, f, D)
<1> DEFINE Pick(T) == CHOOSE x \in T : TRUE
           Q(T) == g[T] \in Int /\ \A x \in T : g[T] = f[x] + g[T \ {x}]
           n == Cardinality(D)
           S == {m \in Nat : \A T \in SUBSET D : Cardinality(T) <= m => Q(T)}
<1>1. /\ n \in Nat
      /\ \A T \in SUBSET D : /\ IsFiniteSet(T)
                             /\ Cardinality(T) \in Nat /\ Cardinality(T) <= n
                             /\ Cardinality(T) = 0 => T = {}
  BY FS_Subset, FS_CardinalityType, FS_EmptySet
<1>2. \A T \in SUBSET D : \A x \in T : Cardinality(T \ {x}) = Cardinality(T) - 1
  <2> SUFFICES ASSUME NEW T \in SUBSET D, NEW x \in T
               PROVE  Cardinality(T \ {x}) = Cardinality(T) - 1
    OBVIOUS
  <2>1. IsFiniteSet(T)
    BY <1>1, Zenon
  <2> QED
    BY <2>1, FS_RemoveElement
<1>3. g[{}] = 0 /\ \A T \in SUBSET D : T # {} => g[T] = f[Pick(T)] + g[T \ {Pick(T)}]
  BY DEF IsSum
<1>4. \A T : T # {} => Pick(T) \in T
  OBVIOUS
<1> HIDE DEF Pick, n
<1>5. Q({})
  BY <1>3
<1>6. 0 \in S
  <2> SUFFICES ASSUME NEW T \in SUBSET D, Cardinality(T) <= 0
               PROVE  Q(T)
    OBVIOUS
  <2>1. Cardinality(T) \in Nat /\ (Cardinality(T) = 0 => T = {})
    BY <1>1, Zenon
  <2>2. T = {}
    BY <2>1
  <2> QED
    BY <1>5, <2>2
<1>7. ASSUME NEW m \in 1..n, m - 1 \in S
      PROVE  m \in S
  <2>0. m \in Nat
    BY <1>1
  <2> SUFFICES ASSUME NEW T \in SUBSET D, Cardinality(T) <= m, T # {}
               PROVE  Q(T)
    <3> HIDE DEF Q
    <3> QED
      BY <1>5, <2>0
  <2> DEFINE y == Pick(T)
  <2>1. y \in T /\ y \in D /\ f[y] \in Int /\ g[T] = f[y] + g[T \ {y}]
    BY <1>3, <1>4
  <2> HIDE DEF y
  <2>2. \A x \in T : Q(T \ {x})
    <3> SUFFICES ASSUME NEW x \in T PROVE Q(T \ {x})
      OBVIOUS
    <3>1. Cardinality(T) \in Nat /\ Cardinality(T \ {x}) = Cardinality(T) - 1
      BY <1>1, <1>2, Zenon
    <3>2. Cardinality(T \ {x}) <= m - 1
      BY <1>1, <3>1
    <3>3. T \ {x} \in SUBSET D
      OBVIOUS
    <3> HIDE DEF Q
    <3> QED
      BY <1>7, <3>2, <3>3
  <2>3. g[T] \in Int
    <3> DEFINE a == f[y]
               b == g[T \ {y}]
    <3>1. a \in Int /\ b \in Int
      BY <2>1, <2>2
    <3>2. g[T] = a + b
      BY <2>1
    <3> HIDE DEF a, b
    <3> QED
      BY <3>1, <3>2
  <2>4. ASSUME NEW x \in T
        PROVE  g[T] = f[x] + g[T \ {x}]
    <3>1. CASE x = y
      BY <2>1, <3>1
    <3>2. CASE x # y
      <4>1. g[T \ {y}] = f[x] + g[(T \ {y}) \ {x}]
        BY <2>1, <2>2, <3>2
      <4>2. g[T \ {x}] = f[y] + g[(T \ {x}) \ {y}]
        BY <2>1, <2>2, <3>2
      <4>3. (T \ {y}) \ {x} = (T \ {x}) \ {y}
        OBVIOUS
      <4>4. (T \ {x}) \ {y} \in SUBSET D /\ y \in T \ {x} /\ x \in D /\ f[x] \in Int
        BY <2>1, <3>2
      <4>5. g[(T \ {x}) \ {y}] \in Int
        <5>1. Cardinality(T) \in Nat /\ Cardinality(T \ {x}) = Cardinality(T) - 1
          BY <1>1, <1>2, Zenon
        <5>2. T \ {x} \in SUBSET D
          OBVIOUS
        <5>3. Cardinality((T \ {x}) \ {y}) = Cardinality(T \ {x}) - 1
          BY <1>2, <4>4, <5>2, Zenon
        <5>4. Cardinality((T \ {x}) \ {y}) <= m - 1
          BY <1>1, <5>1, <5>3
        <5>5. Q((T \ {x}) \ {y})
          <6> HIDE DEF Q
          <6> QED
            BY <1>7, <4>4, <5>4
        <5> QED
          BY <5>5
      <4> DEFINE a == g[T]
                 b == g[T \ {x}]
                 c == g[T \ {y}]
                 d == g[(T \ {x}) \ {y}]
                 u == f[x]
                 v == f[y]
      <4>6. a = v + c /\ c = u + d /\ b = v + d /\ u \in Int /\ v \in Int /\ d \in Int
        BY <2>1, <4>1, <4>2, <4>3, <4>4, <4>5
      <4> HIDE DEF a, b, c, d, u, v
      <4>7. a = u + b
        BY <4>6
      <4> QED
        BY <4>7 DEF a, b, u
    <3> QED
      BY <3>1, <3>2
  <2> QED
    BY <2>3, <2>4
<1>8. n \in S
  <2> HIDE DEF S
  <2>1. 0..n \subseteq S
    BY <1>1, <1>6, <1>7, InductionUpTo
  <2> QED
    BY <1>1, <2>1
<1>9. \A T \in SUBSET D : Q(T)
  <2> HIDE DEF Q
  <2> QED
    BY <1>1, <1>8
<1> QED
  BY <1>3, <1>9 DEF AddsUp

(* SumFunction adds up a sequence of numbers from its first to its last. *)
LEMMA SumSteps ==
    ASSUME NEW n \in Nat, NEW f \in [1..n -> Int]
    PROVE  \E s \in [0..n -> Int] : /\ s[0] = 0
                                    /\ \A i \in 1..n : s[i] = s[i - 1] + f[i]
                                    /\ SumFunction(f) = s[n]
<1> DEFINE D == 1..n
           g == CHOOSE g : IsSum(g, f, D)
           s == [i \in 0..n |-> g[1..i]]
<1>1. IsFiniteSet(D)
  BY FS_Interval
<1>2. SumFunction(f) = g[D] /\ IsSum(g, f, D)
  BY <1>1, SumExists DEF SumFunction
<1> HIDE DEF g
<1>3. /\ g[{}] = 0
      /\ \A T \in SUBSET D : /\ g[T] \in Int
                             /\ \A x \in T : g[T] = f[x] + g[T \ {x}]
  <2>1. f \in [D -> Int]
    OBVIOUS
  <2>2. AddsUp(g, f, D)
    <3> HIDE DEF D
    <3> QED
      BY <1>1, <1>2, <2>1, SumInAnyOrder
  <2> QED
    BY <2>2, Zenon DEF AddsUp
<1>4. \A i \in 0..n : 1..i \in SUBSET D
  OBVIOUS
<1>5. s \in [0..n -> Int]
  BY <1>3, <1>4
<1>6. s[0] = 0
  <2>1. 1..0 = {}
    OBVIOUS
  <2> QED
    BY <1>3, <2>1
<1>7. ASSUME NEW i \in 1..n
      PROVE  s[i] = s[i - 1] + f[i]
  <2>1. /\ i \in 0..n /\ i - 1 \in 0..n /\ i \in 1..i
        /\ (1..i) \ {i} = 1..(i - 1)
    OBVIOUS
  <2>2. g[1..i] = f[i] + g[(1..i) \ {i}] /\ g[1..(i - 1)] \in Int
    BY <1>3, <1>4, <2>1
  <2>3. f[i] \in Int
    OBVIOUS
  <2>4. s[i] = g[1..i] /\ s[i - 1] = g[1..(i - 1)]
    BY <2>1
  <2>5. s[i] = f[i] + s[i - 1] /\ s[i - 1] \in Int
    BY <2>1, <2>2, <2>4
  <2> HIDE DEF s
  <2> QED
    BY <2>3, <2>5
<1>8. SumFunction(f) = s[n]
  BY <1>2
<1> HIDE DEF s
<1> QED
  BY <1>5, <1>6, <1>7, <1>8

(* The sum over at most one number. *)
LEMMA SumOfOne ==
    ASSUME NEW f, NEW v
    PROVE  /\ DOMAIN f = {} => SumFunction(f) = 0
           /\ DOMAIN f = {v} /\ f[v] \in Int => SumFunction(f) = f[v]
<1>1. ASSUME DOMAIN f = {}
      PROVE  SumFunction(f) = 0
  <2> DEFINE g == CHOOSE g : IsSum(g, f, {})
  <2>1. SumFunction(f) = g[{}] /\ IsSum(g, f, {})
    BY <1>1, SumExists, FS_EmptySet DEF SumFunction
  <2> HIDE DEF g
  <2>2. {} \in SUBSET {}
    OBVIOUS
  <2> QED
    BY <2>1, <2>2 DEF IsSum
<1>2. ASSUME DOMAIN f = {v}, f[v] \in Int
      PROVE  SumFunction(f) = f[v]
  <2> DEFINE D == {v}
             g == CHOOSE g : IsSum(g, f, D)
  <2>1. IsFiniteSet(D)
    BY FS_Singleton
  <2>2. SumFunction(f) = g[D] /\ IsSum(g, f, D)
    BY <1>2, <2>1, SumExists DEF SumFunction
  <2> HIDE DEF g
  <2>3. (CHOOSE x \in D : TRUE) = v /\ D \ {v} = {} /\ D # {} /\ {} \in SUBSET D
        /\ D \in SUBSET D
    OBVIOUS
  <2>4. g[{}] = 0
    BY <2>2, <2>3 DEF IsSum
  <2>5. g[D] = f[v] + g[{}]
    <3> HIDE DEF D
    <3> QED
      BY <2>2, <2>3 DEF IsSum
  <2> QED
    BY <1>2, <2>2, <2>4, <2>5
<1> QED
  BY <1>1, <1>2

-----------------------------------------------------------------------------
(* What the sums are made of *)

(* The same resources in the same containers, kept in the same way. *)
SameShape(C, D) ==
    /\ DOMAIN C = DOMAIN D
    /\ \A i \in DOMAIN D : /\ DOMAIN C[i] = DOMAIN D[i]
                           /\ \A r \in DOMAIN D[i] : C[i][r].kind = D[i][r].kind

(* A sum is a number, or refers to a container that requests the resource. *)
IsSumOf(x, C, r) ==
    /\ x.val \in Int
    /\ x.at = 0 \/ (x.at \in DOMAIN C /\ r \in DOMAIN C[x.at])

(* What the loop of getResourceRequest has, started with the containers C. *)
Accumulates(b, C) ==
    /\ IsContainers(b.containers)
    /\ SameShape(b.containers, C)
    /\ \A r \in Primary : IsSumOf(b.primary[r], C, r)

(* Then what it stands for is a number. *)
LEMMA AmountIsInt ==
    ASSUME NEW C, NEW D, IsContainers(D), SameShape(D, C), NEW r, NEW x, IsSumOf(x, C, r)
    PROVE  Amount(x, D, r) \in Int
  BY DEF IsContainers, SameShape, IsSumOf, Amount, Quantity

(* Replacing one element of a list leaves a list. *)
LEMMA ReplaceInList ==
    ASSUME NEW s, s \in Seq(ToSet(s)), NEW i \in DOMAIN s, NEW x
    PROVE  LET t == [s EXCEPT ![i] = x] IN
           /\ t \in Seq(ToSet(t)) /\ DOMAIN t = DOMAIN s /\ t[i] = x
           /\ \A j \in DOMAIN s : j # i => t[j] = s[j]
<1> DEFINE t == [s EXCEPT ![i] = x]
           n == Len(s)
<1>1. n \in Nat /\ DOMAIN s = 1..n
  BY LenProperties
<1>2. /\ DOMAIN t = 1..n /\ t[i] = x
      /\ \A j \in DOMAIN s : j # i => t[j] = s[j]
  BY <1>1
<1>3. t = [j \in 1..n |-> t[j]]
  BY <1>1
<1> HIDE DEF t, n
<1>4. t \in [1..n -> ToSet(t)]
  BY <1>2, <1>3 DEF ToSet
<1>5. t \in Seq(ToSet(t))
  BY <1>1, <1>4
<1> QED
  BY <1>1, <1>2, <1>5 DEF t

(* One container more. *)
LEMMA AddTyped ==
    ASSUME NEW C, NEW b, Accumulates(b, C), NEW i \in DOMAIN C
    PROVE  Accumulates(AddContainer(b, i), C)
<1> DEFINE D == b.containers
           c == D[i]
           Sum(r) == c[r].val + Amount(b.primary[r], D, r)
           Own(r) == r \in Primary /\ InPlace(c[r])
           e == [r \in DOMAIN c |-> IF Own(r) THEN [c[r] EXCEPT !.val = Sum(r)] ELSE c[r]]
           D2 == [D EXCEPT ![i] = e]
           p2 == [r \in Primary |->
                    IF r \notin DOMAIN c THEN b.primary[r]
                    ELSE IF Own(r) THEN Ref(i) ELSE Val(Sum(r))]
           b2 == AddContainer(b, i)
<1>1. b2.containers = D2 /\ b2.primary = p2
  BY DEF AddContainer
<1>2. /\ IsContainers(D) /\ SameShape(D, C)
      /\ \A r \in Primary : IsSumOf(b.primary[r], C, r)
  BY DEF Accumulates
<1>3. i \in DOMAIN D /\ \A r \in DOMAIN c : c[r] \in Quantity
  BY <1>2 DEF IsContainers, SameShape
<1>4. \A r \in Primary \cap DOMAIN c : Sum(r) \in Int
  <2> SUFFICES ASSUME NEW r \in Primary, r \in DOMAIN c
               PROVE  Sum(r) \in Int
    OBVIOUS
  <2>1. Amount(b.primary[r], D, r) \in Int
    BY <1>2, AmountIsInt
  <2>2. c[r].val \in Int
    BY <1>3 DEF Quantity
  <2> QED
    BY <2>1, <2>2
<1> HIDE DEF Sum
<1>5. /\ DOMAIN e = DOMAIN c
      /\ \A r \in DOMAIN c : e[r] \in Quantity /\ e[r].kind = c[r].kind
  BY <1>3, <1>4 DEF Quantity
<1> HIDE DEF e
<1>6. /\ D2 \in Seq(ToSet(D2)) /\ DOMAIN D2 = DOMAIN D /\ D2[i] = e
      /\ \A j \in DOMAIN D : j # i => D2[j] = D[j]
  BY <1>2, <1>3, ReplaceInList DEF IsContainers
<1> HIDE DEF D2
<1>7. IsContainers(D2)
  BY <1>2, <1>5, <1>6 DEF IsContainers
<1>8. SameShape(D2, C)
  BY <1>2, <1>5, <1>6 DEF SameShape
<1>9. \A r \in Primary : IsSumOf(p2[r], C, r)
  BY <1>2, <1>4 DEF IsSumOf, SameShape, Ref, Val
<1> HIDE DEF b2, p2
<1>10. Accumulates(b2, C)
  BY <1>1, <1>7, <1>8, <1>9 DEF Accumulates
<1> QED
  BY <1>10 DEF b2

(* All of them. *)
LEMMA PartialsTyped ==
    ASSUME NEW C, IsContainers(C), NEW a, Partials(a, C)
    PROVE  /\ Len(C) \in Nat /\ DOMAIN C = 1..Len(C)
           /\ \A i \in 0..Len(C) : Accumulates(a[i], C)
<1> DEFINE n == Len(C)
           S == {i \in 0..n : Accumulates(a[i], C)}
<1>1. n \in Nat /\ DOMAIN C = 1..n
  BY LenProperties DEF IsContainers
<1> HIDE DEF n
<1>2. 0 \in S
  <2>1. Accumulates(a[0], C)
    BY DEF Partials, Accumulates, SameShape, IsSumOf, Val
  <2> QED
    BY <1>1, <2>1
<1>3. ASSUME NEW k \in 1..n, k - 1 \in S
      PROVE  k \in S
  <2>1. a[k] = AddContainer(a[k - 1], k)
    BY DEF Partials, n
  <2>2. Accumulates(a[k], C)
    BY <1>1, <1>3, <2>1, AddTyped
  <2> QED
    BY <1>1, <2>2
<1>4. 0..n \subseteq S
  <2> HIDE DEF S
  <2> QED
    BY <1>1, <1>2, <1>3, InductionUpTo
<1> QED
  BY <1>1, <1>4 DEF n

(* getResourceRequest changes no more than the amounts of the quantities. *)
LEMMA RequestTyped ==
    ASSUME NEW C, IsContainers(C)
    PROVE  Accumulates(getResourceRequest(C), C)
<1>1. Len(C) \in Nat
  BY LenProperties DEF IsContainers
<1>2. PICK a : Partials(a, C) /\ getResourceRequest(C) = a[Len(C)]
  BY <1>1, RequestSteps
<1>3. \A i \in 0..Len(C) : Accumulates(a[i], C)
  BY <1>2, PartialsTyped
<1> QED
  BY <1>1, <1>2, <1>3

-----------------------------------------------------------------------------
(* What the sums amount to *)

(* What the containers request of a resource, one by one. *)
Requested(C, r) == [i \in DOMAIN C |-> IF r \in DOMAIN C[i] THEN C[i][r].val ELSE 0]

(* No request for r that is kept in place comes after another one. *)
PlainIn(C, r) ==
    \A j \in DOMAIN C : r \in DOMAIN C[j] /\ InPlace(C[j][r]) =>
       \A i \in 1..(j - 1) : r \in DOMAIN C[i] => C[i][r].val = 0

(* The requests for r are those of C. *)
SameColumn(D, C, r) ==
    \A j \in DOMAIN C : r \in DOMAIN C[j] => D[j][r].val = C[j][r].val

(* Nothing is added up before the first request. *)
LEMMA NothingYet ==
    ASSUME NEW n \in Nat, NEW h, NEW s, s[0] = 0,
           \A i \in 1..n : s[i] = s[i - 1] + h[i],
           \A i \in 1..n : h[i] = 0
    PROVE  s[n] = 0
<1> DEFINE S == {i \in Nat : s[i] = 0}
<1>1. 0 \in S
  OBVIOUS
<1>2. ASSUME NEW k \in 1..n, k - 1 \in S
      PROVE  k \in S
  BY <1>2
<1>3. 0..n \subseteq S
  <2> HIDE DEF S
  <2> QED
    BY <1>1, <1>2, InductionUpTo
<1> QED
  BY <1>3

(* One container more: if a request kept in place meets an empty sum, it   *)
(* is not changed, and the sum grows by what the container requests.       *)
LEMMA AddPlain ==
    ASSUME NEW C, IsContainers(C), NEW b, Accumulates(b, C), NEW i \in DOMAIN C,
           NEW r \in Primary, SameColumn(b.containers, C, r),
           r \in DOMAIN C[i] /\ InPlace(C[i][r]) => Amount(b.primary[r], b.containers, r) = 0
    PROVE  LET b2 == AddContainer(b, i) IN
           /\ SameColumn(b2.containers, C, r)
           /\ Amount(b2.primary[r], b2.containers, r)
                = Amount(b.primary[r], b.containers, r) + Requested(C, r)[i]
<1> DEFINE D == b.containers
           c == D[i]
           x == Amount(b.primary[r], D, r)
           b2 == AddContainer(b, i)
           D2 == b2.containers
<1>1. /\ IsContainers(D) /\ SameShape(D, C) /\ IsSumOf(b.primary[r], C, r)
  BY DEF Accumulates
<1>2. x \in Int
  BY <1>1, AmountIsInt
<1>3. /\ DOMAIN D = DOMAIN C /\ DOMAIN c = DOMAIN C[i]
      /\ \A j \in DOMAIN D : j # i => D2[j] = D[j]
  BY <1>1 DEF SameShape, AddContainer
<1> HIDE DEF x
<1>4. CASE r \notin DOMAIN C[i]
  <2>1. b2.primary[r] = b.primary[r]
    BY <1>3, <1>4 DEF AddContainer
  <2>2. SameColumn(D2, C, r)
    BY <1>3, <1>4 DEF SameColumn
  <2>3. Amount(b2.primary[r], D2, r) = x
    BY <1>1, <1>3, <1>4, <2>1 DEF Amount, IsSumOf, x
  <2>4. Requested(C, r)[i] = 0
    BY <1>4 DEF Requested
  <2> QED
    BY <1>2, <2>2, <2>3, <2>4 DEF x
<1>5. CASE r \in DOMAIN C[i] /\ InPlace(C[i][r])
  <2>1. x = 0
    BY <1>5 DEF x
  <2>2. InPlace(c[r]) /\ c[r].val = C[i][r].val /\ C[i][r].val \in Int /\ c[r] \in Quantity
    BY <1>1, <1>3, <1>5 DEF InPlace, SameShape, SameColumn, IsContainers, Quantity
  <2>3. b2.primary[r] = Ref(i)
    BY <1>3, <1>5, <2>2 DEF AddContainer
  <2>4. D2[i][r] = [c[r] EXCEPT !.val = c[r].val + x]
    BY <1>3, <1>5, <2>2 DEF AddContainer, x
  <2>5. D2[i][r].val = C[i][r].val
    BY <2>1, <2>2, <2>4 DEF Quantity
  <2>6. SameColumn(D2, C, r)
    BY <1>3, <2>5 DEF SameColumn
  <2>7. Amount(b2.primary[r], D2, r) = C[i][r].val
    <3>1. i # 0
      BY LenProperties DEF IsContainers
    <3> QED
      BY <2>3, <2>5, <3>1 DEF Amount, Ref
  <2>8. Requested(C, r)[i] = C[i][r].val
    BY <1>5 DEF Requested
  <2> QED
    BY <2>1, <2>2, <2>6, <2>7, <2>8 DEF x
<1>6. CASE r \in DOMAIN C[i] /\ ~InPlace(C[i][r])
  <2>1. ~InPlace(c[r]) /\ c[r].val = C[i][r].val /\ C[i][r].val \in Int
    BY <1>1, <1>3, <1>6 DEF InPlace, SameShape, SameColumn, IsContainers, Quantity
  <2>2. b2.primary[r] = Val(c[r].val + x)
    BY <1>3, <1>6, <2>1 DEF AddContainer, x
  <2>3. D2[i][r] = c[r]
    BY <1>3, <1>6, <2>1 DEF AddContainer
  <2>4. SameColumn(D2, C, r)
    BY <1>3, <2>1, <2>3 DEF SameColumn
  <2>5. Amount(b2.primary[r], D2, r) = C[i][r].val + x
    BY <2>1, <2>2 DEF Amount, Val
  <2>6. Requested(C, r)[i] = C[i][r].val
    BY <1>6 DEF Requested
  <2> QED
    BY <1>2, <2>1, <2>4, <2>5, <2>6 DEF x
<1> QED
  BY <1>4, <1>5, <1>6

(* getResourceRequest adds up what any list of containers requests of a    *)
(* resource, and leaves these requests as they are, if no request that is  *)
(* kept in place comes after another one.                                  *)
THEOREM PlainRequest ==
    ASSUME NEW C, IsContainers(C), NEW r \in Primary, PlainIn(C, r)
    PROVE  LET g == getResourceRequest(C) IN
           /\ SameColumn(g.containers, C, r)
           /\ Amount(g.primary[r], g.containers, r) = SumFunction(Requested(C, r))
<1> DEFINE n == Len(C)
           h == Requested(C, r)
<1>1. n \in Nat /\ DOMAIN C = 1..n
  BY LenProperties DEF IsContainers
<1>2. PICK a : Partials(a, C) /\ getResourceRequest(C) = a[n]
  BY <1>1, RequestSteps
<1>3. \A i \in 0..n : Accumulates(a[i], C)
  BY <1>2, PartialsTyped
<1>4. h \in [1..n -> Int]
  BY <1>1 DEF Requested, IsContainers, Quantity
<1> HIDE DEF n, h
<1>5. PICK s \in [0..n -> Int] : /\ s[0] = 0
                                 /\ \A i \in 1..n : s[i] = s[i - 1] + h[i]
                                 /\ SumFunction(h) = s[n]
  BY <1>1, <1>4, SumSteps
<1> DEFINE Good(i) == /\ SameColumn(a[i].containers, C, r)
                      /\ Amount(a[i].primary[r], a[i].containers, r) = s[i]
           S == {i \in 0..n : Good(i)}
<1>6. 0 \in S
  <2>1. a[0].containers = C /\ a[0].primary[r] = Val(0)
    BY <1>2 DEF Partials
  <2>2. Good(0)
    BY <1>5, <2>1 DEF SameColumn, Amount, Val
  <2> QED
    BY <1>1, <2>2
<1>7. ASSUME NEW k \in 1..n, k - 1 \in S
      PROVE  k \in S
  <2>1. a[k] = AddContainer(a[k - 1], k)
    BY <1>2 DEF Partials, n
  <2>2. Accumulates(a[k - 1], C) /\ Good(k - 1) /\ k \in DOMAIN C
    BY <1>1, <1>3, <1>7
  <2>3. r \in DOMAIN C[k] /\ InPlace(C[k][r]) => s[k - 1] = 0
    <3> SUFFICES ASSUME r \in DOMAIN C[k], InPlace(C[k][r])
                 PROVE  s[k - 1] = 0
      OBVIOUS
    <3>1. \A i \in 1..(k - 1) : r \in DOMAIN C[i] => C[i][r].val = 0
      BY <2>2 DEF PlainIn
    <3>2. \A i \in 1..(k - 1) : i \in 1..n /\ i \in DOMAIN C
      BY <1>1
    <3>3. \A i \in 1..(k - 1) : h[i] = 0
      BY <3>1, <3>2 DEF h, Requested
    <3>4. \A i \in 1..(k - 1) : s[i] = s[i - 1] + h[i]
      BY <1>5, <3>2
    <3>5. k - 1 \in Nat
      OBVIOUS
    <3> QED
      BY <1>5, <3>3, <3>4, <3>5, NothingYet
  <2> HIDE DEF S
  <2>4. /\ SameColumn(AddContainer(a[k - 1], k).containers, C, r)
        /\ Amount(AddContainer(a[k - 1], k).primary[r],
                  AddContainer(a[k - 1], k).containers, r)
             = Amount(a[k - 1].primary[r], a[k - 1].containers, r) + Requested(C, r)[k]
    BY <2>2, <2>3, AddPlain
  <2>5. Good(k)
    BY <1>5, <2>1, <2>2, <2>4 DEF h
  <2> QED
    BY <1>1, <2>5 DEF S
<1>8. 0..n \subseteq S
  <2> HIDE DEF S
  <2> QED
    BY <1>1, <1>6, <1>7, InductionUpTo
<1>9. Good(n)
  BY <1>1, <1>8
<1> QED
  BY <1>2, <1>5, <1>9 DEF n, h

(* What a pass over a list of pods leaves of their requests, and its rows. *)
LEMMA Requirements ==
    ASSUME NEW list, \A i \in DOMAIN list : list[i].pod \in DOMAIN requests
    PROVE  LET g == getPodsRequirements(list) IN
           /\ DOMAIN g.requests = DOMAIN requests
           /\ \A p \in DOMAIN requests :
                 g.requests[p] = IF \E i \in DOMAIN list : list[i].pod = p
                                 THEN getResourceRequest(requests[p]).containers
                                 ELSE requests[p]
           /\ DOMAIN g.list = DOMAIN list
           /\ \A i \in DOMAIN list :
                 /\ g.list[i].pod = list[i].pod /\ g.list[i].host = list[i].host
                 /\ g.list[i].reason = list[i].reason
                 /\ g.list[i].primary = getResourceRequest(requests[list[i].pod]).primary
<1> DEFINE g == getPodsRequirements(list)
           sums == [i \in DOMAIN list |-> getResourceRequest(requests[list[i].pod])]
           Index(p) == CHOOSE i \in DOMAIN list : list[i].pod = p
<1>1. /\ g.requests = [p \in DOMAIN requests |->
                         IF \E i \in DOMAIN list : list[i].pod = p
                         THEN sums[Index(p)].containers ELSE requests[p]]
      /\ g.list = [i \in DOMAIN list |->
            [pod |-> list[i].pod, primary |-> sums[i].primary, scalar |-> sums[i].scalar,
             host |-> list[i].host, reason |-> list[i].reason]]
  BY DEF getPodsRequirements
<1>2. \A p : (\E i \in DOMAIN list : list[i].pod = p) =>
                 Index(p) \in DOMAIN list /\ list[Index(p)].pod = p
  OBVIOUS
<1> HIDE DEF g, Index
<1>3. \A p : (\E i \in DOMAIN list : list[i].pod = p) =>
                 sums[Index(p)] = getResourceRequest(requests[p])
  BY <1>2
<1>4. \A i \in DOMAIN list : sums[i] = getResourceRequest(requests[list[i].pod])
  OBVIOUS
<1> HIDE DEF sums
<1>5. \A p \in DOMAIN requests :
         g.requests[p] = IF \E i \in DOMAIN list : list[i].pod = p
                         THEN getResourceRequest(requests[p]).containers ELSE requests[p]
  BY <1>1, <1>3
<1>6. /\ DOMAIN g.requests = DOMAIN requests /\ DOMAIN g.list = DOMAIN list
  BY <1>1
<1>7. \A i \in DOMAIN list :
         /\ g.list[i].pod = list[i].pod /\ g.list[i].host = list[i].host
         /\ g.list[i].reason = list[i].reason
         /\ g.list[i].primary = getResourceRequest(requests[list[i].pod]).primary
  BY <1>1, <1>4
<1> QED
  BY <1>5, <1>6, <1>7 DEF g

-----------------------------------------------------------------------------
(* Lists *)

(* Where the elements of two lists are in the two together. *)
LEMMA ConcatPlaces ==
    ASSUME NEW S, NEW s \in Seq(S), NEW t \in Seq(S)
    PROVE  LET u == s \o t IN
           /\ u \in Seq(S)
           /\ \A i \in DOMAIN s : i \in DOMAIN u /\ u[i] = s[i]
           /\ \A i \in DOMAIN t : i + Len(s) \in DOMAIN u /\ u[i + Len(s)] = t[i]
           /\ \A i \in DOMAIN u : \/ i \in DOMAIN s
                                  \/ i - Len(s) \in DOMAIN t /\ i \notin DOMAIN s
           /\ Len(s) \in Nat /\ DOMAIN s \subseteq Nat /\ DOMAIN t \subseteq Nat
           /\ DOMAIN u \subseteq Nat
<1> DEFINE u == s \o t
<1>1. Len(s) \in Nat /\ Len(t) \in Nat /\ DOMAIN s = 1..Len(s) /\ DOMAIN t = 1..Len(t)
  BY LenProperties
<1>2. /\ u \in Seq(S) /\ DOMAIN u = 1..(Len(s) + Len(t))
      /\ \A i \in 1..(Len(s) + Len(t)) : u[i] = IF i <= Len(s) THEN s[i] ELSE t[i - Len(s)]
  BY ConcatProperties, LenProperties
<1> HIDE DEF u
<1>3. \A i \in DOMAIN s : i \in DOMAIN u /\ u[i] = s[i]
  BY <1>1, <1>2
<1>4. \A i \in DOMAIN t : i + Len(s) \in DOMAIN u /\ u[i + Len(s)] = t[i]
  BY <1>1, <1>2
<1>5. \A i \in DOMAIN u : i \in DOMAIN s \/ (i - Len(s) \in DOMAIN t /\ i \notin DOMAIN s)
  BY <1>1, <1>2
<1>6. DOMAIN s \subseteq Nat /\ DOMAIN t \subseteq Nat /\ DOMAIN u \subseteq Nat
  BY <1>1, <1>2
<1> QED
  BY <1>1, <1>2, <1>3, <1>4, <1>5, <1>6 DEF u

(* No element of a list is there twice. *)
Distinct(s) == \A i, j \in DOMAIN s : s[i] = s[j] => i = j

(* Two lists of different elements make one. *)
LEMMA ConcatDistinct ==
    ASSUME NEW S, NEW s \in Seq(S), NEW t \in Seq(S), Distinct(s), Distinct(t),
           ToSet(s) \cap ToSet(t) = {}
    PROVE  Distinct(s \o t) /\ ToSet(s \o t) = ToSet(s) \cup ToSet(t)
<1> DEFINE u == s \o t
           m == Len(s)
<1>1. /\ \A i \in DOMAIN s : i \in DOMAIN u /\ u[i] = s[i]
      /\ \A i \in DOMAIN t : i + m \in DOMAIN u /\ u[i + m] = t[i]
      /\ \A i \in DOMAIN u : i \in DOMAIN s \/ (i - m \in DOMAIN t /\ i \notin DOMAIN s)
      /\ m \in Nat /\ DOMAIN s \subseteq Nat /\ DOMAIN t \subseteq Nat /\ DOMAIN u \subseteq Nat
  BY ConcatPlaces
<1> HIDE DEF u, m
<1>2. \A i \in DOMAIN u : i - m \in DOMAIN t => u[i] = t[i - m]
  <2> SUFFICES ASSUME NEW i \in DOMAIN u, i - m \in DOMAIN t PROVE u[i] = t[i - m]
    OBVIOUS
  <2>1. u[(i - m) + m] = t[i - m] /\ (i - m) + m = i
    BY <1>1
  <2> QED
    BY <2>1
<1>3. ASSUME NEW i \in DOMAIN u, NEW j \in DOMAIN u, u[i] = u[j]
      PROVE  i = j
  <2>1. CASE i \in DOMAIN s /\ j \in DOMAIN s
    BY <1>1, <1>3, <2>1 DEF Distinct
  <2>2. CASE i \in DOMAIN s /\ j \notin DOMAIN s
    <3>1. u[i] \in ToSet(s) /\ u[j] \in ToSet(t)
      <4>1. u[i] = s[i] /\ j - m \in DOMAIN t
        BY <1>1, <2>2
      <4>2. u[j] = t[j - m]
        BY <1>2, <4>1
      <4> QED
        BY <2>2, <4>1, <4>2 DEF ToSet
    <3> QED
      BY <1>3, <3>1
  <2>3. CASE i \notin DOMAIN s /\ j \in DOMAIN s
    <3>1. u[j] \in ToSet(s) /\ u[i] \in ToSet(t)
      <4>1. u[j] = s[j] /\ i - m \in DOMAIN t
        BY <1>1, <2>3
      <4>2. u[i] = t[i - m]
        BY <1>2, <4>1
      <4> QED
        BY <2>3, <4>1, <4>2 DEF ToSet
    <3> QED
      BY <1>3, <3>1
  <2>4. CASE i \notin DOMAIN s /\ j \notin DOMAIN s
    <3>1. t[i - m] = t[j - m] /\ i - m \in DOMAIN t /\ j - m \in DOMAIN t
      BY <1>1, <1>2, <1>3, <2>4
    <3>2. i - m = j - m
      BY <3>1 DEF Distinct
    <3> QED
      BY <1>1, <3>2
  <2> QED
    BY <2>1, <2>2, <2>3, <2>4
<1>4. ToSet(u) \subseteq ToSet(s) \cup ToSet(t)
  BY <1>1, <1>2 DEF ToSet
<1>5. ToSet(s) \subseteq ToSet(u) /\ ToSet(t) \subseteq ToSet(u)
  BY <1>1 DEF ToSet
<1>6. Distinct(u)
  BY <1>3 DEF Distinct
<1> QED
  BY <1>4, <1>5, <1>6 DEF u

(* The pods of the first entries of a file with these counts. *)
Upto(num, n) == UNION {{<<i, k>> : k \in 1..num[i]} : i \in 1..n}

(* An entry makes one pod for each number up to its count, none if that is *)
(* negative.                                                               *)
LEMMA EntryPods ==
    ASSUME NEW n \in Nat, NEW num \in [1..n -> Int], NEW i \in 1..n
    PROVE  LET t == [k \in 1..num[i] |-> <<i, k>>] IN
           t \in Seq(Upto(num, n)) /\ Distinct(t) /\ ToSet(t) = {<<i, k>> : k \in 1..num[i]}
<1> DEFINE t == [k \in 1..num[i] |-> <<i, k>>]
           m == IF num[i] >= 0 THEN num[i] ELSE 0
<1>1. m \in Nat /\ 1..num[i] = 1..m
  OBVIOUS
<1>2. \A k \in 1..num[i] : <<i, k>> \in Upto(num, n)
  BY DEF Upto
<1>3. t \in [1..m -> Upto(num, n)]
  BY <1>1, <1>2
<1>4. t \in Seq(Upto(num, n))
  BY <1>1, <1>3
<1>5. Distinct(t)
  BY DEF Distinct
<1>6. ToSet(t) = {<<i, k>> : k \in 1..num[i]}
  BY DEF ToSet
<1> QED
  BY <1>4, <1>5, <1>6

(* The pods of a file, one entry after the other: each pod once. *)
LEMMA FilePods ==
    ASSUME NEW n \in Nat, NEW num \in [1..n -> Int]
    PROVE  LET s == [i \in 1..n |-> [k \in 1..num[i] |-> <<i, k>>]]
               q == FlattenSeq(s)
           IN  q \in Seq(Upto(num, n)) /\ Distinct(q) /\ ToSet(q) = Upto(num, n)
<1> DEFINE s == [i \in 1..n |-> [k \in 1..num[i] |-> <<i, k>>]]
           ids == Upto(num, n)
<1>1. /\ s \in [1..n -> Seq(ids)]
      /\ \A i \in 1..n : Distinct(s[i]) /\ ToSet(s[i]) = {<<i, k>> : k \in 1..num[i]}
  BY EntryPods
<1>2. s \in Seq(Seq(ids)) /\ Len(s) = n
  BY <1>1
<1> HIDE DEF s
<1>3. CASE n = 0
  <2>1. s = <<>>
    BY <1>2, <1>3, EmptySeq
  <2>2. FlattenSeq(s) = <<>>
    BY <2>1 DEF FlattenSeq
  <2>3. Upto(num, n) = {} /\ ToSet(<<>>) = {} /\ Distinct(<<>>) /\ <<>> \in Seq(ids)
    BY <1>3 DEF Upto, ToSet, Distinct
  <2> QED
    BY <2>2, <2>3 DEF s
<1>4. CASE n # 0
  <2>0. PICK a : Flattens(a, s, n)
    BY <1>2, <1>4, FlattenSteps
  <2>1. /\ a[1] = s[1]
        /\ \A i \in 2..n : a[i] = a[i - 1] \o s[i]
        /\ FlattenSeq(s) = a[n]
    BY <2>0 DEF Flattens
  <2> DEFINE good(k) == a[k] \in Seq(ids) /\ Distinct(a[k]) /\ ToSet(a[k]) = Upto(num, k)
             K == {k \in 0..n : k = 0 \/ good(k)}
  <2>2. 0 \in K
    OBVIOUS
  <2>3. \A k \in 1..n : k - 1 \in K => k \in K
    <3> SUFFICES ASSUME NEW k \in 1..n, k - 1 \in K PROVE good(k)
      OBVIOUS
    <3> DEFINE own == {<<k, j>> : j \in 1..num[k]}
    <3>0. ToSet(s[k]) = own /\ Distinct(s[k]) /\ s[k] \in Seq(ids)
      BY <1>1
    <3>1. CASE k = 1
      <4>1. Upto(num, 1) = own
        BY <3>1 DEF Upto
      <4> QED
        BY <2>1, <3>0, <3>1, <4>1
    <3>2. CASE k # 1
      <4>1. k \in 2..n /\ k - 1 # 0
        BY <3>2
      <4>2. good(k - 1) /\ a[k] = a[k - 1] \o s[k]
        BY <2>1, <4>1
      <4>3. Upto(num, k) = Upto(num, k - 1) \cup own
        <5>1. \A i \in Nat : i \in 1..k <=> i \in 1..(k - 1) \/ i = k
          OBVIOUS
        <5> QED
          BY <5>1 DEF Upto
      <4>4. Upto(num, k - 1) \cap own = {}
        <5> SUFFICES ASSUME NEW x \in Upto(num, k - 1), x \in own PROVE FALSE
          OBVIOUS
        <5>1. PICK i \in 1..(k - 1) : \E j \in 1..num[i] : x = <<i, j>>
          BY DEF Upto
        <5>2. PICK l \in 1..num[k] : x = <<k, l>>
          OBVIOUS
        <5>3. i = k
          BY <5>1, <5>2
        <5> QED
          BY <5>3
      <4> HIDE DEF own
      <4>5. /\ a[k] \in Seq(ids) /\ Distinct(a[k])
            /\ ToSet(a[k]) = ToSet(a[k - 1]) \cup ToSet(s[k])
        BY <3>0, <4>2, <4>4, ConcatDistinct, ConcatProperties
      <4> QED
        BY <3>0, <4>2, <4>3, <4>5
    <3> QED
      BY <3>1, <3>2
  <2> HIDE DEF K
  <2>4. 0..n \subseteq K
    BY <2>2, <2>3, InductionUpTo
  <2>5. good(n)
    <3>1. n \in K
      BY <2>4
    <3> QED
      BY <1>4, <3>1 DEF K
  <2> QED
    BY <2>1, <2>5 DEF s
<1> QED
  BY <1>3, <1>4
=============================================================================
