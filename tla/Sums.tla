-------------------------------- MODULE Sums --------------------------------
(***************************************************************************)
(* What SumFunctionOnSet(f, S), the sum of f[x] over the elements x of a   *)
(* finite set, is: the quantities of the open orders, the lots of the      *)
(* executions, the possible fills of every order, what the trades cost.    *)
(* And what FoldLeft, the loop over a sequence, is: the position after     *)
(* each trade.  The community modules define both by a recursion over a    *)
(* chosen element; the lemmas below say what they do whatever it is.       *)
(*                                                                         *)
(* They are proved by induction on the size of the set.  The induction is  *)
(* that of a minimal counterexample, with the set of good subsets where a  *)
(* scheme of induction would have a predicate.                             *)
(***************************************************************************)
EXTENDS Functions, FiniteSetsExt, FiniteSetTheorems, WellFoundedInduction, TLAPS

\* A set of numbers that is not empty has a least element.
LEMMA Descent ==
  ASSUME NEW T \in SUBSET Nat, T # {}
  PROVE  \E n \in T : \A m \in T : ~ (m < n)
<1>1. IsWellFoundedOn(OpToRel(<, Nat), Nat)
  BY NatLessThanWellFounded
<1>2. \E n \in T : \A m \in T : ~ (<<m, n>> \in OpToRel(<, Nat))
  BY <1>1, WFMin
<1> QED
  BY <1>2 DEF OpToRel

\* Induction: a set with 0 and every successor has all numbers.
LEMMA CountUp ==
  ASSUME NEW T, 0 \in T, \A n \in Nat : n \in T => n + 1 \in T
  PROVE  Nat \subseteq T
<1> SUFFICES ASSUME Nat \ T # {} PROVE FALSE
  OBVIOUS
<1>1. PICK n \in Nat \ T : \A m \in Nat \ T : ~ (m < n)
  BY Descent
<1>2. n # 0 /\ n - 1 \in Nat
  BY <1>1
<1>3. n - 1 \in T
  BY <1>1, <1>2
<1>4. (n - 1) + 1 \in T
  BY <1>2, <1>3
<1> QED
  BY <1>1, <1>4

\* Induction on finite sets: what holds of a set when it holds of the set
\* without any one of its elements holds of every subset.
LEMMA RemovalInduction ==
  ASSUME NEW S, IsFiniteSet(S), NEW T,
         \A s \in SUBSET S : (\A x \in s : s \ {x} \in T) => s \in T
  PROVE  SUBSET S \subseteq T
<1> DEFINE Good == {n \in Nat : \A s \in SUBSET S : Cardinality(s) = n => s \in T}
<1>1. 0 \in Good
  <2> SUFFICES ASSUME NEW s \in SUBSET S, Cardinality(s) = 0 PROVE s \in T
    OBVIOUS
  <2>1. s = {}
    BY FS_Subset, FS_EmptySet
  <2> QED
    BY <2>1
<1>2. \A n \in Nat : n \in Good => n + 1 \in Good
  <2> SUFFICES ASSUME NEW n \in Nat, n \in Good,
                      NEW s \in SUBSET S, Cardinality(s) = n + 1
               PROVE  s \in T
    OBVIOUS
  <2>1. ASSUME NEW x \in s PROVE s \ {x} \in T
    <3>1. IsFiniteSet(s)
      BY FS_Subset
    <3>2. Cardinality(s \ {x}) = Cardinality(s) - 1
      BY <3>1, FS_RemoveElement
    <3> QED
      BY <3>2
  <2> QED
    BY <2>1
<1>3. Nat \subseteq Good
  <2> HIDE DEF Good
  <2> QED
    BY <1>1, <1>2, CountUp
<1> QED
  <2> SUFFICES ASSUME NEW s \in SUBSET S PROVE s \in T
    OBVIOUS
  <2>1. Cardinality(s) \in Nat
    BY FS_Subset, FS_CardinalityType
  <2> QED
    BY <2>1, <1>3

-----------------------------------------------------------------------------
\* The element that the recursion takes out of a set.
Pick(s) == CHOOSE x \in s : TRUE

\* g sums f over the subsets of S.
SumsUp(g, f, S) ==
  g = [s \in SUBSET S |-> IF s = {} THEN 0 ELSE f[Pick(s)] + g[s \ {Pick(s)}]]

\* The sum is the value at S of the recursive function that is chosen.
LEMMA SumUnfold ==
  ASSUME NEW f, NEW S
  PROVE  SumFunctionOnSet(f, S) = (CHOOSE g : SumsUp(g, f, S))[S]
  BY DEF SumFunctionOnSet, FoldFunctionOnSet, MapThenFoldSet, SumsUp, Pick

\* The element chosen of a set that is not empty is one of its elements.
LEMMA PickIn == \A s : s # {} => Pick(s) \in s
  BY DEF Pick

\* There is such a function: one can be built for the sets of each size.
LEMMA SumExists ==
  ASSUME NEW S, IsFiniteSet(S), NEW f, \A x \in S : f[x] \in Int
  PROVE  \E g \in [SUBSET S -> Int] : SumsUp(g, f, S)
<1> DEFINE Small(n) == {s \in SUBSET S : Cardinality(s) <= n}
           Value(g, s) == IF s = {} THEN 0 ELSE f[Pick(s)] + g[s \ {Pick(s)}]
           Found == {n \in Nat : \E g \in [Small(n) -> Int] :
                                   \A s \in Small(n) : g[s] = Value(g, s)}
<1>1. 0 \in Found
  <2>1. \A s \in Small(0) : s = {}
    BY FS_Subset, FS_EmptySet, FS_CardinalityType
  <2> DEFINE g == [s \in Small(0) |-> 0]
  <2>2. g \in [Small(0) -> Int] /\ \A s \in Small(0) : g[s] = Value(g, s)
    BY <2>1
  <2> QED
    BY <2>2
<1>2. ASSUME NEW n \in Nat, n \in Found PROVE n + 1 \in Found
  <2>1. PICK g \in [Small(n) -> Int] : \A s \in Small(n) : g[s] = Value(g, s)
    BY <1>2
  <2> DEFINE h == [s \in Small(n + 1) |-> Value(g, s)]
  <2>2. ASSUME NEW s \in Small(n + 1), s # {}
        PROVE  /\ s \ {Pick(s)} \in Small(n) /\ s \ {Pick(s)} \in Small(n + 1)
               /\ Pick(s) \in S
    <3>1. IsFiniteSet(s) /\ Pick(s) \in s
      BY <2>2, FS_Subset, PickIn
    <3>2. Cardinality(s \ {Pick(s)}) = Cardinality(s) - 1 /\ Cardinality(s) \in Nat
      BY <3>1, FS_RemoveElement, FS_CardinalityType
    <3> QED
      BY <3>1, <3>2
  <2>3. ASSUME NEW s \in Small(n + 1) PROVE h[s] \in Int /\ h[s] = Value(h, s)
    <3>1. CASE s = {}
      BY <3>1
    <3>2. CASE s # {}
      <4> DEFINE r == s \ {Pick(s)}
      <4>1. r \in Small(n) /\ r \in Small(n + 1) /\ f[Pick(s)] \in Int
        BY <2>2, <3>2
      <4>2. g[r] \in Int /\ g[r] = Value(g, r)
        BY <4>1, <2>1
      <4>3. h[r] = Value(g, r)
        BY <4>1
      <4>4. h[s] = f[Pick(s)] + g[r] /\ Value(h, s) = f[Pick(s)] + h[r]
        BY <3>2
      <4> QED
        BY <4>1, <4>2, <4>3, <4>4
    <3> QED
      BY <3>1, <3>2
  <2>4. h \in [Small(n + 1) -> Int]
    BY <2>3
  <2>5. \E k \in [Small(n + 1) -> Int] : \A s \in Small(n + 1) : k[s] = Value(k, s)
    <3> HIDE DEF h
    <3> QED
      BY <2>3, <2>4
  <2> HIDE DEF Small, Value, h
  <2> QED
    BY <2>5
<1>3. Nat \subseteq Found
  <2> HIDE DEF Found
  <2> QED
    BY <1>1, <1>2, CountUp
<1> DEFINE N == Cardinality(S)
<1>4. Small(N) = SUBSET S
  BY FS_Subset, FS_CardinalityType
<1>5. PICK g \in [SUBSET S -> Int] : \A s \in SUBSET S : g[s] = Value(g, s)
  <2>1. N \in Found
    BY <1>3, FS_CardinalityType
  <2> QED
    BY <2>1, <1>4
<1> QED
  BY <1>5 DEF SumsUp

\* Two such functions agree where what they sum does.
LEMMA SumsAgree ==
  ASSUME NEW S, IsFiniteSet(S), NEW T \in SUBSET S, NEW f, NEW k,
         \A x \in T : f[x] = k[x],
         NEW g, SumsUp(g, f, S), NEW h, SumsUp(h, k, T)
  PROVE  \A r \in SUBSET T : g[r] = h[r]
<1> DEFINE Same == {r \in SUBSET T : g[r] = h[r]}
<1>1. ASSUME NEW r \in SUBSET T, \A x \in r : r \ {x} \in Same PROVE r \in Same
  <2>1. g[r] = IF r = {} THEN 0 ELSE f[Pick(r)] + g[r \ {Pick(r)}]
    BY DEF SumsUp
  <2>2. h[r] = IF r = {} THEN 0 ELSE k[Pick(r)] + h[r \ {Pick(r)}]
    BY DEF SumsUp
  <2>3. r # {} => g[r \ {Pick(r)}] = h[r \ {Pick(r)}] /\ f[Pick(r)] = k[Pick(r)]
    BY <1>1, PickIn
  <2> QED
    BY <2>1, <2>2, <2>3
<1>2. IsFiniteSet(T)
  BY FS_Subset
<1>3. SUBSET T \subseteq Same
  <2> HIDE DEF Same
  <2> QED
    BY <1>1, <1>2, RemovalInduction
<1> QED
  BY <1>3

\* The sum is the value of a function that has the recursion.
LEMMA SumDef ==
  ASSUME NEW S, IsFiniteSet(S), NEW f, \A x \in S : f[x] \in Int
  PROVE  \E g \in [SUBSET S -> Int] : SumsUp(g, f, S) /\ SumFunctionOnSet(f, S) = g[S]
<1>1. PICK g \in [SUBSET S -> Int] : SumsUp(g, f, S)
  BY SumExists
<1> DEFINE h == CHOOSE h : SumsUp(h, f, S)
<1>2. SumsUp(h, f, S)
  BY <1>1
<1>3. SumFunctionOnSet(f, S) = h[S]
  BY SumUnfold
<1>4. g[S] = h[S]
  <2> HIDE DEF h
  <2>1. \A r \in SUBSET S : g[r] = h[r]
    BY <1>1, <1>2, SumsAgree
  <2> QED
    BY <2>1
<1> QED
  BY <1>1, <1>3, <1>4

\* That function has the sums of the subsets too.
LEMMA SumOfSubset ==
  ASSUME NEW S, IsFiniteSet(S), NEW f, \A x \in S : f[x] \in Int,
         NEW g, SumsUp(g, f, S), NEW T \in SUBSET S
  PROVE  SumFunctionOnSet(f, T) = g[T]
<1>1. IsFiniteSet(T) /\ \A x \in T : f[x] \in Int
  BY FS_Subset
<1>2. PICK h \in [SUBSET T -> Int] : SumsUp(h, f, T) /\ SumFunctionOnSet(f, T) = h[T]
  BY <1>1, SumDef
<1>3. \A r \in SUBSET T : g[r] = h[r]
  BY <1>2, SumsAgree
<1> QED
  BY <1>2, <1>3

\* A sum of integers is an integer.
LEMMA SumType ==
  ASSUME NEW S, IsFiniteSet(S), NEW f, \A x \in S : f[x] \in Int
  PROVE  SumFunctionOnSet(f, S) \in Int
<1>1. PICK g \in [SUBSET S -> Int] : SumsUp(g, f, S) /\ SumFunctionOnSet(f, S) = g[S]
  BY SumDef
<1> QED
  BY <1>1

\* Nothing sums to 0.
LEMMA SumEmpty == ASSUME NEW f PROVE SumFunctionOnSet(f, {}) = 0
<1>1. PICK g \in [SUBSET {} -> Int] : SumsUp(g, f, {}) /\ SumFunctionOnSet(f, {}) = g[{}]
  BY FS_EmptySet, SumDef
<1> QED
  BY <1>1 DEF SumsUp

\* A sum is the element chosen and the rest.
LEMMA SumPick ==
  ASSUME NEW S, IsFiniteSet(S), S # {}, NEW f, \A x \in S : f[x] \in Int
  PROVE  SumFunctionOnSet(f, S) = f[Pick(S)] + SumFunctionOnSet(f, S \ {Pick(S)})
<1>1. PICK g \in [SUBSET S -> Int] : SumsUp(g, f, S) /\ SumFunctionOnSet(f, S) = g[S]
  BY SumDef
<1>2. g[S] = f[Pick(S)] + g[S \ {Pick(S)}]
  BY <1>1 DEF SumsUp
<1>3. SumFunctionOnSet(f, S \ {Pick(S)}) = g[S \ {Pick(S)}]
  <2>1. S \ {Pick(S)} \in SUBSET S
    OBVIOUS
  <2> QED
    BY <1>1, <2>1, SumOfSubset
<1> QED
  BY <1>1, <1>2, <1>3

\* Functions that agree on a set have the same sum over it.
LEMMA SumSame ==
  ASSUME NEW S, IsFiniteSet(S), NEW f, NEW k,
         \A x \in S : f[x] \in Int, \A x \in S : f[x] = k[x]
  PROVE  SumFunctionOnSet(f, S) = SumFunctionOnSet(k, S)
<1>1. PICK g \in [SUBSET S -> Int] : SumsUp(g, f, S) /\ SumFunctionOnSet(f, S) = g[S]
  BY SumDef
<1>2. PICK h \in [SUBSET S -> Int] : SumsUp(h, k, S) /\ SumFunctionOnSet(k, S) = h[S]
  <2>1. \A x \in S : k[x] \in Int
    OBVIOUS
  <2> QED
    BY <2>1, SumDef
<1>3. \A r \in SUBSET S : g[r] = h[r]
  BY <1>1, <1>2, SumsAgree
<1> QED
  BY <1>1, <1>2, <1>3

\* Any element can be taken out of a sum, not only the one chosen.
LEMMA SumElement ==
  ASSUME NEW S, IsFiniteSet(S), NEW f, \A x \in S : f[x] \in Int
  PROVE  \A y \in S : SumFunctionOnSet(f, S) = f[y] + SumFunctionOnSet(f, S \ {y})
<1> DEFINE Sum(s) == SumFunctionOnSet(f, s)
           Good == {s \in SUBSET S : \A y \in s : Sum(s) = f[y] + Sum(s \ {y})}
<1> HIDE DEF Sum
<1>0. ASSUME NEW s \in SUBSET S
      PROVE  /\ Sum(s) \in Int
             /\ s # {} => Sum(s) = f[Pick(s)] + Sum(s \ {Pick(s)})
  <2>1. IsFiniteSet(s) /\ \A x \in s : f[x] \in Int
    BY FS_Subset
  <2> QED
    BY <2>1, SumType, SumPick DEF Sum
<1>1. ASSUME NEW s \in SUBSET S, \A x \in s : s \ {x} \in Good PROVE s \in Good
  <2> SUFFICES ASSUME NEW y \in s PROVE Sum(s) = f[y] + Sum(s \ {y})
    OBVIOUS
  <2> DEFINE x == Pick(s)
  <2>1. x \in s /\ Sum(s) = f[x] + Sum(s \ {x})
    BY <1>0, PickIn
  <2> HIDE DEF x
  <2>2. CASE y = x
    BY <2>1, <2>2
  <2>3. CASE y # x
    <3>1. Sum(s \ {x}) = f[y] + Sum((s \ {x}) \ {y})
      BY <1>1, <2>1, <2>3
    <3>2. Sum(s \ {y}) = f[x] + Sum((s \ {y}) \ {x})
      BY <1>1, <2>1, <2>3
    <3>3. Sum((s \ {x}) \ {y}) = Sum((s \ {y}) \ {x})
      <4>1. (s \ {x}) \ {y} = (s \ {y}) \ {x}
        OBVIOUS
      <4> QED
        BY <4>1, Zenon
    <3>4. f[x] \in Int /\ f[y] \in Int /\ Sum((s \ {x}) \ {y}) \in Int
      BY <1>0, <2>1
    <3> QED
      BY <2>1, <3>1, <3>2, <3>3, <3>4
  <2> QED
    BY <2>2, <2>3
<1>2. SUBSET S \subseteq Good
  <2> HIDE DEF Good
  <2> QED
    BY <1>1, RemovalInduction
<1>3. S \in Good
  <2> HIDE DEF Good
  <2> QED
    BY <1>2
<1> QED
  BY <1>3 DEF Sum

\* And any can be put in.
LEMMA SumAdd ==
  ASSUME NEW S, IsFiniteSet(S), NEW f, \A x \in S : f[x] \in Int,
         NEW y, y \notin S, f[y] \in Int
  PROVE  SumFunctionOnSet(f, S \cup {y}) = SumFunctionOnSet(f, S) + f[y]
<1> DEFINE T == S \cup {y}
<1>1. IsFiniteSet(T) /\ y \in T /\ \A x \in T : f[x] \in Int
  BY FS_AddElement
<1>2. T \ {y} = S
  OBVIOUS
<1>3. SumFunctionOnSet(f, T \ {y}) = SumFunctionOnSet(f, S)
  BY <1>2, Zenon
<1>4. SumFunctionOnSet(f, T) = f[y] + SumFunctionOnSet(f, T \ {y})
  <2> HIDE DEF T
  <2> QED
    BY <1>1, SumElement
<1>5. SumFunctionOnSet(f, S) \in Int
  BY SumType
<1> QED
  BY <1>3, <1>4, <1>5

\* A sum moves by as much as the one element that changes.
LEMMA SumChange ==
  ASSUME NEW S, IsFiniteSet(S), NEW y \in S,
         NEW f, \A x \in S : f[x] \in Int, NEW k, \A x \in S : k[x] \in Int,
         \A x \in S \ {y} : f[x] = k[x]
  PROVE  SumFunctionOnSet(k, S) = SumFunctionOnSet(f, S) + k[y] - f[y]
<1> DEFINE R == S \ {y}
<1>1. IsFiniteSet(R) /\ (\A x \in R : f[x] \in Int) /\ (\A x \in R : f[x] = k[x])
  BY FS_Subset
<1>2. SumFunctionOnSet(f, S) = f[y] + SumFunctionOnSet(f, R)
  BY SumElement
<1>3. SumFunctionOnSet(k, S) = k[y] + SumFunctionOnSet(k, R)
  BY SumElement
<1> HIDE DEF R
<1>4. SumFunctionOnSet(f, R) = SumFunctionOnSet(k, R)
  BY <1>1, SumSame
<1>5. SumFunctionOnSet(f, R) \in Int
  BY <1>1, SumType
<1> QED
  BY <1>2, <1>3, <1>4, <1>5

\* The sum of a sum of functions.
LEMMA SumPlus ==
  ASSUME NEW S, IsFiniteSet(S), NEW f, \A x \in S : f[x] \in Int,
         NEW k, \A x \in S : k[x] \in Int, NEW h, \A x \in S : h[x] = f[x] + k[x]
  PROVE  SumFunctionOnSet(h, S) = SumFunctionOnSet(f, S) + SumFunctionOnSet(k, S)
<1> DEFINE F(s) == SumFunctionOnSet(f, s)
           K(s) == SumFunctionOnSet(k, s)
           H(s) == SumFunctionOnSet(h, s)
           Good == {s \in SUBSET S : H(s) = F(s) + K(s)}
<1> HIDE DEF F, K, H
<1>1. ASSUME NEW s \in SUBSET S, \A x \in s : s \ {x} \in Good PROVE s \in Good
  <2>1. CASE s = {}
    BY <2>1, SumEmpty DEF F, K, H
  <2>2. CASE s # {}
    <3>1. PICK x \in s : TRUE
      BY <2>2
    <3>2. /\ IsFiniteSet(s) /\ (\A z \in s : f[z] \in Int) /\ (\A z \in s : k[z] \in Int)
          /\ \A z \in s : h[z] \in Int
      BY FS_Subset
    <3>3. F(s) = f[x] + F(s \ {x}) /\ K(s) = k[x] + K(s \ {x}) /\ H(s) = h[x] + H(s \ {x})
      BY <3>2, SumElement DEF F, K, H
    <3>4. F(s \ {x}) \in Int /\ K(s \ {x}) \in Int
      <4>1. IsFiniteSet(s \ {x})
        BY <3>2, FS_Subset
      <4> QED
        BY <3>2, <4>1, SumType DEF F, K
    <3>5. H(s \ {x}) = F(s \ {x}) + K(s \ {x})
      BY <1>1
    <3> QED
      BY <3>2, <3>3, <3>4, <3>5
  <2> QED
    BY <2>1, <2>2
<1>2. SUBSET S \subseteq Good
  <2> HIDE DEF Good
  <2> QED
    BY <1>1, RemovalInduction
<1> QED
  BY <1>2 DEF F, K, H

\* Larger elements, larger sum.
LEMMA SumMonotone ==
  ASSUME NEW S, IsFiniteSet(S), NEW f, \A x \in S : f[x] \in Int,
         NEW k, \A x \in S : k[x] \in Int, \A x \in S : f[x] <= k[x]
  PROVE  SumFunctionOnSet(f, S) <= SumFunctionOnSet(k, S)
<1> DEFINE F(s) == SumFunctionOnSet(f, s)
           K(s) == SumFunctionOnSet(k, s)
           Good == {s \in SUBSET S : F(s) <= K(s)}
<1> HIDE DEF F, K
<1>1. ASSUME NEW s \in SUBSET S, \A x \in s : s \ {x} \in Good PROVE s \in Good
  <2>1. CASE s = {}
    <3>1. F({}) = 0 /\ K({}) = 0
      BY SumEmpty DEF F, K
    <3> QED
      BY <2>1, <3>1
  <2>2. CASE s # {}
    <3>1. PICK x \in s : TRUE
      BY <2>2
    <3>2. IsFiniteSet(s) /\ (\A z \in s : f[z] \in Int) /\ (\A z \in s : k[z] \in Int)
      BY FS_Subset
    <3>3. F(s) = f[x] + F(s \ {x}) /\ K(s) = k[x] + K(s \ {x})
      BY <3>2, SumElement DEF F, K
    <3>4. F(s \ {x}) \in Int /\ K(s \ {x}) \in Int
      <4>1. IsFiniteSet(s \ {x})
        BY <3>2, FS_Subset
      <4> QED
        BY <3>2, <4>1, SumType DEF F, K
    <3>5. F(s \ {x}) <= K(s \ {x}) /\ f[x] <= k[x]
      BY <1>1, <3>1
    <3> QED
      BY <3>2, <3>3, <3>4, <3>5
  <2> QED
    BY <2>1, <2>2
<1>2. SUBSET S \subseteq Good
  <2> HIDE DEF Good
  <2> QED
    BY <1>1, RemovalInduction
<1> QED
  BY <1>2 DEF F, K

\* Zeros sum to 0.
LEMMA SumZero ==
  ASSUME NEW S, IsFiniteSet(S), NEW f, \A x \in S : f[x] = 0
  PROVE  SumFunctionOnSet(f, S) = 0
<1>1. \A x \in S : f[x] \in Int /\ f[x] = f[x] + f[x]
  OBVIOUS
<1>2. PICK n \in Int : n = SumFunctionOnSet(f, S)
  BY <1>1, SumType
<1>3. SumFunctionOnSet(f, S) = SumFunctionOnSet(f, S) + SumFunctionOnSet(f, S)
  BY <1>1, SumPlus
<1>4. n = n + n
  BY <1>2, <1>3
<1>5. n = 0
  BY <1>4
<1> QED
  BY <1>2, <1>5

\* A sum of naturals is a natural.
LEMMA SumNat ==
  ASSUME NEW S, IsFiniteSet(S), NEW f, \A x \in S : f[x] \in Nat
  PROVE  SumFunctionOnSet(f, S) \in Nat
<1> DEFINE zero == [x \in S |-> 0]
<1>1. (\A x \in S : zero[x] = 0) /\ (\A x \in S : zero[x] \in Int /\ f[x] \in Int)
      /\ \A x \in S : zero[x] <= f[x]
  OBVIOUS
<1> HIDE DEF zero
<1>2. SumFunctionOnSet(zero, S) = 0
  BY <1>1, SumZero
<1>3. SumFunctionOnSet(zero, S) <= SumFunctionOnSet(f, S)
  BY <1>1, SumMonotone
<1>4. SumFunctionOnSet(f, S) \in Int
  BY <1>1, SumType
<1> QED
  BY <1>2, <1>3, <1>4

\* Leaving elements out is counting them as 0.
LEMMA SumFilter ==
  ASSUME NEW S, IsFiniteSet(S), NEW T \in SUBSET S,
         NEW f, \A x \in T : f[x] \in Int,
         NEW k, \A x \in S : k[x] = IF x \in T THEN f[x] ELSE 0
  PROVE  SumFunctionOnSet(f, T) = SumFunctionOnSet(k, S)
<1> DEFINE F(s) == SumFunctionOnSet(f, s)
           K(s) == SumFunctionOnSet(k, s)
           Good == {s \in SUBSET S : F(s \cap T) = K(s)}
<1> HIDE DEF F, K
<1>1. ASSUME NEW s \in SUBSET S, \A x \in s : s \ {x} \in Good PROVE s \in Good
  <2>1. CASE s = {}
    <3>1. F({}) = 0 /\ K({}) = 0
      BY SumEmpty DEF F, K
    <3>2. F(s \cap T) = F({}) /\ K(s) = K({})
      <4>1. s \cap T = {}
        BY <2>1
      <4> QED
        BY <2>1, <4>1, Zenon
    <3> QED
      BY <3>1, <3>2
  <2>2. CASE s # {}
    <3>1. PICK x \in s : TRUE
      BY <2>2
    <3>2. IsFiniteSet(s) /\ (\A z \in s : k[z] \in Int)
      BY FS_Subset
    <3>3. K(s) = k[x] + K(s \ {x})
      BY <3>2, SumElement DEF K
    <3>4. K(s \ {x}) \in Int
      <4>1. IsFiniteSet(s \ {x})
        BY <3>2, FS_Subset
      <4> QED
        BY <3>2, <4>1, SumType DEF K
    <3>5. F((s \ {x}) \cap T) = K(s \ {x})
      BY <1>1
    <3>6. CASE x \in T
      <4> DEFINE r == s \cap T
      <4>1. x \in r /\ IsFiniteSet(r) /\ (\A z \in r : f[z] \in Int)
        BY <3>2, <3>6, FS_Subset
      <4>2. r \ {x} = (s \ {x}) \cap T
        OBVIOUS
      <4>3. F(r \ {x}) = F((s \ {x}) \cap T)
        BY <4>2, Zenon
      <4>4. F(r) = f[x] + F(r \ {x})
        <5> HIDE DEF r
        <5> QED
          BY <4>1, SumElement DEF F
      <4> QED
        BY <3>3, <3>4, <3>5, <3>6, <4>3, <4>4
    <3>7. CASE x \notin T
      <4>1. s \cap T = (s \ {x}) \cap T
        BY <3>7
      <4>2. F(s \cap T) = F((s \ {x}) \cap T)
        BY <4>1, Zenon
      <4>3. k[x] = 0
        BY <3>7
      <4> QED
        BY <3>3, <3>4, <3>5, <4>2, <4>3
    <3> QED
      BY <3>6, <3>7
  <2> QED
    BY <2>1, <2>2
<1>2. SUBSET S \subseteq Good
  <2> HIDE DEF Good
  <2> QED
    BY <1>1, RemovalInduction
<1>3. F(S \cap T) = K(S)
  BY <1>2
<1>4. F(S \cap T) = F(T)
  <2>1. S \cap T = T
    OBVIOUS
  <2> QED
    BY <2>1, Zenon
<1> QED
  BY <1>3, <1>4 DEF F, K

-----------------------------------------------------------------------------
(* Sums over a sequence, that is over 1..n.                                *)

\* Induction up to a bound.
LEMMA CountTo ==
  ASSUME NEW n \in Nat, NEW T, 0 \in T, \A k \in 1..n : k - 1 \in T => k \in T
  PROVE  0..n \subseteq T
<1> DEFINE U == {k \in Nat : k <= n => k \in T}
<1>1. 0 \in U
  OBVIOUS
<1>2. ASSUME NEW k \in Nat, k \in U PROVE k + 1 \in U
  <2> SUFFICES ASSUME k + 1 <= n PROVE k + 1 \in T
    OBVIOUS
  <2>1. k + 1 \in 1..n /\ (k + 1) - 1 = k /\ k \in T
    BY <1>2
  <2> QED
    BY <2>1
<1>3. Nat \subseteq U
  <2> HIDE DEF U
  <2> QED
    BY <1>1, <1>2, CountUp
<1> QED
  BY <1>3

\* The sum of a sequence is the sum of all but its last element, and that one.
LEMMA SumExtend ==
  ASSUME NEW n \in Nat, NEW f, \A k \in 1..(n + 1) : f[k] \in Int
  PROVE  /\ SumFunctionOnSet(f, 1..n) \in Int
         /\ SumFunctionOnSet(f, 1..(n + 1)) = SumFunctionOnSet(f, 1..n) + f[n + 1]
<1>1. IsFiniteSet(1..n) /\ (\A k \in 1..n : f[k] \in Int) /\ n + 1 \notin 1..n
      /\ f[n + 1] \in Int
  BY FS_Interval
<1>2. (1..n) \cup {n + 1} = 1..(n + 1)
  OBVIOUS
<1>3. SumFunctionOnSet(f, (1..n) \cup {n + 1}) = SumFunctionOnSet(f, 1..n) + f[n + 1]
  <2> DEFINE S == 1..n
             y == n + 1
  <2>1. IsFiniteSet(S) /\ (\A k \in S : f[k] \in Int) /\ y \notin S /\ f[y] \in Int
    BY <1>1
  <2>2. SumFunctionOnSet(f, S \cup {y}) = SumFunctionOnSet(f, S) + f[y]
    <3> HIDE DEF S, y
    <3> QED
      BY <2>1, SumAdd
  <2> QED
    BY <2>2
<1> QED
  BY <1>1, <1>2, <1>3, SumType

\* It is also the first element and the sum of the rest.
LEMMA SumShift ==
  ASSUME NEW n \in Nat, NEW f, \A k \in 1..(n + 1) : f[k] \in Int,
         NEW g, \A k \in 1..n : g[k] = f[k + 1]
  PROVE  SumFunctionOnSet(f, 1..(n + 1)) = f[1] + SumFunctionOnSet(g, 1..n)
<1> DEFINE A(k) == SumFunctionOnSet(f, 1..k)
           B(k) == SumFunctionOnSet(g, 1..k)
           T == {k \in 0..n : A(k + 1) = f[1] + B(k)}
<1>1. 0 \in T
  <2>1. A(0) = 0 /\ B(0) = 0
    <3>1. 1..0 = {}
      OBVIOUS
    <3> QED
      BY <3>1, SumEmpty
  <2>2. A(0 + 1) = A(0) + f[0 + 1]
    <3>1. \A k \in 1..(0 + 1) : f[k] \in Int
      OBVIOUS
    <3> QED
      BY <3>1, SumExtend
  <2> HIDE DEF A, B
  <2> QED
    BY <2>1, <2>2
<1>2. ASSUME NEW k \in 1..n, k - 1 \in T PROVE k \in T
  <2>1. PICK j \in Nat : k = j + 1
    <3>1. k - 1 \in Nat /\ k = (k - 1) + 1
      OBVIOUS
    <3> QED
      BY <3>1
  <2>2. A(k + 1) = A(k) + f[k + 1] /\ A(k) \in Int
    BY SumExtend
  <2>3. B(j + 1) = B(j) + g[j + 1] /\ B(j) \in Int
    <3>1. \A i \in 1..(j + 1) : g[i] \in Int
      BY <2>1
    <3> QED
      BY <3>1, SumExtend
  <2>4. A(k) = f[1] + B(j)
    BY <1>2, <2>1
  <2>5. g[j + 1] = f[k + 1] /\ f[k + 1] \in Int /\ f[1] \in Int
    BY <2>1
  <2> HIDE DEF A, B
  <2> QED
    BY <2>1, <2>2, <2>3, <2>4, <2>5
<1>3. 0..n \subseteq T
  <2> HIDE DEF T
  <2> QED
    BY <1>1, <1>2, CountTo
<1> QED
  BY <1>3

\* The sum of a function is that over its domain.
LEMMA SumWhole ==
  ASSUME NEW n \in Nat, NEW f \in [1..n -> Int]
  PROVE  SumFunction(f) = SumFunctionOnSet(f, 1..n) /\ SumFunction(f) \in Int
<1>1. SumFunction(f) = SumFunctionOnSet(f, DOMAIN f) /\ DOMAIN f = 1..n
  BY DEF SumFunction, FoldFunction, SumFunctionOnSet
<1>2. SumFunctionOnSet(f, 1..n) \in Int
  BY FS_Interval, SumType
<1> QED
  BY <1>1, <1>2

\* The sum of a sequence that is appended to.
LEMMA SumAppend ==
  ASSUME NEW n \in Nat, NEW f \in [1..n -> Int], NEW g \in [1..(n + 1) -> Int],
         \A k \in 1..n : g[k] = f[k]
  PROVE  SumFunction(g) = SumFunction(f) + g[n + 1]
<1>1. /\ SumFunction(f) = SumFunctionOnSet(f, 1..n)
      /\ SumFunction(g) = SumFunctionOnSet(g, 1..(n + 1))
  BY SumWhole
<1>2. SumFunctionOnSet(g, 1..(n + 1)) = SumFunctionOnSet(g, 1..n) + g[n + 1]
  BY SumExtend
<1>3. SumFunctionOnSet(g, 1..n) = SumFunctionOnSet(f, 1..n)
  <2> DEFINE S == 1..n
  <2>1. IsFiniteSet(S) /\ (\A k \in S : g[k] \in Int) /\ \A k \in S : g[k] = f[k]
    BY FS_Interval
  <2> HIDE DEF S
  <2>2. SumFunctionOnSet(g, S) = SumFunctionOnSet(f, S)
    BY <2>1, SumSame
  <2> QED
    BY <2>2 DEF S
<1> QED
  BY <1>1, <1>2, <1>3

\* The sum of a sequence without its head.
LEMMA SumTail ==
  ASSUME NEW n \in Nat, NEW f \in [1..(n + 1) -> Int], NEW g \in [1..n -> Int],
         \A k \in 1..n : g[k] = f[k + 1]
  PROVE  SumFunction(f) = f[1] + SumFunction(g)
<1>1. /\ SumFunction(g) = SumFunctionOnSet(g, 1..n)
      /\ SumFunction(f) = SumFunctionOnSet(f, 1..(n + 1))
  BY SumWhole
<1> QED
  BY <1>1, SumShift

-----------------------------------------------------------------------------
(* Folds.  FoldLeft is defined by a function over the sets of places of the *)
(* sequence that takes the greatest place last; its values on 1..0, 1..1,   *)
(* 1..2, ... are the steps of a loop.                                       *)

\* The greatest of some places is one of them, and that of the first n is n.
LEMMA TopIsOne ==
  ASSUME NEW n \in Nat, NEW s \in SUBSET (1..n), s # {}
  PROVE  Max(s) \in s
<1> DEFINE ahead == {k \in Nat : n - k \in s}
<1>1. ahead # {}
  <2>1. PICK x \in s : TRUE
    OBVIOUS
  <2>2. n - x \in Nat /\ n - (n - x) = x
    OBVIOUS
  <2> QED
    BY <2>1, <2>2
<1>2. PICK k \in ahead : \A j \in ahead : ~ (j < k)
  <2> HIDE DEF ahead
  <2>1. ahead \in SUBSET Nat
    BY DEF ahead
  <2> QED
    BY <1>1, <2>1, Descent
<1>3. ASSUME NEW y \in s PROVE n - k >= y
  <2>1. n - y \in Nat /\ n - (n - y) = y
    OBVIOUS
  <2>2. n - y \in ahead
    BY <2>1
  <2>3. ~ (n - y < k)
    BY <1>2, <2>2
  <2> QED
    BY <2>1, <2>3
<1> QED
  BY <1>3 DEF Max

\* The greatest of the first n places is n.
LEMMA TopOfFirst ==
  ASSUME NEW n \in Nat \ {0}
  PROVE  Max(1..n) = n /\ (1..n) \ {n} = 1..(n - 1)
<1>1. Max(1..n) \in 1..n /\ \A y \in 1..n : Max(1..n) >= y
  <2>1. n \in 1..n /\ \A y \in 1..n : n >= y
    OBVIOUS
  <2> QED
    BY <2>1 DEF Max
<1> QED
  BY <1>1

\* g folds F over the places of s, the greatest last.
Folds(g, base, F, n) ==
  \A s \in SUBSET (1..n) : g[s] = IF s = {} THEN base ELSE F[<<g[s \ {Max(s)}], Max(s)>>]

\* There is such a function: one can be built for the sets of each size.
LEMMA FoldExists ==
  ASSUME NEW n \in Nat, NEW D, NEW base \in D, NEW F \in [D \X (1..n) -> D]
  PROVE  \E g \in [SUBSET (1..n) -> D] : Folds(g, base, F, n)
<1> DEFINE S == 1..n
           Small(k) == {s \in SUBSET S : Cardinality(s) <= k}
           Value(g, s) == IF s = {} THEN base ELSE F[<<g[s \ {Max(s)}], Max(s)>>]
           Found == {k \in Nat : \E g \in [Small(k) -> D] : \A s \in Small(k) : g[s] = Value(g, s)}
<1>0. IsFiniteSet(S) /\ Cardinality(S) = n
  BY FS_Interval
<1>1. 0 \in Found
  <2>1. ASSUME NEW s \in Small(0) PROVE s = {}
    <3>1. s \in SUBSET S /\ Cardinality(s) <= 0
      OBVIOUS
    <3> HIDE DEF S
    <3>2. IsFiniteSet(s) /\ Cardinality(s) \in Nat
      BY <1>0, <3>1, FS_Subset, FS_CardinalityType
    <3>3. Cardinality(s) = 0
      BY <3>1, <3>2
    <3> QED
      BY <3>2, <3>3, FS_EmptySet
  <2> DEFINE g == [s \in Small(0) |-> base]
  <2>2. g \in [Small(0) -> D] /\ \A s \in Small(0) : g[s] = Value(g, s)
    BY <2>1
  <2> QED
    BY <2>2
<1>2. ASSUME NEW k \in Nat, k \in Found PROVE k + 1 \in Found
  <2>1. PICK g \in [Small(k) -> D] : \A s \in Small(k) : g[s] = Value(g, s)
    BY <1>2
  <2> DEFINE h == [s \in Small(k + 1) |-> Value(g, s)]
  <2>2. ASSUME NEW s \in Small(k + 1), s # {}
        PROVE  s \ {Max(s)} \in Small(k) /\ s \ {Max(s)} \in Small(k + 1) /\ Max(s) \in S
    <3>0. s \in SUBSET S /\ Cardinality(s) <= k + 1
      OBVIOUS
    <3>1. Max(s) \in s
      BY <3>0, <2>2, TopIsOne
    <3>4. IsFiniteSet(s)
      <4> HIDE DEF S
      <4> QED
        BY <1>0, <3>0, FS_Subset
    <3>2. Cardinality(s \ {Max(s)}) = Cardinality(s) - 1 /\ Cardinality(s) \in Nat
      BY <3>1, <3>4, FS_RemoveElement, FS_CardinalityType
    <3>3. Cardinality(s \ {Max(s)}) <= k /\ Cardinality(s \ {Max(s)}) <= k + 1
      BY <3>0, <3>2
    <3> QED
      BY <3>0, <3>1, <3>3
  <2>3. ASSUME NEW s \in Small(k + 1) PROVE h[s] \in D /\ h[s] = Value(h, s)
    <3>1. CASE s = {}
      BY <3>1
    <3>2. CASE s # {}
      <4>1. s \ {Max(s)} \in Small(k) /\ s \ {Max(s)} \in Small(k + 1) /\ Max(s) \in S
        BY <2>2, <3>2
      <4>2. g[s \ {Max(s)}] \in D
        BY <2>1, <4>1
      <4>3. h[s] = F[<<g[s \ {Max(s)}], Max(s)>>]
        BY <3>2
      <4>4. h[s] \in D
        <5> HIDE DEF h, Small
        <5> QED
          BY <4>1, <4>2, <4>3
      <4>5. h[s \ {Max(s)}] = g[s \ {Max(s)}]
        <5>1. h[s \ {Max(s)}] = Value(g, s \ {Max(s)})
          BY <4>1
        <5>2. g[s \ {Max(s)}] = Value(g, s \ {Max(s)})
          BY <2>1, <4>1
        <5> HIDE DEF h, Small, Value
        <5> QED
          BY <5>1, <5>2
      <4> HIDE DEF h, Small
      <4> QED
        BY <3>2, <4>3, <4>4, <4>5
    <3> QED
      BY <3>1, <3>2
  <2>4. h \in [Small(k + 1) -> D]
    <3>1. \A s \in Small(k + 1) : Value(g, s) \in D
      BY <2>3
    <3> HIDE DEF Small, Value
    <3> QED
      BY <3>1
  <2> HIDE DEF Small, Value, h
  <2> QED
    BY <2>3, <2>4
<1>3. Nat \subseteq Found
  <2> HIDE DEF Found
  <2> QED
    BY <1>1, <1>2, CountUp
<1>4. Small(n) = SUBSET S
  BY <1>0, FS_Subset, FS_CardinalityType
<1>5. PICK g \in [SUBSET S -> D] : \A s \in SUBSET S : g[s] = Value(g, s)
  <2>1. n \in Found
    BY <1>3
  <2> QED
    BY <2>1, <1>4
<1> QED
  BY <1>5 DEF Folds

\* h folds F where its values are in D.
FoldsIn(h, D, base, F, n) ==
  /\ base \in D /\ F \in [D \X (1..n) -> D] /\ h[{}] = base
  /\ \A s \in SUBSET (1..n) :
       (s # {} /\ h[s \ {Max(s)}] \in D) => h[s] = F[<<h[s \ {Max(s)}], Max(s)>>]

\* c goes from base by n steps of F.
Walks(c, D, base, F, n) ==
  /\ c \in [0..n -> D] /\ c[0] = base
  /\ \A k \in 1..n : c[k] = F[<<c[k - 1], k>>]

\* The values of such a function on 1..0, 1..1, 1..2, ... are such a walk.
LEMMA FoldWalk ==
  ASSUME NEW n \in Nat, NEW D, NEW base, NEW F, NEW h, FoldsIn(h, D, base, F, n)
  PROVE  \E c : Walks(c, D, base, F, n) /\ c[n] = h[1..n]
<1> DEFINE T == {k \in 0..n : h[1..k] \in D}
           c == [k \in 0..n |-> h[1..k]]
<1>0. 1..0 = {} /\ h[{}] = base /\ base \in D /\ F \in [D \X (1..n) -> D]
  BY DEF FoldsIn
<1>1. 0 \in T
  BY <1>0
<1>2. ASSUME NEW k \in 1..n, h[1..(k - 1)] \in D
      PROVE  h[1..k] = F[<<h[1..(k - 1)], k>>] /\ h[1..k] \in D
  <2>1. Max(1..k) = k /\ (1..k) \ {k} = 1..(k - 1)
    BY TopOfFirst
  <2>2. 1..k \in SUBSET (1..n) /\ 1..k # {}
    OBVIOUS
  <2>3. h[1..k] = F[<<h[1..(k - 1)], k>>]
    BY <1>2, <2>1, <2>2 DEF FoldsIn
  <2> QED
    BY <1>0, <1>2, <2>3
<1>3. 0..n \subseteq T
  <2>1. ASSUME NEW k \in 1..n, k - 1 \in T PROVE k \in T
    <3>1. h[1..k] \in D
      BY <1>2, <2>1
    <3> QED
      BY <3>1
  <2> HIDE DEF T
  <2> QED
    BY <1>1, <2>1, CountTo
<1>4. c \in [0..n -> D]
  BY <1>3
<1>5. c[0] = base /\ c[n] = h[1..n]
  BY <1>0
<1>6. ASSUME NEW k \in 1..n PROVE c[k] = F[<<c[k - 1], k>>]
  <2>1. k - 1 \in 0..n /\ k \in 0..n
    OBVIOUS
  <2>2. h[1..(k - 1)] \in D
    BY <1>3, <2>1
  <2>3. h[1..k] = F[<<h[1..(k - 1)], k>>]
    BY <1>2, <2>2
  <2> QED
    BY <2>1, <2>3
<1> HIDE DEF c
<1> QED
  BY <1>4, <1>5, <1>6 DEF Walks
=============================================================================
