----------------------------- MODULE SumLemmas ------------------------------
(***************************************************************************)
(* What a sum over a finite set is: SumFunctionOnSet folds its set in an   *)
(* order of its own choosing, and these lemmas let a proof take the        *)
(* elements in any order.  Where a proof needs an induction, it takes a    *)
(* counterexample of least cardinality (LeastNumber).                      *)
(***************************************************************************)
EXTENDS Functions, FiniteSetTheorems, WellFoundedInduction, TLAPS

(* A non-empty set of naturals has a least one.                            *)
LEMMA LeastNumber ==
  ASSUME NEW T \in SUBSET Nat, T # {}
  PROVE  \E n \in T : \A m \in T : n <= m
<1> DEFINE R == {p \in Nat \X Nat : p[1] < p[2]}
<1>1. IsWellFoundedOn(R, Nat)
  BY NatLessThanWellFounded DEF OpToRel
<1> HIDE DEF R
<1>2. PICK n \in T : \A m \in T : <<m, n>> \notin R
  BY <1>1, WFMin
<1>3. \A m \in T : ~(m < n)
  BY <1>2 DEF R
<1>4. QED
  BY <1>3

-----------------------------------------------------------------------------
(* One step of the fold, given the sums of the smaller sets.               *)
Pick(s) == CHOOSE x \in s : TRUE
Body(f, g, s) == IF s = {} THEN 0 ELSE f[Pick(s)] + g[s \ {Pick(s)}]

(* g holds the sums of all subsets of S.                                   *)
Sums(f, g, S) == g = [s \in SUBSET S |-> Body(f, g, s)]

(* The fold is a choice of such a function: nothing is known of it before  *)
(* one is shown to exist.                                                  *)
LEMMA SumIsFold ==
  ASSUME NEW f, NEW S
  PROVE  SumFunctionOnSet(f, S) = (CHOOSE g : Sums(f, g, S))[S]
  BY DEF SumFunctionOnSet, FoldFunctionOnSet, MapThenFoldSet, Sums, Body, Pick

(* A finite set without one of its elements is smaller by one.             *)
LEMMA OneLess ==
  ASSUME NEW s, IsFiniteSet(s), NEW x \in s
  PROVE  /\ IsFiniteSet(s \ {x})
         /\ Cardinality(s) - 1 \in Nat
         /\ Cardinality(s \ {x}) = Cardinality(s) - 1
<1>1. IsFiniteSet(s \ {x}) /\ Cardinality(s \ {x}) = Cardinality(s) - 1
  BY FS_RemoveElement
<1>2. QED
  BY <1>1, FS_CardinalityType

LEMMA PickLeaves ==
  ASSUME NEW s, IsFiniteSet(s), s # {}
  PROVE  /\ Pick(s) \in s
         /\ IsFiniteSet(s \ {Pick(s)})
         /\ Cardinality(s) - 1 \in Nat
         /\ Cardinality(s \ {Pick(s)}) = Cardinality(s) - 1
<1>1. Pick(s) \in s
  BY DEF Pick
<1>2. QED
  BY <1>1, OneLess

(* The sums of all subsets exist: were n the least size up to which they   *)
(* do not, those up to n - 1 would give them.                              *)
LEMMA SumsExist ==
  ASSUME NEW S, IsFiniteSet(S), NEW f, \A x \in S : f[x] \in Int
  PROVE  \E g \in [SUBSET S -> Int] : Sums(f, g, S)
<1> DEFINE UpTo(n, g) == \A s \in SUBSET S : Cardinality(s) <= n => g[s] = Body(f, g, s)
           Bad == {n \in Nat : ~\E g \in [SUBSET S -> Int] : UpTo(n, g)}
<1>0. \A s \in SUBSET S : IsFiniteSet(s) /\ Cardinality(s) \in Nat /\ Cardinality(s) <= Cardinality(S)
  BY FS_Subset, FS_CardinalityType
<1>1. ASSUME NEW g \in [SUBSET S -> Int], NEW s \in SUBSET S
      PROVE  Body(f, g, s) \in Int
  <2>1. s # {} => Pick(s) \in S
    BY <1>0, PickLeaves
  <2>2. s \ {Pick(s)} \in SUBSET S
    OBVIOUS
  <2>3. QED
    BY <2>1, <2>2 DEF Body
<1>2. 0 \notin Bad
  <2> DEFINE g == [s \in SUBSET S |-> 0]
  <2>1. g \in [SUBSET S -> Int]
    OBVIOUS
  <2>2. \A s \in SUBSET S : Cardinality(s) <= 0 => s = {}
    BY <1>0, FS_EmptySet
  <2>3. UpTo(0, g)
    BY <2>2 DEF Body
  <2>4. QED
    BY <2>1, <2>3
<1>3. ASSUME NEW n \in Nat \ {0}, n - 1 \notin Bad
      PROVE  n \notin Bad
  <2>0. n - 1 \in Nat
    OBVIOUS
  <2>1. PICK g \in [SUBSET S -> Int] : UpTo(n - 1, g)
    BY <1>3, <2>0
  <2> DEFINE h == [s \in SUBSET S |-> Body(f, g, s)]
  <2>2. h \in [SUBSET S -> Int]
    BY <1>1
  <2>3. ASSUME NEW s \in SUBSET S, Cardinality(s) <= n PROVE h[s] = Body(f, h, s)
    <3>1. CASE s = {}
      BY <3>1 DEF Body
    <3>2. CASE s # {}
      <4>1. Cardinality(s \ {Pick(s)}) <= n - 1
        BY <3>2, <1>0, <2>3, PickLeaves
      <4>2. s \ {Pick(s)} \in SUBSET S
        OBVIOUS
      <4>3. h[s \ {Pick(s)}] = g[s \ {Pick(s)}]
        BY <4>1, <4>2, <2>1
      <4>4. QED
        BY <4>3, <3>2 DEF Body
    <3>3. QED
      BY <3>1, <3>2
  <2>4. UpTo(n, h)
    BY <2>3
  <2>5. QED
    BY <2>2, <2>4
<1>4. Bad = {}
  <2>1. SUFFICES ASSUME Bad # {} PROVE FALSE
    OBVIOUS
  <2>2. Bad \in SUBSET Nat
    OBVIOUS
  <2> HIDE DEF Bad
  <2>3. PICK n \in Bad : \A m \in Bad : n <= m
    BY <2>1, <2>2, LeastNumber
  <2>4. n \in Nat \ {0} /\ n - 1 \notin Bad
    BY <1>2, <2>2, <2>3
  <2>5. QED
    BY <2>3, <2>4, <1>3
<1>5. PICK g \in [SUBSET S -> Int] : UpTo(Cardinality(S), g)
  BY <1>4, FS_CardinalityType
<1>6. \A s \in SUBSET S : g[s] = Body(f, g, s)
  BY <1>0, <1>5
<1>7. Sums(f, g, S)
  BY <1>6 DEF Sums
<1>8. QED
  BY <1>7

(* They are unique, and those of a set are those of its supersets.         *)
LEMMA SumsAgree ==
  ASSUME NEW S, IsFiniteSet(S), NEW f, NEW T \in SUBSET S,
         NEW g, Sums(f, g, S), NEW h, Sums(f, h, T)
  PROVE  g[T] = h[T]
<1> DEFINE Bad == {n \in Nat : \E s \in SUBSET T : Cardinality(s) = n /\ g[s] # h[s]}
<1>0. /\ \A s \in SUBSET S : g[s] = Body(f, g, s)
      /\ \A s \in SUBSET T : h[s] = Body(f, h, s)
  BY DEF Sums
<1>1. \A s \in SUBSET T : IsFiniteSet(s) /\ Cardinality(s) \in Nat
  BY FS_Subset, FS_CardinalityType
<1>2. ASSUME NEW n \in Bad, \A m \in Bad : n <= m PROVE FALSE
  <2>1. PICK s \in SUBSET T : Cardinality(s) = n /\ g[s] # h[s]
    OBVIOUS
  <2>2. s # {}
    BY <1>0, <2>1 DEF Body
  <2>3. Cardinality(s \ {Pick(s)}) = n - 1 /\ n - 1 \in Nat
    BY <1>1, <2>1, <2>2, PickLeaves
  <2>4. s \ {Pick(s)} \in SUBSET T
    OBVIOUS
  <2>5. n - 1 \notin Bad
    BY <1>2, <2>3
  <2>6. g[s \ {Pick(s)}] = h[s \ {Pick(s)}]
    BY <2>3, <2>4, <2>5
  <2>7. QED
    BY <1>0, <2>1, <2>6 DEF Body
<1>3. Bad = {}
  <2>1. Bad \in SUBSET Nat
    OBVIOUS
  <2> HIDE DEF Bad
  <2>2. QED
    BY <1>2, <2>1, LeastNumber
<1>4. QED
  BY <1>1, <1>3
-----------------------------------------------------------------------------
(* The sum over no elements.                                               *)
LEMMA SumEmpty == ASSUME NEW f PROVE SumFunctionOnSet(f, {}) = 0
<1>1. \E g \in [SUBSET {} -> Int] : Sums(f, g, {})
  BY SumsExist, FS_EmptySet
<1>2. Sums(f, CHOOSE g : Sums(f, g, {}), {})
  BY <1>1
<1>3. QED
  BY <1>2, SumIsFold DEF Sums, Body

(* A sum is an integer, and is its pick plus the sum of the others.        *)
LEMMA SumPick ==
  ASSUME NEW S, IsFiniteSet(S), NEW f, \A x \in S : f[x] \in Int
  PROVE  /\ SumFunctionOnSet(f, S) \in Int
         /\ S # {} => SumFunctionOnSet(f, S) = f[Pick(S)] + SumFunctionOnSet(f, S \ {Pick(S)})
<1> DEFINE g == CHOOSE g : Sums(f, g, S)
           T == S \ {Pick(S)}
           h == CHOOSE h : Sums(f, h, T)
<1>1. Sums(f, g, S)
  BY SumsExist
<1>2. g[S] \in Int
  <2>1. PICK k \in [SUBSET S -> Int] : Sums(f, k, S)
    BY SumsExist
  <2>2. k[S] \in Int
    OBVIOUS
  <2>3. g[S] = k[S]
    BY <1>1, <2>1, SumsAgree
  <2>4. QED
    BY <2>2, <2>3
<1>3. IsFiniteSet(T) /\ T \in SUBSET S
  BY FS_Subset
<1>4. Sums(f, h, T)
  BY <1>3, SumsExist
<1> HIDE DEF g, h
<1>5. g[T] = h[T]
  BY <1>1, <1>3, <1>4, SumsAgree
<1>6. S # {} => g[S] = f[Pick(S)] + g[T]
  BY <1>1 DEF Sums, Body
<1>7. SumFunctionOnSet(f, S) = g[S] /\ SumFunctionOnSet(f, T) = h[T]
  BY SumIsFold DEF g, h
<1>8. QED
  BY <1>2, <1>5, <1>6, <1>7

LEMMA SumInt ==
  ASSUME NEW S, IsFiniteSet(S), NEW f, \A x \in S : f[x] \in Int
  PROVE  SumFunctionOnSet(f, S) \in Int
  BY SumPick

(* Any element may be taken first.                                         *)
LEMMA SumRemove ==
  ASSUME NEW S, IsFiniteSet(S), NEW f, \A x \in S : f[x] \in Int, NEW x \in S
  PROVE  SumFunctionOnSet(f, S) = f[x] + SumFunctionOnSet(f, S \ {x})
<1> DEFINE Sum(s) == SumFunctionOnSet(f, s)
           Wrong(s) == \E y \in s : Sum(s) # f[y] + Sum(s \ {y})
           Bad == {n \in Nat : \E s \in SUBSET S : Cardinality(s) = n /\ Wrong(s)}
<1>0. \A s \in SUBSET S : IsFiniteSet(s) /\ Cardinality(s) \in Nat
  BY FS_Subset, FS_CardinalityType
<1>1. \A s \in SUBSET S : /\ Sum(s) \in Int
                          /\ s # {} => Sum(s) = f[Pick(s)] + Sum(s \ {Pick(s)})
  BY <1>0, SumPick
<1> HIDE DEF Sum
<1>2. ASSUME NEW n \in Bad, \A m \in Bad : n <= m PROVE FALSE
  <2>1. PICK s \in SUBSET S : Cardinality(s) = n /\ Wrong(s)
    OBVIOUS
  <2>2. PICK y \in s : Sum(s) # f[y] + Sum(s \ {y})
    BY <2>1
  <2> DEFINE c == Pick(s)
  <2>3. c \in s /\ c # y
    BY <1>1, <2>1, <2>2 DEF Pick
  <2> HIDE DEF c
  <2>4. /\ Cardinality(s \ {c}) = n - 1 /\ Cardinality(s \ {y}) = n - 1
        /\ n - 1 \in Nat
    BY <1>0, <2>1, <2>3, OneLess
  <2>5. ~Wrong(s \ {c}) /\ ~Wrong(s \ {y})
    <3>1. n - 1 \notin Bad
      BY <1>2, <2>4
    <3>2. s \ {c} \in SUBSET S /\ s \ {y} \in SUBSET S
      OBVIOUS
    <3>3. QED
      BY <2>4, <3>1, <3>2
  <2>6. Sum(s \ {c}) = f[y] + Sum((s \ {c}) \ {y})
    BY <2>3, <2>5
  <2>7. Sum(s \ {y}) = f[c] + Sum((s \ {y}) \ {c})
    BY <2>3, <2>5
  <2>8. (s \ {c}) \ {y} = (s \ {y}) \ {c}
    OBVIOUS
  <2>9. Sum(s) = f[c] + Sum(s \ {c})
    BY <1>1, <2>3 DEF c
  <2>10. /\ f[c] \in Int /\ f[y] \in Int
         /\ Sum((s \ {c}) \ {y}) \in Int
    BY <1>1, <2>3
  <2> DEFINE rest == Sum((s \ {c}) \ {y})
  <2>11. Sum(s) = f[c] + (f[y] + rest) /\ Sum(s \ {y}) = f[c] + rest
    BY <2>6, <2>7, <2>8, <2>9
  <2> HIDE DEF rest
  <2>12. f[y] + Sum(s \ {y}) = f[c] + (f[y] + rest)
    BY <2>10, <2>11 DEF rest
  <2>13. QED
    BY <2>2, <2>11, <2>12
<1>3. Bad = {}
  <2>1. Bad \in SUBSET Nat
    OBVIOUS
  <2> HIDE DEF Bad
  <2>2. QED
    BY <1>2, <2>1, LeastNumber
<1>4. ~Wrong(S)
  BY <1>0, <1>3
<1>5. QED
  BY <1>4 DEF Sum

(* An element that is not there adds itself.                               *)
LEMMA SumAdd ==
  ASSUME NEW S, IsFiniteSet(S), NEW x, x \notin S, NEW f, \A y \in S \cup {x} : f[y] \in Int
  PROVE  SumFunctionOnSet(f, S \cup {x}) = SumFunctionOnSet(f, S) + f[x]
<1>1. IsFiniteSet(S \cup {x}) /\ (S \cup {x}) \ {x} = S
  BY FS_AddElement
<1>2. SumFunctionOnSet(f, S \cup {x}) = f[x] + SumFunctionOnSet(f, S)
  BY <1>1, SumRemove
<1>3. SumFunctionOnSet(f, S) \in Int
  BY SumPick
<1>4. QED
  BY <1>2, <1>3

(* A sum does not grow when none of its terms does.                        *)
LEMMA SumMonotonic ==
  ASSUME NEW S, IsFiniteSet(S),
         NEW f, \A x \in S : f[x] \in Int,
         NEW g, \A x \in S : g[x] \in Int /\ g[x] <= f[x]
  PROVE  SumFunctionOnSet(g, S) <= SumFunctionOnSet(f, S)
<1> DEFINE Wrong(s) == ~(SumFunctionOnSet(g, s) <= SumFunctionOnSet(f, s))
           Bad == {n \in Nat : \E s \in SUBSET S : Cardinality(s) = n /\ Wrong(s)}
<1>0. \A s \in SUBSET S : IsFiniteSet(s) /\ Cardinality(s) \in Nat
  BY FS_Subset, FS_CardinalityType
<1>1. ASSUME NEW n \in Bad, \A m \in Bad : n <= m PROVE FALSE
  <2>1. PICK s \in SUBSET S : Cardinality(s) = n /\ Wrong(s)
    OBVIOUS
  <2>2. s # {}
    BY <2>1, SumEmpty
  <2>3. PICK x \in s : TRUE
    BY <2>2
  <2> DEFINE t == s \ {x}
  <2>4. /\ IsFiniteSet(t) /\ Cardinality(t) = n - 1 /\ n - 1 \in Nat
        /\ t \in SUBSET S
    BY <1>0, <2>1, OneLess
  <2>5. ~Wrong(t)
    <3>1. n - 1 \notin Bad
      BY <1>1, <2>4
    <3>2. QED
      BY <2>4, <3>1
  <2>6. /\ SumFunctionOnSet(f, s) = f[x] + SumFunctionOnSet(f, t)
        /\ SumFunctionOnSet(g, s) = g[x] + SumFunctionOnSet(g, t)
    BY <1>0, SumRemove
  <2>7. SumFunctionOnSet(f, t) \in Int /\ SumFunctionOnSet(g, t) \in Int
    BY <2>4, SumPick
  <2>8. QED
    BY <2>1, <2>5, <2>6, <2>7
<1>2. Bad = {}
  <2>1. Bad \in SUBSET Nat
    OBVIOUS
  <2> HIDE DEF Bad
  <2>2. QED
    BY <1>1, <2>1, LeastNumber
<1>3. QED
  BY <1>0, <1>2
=============================================================================
