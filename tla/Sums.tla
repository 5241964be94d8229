-------------------------------- MODULE Sums --------------------------------
(***************************************************************************)
(* What MapThenSumSet of the community modules adds up to, for any finite  *)
(* set of integers: nothing over the empty set, and otherwise any member   *)
(* and the rest.  The proof modules whose components add up amounts or     *)
(* people extend it.                                                       *)
(*                                                                         *)
(*   TotalFacts  the equations of a sum, whichever member is taken off     *)
(*   TotalSame   sums of functions that agree are equal                    *)
(*   TotalNat    a sum of numbers that are not negative is not negative,   *)
(*   TotalNone   and one of noughts is nought                              *)
(*   Least       a set of natural numbers has a least member               *)
(*                                                                         *)
(* The community modules define the sum by a function that is chosen, and  *)
(* let CHOOSE take the members off; so the equation that chosen function   *)
(* has to satisfy (AddsUp) is shown to have a solution, and only one, and  *)
(* its order of taking members off not to matter (SumSheds).  Induction    *)
(* over finite sets is by the smallest counterexample (Smallest).          *)
(***************************************************************************)
EXTENDS Integers, FiniteSets, FiniteSetsExt, FiniteSetTheorems, WellFoundedInduction, TLAPS

\* Among natural numbers there is always a least one.
LEMMA Least ==
  ASSUME NEW T \in SUBSET Nat, T # {}
  PROVE  \E x \in T : \A y \in T : x <= y
<1> DEFINE R == {ss \in Nat \X Nat : ss[1] < ss[2]}
<1>1. IsWellFoundedOn(R, Nat)
  BY NatLessThanWellFounded DEF OpToRel
<1> HIDE DEF R
<1>2. PICK x \in T : \A y \in T : ~ (<<y, x>> \in R)
  BY <1>1, WFMin, Zenon
<1>3. \A y, z \in Nat : y < z => <<y, z>> \in R
  BY DEF R
<1>4. ASSUME NEW y \in T
      PROVE  x <= y
  <2>1. x \in Nat /\ y \in Nat /\ ~ (y < x)
    BY <1>2, <1>3
  <2> QED
    BY <2>1
<1> QED
  BY <1>4

\* Of the subsets of a finite set that fail a test, one has none that fails
\* below it.
LEMMA Smallest ==
  ASSUME NEW S, IsFiniteSet(S), NEW Bad \in SUBSET SUBSET S, Bad # {}
  PROVE  \E s \in Bad : \A x \in s : s \ {x} \notin Bad
<1> DEFINE Sizes == {Cardinality(s) : s \in Bad}
<1>1. \A s \in Bad : IsFiniteSet(s) /\ Cardinality(s) \in Nat
  BY FS_Subset, FS_CardinalityType
<1>2. PICK n \in Sizes : \A m \in Sizes : n <= m
  <2>1. Sizes \in SUBSET Nat /\ Sizes # {}
    BY <1>1
  <2> HIDE DEF Sizes
  <2> QED
    BY <2>1, Least
<1>3. PICK s \in Bad : Cardinality(s) = n
  BY <1>2
<1>4. ASSUME NEW x \in s, s \ {x} \in Bad
      PROVE  FALSE
  <2>1. Cardinality(s \ {x}) = n - 1 /\ n \in Nat
    BY <1>1, <1>3, FS_RemoveElement
  <2> QED
    BY <1>2, <1>4, <2>1
<1> QED
  BY <1>4

Pick(s) == CHOOSE x \in s : TRUE
Total(f, S) == MapThenSumSet(LAMBDA x : f[x], S)
AddsUp(g, f, S) ==
  g = [s \in SUBSET S |-> IF s = {} THEN 0 ELSE f[Pick(s)] + g[s \ {Pick(s)}]]

LEMMA PickIn == \A s : s # {} => Pick(s) \in s
BY DEF Pick

LEMMA SumExists ==
  ASSUME NEW S, IsFiniteSet(S), NEW f, \A x \in S : f[x] \in Int
  PROVE  \E g \in [SUBSET S -> Int] : AddsUp(g, f, S)
<1> DEFINE Right(g, s) == g[s] = IF s = {} THEN 0 ELSE f[Pick(s)] + g[s \ {Pick(s)}]
           UpTo(n) == \E g \in [SUBSET S -> Int] :
                        \A s \in SUBSET S : Cardinality(s) <= n => Right(g, s)
           Bad == {n \in Nat : ~UpTo(n)}
<1>0. \A s \in SUBSET S : IsFiniteSet(s) /\ Cardinality(s) \in Nat
  BY FS_Subset, FS_CardinalityType
<1>1. UpTo(0)
  <2> DEFINE g == [s \in SUBSET S |-> 0]
  <2>1. g \in [SUBSET S -> Int] /\ \A s \in SUBSET S : Cardinality(s) <= 0 => Right(g, s)
    BY <1>0, FS_EmptySet
  <2> HIDE DEF g
  <2> QED
    BY <2>1
<1>2. ASSUME NEW n \in Nat, UpTo(n)
      PROVE  UpTo(n + 1)
  <2>1. PICK g \in [SUBSET S -> Int] : \A s \in SUBSET S : Cardinality(s) <= n => Right(g, s)
    BY <1>2
  <2> DEFINE k == [s \in SUBSET S |-> IF s = {} THEN 0 ELSE f[Pick(s)] + g[s \ {Pick(s)}]]
  <2>2. k \in [SUBSET S -> Int]
    BY PickIn
  <2>3. ASSUME NEW s \in SUBSET S, Cardinality(s) <= n + 1
        PROVE  Right(k, s)
    <3>1. CASE s = {}
      BY <3>1
    <3>2. CASE s # {}
      <4> DEFINE r == s \ {Pick(s)}
      <4>1. r \in SUBSET S /\ Cardinality(r) <= n
        BY <1>0, <2>3, <3>2, PickIn, FS_RemoveElement
      <4>2. g[r] = k[r]
        BY <2>1, <4>1
      <4> QED
        BY <3>2, <4>1, <4>2
    <3> QED
      BY <3>1, <3>2
  <2> HIDE DEF k
  <2> QED
    BY <2>2, <2>3
<1>3. UpTo(Cardinality(S))
  <2> SUFFICES ASSUME Bad # {} PROVE FALSE
    BY <1>0
  <2> HIDE DEF UpTo
  <2>1. PICK n \in Bad : \A m \in Bad : n <= m
    BY Least
  <2>2. n # 0 /\ n \in Nat /\ n - 1 \in Nat
    BY <1>1, <2>1
  <2>3. UpTo(n - 1)
    BY <2>1, <2>2
  <2>4. UpTo((n - 1) + 1)
    BY <1>2, <2>2, <2>3
  <2>5. (n - 1) + 1 = n
    BY <2>2
  <2> QED
    BY <2>1, <2>4, <2>5
<1>4. PICK g \in [SUBSET S -> Int] : \A s \in SUBSET S : Cardinality(s) <= Cardinality(S) => Right(g, s)
  BY <1>3
<1>5. \A s \in SUBSET S : Right(g, s)
  BY <1>4, FS_Subset
<1> QED
  BY <1>4, <1>5 DEF AddsUp

Sheds(g, f, T, z) == g[T] = f[z] + g[T \ {z}]

\* Whatever element is taken off, the rest is what is left.
LEMMA SumSheds ==
  ASSUME NEW S, IsFiniteSet(S), NEW f \in [S -> Int],
         NEW g \in [SUBSET S -> Int], AddsUp(g, f, S), NEW T \in SUBSET S, NEW z \in T
  PROVE  Sheds(g, f, T, z)
<1> DEFINE Bad == {s \in SUBSET S : \E x \in s : g[s] # f[x] + g[s \ {x}]}
<1> SUFFICES ASSUME Bad # {} PROVE FALSE
  BY DEF Sheds
<1>1. PICK s \in Bad : \A y \in s : s \ {y} \notin Bad
  <2> HIDE DEF Bad
  <2>1. Bad \in SUBSET SUBSET S
    BY DEF Bad
  <2> QED
    BY <2>1, Smallest
<1>2. PICK x \in s : g[s] # f[x] + g[s \ {x}]
  OBVIOUS
<1> DEFINE p == Pick(s)
<1>3. p \in s /\ g[s] = f[p] + g[s \ {p}]
  BY <1>2, PickIn DEF AddsUp
<1>4. p # x
  BY <1>2, <1>3
<1> HIDE DEF p
<1>5. g[s \ {p}] = f[x] + g[(s \ {p}) \ {x}]
  BY <1>1, <1>3, <1>4
<1>6. g[s \ {x}] = f[p] + g[(s \ {x}) \ {p}]
  BY <1>1, <1>3, <1>4
<1>7. (s \ {p}) \ {x} = (s \ {x}) \ {p}
  OBVIOUS
<1> DEFINE rest == g[(s \ {p}) \ {x}]
<1>8. f[x] \in Int /\ f[p] \in Int /\ rest \in Int
  BY <1>3
<1>9. f[p] + (f[x] + rest) = f[x] + (f[p] + rest)
  BY <1>8
<1>10. g[s] = f[p] + (f[x] + rest) /\ g[s \ {x}] = f[p] + rest
  BY <1>3, <1>5, <1>6, <1>7
<1> QED
  BY <1>2, <1>9, <1>10

LEMMA SumUnique ==
  ASSUME NEW T, IsFiniteSet(T), NEW f, NEW g, AddsUp(g, f, T), NEW h, AddsUp(h, f, T)
  PROVE  h = g
<1> DEFINE Bad == {s \in SUBSET T : h[s] # g[s]}
<1>1. h = [s \in SUBSET T |-> h[s]] /\ g = [s \in SUBSET T |-> g[s]]
  BY DEF AddsUp
<1>2. SUFFICES ASSUME Bad # {} PROVE FALSE
  BY <1>1
<1>3. PICK s \in Bad : \A x \in s : s \ {x} \notin Bad
  <2> HIDE DEF Bad
  <2>1. Bad \in SUBSET SUBSET T
    BY DEF Bad
  <2> QED
    BY <1>2, <2>1, Smallest
<1>4. CASE s = {}
  BY <1>4 DEF AddsUp
<1>5. CASE s # {}
  <2>1. h[s] = f[Pick(s)] + h[s \ {Pick(s)}] /\ g[s] = f[Pick(s)] + g[s \ {Pick(s)}]
    BY <1>5 DEF AddsUp
  <2> QED
    BY <1>3, <1>5, <2>1, PickIn
<1> QED
  BY <1>4, <1>5

LEMMA SumBelow ==
  ASSUME NEW S, NEW f, NEW g, AddsUp(g, f, S), NEW T \in SUBSET S,
         NEW k \in [SUBSET T -> Int], \A s \in SUBSET T : k[s] = g[s]
  PROVE  AddsUp(k, f, T)
<1>1. \A s \in SUBSET T : k[s] = IF s = {} THEN 0 ELSE f[Pick(s)] + g[s \ {Pick(s)}]
  BY DEF AddsUp
<1>2. \A s \in SUBSET T : k[s \ {Pick(s)}] = g[s \ {Pick(s)}]
  OBVIOUS
<1>3. \A s \in SUBSET T : k[s] = IF s = {} THEN 0 ELSE f[Pick(s)] + k[s \ {Pick(s)}]
  BY <1>1, <1>2
<1> QED
  BY <1>3 DEF AddsUp

LEMMA TotalIs ==
  ASSUME NEW S, IsFiniteSet(S), NEW f,
         NEW g \in [SUBSET S -> Int], AddsUp(g, f, S), NEW T \in SUBSET S
  PROVE  Total(f, T) = g[T]
<1> DEFINE k == [s \in SUBSET T |-> g[s]]
<1>0. k \in [SUBSET T -> Int] /\ \A s \in SUBSET T : k[s] = g[s]
  OBVIOUS
<1>1. AddsUp(k, f, T)
  <2> HIDE DEF k
  <2> QED
    BY <1>0, SumBelow
<1>2. ASSUME NEW h, AddsUp(h, f, T)
      PROVE  h = k
  <2> HIDE DEF k
  <2>1. IsFiniteSet(T)
    BY FS_Subset
  <2> QED
    BY <1>1, <1>2, <2>1, SumUnique
<1>3. Total(f, T) = k[T]
  <2> HIDE DEF k
  <2> QED
    BY <1>1, <1>2, Zenon DEF Total, MapThenSumSet, MapThenFoldSet, AddsUp, Pick
<1> QED
  BY <1>3

\* The equation behind a sum has one solution, which gives the sum.
LEMMA SumSolved ==
  ASSUME NEW T, IsFiniteSet(T), NEW f, \A x \in T : f[x] \in Int
  PROVE  \E g : g[T] = Total(f, T) /\ \A h : AddsUp(h, f, T) <=> h = g
<1>1. PICK g \in [SUBSET T -> Int] : AddsUp(g, f, T)
  BY SumExists
<1>2. g[T] = Total(f, T)
  BY <1>1, TotalIs
<1> QED
  BY <1>1, <1>2, SumUnique

\* What the folds of the community modules add up.
LEMMA TotalFacts ==
  ASSUME NEW S, IsFiniteSet(S), NEW f \in [S -> Int]
  PROVE  /\ Total(f, {}) = 0
         /\ \A T \in SUBSET S : Total(f, T) \in Int
         /\ \A T \in SUBSET S : \A x \in T : Total(f, T) = f[x] + Total(f, T \ {x})
<1>1. PICK g \in [SUBSET S -> Int] : AddsUp(g, f, S)
  BY SumExists
<1>2. \A T \in SUBSET S : Total(f, T) = g[T]
  BY <1>1, TotalIs, ZenonT(30)
<1>3. g[{}] = 0
  BY <1>1 DEF AddsUp
<1>4. ASSUME NEW T \in SUBSET S, NEW x \in T
      PROVE  Total(f, T) = f[x] + Total(f, T \ {x})
  <2>1. g[T] = f[x] + g[T \ {x}]
    <3>1. Sheds(g, f, T, x)
      BY <1>1, SumSheds
    <3> QED
      BY <3>1 DEF Sheds
  <2> QED
    BY <1>2, <2>1
<1>5. \A T \in SUBSET S : Total(f, T) \in Int
  BY <1>2
<1>6. Total(f, {}) = 0
  BY <1>2, <1>3
<1> QED
  BY <1>4, <1>5, <1>6

\* Functions that agree where they are added up have one sum.
LEMMA TotalSame ==
  ASSUME NEW S, IsFiniteSet(S), NEW f \in [S -> Int], NEW k \in [S -> Int],
         NEW T \in SUBSET S, \A x \in T : f[x] = k[x]
  PROVE  Total(f, T) = Total(k, T)
<1> DEFINE Bad == {s \in SUBSET T : Total(f, s) # Total(k, s)}
<1> SUFFICES ASSUME Bad # {} PROVE FALSE
  OBVIOUS
<1>1. PICK s \in Bad : \A x \in s : s \ {x} \notin Bad
  <2> HIDE DEF Bad
  <2>1. Bad \in SUBSET SUBSET T /\ IsFiniteSet(T)
    BY FS_Subset DEF Bad
  <2> QED
    BY <2>1, Smallest
<1>2. CASE s = {}
  BY <1>2, TotalFacts
<1>3. ASSUME NEW x \in s
      PROVE  FALSE
  <2>1. Total(f, s) = f[x] + Total(f, s \ {x}) /\ Total(k, s) = k[x] + Total(k, s \ {x})
    BY TotalFacts
  <2> QED
    BY <1>1, <2>1
<1> QED
  BY <1>2, <1>3

\* Numbers that are not negative add up to such a number.
LEMMA TotalNat ==
  ASSUME NEW S, IsFiniteSet(S), NEW f \in [S -> Int], \A x \in S : f[x] >= 0,
         NEW T \in SUBSET S
  PROVE  Total(f, T) \in Nat
<1> DEFINE Bad == {s \in SUBSET T : Total(f, s) \notin Nat}
<1> SUFFICES ASSUME Bad # {} PROVE FALSE
  OBVIOUS
<1>1. PICK s \in Bad : \A x \in s : s \ {x} \notin Bad
  <2> HIDE DEF Bad
  <2>1. Bad \in SUBSET SUBSET T /\ IsFiniteSet(T)
    BY FS_Subset DEF Bad
  <2> QED
    BY <2>1, Smallest
<1>2. CASE s = {}
  BY <1>2, TotalFacts
<1>3. ASSUME NEW x \in s
      PROVE  FALSE
  <2>1. Total(f, s) = f[x] + Total(f, s \ {x})
    BY TotalFacts
  <2>2. f[x] \in Nat /\ Total(f, s \ {x}) \in Nat
    BY <1>1
  <2>3. f[x] + Total(f, s \ {x}) \in Nat
    BY <2>2
  <2> QED
    BY <2>1, <2>3
<1> QED
  BY <1>2, <1>3

\* Nothing adds up to nothing.
LEMMA TotalNone ==
  ASSUME NEW S, IsFiniteSet(S), NEW f \in [S -> Int], \A x \in S : f[x] = 0, NEW T \in SUBSET S
  PROVE  Total(f, T) = 0
<1> DEFINE Bad == {s \in SUBSET T : Total(f, s) # 0}
<1> SUFFICES ASSUME Bad # {} PROVE FALSE
  OBVIOUS
<1>1. PICK s \in Bad : \A x \in s : s \ {x} \notin Bad
  <2> HIDE DEF Bad
  <2>1. Bad \in SUBSET SUBSET T /\ IsFiniteSet(T)
    BY FS_Subset DEF Bad
  <2> QED
    BY <2>1, Smallest
<1>2. CASE s = {}
  BY <1>2, TotalFacts
<1>3. ASSUME NEW x \in s
      PROVE  FALSE
  <2>1. Total(f, s) = f[x] + Total(f, s \ {x})
    BY TotalFacts
  <2>2. f[x] = 0 /\ Total(f, s \ {x}) = 0
    BY <1>1
  <2> QED
    BY <1>1, <2>1, <2>2
<1> QED
  BY <1>2, <1>3

\* A sum does not fall when what is added up stays, or one more that is not
\* negative is added.
LEMMA TotalGrows ==
  ASSUME NEW S, IsFiniteSet(S), NEW f \in [S -> Int], NEW k \in [S -> Int], NEW T \in SUBSET S,
         \A x \in T : f[x] = k[x], NEW z \in S, k[z] >= 0
  PROVE  Total(f, T) <= Total(k, T \cup {z})
<1>1. Total(f, T) = Total(k, T) /\ Total(k, T) \in Int
  BY TotalSame, TotalFacts
<1>2. CASE z \in T
  <2>1. T \cup {z} = T
    BY <1>2
  <2> QED
    BY <1>1, <2>1
<1>3. CASE z \notin T
  <2>1. T \cup {z} \in SUBSET S /\ z \in T \cup {z} /\ (T \cup {z}) \ {z} = T
    BY <1>3
  <2>2. Total(k, T \cup {z}) = k[z] + Total(k, T)
    BY <2>1, TotalFacts
  <2> QED
    BY <1>1, <2>2
<1> QED
  BY <1>2, <1>3

=============================================================================
