------------------------------ MODULE SetLemmas ------------------------------
(* What the proofs about several parts need of sets of numbers and of sums. *)
(* Induction is stated with sets, because a lemma with an operator for a    *)
(* parameter cannot be used.  A sum is a fold in an order left open: an     *)
(* element can be taken out, whichever it is, a sum of sums is a sum, and   *)
(* terms that are zero do not count.                                        *)
EXTENDS Integers, FiniteSets, Functions, FiniteSetTheorems, WellFoundedInduction, TLAPS

-----------------------------------------------------------------------------
(* Induction in the form of sets.                                            *)

\* A set of natural numbers has a least element.
LEMMA LeastExists ==
  ASSUME NEW T, T \subseteq Nat, T # {}
  PROVE  \E x \in T : \A y \in T : x <= y
<1> DEFINE R == OpToRel(<, Nat)
<1>1. IsWellFoundedOn(R, Nat)
  BY NatLessThanWellFounded
<1>2. \A x, y \in Nat : x < y => << x, y >> \in R
  BY DEF OpToRel
<1> HIDE DEF R
<1>3. PICK x \in T : \A y \in T : ~(<< y, x >> \in R)
  BY <1>1, WFMin
<1>4. \A y \in T : ~(y < x) /\ y \in Nat /\ x \in Nat
  BY <1>2, <1>3
<1> QED BY <1>4

\* A set with 0 and with the successor of each of its numbers has them all.
LEMMA SetInduction ==
  ASSUME NEW S, 0 \in S, \A n \in Nat : n \in S => n + 1 \in S
  PROVE  Nat \subseteq S
<1> DEFINE T == { n \in Nat : n \notin S }
<1>1. SUFFICES ASSUME T # {} PROVE FALSE
  OBVIOUS
<1>2. PICK x \in T : \A y \in T : x <= y
  BY <1>1, LeastExists
<1>3. x # 0 /\ x - 1 \in Nat /\ x - 1 \in S
  BY <1>2
<1> QED BY <1>2, <1>3

\* Induction up to a bound.
LEMMA UpToInduction ==
  ASSUME NEW N \in Nat, NEW S, 0 \in S, \A n \in 1..N : n - 1 \in S => n \in S
  PROVE  0..N \subseteq S
<1> DEFINE T == { n \in Nat : n <= N => n \in S }
<1>1. 0 \in T
  OBVIOUS
<1>2. ASSUME NEW n \in Nat, n \in T PROVE n + 1 \in T
  <2>1. CASE n + 1 <= N
    <3>1. n + 1 \in 1..N /\ (n + 1) - 1 \in S
      BY <1>2, <2>1
    <3> QED BY <3>1
  <2> QED BY <2>1
<1> HIDE DEF T
<1>3. Nat \subseteq T
  BY <1>1, <1>2, SetInduction
<1> QED BY <1>3 DEF T

\* A collection of subsets of D with the empty one, and with every one that
\* differs by an element from one it has, has them all.
LEMMA SubsetInduction ==
  ASSUME NEW D, IsFiniteSet(D), NEW P, {} \in P,
         \A s \in SUBSET D : \A x \in D \ s : s \in P => s \cup {x} \in P
  PROVE  SUBSET D \subseteq P
<1> DEFINE N == { n \in Nat : \A s \in SUBSET D : Cardinality(s) = n => s \in P }
<1>1. \A s \in SUBSET D : IsFiniteSet(s) /\ Cardinality(s) \in Nat
  BY FS_Subset, FS_CardinalityType
<1>2. 0 \in N
  BY <1>1, FS_EmptySet
<1>3. ASSUME NEW n \in Nat, n \in N PROVE n + 1 \in N
  <2>1. SUFFICES ASSUME NEW s \in SUBSET D, Cardinality(s) = n + 1 PROVE s \in P
    OBVIOUS
  <2>2. PICK x \in s : TRUE
    BY <1>1, <2>1, FS_EmptySet
  <2>3. Cardinality(s \ {x}) = n
    <3>1. IsFiniteSet(s) /\ x \in s
      BY <1>1, <2>2
    <3>2. Cardinality(s \ {x}) = Cardinality(s) - 1
      BY <3>1, FS_RemoveElement
    <3> QED BY <2>1, <3>2
  <2>4. s \ {x} \in SUBSET D /\ x \in D \ (s \ {x}) /\ (s \ {x}) \cup {x} = s
    BY <2>2
  <2>5. s \ {x} \in P
    BY <1>3, <2>3, <2>4
  <2> QED BY <2>4, <2>5
<1> HIDE DEF N
<1>4. Nat \subseteq N
  BY <1>2, <1>3, SetInduction
<1> QED BY <1>1, <1>4 DEF N

\* F is made of base by N steps of T.
StepsOf(F, N, base, T) ==
  /\ F[0] = base
  /\ \A n \in 1..N : F[n] = T[n][F[n - 1]]

\* A function defined step by step from a base exists.
LEMMA RecursionExists ==
  ASSUME NEW N \in Nat, NEW X, NEW base \in X, NEW T \in [ 1..N -> [ X -> X ] ]
  PROVE  \E F \in [ 0..N -> X ] : StepsOf(F, N, base, T)
<1> DEFINE S == { n \in 0..N : \E F \in [ 0..n -> X ] : StepsOf(F, n, base, T) }
<1>1. 0 \in S
  <2>1. [ i \in 0..0 |-> base ] \in [ 0..0 -> X ]
    OBVIOUS
  <2>2. StepsOf([ i \in 0..0 |-> base ], 0, base, T)
    BY DEF StepsOf
  <2> QED BY <2>1, <2>2
<1>2. ASSUME NEW n \in 1..N, n - 1 \in S PROVE n \in S
  <2>1. PICK F \in [ 0..(n - 1) -> X ] : StepsOf(F, n - 1, base, T)
    BY <1>2
  <2> DEFINE G == [ i \in 0..n |-> IF i = n THEN T[n][F[n - 1]] ELSE F[i] ]
  <2>2. T[n] \in [ X -> X ] /\ F[n - 1] \in X
    OBVIOUS
  <2>3. G \in [ 0..n -> X ]
    BY <2>2
  <2>4. G[0] = base
    BY <2>1 DEF StepsOf
  <2>5. ASSUME NEW i \in 1..n PROVE G[i] = T[i][G[i - 1]]
    <3>1. CASE i = n
      BY <3>1
    <3>2. CASE i # n
      <4>1. i \in 1..(n - 1) /\ i - 1 # n /\ i - 1 \in 0..n
        BY <3>2
      <4> QED BY <2>1, <3>2, <4>1 DEF StepsOf
    <3> QED BY <3>1, <3>2
  <2>6. StepsOf(G, n, base, T)
    BY <2>4, <2>5 DEF StepsOf
  <2> QED BY <2>3, <2>6
<1> HIDE DEF S
<1>3. 0..N \subseteq S
  BY <1>1, <1>2, UpToInduction
<1> QED BY <1>3 DEF S

-----------------------------------------------------------------------------
(* Sums in an order left open.                                               *)

\* F is the sum of f over every set of E, taken element by element.
Element(s) == CHOOSE x \in s : TRUE
Adds(F, f, E) ==
  \A s \in E : F[s] = IF s = {} THEN 0 ELSE f[Element(s)] + F[s \ {Element(s)}]
Sums(F, f, E) == F \in [ E -> Int ] /\ Adds(F, f, E)
Same(F, G, E) == \A s \in E : F[s] = G[s]

\* The sums exist.
LEMMA SumsExist ==
  ASSUME NEW D, IsFiniteSet(D), NEW f, \A x \in D : f[x] \in Int
  PROVE  \E F : Sums(F, f, SUBSET D)
<1> DEFINE E(n) == { s \in SUBSET D : Cardinality(s) <= n }
           N == { n \in Nat : \E F : Sums(F, f, E(n)) }
<1>1. \A s \in SUBSET D : IsFiniteSet(s) /\ Cardinality(s) \in Nat
  BY FS_Subset, FS_CardinalityType
<1>2. \A s \in SUBSET D : Cardinality(s) = 0 <=> s = {}
  BY <1>1, FS_EmptySet
<1>3. \A s \in SUBSET D : s # {} => Element(s) \in s /\ Cardinality(s \ {Element(s)}) = Cardinality(s) - 1
  BY <1>1, FS_RemoveElement DEF Element
<1>4. 0 \in N
  <2>1. E(0) = {{}}
    BY <1>1, <1>2
  <2>2. Sums([ s \in E(0) |-> 0 ], f, E(0))
    BY <2>1 DEF Sums, Adds, Same
  <2> QED BY <2>2
<1>5. ASSUME NEW n \in Nat, n \in N PROVE n + 1 \in N
  <2>1. PICK F : Sums(F, f, E(n))
    BY <1>5
  <2> DEFINE G == [ s \in E(n + 1) |-> IF s = {} THEN 0 ELSE f[Element(s)] + F[s \ {Element(s)}] ]
  <2>2. ASSUME NEW s \in E(n + 1), s # {}
        PROVE  s \ {Element(s)} \in E(n) /\ Element(s) \in D /\ s \ {Element(s)} \in E(n + 1)
    BY <1>1, <1>3, <2>2
  <2>3. ASSUME NEW s \in E(n) PROVE s \in E(n + 1) /\ G[s] = F[s]
    BY <1>1, <2>1 DEF Sums, Adds, Same
  <2>4. G \in [ E(n + 1) -> Int ]
    BY <2>1, <2>2 DEF Sums, Adds, Same
  <2>5. ASSUME NEW s \in E(n + 1)
        PROVE  G[s] = IF s = {} THEN 0 ELSE f[Element(s)] + G[s \ {Element(s)}]
    BY <2>2, <2>3
  <2> HIDE DEF G
  <2>6. Sums(G, f, E(n + 1))
    BY <2>4, <2>5 DEF Sums, Adds, Same
  <2>7. \E H : Sums(H, f, E(n + 1))
    BY <2>6
  <2> HIDE DEF E
  <2> QED BY <2>7
<1> HIDE DEF N
<1>6. Nat \subseteq N
  BY <1>4, <1>5, SetInduction
<1>7. Cardinality(D) \in Nat /\ E(Cardinality(D)) = SUBSET D
  BY <1>1, FS_Subset, FS_CardinalityType
<1> QED BY <1>6, <1>7 DEF N

\* They are unique.
LEMMA SumsUnique ==
  ASSUME NEW D, IsFiniteSet(D), NEW f, NEW F, Sums(F, f, SUBSET D),
         NEW I, Adds(I, f, SUBSET D)
  PROVE  Same(I, F, SUBSET D)
<1> DEFINE N == { n \in Nat : \A s \in SUBSET D : Cardinality(s) = n => I[s] = F[s] }
<1>1. \A s \in SUBSET D : IsFiniteSet(s) /\ Cardinality(s) \in Nat
  BY FS_Subset, FS_CardinalityType
<1>2. \A s \in SUBSET D : Cardinality(s) = 0 <=> s = {}
  BY <1>1, FS_EmptySet
<1>3. \A s \in SUBSET D : s # {} => Element(s) \in s /\ Cardinality(s \ {Element(s)}) = Cardinality(s) - 1
  BY <1>1, FS_RemoveElement DEF Element
<1>4. 0 \in N
  BY <1>2 DEF Sums, Adds, Same
<1>5. ASSUME NEW n \in Nat, n \in N PROVE n + 1 \in N
  <2>1. SUFFICES ASSUME NEW s \in SUBSET D, Cardinality(s) = n + 1 PROVE I[s] = F[s]
    OBVIOUS
  <2>2. s # {}
    BY <1>2, <2>1
  <2>3. s \ {Element(s)} \in SUBSET D /\ Cardinality(s \ {Element(s)}) = n
    BY <1>3, <2>1, <2>2
  <2>4. I[s \ {Element(s)}] = F[s \ {Element(s)}]
    BY <1>5, <2>3
  <2>5. I[s] = f[Element(s)] + I[s \ {Element(s)}] /\ F[s] = f[Element(s)] + F[s \ {Element(s)}]
    BY <2>2 DEF Sums, Adds, Same
  <2> QED BY <2>4, <2>5
<1> HIDE DEF N
<1>6. Nat \subseteq N
  BY <1>4, <1>5, SetInduction
<1> QED BY <1>1, <1>6 DEF N, Same

\* SumFunctionOnSet gives the value that every such F has for its set.
LEMMA SumIs ==
  ASSUME NEW D, IsFiniteSet(D), NEW f, NEW F, Sums(F, f, SUBSET D), NEW T \in SUBSET D
  PROVE  SumFunctionOnSet(f, T) = F[T]
<1> DEFINE Body(G) == [ s \in SUBSET T |->
                          IF s = {} THEN 0
                          ELSE f[CHOOSE x \in s : TRUE] + G[s \ {CHOOSE x \in s : TRUE}] ]
           I == CHOOSE G : G = Body(G)
           H == [ s \in SUBSET T |-> F[s] ]
<1>1. ASSUME NEW s \in SUBSET T, s # {}
      PROVE  s \in SUBSET D /\ s \ {Element(s)} \in SUBSET T
    OBVIOUS
<1>2. \A s \in SUBSET T : H[s] = IF s = {} THEN 0 ELSE f[Element(s)] + H[s \ {Element(s)}]
  BY <1>1 DEF Sums, Adds, Same
<1>3. H = Body(H)
  BY <1>2 DEF Element
<1>4. I = Body(I)
  BY <1>3
<1>5. SumFunctionOnSet(f, T) = I[T]
  BY Zenon DEF SumFunctionOnSet, FoldFunctionOnSet, MapThenFoldSet
<1> HIDE DEF H, I
<1>6. Adds(I, f, SUBSET T)
  BY <1>4 DEF Adds, Element
<1>7. IsFiniteSet(T) /\ Sums(H, f, SUBSET T)
  <2>1. H \in [ SUBSET T -> Int ]
    BY DEF H, Sums
  <2> QED BY <1>2, <2>1, FS_Subset DEF Sums, Adds, Same
<1>8. Same(I, H, SUBSET T)
  BY <1>6, <1>7, SumsUnique
<1> QED BY <1>5, <1>8 DEF H, Same

-----------------------------------------------------------------------------
(* What holds of SumFunctionOnSet.                                           *)

\* f has a value to add for each element of the finite set T.
Addable(f, T) == IsFiniteSet(T) /\ \A x \in T : f[x] \in Int

\* An element is taken out of a sum, whichever it is.
TakesOut(F, f, s) == \A x \in s : F[s] = f[x] + F[s \ {x}]

LEMMA SumsTake ==
  ASSUME NEW D, NEW f, Addable(f, D), NEW F, Sums(F, f, SUBSET D)
  PROVE  \A s \in SUBSET D : TakesOut(F, f, s)
<1> DEFINE N == { n \in Nat : \A s \in SUBSET D : Cardinality(s) = n => TakesOut(F, f, s) }
<1>1. \A s \in SUBSET D : IsFiniteSet(s) /\ Cardinality(s) \in Nat
  BY FS_Subset, FS_CardinalityType DEF Addable
<1>2. \A s \in SUBSET D : Cardinality(s) = 0 <=> s = {}
  BY <1>1, FS_EmptySet
<1>3. \A s \in SUBSET D : \A x \in s : Cardinality(s \ {x}) = Cardinality(s) - 1
  BY <1>1, FS_RemoveElement
<1>4. 0 \in N
  BY <1>2 DEF TakesOut
<1>5. ASSUME NEW n \in Nat, n \in N PROVE n + 1 \in N
  <2>1. SUFFICES ASSUME NEW s \in SUBSET D, Cardinality(s) = n + 1, NEW x \in s
                 PROVE  F[s] = f[x] + F[s \ {x}]
    BY DEF TakesOut
  <2> DEFINE p == Element(s)
  <2>2. p \in s /\ F[s] = f[p] + F[s \ {p}]
    BY <2>1 DEF Sums, Adds, Element
  <2> HIDE DEF p
  <2>3. CASE p = x
    BY <2>2, <2>3
  <2>4. CASE p # x
    <3>1. /\ s \ {p} \in SUBSET D /\ s \ {x} \in SUBSET D
          /\ Cardinality(s \ {p}) = n /\ Cardinality(s \ {x}) = n
      BY <1>3, <2>1, <2>2
    <3>2. x \in s \ {p} /\ p \in s \ {x} /\ (s \ {p}) \ {x} = (s \ {x}) \ {p}
      BY <2>2, <2>4
    <3>3. TakesOut(F, f, s \ {p}) /\ TakesOut(F, f, s \ {x})
      BY <1>5, <3>1
    <3>4. F[s \ {p}] = f[x] + F[(s \ {p}) \ {x}] /\ F[s \ {x}] = f[p] + F[(s \ {p}) \ {x}]
      BY <3>2, <3>3 DEF TakesOut
    <3>5. f[x] \in Int /\ f[p] \in Int /\ F[(s \ {p}) \ {x}] \in Int
      BY <2>2 DEF Addable, Sums
    <3> QED BY <2>2, <3>4, <3>5
  <2> QED BY <2>3, <2>4
<1> HIDE DEF N
<1>6. Nat \subseteq N
  BY <1>4, <1>5, SetInduction
<1> QED BY <1>1, <1>6 DEF N

\* A sum over T and over what is left of T without x.
SumTaken(f, T, x) == SumFunctionOnSet(f, T) = f[x] + SumFunctionOnSet(f, T \ {x})

LEMMA SumTake ==
  ASSUME NEW T, NEW f, Addable(f, T), NEW x \in T
  PROVE  SumTaken(f, T, x)
<1>1. PICK F : Sums(F, f, SUBSET T)
  BY SumsExist DEF Addable
<1>2. T \in SUBSET T /\ T \ {x} \in SUBSET T /\ IsFiniteSet(T)
  BY DEF Addable
<1>3. SumFunctionOnSet(f, T) = F[T] /\ SumFunctionOnSet(f, T \ {x}) = F[T \ {x}]
  BY <1>1, <1>2, SumIs
<1>4. TakesOut(F, f, T)
  BY <1>1, <1>2, SumsTake
<1> QED BY <1>3, <1>4 DEF TakesOut, SumTaken

LEMMA SumType ==
  ASSUME NEW T, NEW f, Addable(f, T)
  PROVE  SumFunctionOnSet(f, T) \in Int
<1>1. PICK F : Sums(F, f, SUBSET T)
  BY SumsExist DEF Addable
<1>2. T \in SUBSET T /\ IsFiniteSet(T)
  BY DEF Addable
<1>3. SumFunctionOnSet(f, T) = F[T]
  BY <1>1, <1>2, SumIs
<1> QED BY <1>1, <1>3 DEF Sums

LEMMA SumEmpty ==
  ASSUME NEW f
  PROVE  SumFunctionOnSet(f, {}) = 0
<1>1. Addable(f, {}) /\ {} \in SUBSET {}
  BY FS_EmptySet DEF Addable
<1>2. PICK F : Sums(F, f, SUBSET {})
  BY <1>1, SumsExist DEF Addable
<1>3. SumFunctionOnSet(f, {}) = F[{}]
  BY <1>1, <1>2, SumIs DEF Addable
<1> QED BY <1>2, <1>3 DEF Sums, Adds

\* An element more.
SumGrows(f, s, x) ==
  /\ SumFunctionOnSet(f, s \cup {x}) = f[x] + SumFunctionOnSet(f, s)
  /\ SumFunctionOnSet(f, s) \in Int /\ f[x] \in Int

LEMMA SumMore ==
  ASSUME NEW T, NEW f, Addable(f, T), NEW s \in SUBSET T, NEW x \in T \ s
  PROVE  SumGrows(f, s, x)
<1>1. Addable(f, s \cup {x}) /\ Addable(f, s) /\ f[x] \in Int
  BY FS_Subset DEF Addable
<1>2. (s \cup {x}) \ {x} = s
  OBVIOUS
<1>3. SumTaken(f, s \cup {x}, x)
  BY <1>1, SumTake
<1> QED BY <1>1, <1>2, <1>3, SumType DEF SumTaken, SumGrows

\* A sum of sums is a sum.
LEMMA SumOfSums ==
  ASSUME NEW T, NEW f, NEW g, NEW h, Addable(f, T), Addable(g, T),
         \A x \in T : h[x] = f[x] + g[x]
  PROVE  SumFunctionOnSet(h, T) = SumFunctionOnSet(f, T) + SumFunctionOnSet(g, T)
<1> DEFINE P == { s \in SUBSET T :
                    SumFunctionOnSet(h, s) = SumFunctionOnSet(f, s) + SumFunctionOnSet(g, s) }
<1>1. Addable(h, T)
  BY DEF Addable
<1>2. {} \in P
  BY SumEmpty
<1>3. ASSUME NEW s \in SUBSET T, NEW x \in T \ s, s \in P PROVE s \cup {x} \in P
  <2>1. /\ SumFunctionOnSet(f, s \cup {x}) = f[x] + SumFunctionOnSet(f, s)
        /\ SumFunctionOnSet(f, s) \in Int /\ f[x] \in Int
    BY SumMore DEF SumGrows
  <2>2. /\ SumFunctionOnSet(g, s \cup {x}) = g[x] + SumFunctionOnSet(g, s)
        /\ SumFunctionOnSet(g, s) \in Int /\ g[x] \in Int
    BY SumMore DEF SumGrows
  <2>3. SumFunctionOnSet(h, s \cup {x}) = h[x] + SumFunctionOnSet(h, s) /\ h[x] = f[x] + g[x]
    BY <1>1, SumMore DEF SumGrows
  <2>4. SumFunctionOnSet(h, s) = SumFunctionOnSet(f, s) + SumFunctionOnSet(g, s)
    BY <1>3
  <2> QED BY <2>1, <2>2, <2>3, <2>4
<1>4. IsFiniteSet(T)
  BY DEF Addable
<1> HIDE DEF P
<1>5. SUBSET T \subseteq P
  BY <1>2, <1>3, <1>4, SubsetInduction
<1>6. T \in P
  BY <1>5
<1> QED BY <1>6 DEF P

\* Terms that are zero do not count.
LEMMA SumWithin ==
  ASSUME NEW T, NEW f, Addable(f, T), NEW K \in SUBSET T, \A x \in T \ K : f[x] = 0
  PROVE  SumFunctionOnSet(f, T) = SumFunctionOnSet(f, K)
<1> DEFINE R == T \ K
           P == { s \in SUBSET R : SumFunctionOnSet(f, K \cup s) = SumFunctionOnSet(f, K) }
<1>1. {} \in P
  <2>1. K \cup {} = K
    OBVIOUS
  <2> QED BY <2>1
<1>2. ASSUME NEW s \in SUBSET R, NEW x \in R \ s, s \in P PROVE s \cup {x} \in P
  <2> DEFINE k == K \cup s
  <2>1. k \in SUBSET T /\ x \in T \ k /\ K \cup (s \cup {x}) = k \cup {x}
    OBVIOUS
  <2>2. f[x] = 0 /\ SumFunctionOnSet(f, k) = SumFunctionOnSet(f, K)
    BY <1>2
  <2>3. s \cup {x} \in SUBSET R
    OBVIOUS
  <2> HIDE DEF k
  <2>4. /\ SumFunctionOnSet(f, k \cup {x}) = f[x] + SumFunctionOnSet(f, k)
        /\ SumFunctionOnSet(f, k) \in Int
    <3>1. SumGrows(f, k, x)
      BY <2>1, SumMore
    <3> QED BY <3>1 DEF SumGrows
  <2>5. SumFunctionOnSet(f, k \cup {x}) = SumFunctionOnSet(f, K)
    BY <2>2, <2>4
  <2> QED BY <2>1, <2>3, <2>5
<1>3. IsFiniteSet(R)
  BY FS_Subset DEF Addable
<1>4. K \cup R = T
  OBVIOUS
<1> HIDE DEF P, R
<1>5. SUBSET R \subseteq P
  BY <1>1, <1>2, <1>3, SubsetInduction
<1>6. R \in P
  BY <1>5
<1> QED BY <1>4, <1>6 DEF P

LEMMA SumZero ==
  ASSUME NEW T, NEW f, IsFiniteSet(T), \A x \in T : f[x] = 0
  PROVE  SumFunctionOnSet(f, T) = 0
<1>1. Addable(f, T) /\ {} \in SUBSET T
  BY DEF Addable
<1>2. SumFunctionOnSet(f, T) = SumFunctionOnSet(f, {})
  BY <1>1, SumWithin
<1> QED BY <1>2, SumEmpty

\* Sums of equal terms are equal.
LEMMA SumAlike ==
  ASSUME NEW T, NEW f, NEW g, Addable(f, T), \A x \in T : g[x] = f[x]
  PROVE  SumFunctionOnSet(g, T) = SumFunctionOnSet(f, T)
<1> DEFINE z == [ x \in T |-> 0 ]
<1>1. Addable(z, T) /\ IsFiniteSet(T)
  BY DEF Addable
<1>2. \A x \in T : z[x] = 0 /\ g[x] = f[x] + z[x]
  BY DEF Addable
<1> HIDE DEF z
<1>3. SumFunctionOnSet(g, T) = SumFunctionOnSet(f, T) + SumFunctionOnSet(z, T)
  BY <1>1, <1>2, SumOfSums
<1>4. SumFunctionOnSet(z, T) = 0
  BY <1>1, <1>2, SumZero
<1> QED BY <1>3, <1>4, SumType

\* A sum is as large as each of its terms, when none is negative.
LEMMA SumBounds ==
  ASSUME NEW T, NEW f, IsFiniteSet(T), \A x \in T : f[x] \in Nat
  PROVE  SumFunctionOnSet(f, T) \in Nat /\ \A x \in T : f[x] <= SumFunctionOnSet(f, T)
<1> DEFINE P == { s \in SUBSET T : SumFunctionOnSet(f, s) \in Nat }
<1>1. Addable(f, T)
  BY DEF Addable
<1>2. {} \in P
  BY SumEmpty
<1>3. ASSUME NEW s \in SUBSET T, NEW x \in T \ s, s \in P PROVE s \cup {x} \in P
  <2>1. SumFunctionOnSet(f, s \cup {x}) = f[x] + SumFunctionOnSet(f, s)
    BY <1>1, SumMore DEF SumGrows
  <2>2. SumFunctionOnSet(f, s) \in Nat /\ f[x] \in Nat
    BY <1>3
  <2>3. SumFunctionOnSet(f, s \cup {x}) \in Nat
    BY <2>1, <2>2
  <2> QED BY <2>3
<1> HIDE DEF P
<1>4. SUBSET T \subseteq P
  BY <1>2, <1>3, SubsetInduction
<1>5. \A s \in SUBSET T : SumFunctionOnSet(f, s) \in Nat
  BY <1>4 DEF P
<1>6. ASSUME NEW x \in T PROVE f[x] <= SumFunctionOnSet(f, T)
  <2>1. SumTaken(f, T, x)
    BY <1>1, SumTake
  <2>2. SumFunctionOnSet(f, T \ {x}) \in Nat /\ f[x] \in Nat
    BY <1>5
  <2> QED BY <2>1, <2>2 DEF SumTaken
<1> QED BY <1>5, <1>6

\* An order on a finite set has a first element.
Ranks(R, S) ==
  /\ \A c, d \in S : c # d => <<c, d>> \in R \/ <<d, c>> \in R
  /\ \A c, d, e \in S : <<c, d>> \in R /\ <<d, e>> \in R => <<c, e>> \in R
IsFirst(c, S, R) == \A d \in S \ {c} : <<c, d>> \in R

LEMMA FirstExists ==
  ASSUME NEW S, IsFiniteSet(S), S # {}, NEW R, Ranks(R, S)
  PROVE  \E c \in S : IsFirst(c, S, R)
<1>0. /\ \A c, d \in S : c # d => <<c, d>> \in R \/ <<d, c>> \in R
      /\ \A c, d, e \in S : <<c, d>> \in R /\ <<d, e>> \in R => <<c, e>> \in R
  BY DEF Ranks
<1> DEFINE HasFirst(s) == s # {} => \E c \in s : \A d \in s \ {c} : <<c, d>> \in R
           P == {s \in SUBSET S : HasFirst(s)}
<1>1. {} \in P
  OBVIOUS
<1>2. ASSUME NEW s \in SUBSET S, NEW x \in S \ s, s \in P PROVE s \cup {x} \in P
  <2>1. CASE s = {}
    <3>1. \A d \in (s \cup {x}) \ {x} : <<x, d>> \in R
      BY <2>1
    <3> QED BY <3>1
  <2>2. CASE s # {}
    <3>1. PICK c \in s : \A d \in s \ {c} : <<c, d>> \in R
      BY <1>2, <2>2
    <3>2. CASE <<c, x>> \in R
      <4>1. \A d \in (s \cup {x}) \ {c} : <<c, d>> \in R
        BY <3>1, <3>2
      <4> QED BY <4>1
    <3>3. CASE <<x, c>> \in R
      <4>1. ASSUME NEW d \in (s \cup {x}) \ {x} PROVE <<x, d>> \in R
        <5>1. d = c \/ <<c, d>> \in R
          BY <3>1
        <5> QED BY <1>0, <3>3, <5>1
      <4> QED BY <4>1
    <3> QED BY <1>0, <3>2, <3>3
  <2> QED BY <2>1, <2>2
<1> HIDE DEF P
<1>3. SUBSET S \subseteq P
  BY <1>1, <1>2, SubsetInduction
<1>4. S \in P
  BY <1>3
<1> QED BY <1>4 DEF P, IsFirst
=============================================================================
