------------------------ MODULE EventDeliveryProofs -------------------------
(***************************************************************************)
(* What holds of the delivery of events for all orders, assets, fills and  *)
(* crashes.  The invariant DeliveryInv relates the four places an event is *)
(* in, one after the other: the exchange, the signer's ledger, its outbox  *)
(* and the observer's state.                                               *)
(*                                                                         *)
(* The outbox is filled by recursion over sequences (Missing) and the      *)
(* ledger by recursion over a batch (Steps).  The library's induction      *)
(* theorems take an operator as a parameter, which the provers cannot      *)
(* instantiate; induction is therefore stated of a set of numbers          *)
(* (SetLemmas, SetInduction and UpToInduction).                            *)
(***************************************************************************)
EXTENDS EventDelivery, SequenceTheorems, SetLemmas

-----------------------------------------------------------------------------
(* What append_once adds.                                                  *)

IsMissing(F, o, q) ==
  /\ F[0] = << >>
  /\ \A n \in 1..Len(q) : F[n] = IF Contains(o, q[n]) THEN F[n - 1] ELSE Append(F[n - 1], q[n])

\* Missing is the last value of a function that takes q element by element.
LEMMA MissingSteps ==
  ASSUME NEW S, NEW q \in Seq(S), NEW o
  PROVE  \E F \in [ 0..Len(q) -> Seq(S) ] : IsMissing(F, o, q) /\ Missing(o, q) = F[Len(q)]
<1> DEFINE X == Seq(S)
           N == Len(q)
           T == [ n \in 1..N |-> [ t \in X |-> IF Contains(o, q[n]) THEN t ELSE Append(t, q[n]) ] ]
           Body(f) == [ n \in 0..N |->
                          IF n = 0 THEN << >>
                          ELSE IF Contains(o, q[n]) THEN f[n - 1] ELSE Append(f[n - 1], q[n]) ]
<1>1. N \in Nat /\ << >> \in X /\ \A n \in 1..N : q[n] \in S
  OBVIOUS
<1>2. T \in [ 1..N -> [ X -> X ] ]
  BY <1>1
<1> HIDE DEF N, X
<1>3. PICK F \in [ 0..N -> X ] : StepsOf(F, N, << >>, T)
  <2> HIDE DEF T
  <2> QED BY <1>1, <1>2, RecursionExists
<1>4. F = Body(F)
  <2>1. ASSUME NEW n \in 0..N PROVE F[n] = Body(F)[n]
    <3>1. CASE n = 0
      BY <1>3, <3>1 DEF StepsOf
    <3>2. CASE n # 0
      <4>1. n \in 1..N /\ n - 1 \in 0..N /\ F[n - 1] \in X
        BY <1>1, <3>2
      <4> QED BY <1>3, <3>2, <4>1 DEF StepsOf
    <3> QED BY <3>1, <3>2
  <2> QED BY <2>1
<1>5. PICK G : G = Body(G) /\ Missing(o, q) = G[N]
  <2> DEFINE G == CHOOSE f : f = Body(f)
  <2>1. G = Body(G)
    BY <1>4, Zenon
  <2>2. Missing(o, q) = G[N]
    BY Zenon DEF Missing, N
  <2> HIDE DEF G
  <2> QED BY <2>1, <2>2
<1>6. IsMissing(G, o, q)
  <2>1. G[0] = << >>
    BY <1>1, <1>5
  <2>2. ASSUME NEW n \in 1..N
        PROVE  G[n] = IF Contains(o, q[n]) THEN G[n - 1] ELSE Append(G[n - 1], q[n])
    <3>1. n \in 0..N /\ n # 0
      BY <1>1
    <3>2. G[n] = Body(G)[n]
      BY <1>5
    <3> QED BY <3>1, <3>2, Zenon
  <2> QED BY <2>1, <2>2 DEF IsMissing, N
<1>7. G \in [ 0..N -> X ]
  <2> DEFINE A == { n \in 0..N : G[n] \in X }
  <2>1. 0 \in A
    BY <1>1, <1>6 DEF IsMissing
  <2>2. ASSUME NEW n \in 1..N, n - 1 \in A PROVE n \in A
    <3>1. G[n - 1] \in Seq(S) /\ q[n] \in S /\ n \in 0..N
      BY <1>1, <2>2 DEF X
    <3>2. G[n] = G[n - 1] \/ G[n] = Append(G[n - 1], q[n])
      BY <1>6 DEF IsMissing, N
    <3>3. G[n] \in Seq(S)
      <4>1. Append(G[n - 1], q[n]) \in Seq(S)
        BY <3>1, AppendProperties
      <4> QED BY <3>1, <3>2, <4>1, Zenon
    <3>4. G[n] \in X
      BY <3>3 DEF X
    <3> QED BY <3>1, <3>4
  <2>3. 0..N \subseteq A
    <3> HIDE DEF A
    <3> QED BY <1>1, <2>1, <2>2, UpToInduction
  <2>4. DOMAIN G = 0..N /\ G = [ n \in 0..N |-> G[n] ]
    BY <1>5
  <2> QED BY <2>3, <2>4
<1> QED BY <1>5, <1>6, <1>7 DEF N, X

\* What has been taken of the first n elements of q: each has all that precede
\* it in q before it, and none is left out.
Takes(t, o, q, n) ==
  /\ \A j \in 1..Len(t) : \E i \in 1..n :
       /\ t[j] = q[i] /\ ~Contains(o, q[i])
       /\ \A h \in 1..(i - 1) : Contains(o, q[h]) \/ \E k \in 1..(j - 1) : t[k] = q[h]
  /\ \A i \in 1..n : Contains(o, q[i]) \/ Contains(t, q[i])

\* One more element of q, taken or left out, keeps that.
LEMMA TakesNext ==
  ASSUME NEW S, NEW q \in Seq(S), NEW o, NEW t \in Seq(S), NEW n \in 1..Len(q),
         Takes(t, o, q, n - 1)
  PROVE  Takes(IF Contains(o, q[n]) THEN t ELSE Append(t, q[n]), o, q, n)
<1>1. CASE Contains(o, q[n])
  <2>1. ASSUME NEW i \in 1..n PROVE Contains(o, q[i]) \/ Contains(t, q[i])
    <3>1. i = n \/ i \in 1..(n - 1)
      OBVIOUS
    <3> QED BY <1>1, <3>1 DEF Takes
  <2>2. \A j \in 1..Len(t) : \E i \in 1..n :
          /\ t[j] = q[i] /\ ~Contains(o, q[i])
          /\ \A h \in 1..(i - 1) : Contains(o, q[h]) \/ \E k \in 1..(j - 1) : t[k] = q[h]
    <3>1. \A i \in 1..(n - 1) : i \in 1..n
      OBVIOUS
    <3> QED BY <3>1, Zenon DEF Takes
  <2> QED BY <1>1, <2>1, <2>2 DEF Takes
<1>2. CASE ~Contains(o, q[n])
  <2> DEFINE u == Append(t, q[n])
  <2>1. /\ q[n] \in S /\ Len(t) \in Nat /\ u \in Seq(S) /\ Len(u) = Len(t) + 1
        /\ u[Len(t) + 1] = q[n] /\ \A j \in 1..Len(t) : u[j] = t[j]
    OBVIOUS
  <2> HIDE DEF u
  <2>2. \A i \in 1..n : Contains(o, q[i]) \/ Contains(u, q[i])
    <3> TAKE i \in 1..n
    <3>1. CASE i = n
      BY <2>1, <3>1 DEF Contains
    <3>2. CASE i # n
      <4>1. i \in 1..(n - 1)
        BY <3>2
      <4>2. Contains(o, q[i]) \/ Contains(t, q[i])
        BY <4>1 DEF Takes
      <4>3. Contains(t, q[i]) => Contains(u, q[i])
        BY <2>1 DEF Contains
      <4> QED BY <4>2, <4>3
    <3> QED BY <3>1, <3>2
  <2>3. ASSUME NEW j \in 1..Len(u)
        PROVE  \E i \in 1..n :
                 /\ u[j] = q[i] /\ ~Contains(o, q[i])
                 /\ \A h \in 1..(i - 1) :
                      Contains(o, q[h]) \/ \E k \in 1..(j - 1) : u[k] = q[h]
    <3>1. CASE j = Len(t) + 1
      <4>1. ASSUME NEW h \in 1..(n - 1)
            PROVE  Contains(o, q[h]) \/ \E k \in 1..(j - 1) : u[k] = q[h]
        <5>1. Contains(o, q[h]) \/ Contains(t, q[h])
          BY DEF Takes
        <5>2. Contains(t, q[h]) => \E k \in 1..(j - 1) : u[k] = q[h]
          BY <2>1, <3>1 DEF Contains
        <5> QED BY <5>1, <5>2
      <4>2. u[j] = q[n] /\ n \in 1..n
        BY <2>1, <3>1
      <4> QED BY <1>2, <4>1, <4>2
    <3>2. CASE j # Len(t) + 1
      <4>1. j \in 1..Len(t) /\ \A k \in 1..(j - 1) : k \in 1..Len(t)
        BY <2>1, <3>2
      <4>2. PICK i \in 1..(n - 1) :
              /\ t[j] = q[i] /\ ~Contains(o, q[i])
              /\ \A h \in 1..(i - 1) :
                   Contains(o, q[h]) \/ \E k \in 1..(j - 1) : t[k] = q[h]
        BY <4>1 DEF Takes
      <4>3. i \in 1..n /\ u[j] = q[i]
        BY <2>1, <4>1, <4>2
      <4>4. ASSUME NEW h \in 1..(i - 1)
            PROVE  Contains(o, q[h]) \/ \E k \in 1..(j - 1) : u[k] = q[h]
        BY <2>1, <4>1, <4>2
      <4> QED BY <4>2, <4>3, <4>4
    <3> QED BY <3>1, <3>2
  <2>4. Takes(u, o, q, n)
    BY <2>2, <2>3 DEF Takes
  <2> QED BY <1>2, <2>4 DEF u
<1> QED BY <1>1, <1>2

\* So Missing takes all of q that o does not have, in the order of q.
LEMMA MissingTakes ==
  ASSUME NEW S, NEW q \in Seq(S), NEW o
  PROVE  Missing(o, q) \in Seq(S) /\ Takes(Missing(o, q), o, q, Len(q))
<1>1. PICK F \in [ 0..Len(q) -> Seq(S) ] : IsMissing(F, o, q) /\ Missing(o, q) = F[Len(q)]
  BY MissingSteps
<1> DEFINE A == { n \in 0..Len(q) : Takes(F[n], o, q, n) }
<1>2. 0 \in A
  BY <1>1 DEF IsMissing, Takes
<1>3. ASSUME NEW n \in 1..Len(q), n - 1 \in A PROVE n \in A
  <2>1. n \in 0..Len(q) /\ n - 1 \in 0..Len(q)
    OBVIOUS
  <2>2. F[n - 1] \in Seq(S) /\ Takes(F[n - 1], o, q, n - 1)
    BY <1>3, <2>1
  <2>3. F[n] = IF Contains(o, q[n]) THEN F[n - 1] ELSE Append(F[n - 1], q[n])
    BY <1>1, Zenon DEF IsMissing
  <2>4. Takes(F[n], o, q, n)
    BY <2>2, <2>3, TakesNext, Zenon
  <2> QED BY <2>1, <2>4
<1> HIDE DEF A
<1>4. Len(q) \in Nat
  OBVIOUS
<1>5. 0..Len(q) \subseteq A
  BY <1>2, <1>3, <1>4, UpToInduction
<1>6. Len(q) \in A /\ F[Len(q)] \in Seq(S)
  BY <1>4, <1>5
<1> QED BY <1>1, <1>6 DEF A

\* When o has the first m elements of q and no other, the rest is missing.
LEMMA MissingTail ==
  ASSUME NEW S, NEW q \in Seq(S), NEW o, NEW m \in 0..Len(q),
         \A i \in 1..Len(q) : Contains(o, q[i]) <=> i <= m
  PROVE  /\ Len(Missing(o, q)) = Len(q) - m
         /\ \A j \in 1..(Len(q) - m) : Missing(o, q)[j] = q[m + j]
<1>1. PICK F \in [ 0..Len(q) -> Seq(S) ] : IsMissing(F, o, q) /\ Missing(o, q) = F[Len(q)]
  BY MissingSteps
<1> DEFINE A == { n \in 0..Len(q) :
                    /\ Len(F[n]) = IF n <= m THEN 0 ELSE n - m
                    /\ \A j \in 1..Len(F[n]) : F[n][j] = q[m + j] }
<1>2. 0 \in A
  BY <1>1 DEF IsMissing
<1>3. ASSUME NEW n \in 1..Len(q), n - 1 \in A PROVE n \in A
  <2>1. n \in 0..Len(q) /\ n - 1 \in 0..Len(q) /\ F[n - 1] \in Seq(S) /\ q[n] \in S
    OBVIOUS
  <2>2. F[n] = IF Contains(o, q[n]) THEN F[n - 1] ELSE Append(F[n - 1], q[n])
    BY <1>1, Zenon DEF IsMissing
  <2>3. /\ Len(F[n - 1]) = IF n - 1 <= m THEN 0 ELSE n - 1 - m
        /\ \A j \in 1..Len(F[n - 1]) : F[n - 1][j] = q[m + j]
    BY <1>3
  <2>4. CASE n <= m
    <3>1. F[n] = F[n - 1]
      BY <2>2, <2>4
    <3> QED BY <2>1, <2>3, <2>4, <3>1
  <2>5. CASE n > m
    <3>1. F[n] = Append(F[n - 1], q[n])
      BY <2>2, <2>5
    <3> DEFINE a == F[n - 1]
               b == F[n]
    <3>2. /\ Len(b) = Len(a) + 1 /\ b[Len(a) + 1] = q[n]
          /\ \A j \in 1..Len(a) : b[j] = a[j]
      BY <2>1, <3>1, AppendProperties
    <3>3. Len(a) = n - 1 - m
      BY <2>3, <2>5
    <3> HIDE DEF a, b
    <3>4. ASSUME NEW j \in 1..Len(b) PROVE b[j] = q[m + j]
      <4>1. CASE j = Len(a) + 1
        BY <3>2, <3>3, <4>1
      <4>2. CASE j # Len(a) + 1
        <5>1. j \in 1..Len(a) /\ b[j] = a[j]
          BY <3>2, <3>3, <4>2
        <5>2. a[j] = q[m + j]
          BY <2>3, <5>1 DEF a
        <5> QED BY <5>1, <5>2
      <4> QED BY <4>1, <4>2
    <3>5. Len(b) = n - m
      BY <3>2, <3>3
    <3> QED BY <2>1, <2>5, <3>4, <3>5 DEF b
  <2> QED BY <2>4, <2>5
<1> HIDE DEF A
<1>4. Len(q) \in Nat
  OBVIOUS
<1>5. 0..Len(q) \subseteq A
  BY <1>2, <1>3, <1>4, UpToInduction
<1>6. Len(q) \in A
  BY <1>4, <1>5
<1>7. /\ Len(F[Len(q)]) = IF Len(q) <= m THEN 0 ELSE Len(q) - m
      /\ \A j \in 1..Len(F[Len(q)]) : F[Len(q)][j] = q[m + j]
  BY <1>6, Zenon DEF A
<1>8. Len(F[Len(q)]) = Len(q) - m
  BY <1>4, <1>7
<1>9. F[Len(q)] = Missing(o, q)
  BY <1>1
<1> QED BY <1>7, <1>8, <1>9

-----------------------------------------------------------------------------
(* The fills of a sequence of events.                                      *)

NumFills(s, n) == Cardinality({ i \in 1..n : IsFill(s[i]) })

\* The number of fills grows by one at a fill and stays otherwise.
LEMMA NumFillsNext ==
  ASSUME NEW s, NEW n \in Nat
  PROVE  /\ NumFills(s, 0) = 0 /\ NumFills(s, n) \in Nat
         /\ NumFills(s, n + 1) = NumFills(s, n) + IF IsFill(s[n + 1]) THEN 1 ELSE 0
<1> DEFINE T(k) == { i \in 1..k : IsFill(s[i]) }
<1>1. T(0) = {}
  OBVIOUS
<1>2. IsFiniteSet(T(n))
  <2>1. IsFiniteSet(1..n) /\ T(n) \in SUBSET (1..n)
    BY FS_Interval
  <2> QED BY <2>1, FS_Subset
<1>3. T(n + 1) = IF IsFill(s[n + 1]) THEN T(n) \cup {n + 1} ELSE T(n)
  <2>1. \A i : i \in 1..(n + 1) <=> i \in 1..n \/ i = n + 1
    OBVIOUS
  <2>2. CASE IsFill(s[n + 1])
    BY <2>1, <2>2
  <2>3. CASE ~IsFill(s[n + 1])
    BY <2>1, <2>3
  <2> QED BY <2>2, <2>3
<1>4. n + 1 \notin T(n)
  OBVIOUS
<1> HIDE DEF T
<1>5. Cardinality(T(n)) \in Nat
  BY <1>2, FS_CardinalityType
<1>6. Cardinality(T(n) \cup {n + 1}) = Cardinality(T(n)) + 1
  BY <1>2, <1>4, FS_AddElement
<1>7. Cardinality(T(0)) = 0
  BY <1>1, FS_EmptySet
<1>8. /\ Cardinality(T(0)) = 0 /\ Cardinality(T(n)) \in Nat
      /\ Cardinality(T(n + 1)) = Cardinality(T(n)) + IF IsFill(s[n + 1]) THEN 1 ELSE 0
  <2>1. CASE IsFill(s[n + 1])
    BY <1>3, <1>5, <1>6, <1>7, <2>1
  <2>2. CASE ~IsFill(s[n + 1])
    BY <1>3, <1>5, <1>7, <2>2
  <2> QED BY <2>1, <2>2
<1> QED BY <1>8 DEF NumFills, T

\* It depends on the first n elements only.
LEMMA NumFillsSame ==
  ASSUME NEW s, NEW t, NEW n, \A i \in 1..n : s[i] = t[i]
  PROVE  NumFills(s, n) = NumFills(t, n)
<1>1. { i \in 1..n : IsFill(s[i]) } = { i \in 1..n : IsFill(t[i]) }
  OBVIOUS
<1> QED BY <1>1 DEF NumFills

\* A longer stretch has no fewer.
LEMMA NumFillsGrows ==
  ASSUME NEW s, NEW n \in Nat, NEW m \in 0..n
  PROVE  NumFills(s, m) <= NumFills(s, n)
<1>1. IsFiniteSet(1..n) /\ { i \in 1..n : IsFill(s[i]) } \in SUBSET (1..n)
  BY FS_Interval
<1>2. { i \in 1..m : IsFill(s[i]) } \in SUBSET { i \in 1..n : IsFill(s[i]) }
  OBVIOUS
<1>3. IsFiniteSet({ i \in 1..n : IsFill(s[i]) })
  BY <1>1, FS_Subset
<1> QED BY <1>2, <1>3, FS_Subset DEF NumFills

\* Every number up to that of the fills is the number of one.
LEMMA NumFillsOnto ==
  ASSUME NEW s, NEW n \in Nat, NEW k \in 1..NumFills(s, n)
  PROVE  \E m \in 1..n : IsFill(s[m]) /\ NumFills(s, m) = k
<1> DEFINE A == { i \in 0..n : NumFills(s, i) < k }
<1>1. SUFFICES ASSUME \A m \in 1..n : ~(IsFill(s[m]) /\ NumFills(s, m) = k)
               PROVE  FALSE
  OBVIOUS
<1>2. k \in Nat /\ k >= 1 /\ k <= NumFills(s, n)
  BY NumFillsNext
<1>3. 0 \in A
  BY <1>2, NumFillsNext
<1>4. ASSUME NEW i \in 1..n, i - 1 \in A PROVE i \in A
  <2>1. i - 1 \in Nat /\ (i - 1) + 1 = i /\ i \in 0..n /\ NumFills(s, i - 1) < k
    BY <1>4
  <2>2. /\ NumFills(s, i - 1) \in Nat
        /\ NumFills(s, (i - 1) + 1)
             = NumFills(s, i - 1) + IF IsFill(s[(i - 1) + 1]) THEN 1 ELSE 0
    BY <2>1, NumFillsNext
  <2>3. NumFills(s, i) < k
    BY <1>1, <1>2, <2>1, <2>2
  <2> QED BY <2>1, <2>3
<1> HIDE DEF A
<1>5. 0..n \subseteq A
  BY <1>3, <1>4, UpToInduction
<1>6. n \in A
  BY <1>5
<1> QED BY <1>2, <1>6, NumFillsNext DEF A

\* A stretch without fills adds none, a stretch of fills its length.
LEMMA NumFillsRun ==
  ASSUME NEW s, NEW a \in Nat, NEW d \in Nat
  PROVE  /\ (\A i \in (a + 1)..(a + d) : ~IsFill(s[i])) =>
              \A j \in 0..d : NumFills(s, a + j) = NumFills(s, a)
         /\ (\A i \in (a + 1)..(a + d) : IsFill(s[i])) =>
              \A j \in 0..d : NumFills(s, a + j) = NumFills(s, a) + j
<1>0. NumFills(s, a) \in Nat
  BY NumFillsNext
<1>1. ASSUME NEW j \in 1..d
      PROVE  /\ a + (j - 1) \in Nat /\ a + j \in (a + 1)..(a + d)
             /\ NumFills(s, a + (j - 1)) \in Nat
             /\ NumFills(s, a + j)
                  = NumFills(s, a + (j - 1)) + IF IsFill(s[a + j]) THEN 1 ELSE 0
  <2>1. a + (j - 1) \in Nat /\ (a + (j - 1)) + 1 = a + j
    OBVIOUS
  <2>2. /\ NumFills(s, a + (j - 1)) \in Nat
        /\ NumFills(s, (a + (j - 1)) + 1)
             = NumFills(s, a + (j - 1)) + IF IsFill(s[(a + (j - 1)) + 1]) THEN 1 ELSE 0
    BY <2>1, NumFillsNext
  <2> QED BY <2>1, <2>2
<1>2. ASSUME \A i \in (a + 1)..(a + d) : ~IsFill(s[i])
      PROVE  \A j \in 0..d : NumFills(s, a + j) = NumFills(s, a)
  <2> DEFINE A == { j \in 0..d : NumFills(s, a + j) = NumFills(s, a) }
  <2>1. 0 \in A
    OBVIOUS
  <2>2. \A j \in 1..d : j - 1 \in A => j \in A
    BY <1>0, <1>1, <1>2
  <2>3. 0..d \subseteq A
    <3> HIDE DEF A
    <3> QED BY <2>1, <2>2, UpToInduction
  <2> QED BY <2>3
<1>3. ASSUME \A i \in (a + 1)..(a + d) : IsFill(s[i])
      PROVE  \A j \in 0..d : NumFills(s, a + j) = NumFills(s, a) + j
  <2> DEFINE A == { j \in 0..d : NumFills(s, a + j) = NumFills(s, a) + j }
  <2>1. 0 \in A
    BY <1>0
  <2>2. \A j \in 1..d : j - 1 \in A => j \in A
    BY <1>0, <1>1, <1>3
  <2>3. 0..d \subseteq A
    <3> HIDE DEF A
    <3> QED BY <2>1, <2>2, UpToInduction
  <2> QED BY <2>3
<1> QED BY <1>2, <1>3

-----------------------------------------------------------------------------
(* The outbox and the sequences it is filled from.                         *)

Extends(s, t) == Len(s) <= Len(t) /\ \A n \in 1..Len(s) : s[n] = t[n]

NoDup(q) == \A i, j \in 1..Len(q) : q[i] = q[j] => i = j

\* The fills of o are the first of q, in order.
FillsMatch(o, q) ==
  /\ NumFills(o, Len(o)) <= Len(q)
  /\ \A n \in 1..Len(o) : IsFill(o[n]) => o[n] = q[NumFills(o, n)]

\* p is o, a, b and c one after the other.
IsJoin(p, o, a, b, c) ==
  /\ Len(p) = Len(o) + Len(a) + Len(b) + Len(c)
  /\ \A i \in 1..Len(o) : p[i] = o[i]
  /\ \A i \in 1..Len(a) : p[Len(o) + i] = a[i]
  /\ \A i \in 1..Len(b) : p[Len(o) + Len(a) + i] = b[i]
  /\ \A i \in 1..Len(c) : p[Len(o) + Len(a) + Len(b) + i] = c[i]
  /\ \A n \in 1..Len(p) :
       \/ n \in 1..Len(o)
       \/ n - Len(o) \in 1..Len(a)
       \/ n - Len(o) - Len(a) \in 1..Len(b)
       \/ n - Len(o) - Len(a) - Len(b) \in 1..Len(c)

\* The parts of a concatenation.
LEMMA Joined ==
  ASSUME NEW S, NEW s \in Seq(S), NEW t \in Seq(S), NEW p, p = s \o t
  PROVE  /\ p \in Seq(S) /\ Len(p) = Len(s) + Len(t)
         /\ \A i \in 1..Len(s) : p[i] = s[i]
         /\ \A i \in 1..Len(t) : p[Len(s) + i] = t[i]
<1>1. Len(s) \in Nat /\ Len(t) \in Nat
  OBVIOUS
<1>2. /\ p \in Seq(S) /\ Len(p) = Len(s) + Len(t)
      /\ \A i \in 1..Len(s) + Len(t) : p[i] = IF i <= Len(s) THEN s[i] ELSE t[i - Len(s)]
  BY ConcatProperties
<1>3. ASSUME NEW i \in 1..Len(t) PROVE p[Len(s) + i] = t[i]
  <2>1. Len(s) + i \in 1..Len(s) + Len(t) /\ ~(Len(s) + i <= Len(s)) /\ (Len(s) + i) - Len(s) = i
    BY <1>1
  <2> QED BY <1>2, <2>1
<1> QED BY <1>1, <1>2, <1>3

\* Four sequences put together are a join.
LEMMA JoinedParts ==
  ASSUME NEW S, NEW o \in Seq(S), NEW a \in Seq(S), NEW b \in Seq(S), NEW c \in Seq(S),
         NEW p, p = o \o a \o b \o c
  PROVE  p \in Seq(S) /\ IsJoin(p, o, a, b, c)
<1>0. Len(o) \in Nat /\ Len(a) \in Nat /\ Len(b) \in Nat /\ Len(c) \in Nat
  OBVIOUS
<1> DEFINE x == o \o a
           y == x \o b
<1>1. /\ x \in Seq(S) /\ Len(x) = Len(o) + Len(a)
      /\ \A i \in 1..Len(o) : x[i] = o[i]
      /\ \A i \in 1..Len(a) : x[Len(o) + i] = a[i]
  BY Joined
<1>y. y = x \o b
  OBVIOUS
<1> HIDE DEF x, y
<1>2. /\ y \in Seq(S) /\ Len(y) = Len(x) + Len(b)
      /\ \A i \in 1..Len(x) : y[i] = x[i]
      /\ \A i \in 1..Len(b) : y[Len(x) + i] = b[i]
  <2>1. x \in Seq(S)
    BY <1>1
  <2> QED BY ONLY <2>1, <1>y, b \in Seq(S), Joined
<1>3. /\ p \in Seq(S) /\ Len(p) = Len(y) + Len(c)
      /\ \A i \in 1..Len(y) : p[i] = y[i]
      /\ \A i \in 1..Len(c) : p[Len(y) + i] = c[i]
  <2>1. p = y \o c
    BY DEF x, y
  <2>2. y \in Seq(S)
    BY <1>2
  <2> QED BY ONLY <2>1, <2>2, c \in Seq(S), Joined
<1>4. ASSUME NEW i \in 1..Len(o) PROVE p[i] = o[i]
  <2>1. i \in 1..Len(x) /\ i \in 1..Len(y)
    BY <1>0, <1>1, <1>2
  <2> QED BY <1>1, <1>2, <1>3, <2>1
<1>5. ASSUME NEW i \in 1..Len(a) PROVE p[Len(o) + i] = a[i]
  <2>1. Len(o) + i \in 1..Len(x) /\ Len(o) + i \in 1..Len(y)
    BY <1>0, <1>1, <1>2
  <2> QED BY <1>1, <1>2, <1>3, <2>1
<1>6. ASSUME NEW i \in 1..Len(b) PROVE p[Len(o) + Len(a) + i] = b[i]
  <2>1. Len(o) + Len(a) + i \in 1..Len(y)
    BY <1>0, <1>1, <1>2
  <2> QED BY <1>1, <1>2, <1>3, <2>1
<1>7. ASSUME NEW n \in 1..Len(p)
      PROVE  \/ n \in 1..Len(o)
             \/ n - Len(o) \in 1..Len(a)
             \/ n - Len(o) - Len(a) \in 1..Len(b)
             \/ n - Len(o) - Len(a) - Len(b) \in 1..Len(c)
  BY <1>0, <1>1, <1>2, <1>3
<1>8. Len(p) = Len(o) + Len(a) + Len(b) + Len(c)
  BY <1>0, <1>1, <1>2, <1>3
<1>9. \A i \in 1..Len(c) : p[Len(o) + Len(a) + Len(b) + i] = c[i]
  BY <1>0, <1>1, <1>2, <1>3
<1> QED BY <1>3, <1>4, <1>5, <1>6, <1>7, <1>8, <1>9 DEF IsJoin

\* The fills of the outbox are those of the ledger it has.
LEMMA FillsInOutbox ==
  ASSUME NEW S, NEW o \in Seq(S), NEW q \in Seq(S), FillsMatch(o, q), NoDup(q),
         \A i \in 1..Len(q) : IsFill(q[i])
  PROVE  /\ NumFills(o, Len(o)) \in 0..Len(q)
         /\ \A i \in 1..Len(q) : Contains(o, q[i]) <=> i <= NumFills(o, Len(o))
<1> DEFINE K == NumFills(o, Len(o))
<1>0. Len(o) \in Nat /\ Len(q) \in Nat
  OBVIOUS
<1>1. K \in Nat /\ K <= Len(q)
  BY <1>0, NumFillsNext DEF FillsMatch
<1>2. ASSUME NEW i \in 1..Len(q), i <= K PROVE Contains(o, q[i])
  <2>1. i \in 1..K
    BY <1>1, <1>2
  <2>2. PICK n \in 1..Len(o) : IsFill(o[n]) /\ NumFills(o, n) = i
    BY <1>1, <2>1, NumFillsOnto
  <2> QED BY <2>2 DEF FillsMatch, Contains
<1>3. ASSUME NEW i \in 1..Len(q), Contains(o, q[i]) PROVE i <= K
  <2>1. PICK n \in 1..Len(o) : o[n] = q[i]
    BY <1>3 DEF Contains
  <2>2. q[NumFills(o, n)] = q[i]
    BY <2>1 DEF FillsMatch
  <2>3. n \in Nat /\ n - 1 \in Nat /\ (n - 1) + 1 = n /\ n \in 0..Len(o)
    BY <1>1
  <2>4. NumFills(o, n) <= K
    BY <1>1, <2>3, NumFillsGrows
  <2>5. NumFills(o, n) \in Nat /\ NumFills(o, n) # 0
    <3>1. NumFills(o, n - 1) \in Nat
      BY <2>3, NumFillsNext
    <3>2. NumFills(o, (n - 1) + 1) = NumFills(o, n - 1) + IF IsFill(o[(n - 1) + 1]) THEN 1 ELSE 0
      BY <2>3, NumFillsNext
    <3>3. IsFill(o[n])
      BY <2>1
    <3> QED BY <2>3, <3>1, <3>2, <3>3
  <2>6. NumFills(o, n) \in 1..Len(q)
    BY <1>1, <2>4, <2>5
  <2> QED BY <2>2, <2>4, <2>6 DEF NoDup
<1> QED BY <1>1, <1>2, <1>3

HasFills(p, q) == FillsMatch(p, q) /\ NumFills(p, Len(p)) = Len(q)
AllFills(s) == \A i \in 1..Len(s) : IsFill(s[i])
NoFills(s)  == \A i \in 1..Len(s) : ~IsFill(s[i])

\* After the synchronization the fills of the outbox are those of the ledger.
LEMMA SyncedFills ==
  ASSUME NEW S, NEW o \in Seq(S), NEW h \in Seq(S), NEW q \in Seq(S), NEW g \in Seq(S),
         FillsMatch(o, q), NoDup(q), AllFills(q), NoFills(h), NoFills(g),
         NEW p, p = o \o Missing(o, h) \o Missing(o, q) \o Missing(o, g)
  PROVE  HasFills(p, q)
<1> DEFINE a == Missing(o, h)
           b == Missing(o, q)
           c == Missing(o, g)
           K == NumFills(o, Len(o))
           X == Len(o)
           Y == Len(o) + Len(a)
           Z == Len(o) + Len(a) + Len(b)
<1>1. /\ a \in Seq(S) /\ b \in Seq(S) /\ c \in Seq(S)
      /\ Takes(a, o, h, Len(h)) /\ Takes(c, o, g, Len(g))
  BY MissingTakes
<1>2. \A i \in 1..Len(a) : ~IsFill(a[i])
  BY <1>1 DEF Takes, NoFills
<1>3. \A i \in 1..Len(c) : ~IsFill(c[i])
  BY <1>1 DEF Takes, NoFills
<1>4. /\ K \in 0..Len(q) /\ \A i \in 1..Len(q) : Contains(o, q[i]) <=> i <= K
  BY FillsInOutbox DEF AllFills
<1>5. Len(b) = Len(q) - K /\ \A j \in 1..(Len(q) - K) : b[j] = q[K + j]
  BY <1>4, MissingTail
<1>6. Len(o) \in Nat /\ Len(a) \in Nat /\ Len(b) \in Nat /\ Len(c) \in Nat /\ Len(q) \in Nat
  BY <1>1
<1> HIDE DEF a, b, c, K
<1>7. IsJoin(p, o, a, b, c)
  <2>1. p = o \o a \o b \o c
    BY DEF a, b, c
  <2> QED BY <1>1, <2>1, JoinedParts
<1>8. \A n \in 0..X : NumFills(p, n) = NumFills(o, n)
  <2> TAKE n \in 0..X
  <2>1. \A i \in 1..n : p[i] = o[i]
    BY <1>6, <1>7 DEF IsJoin
  <2> QED BY <2>1, NumFillsSame
<1>9. NumFills(p, X) = K
  BY <1>6, <1>8 DEF K
<1>10. \A j \in 0..Len(a) : NumFills(p, X + j) = K
  <2>1. \A i \in (X + 1)..(X + Len(a)) : ~IsFill(p[i])
    <3> TAKE i \in (X + 1)..(X + Len(a))
    <3>1. i - Len(o) \in 1..Len(a) /\ Len(o) + (i - Len(o)) = i
      BY <1>6
    <3> QED BY <1>2, <1>7, <3>1 DEF IsJoin
  <2>2. X \in Nat /\ Len(a) \in Nat
    BY <1>6
  <2> QED BY <1>9, <2>1, <2>2, NumFillsRun, Zenon
<1>11. NumFills(p, Y) = K /\ Y \in Nat
  BY <1>6, <1>10
<1>12. \A j \in 0..Len(b) : NumFills(p, Y + j) = K + j
  <2>1. \A i \in (Y + 1)..(Y + Len(b)) : IsFill(p[i])
    <3> TAKE i \in (Y + 1)..(Y + Len(b))
    <3> DEFINE j == i - Y
    <3>4. j \in 1..Len(b) /\ Len(o) + Len(a) + j = i
      BY <1>6
    <3>5. K + j \in 1..Len(q)
      <4> HIDE DEF j
      <4> QED BY <1>4, <1>5, <1>6, <3>4
    <3>1. i - Y \in 1..Len(b) /\ Len(o) + Len(a) + (i - Y) = i /\ K + (i - Y) \in 1..Len(q)
      BY <3>4, <3>5
    <3>2. p[i] = b[i - Y] /\ b[i - Y] = q[K + (i - Y)]
      BY <1>5, <1>7, <3>1 DEF IsJoin
    <3> QED BY <3>1, <3>2 DEF AllFills
  <2>2. Y \in Nat /\ Len(b) \in Nat
    BY <1>6
  <2>3. \A j \in 0..Len(b) : NumFills(p, Y + j) = NumFills(p, Y) + j
    BY <2>1, <2>2, NumFillsRun, Zenon
  <2> QED BY <1>11, <2>3, Zenon
<1>13. NumFills(p, Z) = Len(q) /\ Z \in Nat /\ Z = Y + Len(b)
  <2>1. Len(b) \in 0..Len(b) /\ K + Len(b) = Len(q)
    BY <1>4, <1>5, <1>6
  <2>2. NumFills(p, Y + Len(b)) = Len(q)
    BY <1>12, <2>1
  <2> QED BY <1>6, <2>2
<1>14. \A j \in 0..Len(c) : NumFills(p, Z + j) = Len(q)
  <2>1. \A i \in (Z + 1)..(Z + Len(c)) : ~IsFill(p[i])
    <3> TAKE i \in (Z + 1)..(Z + Len(c))
    <3>1. i - Z \in 1..Len(c) /\ Len(o) + Len(a) + Len(b) + (i - Z) = i
      BY <1>6
    <3> QED BY <1>3, <1>7, <3>1 DEF IsJoin
  <2>2. Len(q) \in Nat
    OBVIOUS
  <2>3. \A j \in 0..Len(c) : NumFills(p, Z + j) = NumFills(p, Z)
    BY <1>6, <1>13, <2>1, NumFillsRun, Zenon
  <2> QED BY <1>13, <2>3
<1>15. NumFills(p, Len(p)) = Len(q)
  BY <1>6, <1>7, <1>14 DEF IsJoin
<1>16. ASSUME NEW n \in 1..Len(p), IsFill(p[n]) PROVE p[n] = q[NumFills(p, n)]
  <2>1. CASE n \in 1..Len(o)
    <3>1. p[n] = o[n] /\ NumFills(p, n) = NumFills(o, n)
      BY <1>6, <1>7, <1>8, <2>1 DEF IsJoin
    <3> QED BY <1>16, <2>1, <3>1 DEF FillsMatch
  <2>2. CASE n - Len(o) \in 1..Len(a)
    <3>1. Len(o) + (n - Len(o)) = n
      BY <1>6, <1>7 DEF IsJoin
    <3> QED BY <1>2, <1>7, <1>16, <2>2, <3>1 DEF IsJoin
  <2>3. CASE n - Len(o) - Len(a) \in 1..Len(b)
    <3> DEFINE j == n - Len(o) - Len(a)
    <3>1. Len(o) + Len(a) + j = n /\ j \in 0..Len(b) /\ j \in 1..(Len(q) - K) /\ Y + j = n
      BY <1>5, <1>6, <1>7, <2>3 DEF IsJoin
    <3>2. p[n] = b[j] /\ b[j] = q[K + j] /\ NumFills(p, n) = K + j
      BY <1>5, <1>7, <1>12, <2>3, <3>1 DEF IsJoin
    <3> QED BY <3>2
  <2>4. CASE n - Len(o) - Len(a) - Len(b) \in 1..Len(c)
    <3>1. Len(o) + Len(a) + Len(b) + (n - Len(o) - Len(a) - Len(b)) = n
      BY <1>6, <1>7 DEF IsJoin
    <3> QED BY <1>3, <1>7, <1>16, <2>4, <3>1 DEF IsJoin
  <2> QED BY <1>7, <2>1, <2>2, <2>3, <2>4 DEF IsJoin
<1>17. NumFills(p, Len(p)) <= Len(q)
  BY <1>6, <1>15
<1> QED BY <1>15, <1>16, <1>17 DEF FillsMatch, HasFills

\* Every settlement and every fill has the authorization of its order before it.
IntentsFirst(s) ==
  \A n \in 1..Len(s) :
    s[n].kind \in { "settled", "fill" } =>
      \E m \in 1..(n - 1) : s[m] = Transition("accepted", s[n].cloid)

\* The synchronized outbox has authorizations first when the history has: the
\* transitions are added in their order, and the fills after them.
LEMMA SyncedIntents ==
  ASSUME NEW S, NEW o \in Seq(S), NEW h \in Seq(S), NEW q \in Seq(S), NEW g \in Seq(S),
         IntentsFirst(o), IntentsFirst(h),
         \A i \in 1..Len(q) : Contains(h, Transition("accepted", q[i].cloid)),
         \A i \in 1..Len(g) : g[i].kind = "funding",
         NEW p, p = o \o Missing(o, h) \o Missing(o, q) \o Missing(o, g)
  PROVE  IntentsFirst(p)
<1> DEFINE a == Missing(o, h)
           b == Missing(o, q)
           c == Missing(o, g)
<1>1. /\ a \in Seq(S) /\ b \in Seq(S) /\ c \in Seq(S)
      /\ Takes(a, o, h, Len(h)) /\ Takes(b, o, q, Len(q)) /\ Takes(c, o, g, Len(g))
  BY MissingTakes
<1>2. Len(o) \in Nat /\ Len(a) \in Nat /\ Len(b) \in Nat /\ Len(c) \in Nat
  BY <1>1
<1>3. p = o \o a \o b \o c
  OBVIOUS
<1> HIDE DEF a, b, c
<1>4. IsJoin(p, o, a, b, c)
  BY ONLY <1>1, <1>3, o \in Seq(S), JoinedParts
<1> SUFFICES ASSUME NEW n \in 1..Len(p), p[n].kind \in { "settled", "fill" }
             PROVE  \E m \in 1..(n - 1) : p[m] = Transition("accepted", p[n].cloid)
  BY DEF IntentsFirst
<1> DEFINE t == Transition("accepted", p[n].cloid)
<1>5. ASSUME Contains(o, t), n > Len(o) PROVE \E m \in 1..(n - 1) : p[m] = t
  <2>1. PICK m \in 1..Len(o) : o[m] = t
    BY <1>5 DEF Contains
  <2> QED BY <1>2, <1>4, <1>5, <2>1 DEF IsJoin
<1>6. CASE n \in 1..Len(o)
  <2>1. p[n] = o[n]
    BY <1>4, <1>6 DEF IsJoin
  <2>2. PICK m \in 1..(n - 1) : o[m] = t
    BY <1>6, <2>1 DEF IntentsFirst
  <2>3. m \in 1..Len(o)
    BY <1>2, <1>6
  <2>4. p[m] = o[m]
    BY <1>4, <2>3 DEF IsJoin
  <2> QED BY <2>2, <2>4
<1>7. CASE n - Len(o) \in 1..Len(a)
  <2> DEFINE j == n - Len(o)
  <2>1. Len(o) + j = n /\ j \in 1..Len(a) /\ n > Len(o)
    BY <1>2, <1>7
  <2>2. p[n] = a[j]
    BY <1>4, <2>1 DEF IsJoin
  <2>3. PICK i \in 1..Len(h) :
          /\ a[j] = h[i]
          /\ \A x \in 1..(i - 1) : Contains(o, h[x]) \/ \E k \in 1..(j - 1) : a[k] = h[x]
    BY <1>1, <2>1, Zenon DEF Takes
  <2>4. PICK x \in 1..(i - 1) : h[x] = t
    BY <2>2, <2>3 DEF IntentsFirst
  <2>5. CASE Contains(o, h[x])
    BY <1>5, <2>1, <2>4, <2>5
  <2>6. CASE \E k \in 1..(j - 1) : a[k] = h[x]
    <3>1. PICK k \in 1..(j - 1) : a[k] = h[x]
      BY <2>6
    <3>2. Len(o) + k \in 1..(n - 1) /\ k \in 1..Len(a)
      BY ONLY Len(o) \in Nat, Len(a) \in Nat, <1>2, <2>1, k \in 1..(j - 1)
    <3>3. p[Len(o) + k] = t
      BY <1>4, <2>4, <3>1, <3>2 DEF IsJoin
    <3> QED BY <3>2, <3>3
  <2> QED BY <2>3, <2>5, <2>6
<1>8. CASE n - Len(o) - Len(a) \in 1..Len(b)
  <2> DEFINE j == n - Len(o) - Len(a)
  <2>1. Len(o) + Len(a) + j = n /\ j \in 1..Len(b) /\ n > Len(o) + Len(a)
    BY <1>2, <1>8
  <2>2. p[n] = b[j]
    BY <1>4, <2>1 DEF IsJoin
  <2>3. PICK i \in 1..Len(q) : b[j] = q[i]
    BY <1>1, <2>1 DEF Takes
  <2>4. Contains(h, t)
    BY <2>2, <2>3
  <2>5. Contains(o, t) \/ Contains(a, t)
    <3>1. PICK x \in 1..Len(h) : h[x] = t
      BY <2>4 DEF Contains
    <3>2. Contains(o, h[x]) \/ Contains(a, h[x])
      BY <1>1 DEF Takes
    <3> QED BY <3>1, <3>2
  <2>6. CASE Contains(o, t)
    <3>1. n > Len(o)
      BY <1>2, <2>1
    <3> QED BY <1>5, <2>6, <3>1
  <2>7. CASE Contains(a, t)
    <3>1. PICK k \in 1..Len(a) : a[k] = t
      BY <2>7 DEF Contains
    <3>2. Len(o) + k \in 1..(n - 1)
      BY ONLY <1>2, <2>1, k \in 1..Len(a)
    <3>3. p[Len(o) + k] = t
      BY <1>4, <3>1 DEF IsJoin
    <3> QED BY <3>2, <3>3
  <2> QED BY <2>5, <2>6, <2>7
<1>9. CASE n - Len(o) - Len(a) - Len(b) \in 1..Len(c)
  <2> DEFINE j == n - Len(o) - Len(a) - Len(b)
  <2>1. Len(o) + Len(a) + Len(b) + j = n /\ j \in 1..Len(c)
    BY <1>2, <1>9
  <2>2. p[n] = c[j]
    BY <1>4, <2>1 DEF IsJoin
  <2>3. PICK i \in 1..Len(g) : c[j] = g[i]
    BY <1>1, <2>1 DEF Takes
  <2> QED BY <2>2, <2>3
<1> QED BY <1>4, <1>6, <1>7, <1>8, <1>9 DEF IsJoin

-----------------------------------------------------------------------------
(* A ledger and its fills.                                                 *)

Names == Cloids \cup { "" }
Events ==
  [ kind : { "fill", "funding" }, id : Nat, cloid : Names,
    asset : Assets, delta : Int, at : Nat ]
Ledgers ==
  [ position : [ Assets -> Int ], fills : Seq(Events), funding : Seq(Events),
    cursor : Nat ]

Moved(position, f) == [ position EXCEPT ![f.asset] = @ + f.delta ]

\* The positions are what the fills, one after the other, make of nothing.
IsFold(P, fills) ==
  /\ P[0] = [ a \in Assets |-> 0 ]
  /\ \A n \in 1..Len(fills) : P[n] = Moved(P[n - 1], fills[n])

Folded(L) ==
  \E P \in [ 0..Len(L.fills) -> [ Assets -> Int ] ] :
    IsFold(P, L.fills) /\ P[Len(L.fills)] = L.position

\* A ledger of events of E: no fill is in it twice.
GoodLedger(L, E) ==
  /\ L \in Ledgers
  /\ \A n \in 1..Len(L.fills) : IsFill(L.fills[n]) /\ L.fills[n] \in E
  /\ \A n \in 1..Len(L.funding) : L.funding[n].kind = "funding"
  /\ NoDup(L.fills)
  /\ Folded(L)

\* One more fill moves the position of its asset.
LEMMA FoldedNext ==
  ASSUME NEW L \in Ledgers, NEW K \in Ledgers, Folded(L), NEW f \in Events,
         K.fills = Append(L.fills, f), K.position = Moved(L.position, f)
  PROVE  Folded(K)
<1> DEFINE s == L.fills
           u == K.fills
           N == Len(L.fills)
<1>1. /\ s \in Seq(Events) /\ u \in Seq(Events) /\ N \in Nat /\ Len(u) = N + 1
      /\ u[N + 1] = f /\ \A n \in 1..N : u[n] = s[n]
  BY AppendProperties DEF Ledgers
<1>2. PICK P \in [ 0..N -> [ Assets -> Int ] ] : IsFold(P, s) /\ P[N] = L.position
  BY DEF Folded
<1> DEFINE Q == [ n \in 0..(N + 1) |-> IF n = N + 1 THEN K.position ELSE P[n] ]
<1>3. Q \in [ 0..(N + 1) -> [ Assets -> Int ] ]
  BY <1>1, <1>2 DEF Ledgers
<1>4. Len(s) = N
  OBVIOUS
<1>k. K.position = Moved(L.position, f)
  OBVIOUS
<1> HIDE DEF s, u, N
<1>5. Q[0] = [ a \in Assets |-> 0 ] /\ Q[N + 1] = K.position
  BY <1>1, <1>2 DEF IsFold
<1>6. ASSUME NEW n \in 1..(N + 1) PROVE Q[n] = Moved(Q[n - 1], u[n])
  <2>1. CASE n = N + 1
    <3>1. Q[n - 1] = L.position /\ Q[n] = K.position
      BY <1>1, <1>2, <2>1
    <3> QED BY <1>1, <1>k, <2>1, <3>1
  <2>2. CASE n # N + 1
    <3>1. n \in 1..N /\ Q[n] = P[n] /\ Q[n - 1] = P[n - 1] /\ u[n] = s[n]
      BY <1>1, <2>2
    <3> QED BY <1>2, <1>4, <3>1 DEF IsFold
  <2> QED BY <2>1, <2>2
<1> HIDE DEF Q
<1>7. IsFold(Q, u)
  BY <1>1, <1>5, <1>6 DEF IsFold
<1>8. Q \in [ 0..Len(u) -> [ Assets -> Int ] ] /\ Q[Len(u)] = K.position
  BY <1>1, <1>3, <1>5
<1> QED BY <1>7, <1>8 DEF Folded, u

\* The fills determine the positions.
LEMMA FoldedAlike ==
  ASSUME NEW L \in Ledgers, NEW K \in Ledgers, Folded(L), Folded(K), L.fills = K.fills
  PROVE  L.position = K.position
<1> DEFINE s == L.fills
           N == Len(s)
<1>1. s \in Seq(Events) /\ N \in Nat
  BY DEF Ledgers
<1>2. PICK P \in [ 0..N -> [ Assets -> Int ] ] : IsFold(P, s) /\ P[N] = L.position
  BY DEF Folded
<1>3. PICK Q \in [ 0..N -> [ Assets -> Int ] ] : IsFold(Q, s) /\ Q[N] = K.position
  BY DEF Folded
<1> DEFINE A == { n \in 0..N : P[n] = Q[n] }
<1>4. 0 \in A
  BY <1>1, <1>2, <1>3 DEF IsFold
<1>5. ASSUME NEW n \in 1..N, n - 1 \in A PROVE n \in A
  <2>1. P[n] = Moved(P[n - 1], s[n]) /\ Q[n] = Moved(Q[n - 1], s[n])
    BY <1>2, <1>3 DEF IsFold
  <2> QED BY <1>5, <2>1
<1> HIDE DEF A, N
<1>6. 0..N \subseteq A
  BY <1>1, <1>4, <1>5, UpToInduction
<1>7. N \in A
  BY <1>1, <1>6
<1> QED BY <1>2, <1>3, <1>7 DEF A

\* A fill that is new is appended and moves the position; a known one does nothing.
LEMMA ApplyFillGood ==
  ASSUME NEW E, E \subseteq Events, NEW L, GoodLedger(L, E), NEW e \in E, IsFill(e)
  PROVE  GoodLedger(ApplyFill(L, e), E) /\ Extends(L.fills, ApplyFill(L, e).fills)
<1>1. L \in Ledgers /\ e \in Events /\ L.fills \in Seq(Events) /\ Len(L.fills) \in Nat
  BY DEF GoodLedger, Ledgers
<1>2. CASE Contains(L.fills, e)
  BY <1>1, <1>2 DEF ApplyFill, Extends
<1>3. CASE ~Contains(L.fills, e)
  <2> DEFINE K == ApplyFill(L, e)
  <2>1. K = [ L EXCEPT !.position[e.asset] = @ + e.delta, !.fills = Append(@, e) ]
    BY <1>3 DEF ApplyFill
  <2>2. /\ K.position = Moved(L.position, e) /\ K.fills = Append(L.fills, e)
        /\ K.funding = L.funding /\ K.cursor = L.cursor
    BY <1>1, <2>1 DEF Ledgers, Moved
  <2>3. Append(L.fills, e) \in Seq(Events) /\ Moved(L.position, e) \in [ Assets -> Int ]
    <3>1. /\ L.position \in [ Assets -> Int ] /\ e.asset \in Assets /\ e.delta \in Int
      BY <1>1 DEF Ledgers, Events
    <3> QED BY <1>1, <3>1, AppendProperties DEF Moved
  <2>4. K \in Ledgers
    BY <1>1, <2>1, <2>2, <2>3 DEF Ledgers
  <2> HIDE DEF K
  <2>5. Folded(K)
    BY <1>1, <2>2, <2>4, FoldedNext DEF GoodLedger
  <2> DEFINE u == K.fills
             s == L.fills
  <2>6. /\ Len(u) = Len(s) + 1 /\ u[Len(s) + 1] = e
        /\ \A n \in 1..Len(s) : u[n] = s[n]
    BY <1>1, <2>2, AppendProperties
  <2>7. Extends(s, u)
    BY <1>1, <2>6 DEF Extends
  <2>8. \A n \in 1..Len(u) : n \in 1..Len(s) \/ n = Len(s) + 1
    BY <1>1, <2>6
  <2>9. \A n \in 1..Len(s) : IsFill(s[n]) /\ s[n] \in E /\ s[n] # e
    BY <1>3 DEF GoodLedger, Contains
  <2>10. NoDup(s)
    BY DEF GoodLedger
  <2> HIDE DEF u, s
  <2>11. \A n \in 1..Len(u) : IsFill(u[n]) /\ u[n] \in E
    BY <2>6, <2>8, <2>9
  <2>12. NoDup(u)
    BY <2>6, <2>8, <2>9, <2>10 DEF NoDup
  <2>13. \A n \in 1..Len(K.funding) : K.funding[n].kind = "funding"
    BY <2>2 DEF GoodLedger
  <2>14. GoodLedger(K, E)
    BY <2>4, <2>5, <2>11, <2>12, <2>13 DEF GoodLedger, u
  <2> QED BY <2>7, <2>14 DEF K, u, s
<1> QED BY <1>2, <1>3

\* A funding payment changes neither fills nor positions.
LEMMA ApplyFundingGood ==
  ASSUME NEW E, E \subseteq Events, NEW L, GoodLedger(L, E), NEW e \in E,
         e.kind = "funding"
  PROVE  /\ GoodLedger(ApplyFunding(L, e), E)
         /\ ApplyFunding(L, e).fills = L.fills /\ ApplyFunding(L, e).position = L.position
<1>1. /\ L \in Ledgers /\ e \in Events /\ L.funding \in Seq(Events)
      /\ Len(L.funding) \in Nat
  BY DEF GoodLedger, Ledgers
<1>2. CASE Contains(L.funding, e)
  BY <1>2 DEF ApplyFunding
<1>3. CASE ~Contains(L.funding, e)
  <2> DEFINE K == ApplyFunding(L, e)
  <2>1. K = [ L EXCEPT !.funding = Append(@, e) ]
    BY <1>3 DEF ApplyFunding
  <2>2. /\ K.position = L.position /\ K.fills = L.fills
        /\ K.funding = Append(L.funding, e) /\ K.cursor = L.cursor
    BY <1>1, <2>1 DEF Ledgers
  <2>3. Append(L.funding, e) \in Seq(Events)
    BY <1>1, AppendProperties
  <2>4. K \in Ledgers
    BY <1>1, <2>1, <2>3 DEF Ledgers
  <2> HIDE DEF K
  <2> DEFINE u == K.funding
             s == L.funding
  <2>5. /\ Len(u) = Len(s) + 1 /\ u[Len(s) + 1] = e
        /\ \A n \in 1..Len(s) : u[n] = s[n]
    BY <1>1, <2>2, AppendProperties
  <2>6. \A n \in 1..Len(s) : s[n].kind = "funding"
    BY DEF GoodLedger
  <2> HIDE DEF u, s
  <2>7. \A n \in 1..Len(u) : u[n].kind = "funding"
    <3>1. Len(s) \in Nat /\ \A n \in 1..Len(u) : n \in 1..Len(s) \/ n = Len(s) + 1
      BY <1>1, <2>5 DEF s
    <3> QED BY <2>5, <2>6, <3>1
  <2>8. Folded(K)
    BY <2>2 DEF GoodLedger, Folded
  <2>9. GoodLedger(K, E)
    BY <2>2, <2>4, <2>7, <2>8 DEF GoodLedger, u
  <2> QED BY <2>2, <2>9 DEF K
<1> QED BY <1>2, <1>3

\* So an event of either kind extends a good ledger to a good one.
LEMMA ApplyGood ==
  ASSUME NEW E, E \subseteq Events, NEW L, GoodLedger(L, E), NEW e \in E
  PROVE  GoodLedger(Apply(L, e), E) /\ Extends(L.fills, Apply(L, e).fills)
<1>1. Len(L.fills) \in Nat
  BY DEF GoodLedger, Ledgers
<1>2. CASE IsFill(e)
  BY <1>2, ApplyFillGood DEF Apply
<1>3. CASE ~IsFill(e)
  <2>1. e.kind = "funding"
    BY <1>3 DEF Events, IsFill
  <2>2. GoodLedger(ApplyFunding(L, e), E) /\ ApplyFunding(L, e).fills = L.fills
    BY <2>1, ApplyFundingGood
  <2>3. Apply(L, e) = ApplyFunding(L, e)
    BY <1>3 DEF Apply
  <2>4. Extends(L.fills, L.fills)
    BY <1>1 DEF Extends
  <2> QED BY <2>2, <2>3, <2>4
<1> QED BY <1>2, <1>3

\* The events of a batch have identities of their own: their order is total,
\* so that every place in it is taken.
LEMMA PlacesTaken ==
  ASSUME NEW B, B \subseteq Events, IsFiniteSet(B), \A d, e \in B : d.id = e.id => d = e,
         NEW n \in 1..Cardinality(B)
  PROVE  \E e \in B : Cardinality({ d \in B : Earlier(d, e) }) = n - 1
<1> DEFINE N == Cardinality(B)
           T(e) == { d \in B : Earlier(d, e) }
           r == [ e \in B |-> Cardinality(T(e)) + 1 ]
<1>1. N \in Nat
  BY FS_CardinalityType
<1>2. \A d, e \in B : /\ d.at \in Nat /\ d.id \in Nat /\ d.kind \in { "fill", "funding" }
                      /\ (d.id = e.id => d = e)
  BY DEF Events
<1>3. \A d \in B : ~Earlier(d, d)
  BY <1>2 DEF Earlier, IsFill, IsFunding
<1>4. \A d, e \in B : d # e => Earlier(d, e) \/ Earlier(e, d)
  BY <1>2 DEF Earlier, IsFill, IsFunding
<1>5. \A x, d, e \in B : Earlier(x, d) /\ Earlier(d, e) => Earlier(x, e)
  BY <1>2 DEF Earlier, IsFill, IsFunding
<1>6. \A e \in B : /\ IsFiniteSet(T(e)) /\ Cardinality(T(e)) \in Nat
                   /\ Cardinality(T(e)) < N
  <2> TAKE e \in B
  <2>1. T(e) \in SUBSET B /\ T(e) # B
    BY <1>3
  <2>2. IsFiniteSet(T(e)) /\ Cardinality(T(e)) <= N /\ Cardinality(T(e)) # N
    BY <2>1, FS_Subset
  <2>3. Cardinality(T(e)) \in Nat
    BY <2>2, FS_CardinalityType
  <2> QED BY <1>1, <2>2, <2>3
<1>7. \A d, e \in B : Earlier(d, e) => Cardinality(T(d)) < Cardinality(T(e))
  <2> SUFFICES ASSUME NEW d \in B, NEW e \in B, Earlier(d, e)
               PROVE  Cardinality(T(d)) < Cardinality(T(e))
    OBVIOUS
  <2>1. T(d) \in SUBSET T(e)
    BY <1>5
  <2>2. d \in T(e) /\ d \notin T(d)
    BY <1>3
  <2>3. T(d) # T(e)
    BY <2>2
  <2> HIDE DEF T
  <2> QED BY <1>6, <2>1, <2>3, FS_Subset
<1> HIDE DEF T
<1>8. r \in [ B -> 1..N ]
  BY <1>1, <1>6
<1>9. \A d, e \in B : r[d] = r[e] => d = e
  BY <1>4, <1>6, <1>7
<1>10. r \in Injection(B, 1..N)
  BY <1>8, <1>9 DEF Injection, IsInjective
<1>11. IsFiniteSet(1..N) /\ Cardinality(1..N) = N
  BY <1>1, FS_Interval
<1>12. r \in Surjection(B, 1..N)
  BY <1>10, <1>11, FS_Injection
<1>13. PICK e \in B : r[e] = n
  BY <1>12 DEF Surjection
<1>14. Cardinality(T(e)) = n - 1
  BY <1>6, <1>8, <1>13
<1> QED BY <1>14 DEF T

\* The batch in order has each place filled by an event of the batch.
LEMMA InOrderType ==
  ASSUME NEW B, B \subseteq Events, IsFiniteSet(B), \A d, e \in B : d.id = e.id => d = e
  PROVE  InOrder(B) \in [ 1..Cardinality(B) -> B ] /\ Len(InOrder(B)) = Cardinality(B)
<1>1. Cardinality(B) \in Nat
  BY FS_CardinalityType
<1>2. InOrder(B) \in [ 1..Cardinality(B) -> B ]
  BY PlacesTaken DEF InOrder
<1> QED BY <1>1, <1>2

\* A batch extends a good ledger to a good one.
LEMMA StepsGood ==
  ASSUME NEW E, E \subseteq Events, NEW L, GoodLedger(L, E),
         NEW B, B \subseteq E, IsFiniteSet(B), \A d, e \in B : d.id = e.id => d = e
  PROVE  /\ GoodLedger(Steps(L, B)[Cardinality(B)], E)
         /\ Extends(L.fills, Steps(L, B)[Cardinality(B)].fills)
<1> DEFINE N == Cardinality(B)
           s == InOrder(B)
           X == { K \in Ledgers : GoodLedger(K, E) /\ Extends(L.fills, K.fills) }
           T == [ n \in 1..N |-> [ K \in X |-> Apply(K, s[n]) ] ]
           Body(f) == [ n \in 0..Len(s) |-> IF n = 0 THEN L ELSE Apply(f[n - 1], s[n]) ]
<1>1. N \in Nat
  BY FS_CardinalityType
<1>2. s \in [ 1..N -> B ] /\ Len(s) = N
  BY InOrderType
<1>3. L \in X
  BY DEF GoodLedger, Ledgers, Extends
<1>4. ASSUME NEW K \in X, NEW n \in 1..N PROVE Apply(K, s[n]) \in X
  <2>1. s[n] \in E
    BY <1>2
  <2> DEFINE M == Apply(K, s[n])
  <2>2. GoodLedger(M, E) /\ Extends(K.fills, M.fills)
    BY <2>1, ApplyGood
  <2> HIDE DEF M
  <2>3. /\ Len(L.fills) \in Nat /\ Len(K.fills) \in Nat /\ Len(M.fills) \in Nat
        /\ Extends(L.fills, K.fills) /\ M \in Ledgers
    BY <2>2 DEF GoodLedger, Ledgers
  <2>4. Extends(L.fills, M.fills)
    BY <2>2, <2>3 DEF Extends
  <2>5. M \in X
    BY <2>2, <2>3, <2>4
  <2> QED BY <2>5 DEF M
<1>5. T \in [ 1..N -> [ X -> X ] ]
  BY <1>4
<1>6. PICK F \in [ 0..N -> X ] : StepsOf(F, N, L, T)
  <2> HIDE DEF N, X, T
  <2> QED BY <1>1, <1>3, <1>5, RecursionExists
<1> HIDE DEF N, s, X
<1>7. F = Body(F)
  <2>1. ASSUME NEW n \in 0..N PROVE F[n] = IF n = 0 THEN L ELSE Apply(F[n - 1], s[n])
    <3>1. CASE n = 0
      BY <1>6, <3>1 DEF StepsOf
    <3>2. CASE n # 0
      <4>1. n \in 1..N /\ n - 1 \in 0..N /\ F[n - 1] \in X
        BY <1>1, <3>2
      <4> QED BY <1>6, <3>2, <4>1 DEF StepsOf
    <3> QED BY <3>1, <3>2
  <2> QED BY <1>2, <2>1
<1>8. PICK G : G = Body(G) /\ Steps(L, B) = G
  <2> DEFINE G == CHOOSE f : f = Body(f)
  <2>1. G = Body(G)
    BY <1>7, Zenon
  <2>2. Steps(L, B) = G
    BY Zenon DEF Steps, s
  <2> HIDE DEF G
  <2> QED BY <2>1, <2>2
<1>9. \A n \in 0..N : G[n] = F[n]
  <2> DEFINE A == { n \in 0..N : G[n] = F[n] }
  <2>1. 0 \in A
    <3>1. 0 \in 0..Len(s) /\ F[0] = L
      BY <1>1, <1>2, <1>6 DEF StepsOf
    <3> QED BY <1>1, <1>8, <3>1
  <2>2. ASSUME NEW n \in 1..N, n - 1 \in A PROVE n \in A
    <3>1. n \in 0..N /\ n \in 0..Len(s) /\ n # 0
      BY <1>1, <1>2
    <3>2. G[n] = Apply(G[n - 1], s[n])
      <4>1. G[n] = Body(G)[n]
        BY <1>8
      <4> QED BY <3>1, <4>1, Zenon
    <3>3. F[n] = Apply(F[n - 1], s[n])
      <4>1. F[n] = Body(F)[n]
        BY <1>7
      <4> QED BY <3>1, <4>1, Zenon
    <3> QED BY <2>2, <3>1, <3>2, <3>3
  <2>3. 0..N \subseteq A
    <3> HIDE DEF A
    <3> QED BY <1>1, <2>1, <2>2, UpToInduction
  <2> QED BY <2>3
<1>10. Steps(L, B)[N] \in X
  <2>1. N \in 0..N
    BY <1>1
  <2>2. G[N] = F[N] /\ F[N] \in X
    BY <1>9, <2>1
  <2> QED BY <1>8, <2>2
<1> QED BY <1>10 DEF X, N

\* The same with the cursor moved.
LEMMA ApplyBatchGood ==
  ASSUME NEW E, E \subseteq Events, NEW L, GoodLedger(L, E), NEW upTo \in Nat,
         NEW B, B \subseteq E, IsFiniteSet(B), \A d, e \in B : d.id = e.id => d = e
  PROVE  /\ GoodLedger(ApplyBatch(L, B, upTo), E)
         /\ Extends(L.fills, ApplyBatch(L, B, upTo).fills)
<1> DEFINE K == Steps(L, B)[Cardinality(B)]
           M == ApplyBatch(L, B, upTo)
<1>1. GoodLedger(K, E) /\ Extends(L.fills, K.fills)
  BY StepsGood
<1>2. M = [ K EXCEPT !.cursor = IF @ > upTo + 1 THEN @ ELSE upTo + 1 ]
  BY DEF ApplyBatch
<1> HIDE DEF K, M
<1>3. /\ M \in Ledgers /\ M.position = K.position /\ M.fills = K.fills
      /\ M.funding = K.funding
  <2>1. K \in Ledgers /\ K.cursor \in Nat
    BY <1>1 DEF GoodLedger, Ledgers
  <2> DEFINE c == IF K.cursor > upTo + 1 THEN K.cursor ELSE upTo + 1
  <2>2. c \in Nat
    BY <2>1
  <2>3. M = [ K EXCEPT !.cursor = c ]
    BY <1>2
  <2> HIDE DEF c
  <2> QED BY <2>1, <2>2, <2>3 DEF Ledgers
<1>4. Folded(M)
  BY <1>1, <1>3 DEF GoodLedger, Folded
<1>5. GoodLedger(M, E) /\ Extends(L.fills, M.fills)
  BY <1>1, <1>3, <1>4 DEF GoodLedger
<1> QED BY <1>5 DEF M

-----------------------------------------------------------------------------
(* The invariant.                                                          *)

Transitions == [ kind : { "accepted", "settled" }, cloid : Cloids ]

\* What the exchange reports happened once, to an order that was authorized.
ExchangeTrue ==
  /\ now \in Nat /\ stamp \in Nat /\ exchange \in Seq(Events)
  /\ \A n \in 1..Len(exchange) :
       /\ exchange[n].id = n
       /\ IsFill(exchange[n]) => Authorized(exchange[n].cloid)

HistoryTrue == history \in Seq(Transitions) /\ IntentsFirst(history)

\* The fills of the outbox are the first of the ledger, all of them whenever
\* the signer serves; what it has in memory is what it has on disk.
SignerTrue ==
  /\ batch \subseteq Range(exchange)
  /\ GoodLedger(ledgerFile, Range(exchange))
  /\ outboxFile \in Seq(Payloads) /\ IntentsFirst(outboxFile)
  /\ FillsMatch(outboxFile, ledgerFile.fills)
  /\ signer = "idle" => NumFills(outboxFile, Len(outboxFile)) = Len(ledgerFile.fills)
  /\ signer = "down" => observer = "down" /\ outbox = << >>
  /\ signer # "down" => ledger = ledgerFile /\ outbox = outboxFile

\* A state of the observer: a prefix of the outbox o, applied, and in its
\* ledger the fills that are in that prefix, which begin those of the ledger.
IsCopy(s, o, q) ==
  /\ s.applied \in Seq(Payloads) /\ Extends(s.applied, o)
  /\ GoodLedger(s.ledger, Events) /\ Extends(s.ledger.fills, q)
  /\ Len(s.ledger.fills) = NumFills(s.applied, Len(s.applied))

\* r is what comes next in the outbox.
Follows(r, s, o) ==
  /\ r \in Seq(Payloads) /\ Len(s.applied) + Len(r) <= Len(o)
  /\ \A n \in 1..Len(r) : r[n] = o[Len(s.applied) + n]

ObserverTrue ==
  /\ acked \in Nat /\ acked <= Len(stateFile.applied)
  /\ IsCopy(state, outboxFile, ledgerFile.fills)
  /\ IsCopy(stateFile, outboxFile, ledgerFile.fills)
  /\ observer = "down" => reply = << >>
  /\ observer # "down" => Follows(reply, state, outbox)
  /\ observer = "save" => Extends(stateFile.applied, state.applied)
  /\ observer \notin { "down", "save" } => state = stateFile

DeliveryInv == ExchangeTrue /\ HistoryTrue /\ SignerTrue /\ ObserverTrue

-----------------------------------------------------------------------------
(* What the steps do to its parts.                                         *)

\* The number of a fill among the fills.
LEMMA FillPlace ==
  ASSUME NEW S, NEW o \in Seq(S), NEW n \in 1..Len(o), IsFill(o[n])
  PROVE  NumFills(o, n) \in 1..NumFills(o, Len(o)) /\ NumFills(o, n) = NumFills(o, n - 1) + 1
<1>1. n - 1 \in Nat /\ (n - 1) + 1 = n /\ Len(o) \in Nat /\ n \in 0..Len(o)
  OBVIOUS
<1>2. NumFills(o, n - 1) \in Nat /\ NumFills(o, Len(o)) \in Nat
  BY <1>1, NumFillsNext
<1>3. NumFills(o, (n - 1) + 1) = NumFills(o, n - 1) + IF IsFill(o[(n - 1) + 1]) THEN 1 ELSE 0
  BY <1>1, NumFillsNext
<1>4. NumFills(o, n) = NumFills(o, n - 1) + 1
  BY <1>1, <1>3
<1>5. NumFills(o, n) <= NumFills(o, Len(o))
  BY <1>1, NumFillsGrows
<1> QED BY <1>2, <1>4, <1>5

\* The outbox keeps its place in a ledger that grows.
LEMMA FillsMatchGrows ==
  ASSUME NEW S, NEW o \in Seq(S), NEW q, NEW p, FillsMatch(o, q), Extends(q, p),
         Len(q) \in Nat, Len(p) \in Nat
  PROVE  FillsMatch(o, p)
<1>1. NumFills(o, Len(o)) \in Nat
  BY NumFillsNext
<1>2. NumFills(o, Len(o)) <= Len(p)
  BY <1>1 DEF FillsMatch, Extends
<1>3. ASSUME NEW n \in 1..Len(o), IsFill(o[n]) PROVE o[n] = p[NumFills(o, n)]
  <2>1. NumFills(o, n) \in 1..NumFills(o, Len(o))
    BY <1>3, FillPlace
  <2>2. NumFills(o, n) \in 1..Len(q)
    BY <1>1, <2>1 DEF FillsMatch
  <2>3. q[NumFills(o, n)] = p[NumFills(o, n)]
    BY <2>2 DEF Extends
  <2> QED BY <1>3, <2>3 DEF FillsMatch
<1> QED BY <1>2, <1>3 DEF FillsMatch

\* More events on the exchange leave a ledger good.
LEMMA GoodLedgerGrows ==
  ASSUME NEW L, NEW E, NEW F, E \subseteq F, GoodLedger(L, E)
  PROVE  GoodLedger(L, F)
BY DEF GoodLedger

\* Extension is transitive.
LEMMA ExtendsTwice ==
  ASSUME NEW s, NEW t, NEW u, Len(s) \in Nat, Len(t) \in Nat, Len(u) \in Nat,
         Extends(s, t), Extends(t, u)
  PROVE  Extends(s, u)
BY DEF Extends

\* An observer's state stays a copy of an outbox and a ledger that grow.
LEMMA CopyGrows ==
  ASSUME NEW s, NEW o, NEW q, NEW p, NEW r, IsCopy(s, o, q), Extends(o, p), Extends(q, r),
         Len(o) \in Nat, Len(p) \in Nat, Len(q) \in Nat, Len(r) \in Nat
  PROVE  IsCopy(s, p, r)
<1>1. Len(s.applied) \in Nat /\ Len(s.ledger.fills) \in Nat
  BY DEF IsCopy, GoodLedger, Ledgers
<1>2. Extends(s.applied, p) /\ Extends(s.ledger.fills, r)
  BY <1>1, ExtendsTwice DEF IsCopy
<1> QED BY <1>2 DEF IsCopy

\* The next event makes a copy of one more: a fill of the outbox is the next
\* of the ledger, and so not one the observer has.
LEMMA CopyApplies ==
  ASSUME NEW s, NEW o \in Seq(Payloads), NEW q \in Seq(Events), NEW r, r # << >>,
         IsCopy(s, o, q), Follows(r, s, o), FillsMatch(o, q), NoDup(q)
  PROVE  /\ IsCopy(ApplyEvent(s, Head(r)), o, q)
         /\ Follows(Tail(r), ApplyEvent(s, Head(r)), o)
         /\ Extends(s.applied, ApplyEvent(s, Head(r)).applied)
<1> DEFINE e == Head(r)
           t == ApplyEvent(s, e)
           k == Len(s.applied)
           a == s.applied
           b == t.applied
           f == s.ledger.fills
<1>1. /\ a \in Seq(Payloads) /\ k \in Nat /\ Len(o) \in Nat /\ Len(q) \in Nat
      /\ f \in Seq(Events) /\ Len(f) \in Nat /\ r \in Seq(Payloads)
      /\ GoodLedger(s.ledger, Events)
  BY DEF IsCopy, Follows, GoodLedger, Ledgers
<1>2. /\ Len(r) \in Nat \ {0} /\ e = r[1] /\ e \in Payloads
      /\ Tail(r) \in Seq(Payloads) /\ Len(Tail(r)) = Len(r) - 1
      /\ \A n \in 1..Len(Tail(r)) : Tail(r)[n] = r[n + 1]
  BY <1>1, HeadTailProperties, EmptySeq
<1>3. /\ k + Len(r) <= Len(o) /\ \A n \in 1..Len(r) : r[n] = o[k + n]
      /\ Extends(a, o) /\ Extends(f, q) /\ Len(f) = NumFills(a, k)
  BY DEF IsCopy, Follows
<1>4. e = o[k + 1] /\ k + 1 \in 1..Len(o)
  BY <1>1, <1>2, <1>3
<1>5. /\ b = Append(a, e)
      /\ t.ledger = IF e.kind \in { "fill", "funding" } THEN Apply(s.ledger, e) ELSE s.ledger
  BY DEF ApplyEvent
<1>k. k = Len(a)
  OBVIOUS
<1> DEFINE g == t.ledger.fills
<1> HIDE DEF e, t, k, a, b, f, g
<1>6. /\ b \in Seq(Payloads) /\ Len(b) = k + 1 /\ b[k + 1] = e
      /\ \A n \in 1..k : b[n] = a[n]
  BY <1>1, <1>2, <1>5, AppendProperties DEF k, a
<1>7. Extends(a, b) /\ Extends(b, o)
  <2>1. Extends(a, b)
    BY <1>1, <1>k, <1>6 DEF Extends
  <2>2. ASSUME NEW n \in 1..Len(b) PROVE b[n] = o[n]
    <3>1. n = k + 1 \/ n \in 1..k
      BY <1>1, <1>6
    <3> QED BY <1>k, <1>3, <1>4, <1>6, <3>1 DEF Extends
  <2> QED BY <1>1, <1>4, <1>6, <2>1, <2>2 DEF Extends
<1>8. Follows(Tail(r), t, o)
  <2>1. Len(b) + Len(Tail(r)) <= Len(o)
    BY <1>1, <1>2, <1>3, <1>6
  <2>2. ASSUME NEW n \in 1..Len(Tail(r)) PROVE Tail(r)[n] = o[Len(b) + n]
    <3>1. n + 1 \in 1..Len(r) /\ k + (n + 1) = Len(b) + n
      BY <1>1, <1>2, <1>6
    <3> QED BY <1>2, <1>3, <3>1
  <2> QED BY <1>2, <2>1, <2>2 DEF Follows, b
<1>9. /\ NumFills(b, k + 1) = NumFills(a, k) + IF IsFill(e) THEN 1 ELSE 0
      /\ NumFills(o, k + 1) = NumFills(b, k + 1)
  <2>1. NumFills(b, k + 1) = NumFills(b, k) + IF IsFill(b[k + 1]) THEN 1 ELSE 0
    BY <1>1, NumFillsNext
  <2>2. NumFills(b, k) = NumFills(a, k)
    BY <1>6, NumFillsSame
  <2>3. \A n \in 1..(k + 1) : o[n] = b[n]
    BY <1>1, <1>6, <1>7 DEF Extends
  <2>4. NumFills(o, k + 1) = NumFills(b, k + 1)
    BY <2>3, NumFillsSame
  <2> QED BY <1>6, <2>1, <2>2, <2>4
<1>10. /\ GoodLedger(t.ledger, Events) /\ Extends(g, q)
       /\ Len(g) = NumFills(b, k + 1)
  <2>1. CASE IsFill(e)
    <3>1. e \in Events /\ e.kind = "fill"
      BY <1>2, <2>1 DEF Payloads, Events, IsFill, Names
    <3>2. t.ledger = ApplyFill(s.ledger, e)
      BY <1>5, <2>1, <3>1 DEF Apply
    <3>3. NumFills(b, k + 1) = Len(f) + 1
      BY <1>1, <1>3, <1>9, <2>1
    <3>4. e = q[Len(f) + 1] /\ Len(f) + 1 \in 1..Len(q)
      <4>1. o[k + 1] = q[NumFills(o, k + 1)]
        BY <1>4, <2>1 DEF FillsMatch
      <4>2. NumFills(o, k + 1) \in 1..NumFills(o, Len(o))
        BY <1>4, <2>1, FillPlace
      <4>3. NumFills(o, Len(o)) <= Len(q) /\ NumFills(o, Len(o)) \in Nat
        BY <1>1, NumFillsNext DEF FillsMatch
      <4> QED BY <1>1, <1>4, <1>9, <3>3, <4>1, <4>2, <4>3
    <3>5. ~Contains(f, e)
      <4>1. ASSUME NEW i \in 1..Len(f), f[i] = e PROVE FALSE
        <5>1. f[i] = q[i] /\ i \in 1..Len(q)
          BY <1>1, <1>3 DEF Extends
        <5>2. q[i] = q[Len(f) + 1]
          BY <3>4, <4>1, <5>1
        <5>3. i = Len(f) + 1
          BY <3>4, <5>1, <5>2 DEF NoDup
        <5> QED BY <1>1, <5>3
      <4> QED BY <4>1 DEF Contains
    <3>6. g = Append(f, e)
      BY <1>1, <3>2, <3>5 DEF ApplyFill, g, f, GoodLedger, Ledgers
    <3>7. Len(g) = Len(f) + 1 /\ g[Len(f) + 1] = e /\ \A n \in 1..Len(f) : g[n] = f[n]
      BY <1>1, <3>1, <3>6, AppendProperties
    <3>8. Extends(g, q)
      BY <1>1, <1>3, <3>4, <3>7 DEF Extends
    <3>9. GoodLedger(t.ledger, Events)
      BY <1>1, <2>1, <3>1, <3>2, ApplyFillGood
    <3> QED BY <3>3, <3>7, <3>8, <3>9
  <2>2. CASE e.kind = "funding"
    <3>1. e \in Events /\ ~IsFill(e)
      BY <1>2, <2>2 DEF Payloads, Events, IsFill, Names
    <3>2. t.ledger = ApplyFunding(s.ledger, e)
      BY <1>5, <2>2, <3>1 DEF Apply
    <3>3. /\ GoodLedger(ApplyFunding(s.ledger, e), Events)
          /\ ApplyFunding(s.ledger, e).fills = s.ledger.fills
      <4>1. Events \subseteq Events
        OBVIOUS
      <4> QED BY <1>1, <2>2, <3>1, <4>1, ApplyFundingGood
    <3>4. GoodLedger(t.ledger, Events) /\ g = f
      BY <3>2, <3>3 DEF g, f
    <3> QED BY <1>1, <1>3, <1>9, <3>1, <3>4
  <2>3. CASE ~IsFill(e) /\ e.kind # "funding"
    <3>1. t.ledger = s.ledger
      BY <1>5, <2>3 DEF IsFill
    <3>2. g = f
      BY <3>1 DEF g, f
    <3> QED BY <1>1, <1>3, <1>9, <2>3, <3>1, <3>2
  <2> QED BY <2>1, <2>2, <2>3
<1>11. IsCopy(t, o, q)
  BY <1>6, <1>7, <1>10 DEF IsCopy, b, g
<1> QED BY <1>7, <1>8, <1>11 DEF t, e, a, b

\* The settlements that are found make a sequence.
LEMMA SettledSeq ==
  ASSUME HistoryTrue, NEW new \in SUBSET { c \in Cloids : Authorized(c) }
  PROVE  SetToSeq({ Transition("settled", c) : c \in new })
           \in Seq({ Transition("settled", c) : c \in new })
<1> DEFINE T == { Transition("settled", c) : c \in new }
           f == [ t \in T |-> CHOOSE i \in 1..Len(history) :
                                history[i] = Transition("accepted", t.cloid) ]
<1>1. Len(history) \in Nat
  BY DEF HistoryTrue
<1>2. \A t \in T : t.kind = "settled" /\ t = Transition("settled", t.cloid) /\ t.cloid \in new
  BY DEF Transition
<1>3. \A t \in T : f[t] \in 1..Len(history) /\ history[f[t]] = Transition("accepted", t.cloid)
  <2> TAKE t \in T
  <2>1. \E i \in 1..Len(history) : history[i] = Transition("accepted", t.cloid)
    BY <1>2 DEF Authorized, Contains
  <2> QED BY <2>1
<1>4. f \in Injection(T, 1..Len(history))
  <2>1. f \in [ T -> 1..Len(history) ]
    BY <1>3
  <2>2. ASSUME NEW t \in T, NEW u \in T, f[t] = f[u] PROVE t = u
    <3>1. Transition("accepted", t.cloid) = Transition("accepted", u.cloid)
      BY <1>3, <2>2
    <3>2. t.cloid = u.cloid
      BY <3>1 DEF Transition
    <3> QED BY <1>2, <3>2
  <2> HIDE DEF f, T
  <2> QED BY <2>1, <2>2 DEF Injection, IsInjective
<1> HIDE DEF f, T
<1>5. IsFiniteSet(1..Len(history))
  BY <1>1, FS_Interval
<1>6. IsFiniteSet(T)
  BY <1>4, <1>5, FS_Injection
<1>7. Cardinality(T) \in Nat /\ ExistsBijection(1..Cardinality(T), T)
  BY <1>6, FS_CardinalityType
<1>8. \E g \in [ 1..Cardinality(T) -> T ] : IsInjective(g)
  BY <1>7 DEF ExistsBijection, Bijection, Injection
<1>9. SetToSeq(T) \in [ 1..Cardinality(T) -> T ]
  BY <1>8 DEF SetToSeq
<1>10. SetToSeq(T) \in Seq(T)
  BY <1>7, <1>9
<1> QED BY <1>10 DEF T

\* What is read is finite, and no two events of it have one identity.
LEMMA BatchIsSound ==
  ASSUME ExchangeTrue, NEW B \in SUBSET Range(exchange)
  PROVE  /\ Range(exchange) \subseteq Events /\ IsFiniteSet(B)
         /\ \A d, e \in B : d.id = e.id => d = e
<1>1. Len(exchange) \in Nat /\ DOMAIN exchange = 1..Len(exchange)
  BY DEF ExchangeTrue
<1>2. Range(exchange) = { exchange[n] : n \in 1..Len(exchange) }
  BY <1>1 DEF Range
<1>3. Range(exchange) \subseteq Events
  BY <1>2 DEF ExchangeTrue
<1>4. exchange \in Surjection(1..Len(exchange), Range(exchange))
  <2>1. exchange = [ n \in 1..Len(exchange) |-> exchange[n] ]
    BY <1>1 DEF ExchangeTrue
  <2>2. exchange \in [ 1..Len(exchange) -> Range(exchange) ]
    BY <1>2, <2>1
  <2> QED BY <1>2, <2>2 DEF Surjection
<1>5. IsFiniteSet(1..Len(exchange))
  BY <1>1, FS_Interval
<1>6. IsFiniteSet(Range(exchange))
  BY <1>4, <1>5, FS_Surjection
<1>7. IsFiniteSet(B)
  BY <1>6, FS_Subset
<1>8. \A d, e \in B : d.id = e.id => d = e
  <2> SUFFICES ASSUME NEW d \in B, NEW e \in B, d.id = e.id PROVE d = e
    OBVIOUS
  <2>1. PICK m \in 1..Len(exchange) : d = exchange[m]
    BY <1>2
  <2>2. PICK n \in 1..Len(exchange) : e = exchange[n]
    BY <1>2
  <2>3. m = n
    BY <2>1, <2>2 DEF ExchangeTrue
  <2> QED BY <2>1, <2>2, <2>3
<1> QED BY <1>3, <1>7, <1>8

\* What the invariant says of the files.
LEMMA FilesTyped ==
  ASSUME DeliveryInv
  PROVE  /\ ledgerFile.fills \in Seq(Events) /\ Len(ledgerFile.fills) \in Nat
         /\ ledgerFile.funding \in Seq(Events)
         /\ outboxFile \in Seq(Payloads) /\ Len(outboxFile) \in Nat
         /\ history \in Seq(Payloads) /\ Events \subseteq Payloads
         /\ Range(exchange) \subseteq Events
         /\ ledgerFile.fills \in Seq(Payloads) /\ ledgerFile.funding \in Seq(Payloads)
<1>1. /\ ledgerFile.fills \in Seq(Events) /\ ledgerFile.funding \in Seq(Events)
      /\ outboxFile \in Seq(Payloads)
  BY DEF DeliveryInv, SignerTrue, GoodLedger, Ledgers
<1>2. Events \subseteq Payloads /\ Transitions \subseteq Payloads
  BY DEF Payloads, Events, Transitions, Names
<1>3. history \in Seq(Payloads)
  BY <1>2, SeqMonotonic DEF DeliveryInv, HistoryTrue
<1>4. ledgerFile.fills \in Seq(Payloads) /\ ledgerFile.funding \in Seq(Payloads)
  BY <1>1, <1>2, SeqMonotonic
<1>5. Range(exchange) \subseteq Events
  BY BatchIsSound DEF DeliveryInv, SignerTrue
<1> QED BY <1>1, <1>2, <1>3, <1>4, <1>5

\* The synchronized outbox.
LEMMA SyncGood ==
  ASSUME DeliveryInv, signer # "down", NEW p, p = Synced(outbox)
  PROVE  /\ p \in Seq(Payloads) /\ Len(p) \in Nat /\ Extends(outboxFile, p)
         /\ IntentsFirst(p) /\ FillsMatch(p, ledgerFile.fills)
         /\ NumFills(p, Len(p)) = Len(ledgerFile.fills)
<1> DEFINE o == outboxFile
           h == history
           q == ledgerFile.fills
           g == ledgerFile.funding
<1>1. p = o \o Missing(o, h) \o Missing(o, q) \o Missing(o, g)
  BY DEF Synced, DeliveryInv, SignerTrue
<1>2. /\ o \in Seq(Payloads) /\ h \in Seq(Payloads) /\ q \in Seq(Payloads) /\ g \in Seq(Payloads)
      /\ Len(o) \in Nat /\ Range(exchange) \subseteq Events
  BY FilesTyped
<1>3. /\ FillsMatch(o, q) /\ IntentsFirst(o) /\ NoDup(q)
      /\ \A i \in 1..Len(q) : IsFill(q[i]) /\ q[i] \in Range(exchange)
      /\ \A i \in 1..Len(g) : g[i].kind = "funding"
  BY DEF DeliveryInv, SignerTrue, GoodLedger
<1>4. IntentsFirst(h) /\ \A i \in 1..Len(h) : ~IsFill(h[i])
  <2>1. h \in Seq(Transitions) /\ IntentsFirst(h)
    BY DEF DeliveryInv, HistoryTrue
  <2>2. \A i \in 1..Len(h) : h[i] \in Transitions
    BY <2>1
  <2> QED BY <2>1, <2>2 DEF Transitions, IsFill
<1>5. \A i \in 1..Len(q) : Contains(h, Transition("accepted", q[i].cloid))
  <2> TAKE i \in 1..Len(q)
  <2>1. DOMAIN exchange = 1..Len(exchange)
    BY DEF DeliveryInv, ExchangeTrue
  <2>2. PICK n \in 1..Len(exchange) : q[i] = exchange[n]
    BY <1>3, <2>1 DEF Range
  <2> QED BY <1>3, <2>2 DEF DeliveryInv, ExchangeTrue, Authorized
<1>6. \A i \in 1..Len(g) : ~IsFill(g[i])
  BY <1>3 DEF IsFill
<1> HIDE DEF o, h, q, g
<1>7. IntentsFirst(p)
  BY <1>1, <1>2, <1>3, <1>4, <1>5, SyncedIntents
<1>8. FillsMatch(p, q) /\ NumFills(p, Len(p)) = Len(q)
  <2>1. AllFills(q) /\ NoFills(h) /\ NoFills(g) /\ FillsMatch(o, q) /\ NoDup(q)
    BY <1>3, <1>4, <1>6 DEF AllFills, NoFills
  <2>2. HasFills(p, q)
    BY ONLY <1>1, <1>2, <2>1, SyncedFills
  <2> QED BY <2>2 DEF HasFills
<1>9. p \in Seq(Payloads) /\ Len(p) \in Nat /\ Extends(o, p)
  <2> DEFINE a == Missing(o, h)
             b == Missing(o, q)
             c == Missing(o, g)
  <2>1. a \in Seq(Payloads) /\ b \in Seq(Payloads) /\ c \in Seq(Payloads)
    BY <1>2, MissingTakes
  <2>2. p = o \o a \o b \o c
    BY <1>1
  <2> HIDE DEF a, b, c
  <2>3. p \in Seq(Payloads) /\ IsJoin(p, o, a, b, c)
    BY ONLY <1>2, <2>1, <2>2, JoinedParts
  <2>4. Len(a) \in Nat /\ Len(b) \in Nat /\ Len(c) \in Nat /\ Len(p) \in Nat
    BY <2>1, <2>3
  <2> QED BY <1>2, <2>3, <2>4 DEF IsJoin, Extends
<1> QED BY <1>7, <1>8, <1>9 DEF o, q

-----------------------------------------------------------------------------
(* The steps keep the invariant.                                           *)

\* A reply under way still fits an outbox that grew.
LEMMA FollowsGrows ==
  ASSUME NEW r, NEW s, NEW o, NEW p, Follows(r, s, o), Extends(o, p),
         s.applied \in Seq(Payloads), Len(o) \in Nat, Len(p) \in Nat
  PROVE  Follows(r, s, p)
<1>1. r \in Seq(Payloads) /\ Len(r) \in Nat /\ Len(s.applied) \in Nat
  BY DEF Follows
<1>2. Len(s.applied) + Len(r) <= Len(p)
  BY <1>1 DEF Follows, Extends
<1>3. ASSUME NEW n \in 1..Len(r) PROVE r[n] = p[Len(s.applied) + n]
  <2>1. Len(s.applied) + n \in 1..Len(o)
    BY <1>1 DEF Follows
  <2> QED BY <2>1 DEF Follows, Extends
<1> QED BY <1>1, <1>2, <1>3 DEF Follows

\* A sequence extends itself.
LEMMA ExtendsItself == ASSUME NEW s, Len(s) \in Nat PROVE Extends(s, s)
BY DEF Extends

\* The signer's files stay as they are.
LEMMA SignerKept ==
  ASSUME SignerTrue, UNCHANGED << ledgerFile, outboxFile >>,
         batch' \subseteq Range(exchange'), Range(exchange) \subseteq Range(exchange'),
         signer' = "idle" => signer = "idle",
         signer' = "down" => observer' = "down" /\ outbox' = << >>,
         signer' # "down" => ledger' = ledgerFile /\ outbox' = outboxFile
  PROVE  SignerTrue'
<1>1. GoodLedger(ledgerFile', Range(exchange'))
  BY GoodLedgerGrows DEF SignerTrue
<1> QED BY <1>1 DEF SignerTrue

\* The signer's files grow under the observer.
LEMMA ObserverKept ==
  ASSUME DeliveryInv, UNCHANGED << acked, observerState >>,
         outboxFile' \in Seq(Payloads), ledgerFile'.fills \in Seq(Events),
         Extends(outboxFile, outboxFile'), Extends(ledgerFile.fills, ledgerFile'.fills),
         signer # "down" => outbox' = outboxFile'
  PROVE  ObserverTrue'
<1>1. /\ Len(outboxFile) \in Nat /\ Len(outboxFile') \in Nat
      /\ Len(ledgerFile.fills) \in Nat /\ Len(ledgerFile'.fills) \in Nat
  BY FilesTyped
<1>2. /\ IsCopy(state', outboxFile', ledgerFile'.fills)
      /\ IsCopy(stateFile', outboxFile', ledgerFile'.fills)
  BY <1>1, CopyGrows DEF DeliveryInv, ObserverTrue, observerState
<1>3. observer # "down" => Follows(reply, state, outbox')
  <2> SUFFICES ASSUME observer # "down" PROVE Follows(reply, state, outbox')
    OBVIOUS
  <2>1. signer # "down" /\ outbox = outboxFile /\ Follows(reply, state, outbox)
    BY DEF DeliveryInv, SignerTrue, ObserverTrue
  <2>2. state.applied \in Seq(Payloads)
    BY DEF DeliveryInv, ObserverTrue, IsCopy
  <2> QED BY <1>1, <2>1, <2>2, FollowsGrows
<1> QED BY <1>2, <1>3 DEF DeliveryInv, ObserverTrue, observerState

IsOneMore(t, s, e) ==
  /\ t[Len(s) + 1] = e
  /\ \A n \in 1..Len(s) : t[n] = s[n]
  /\ \A n \in 1..Len(t) : n \in 1..Len(s) \/ n = Len(s) + 1
  /\ Range(s) \subseteq Range(t)

\* One element is appended.
LEMMA OneMore ==
  ASSUME NEW S, NEW s \in Seq(S), NEW e \in S
  PROVE  Append(s, e) \in Seq(S) /\ IsOneMore(Append(s, e), s, e)
<1> DEFINE t == Append(s, e)
<1>1. Len(s) \in Nat
  OBVIOUS
<1>2. /\ t \in Seq(S) /\ Len(t) = Len(s) + 1 /\ t[Len(s) + 1] = e
      /\ \A n \in 1..Len(s) : t[n] = s[n]
  BY AppendProperties
<1> HIDE DEF t
<1>3. \A n \in 1..Len(t) : n \in 1..Len(s) \/ n = Len(s) + 1
  BY <1>1, <1>2
<1>4. Range(s) \subseteq Range(t)
  <2>1. DOMAIN s = 1..Len(s) /\ DOMAIN t = 1..Len(t) /\ \A n \in 1..Len(s) : n \in 1..Len(t)
    BY <1>1, <1>2
  <2> QED BY <1>2, <2>1 DEF Range
<1>5. t \in Seq(S) /\ IsOneMore(t, s, e)
  BY <1>2, <1>3, <1>4 DEF IsOneMore
<1> QED BY <1>5 DEF t

\* Something happens on the exchange.
LEMMA HappensKeeps ==
  ASSUME DeliveryInv, NEW k \in { "fill", "funding" }, NEW c \in Names,
         NEW a \in Assets, NEW d \in Int, Happens(k, c, a, d),
         k = "fill" => Authorized(c),
         UNCHANGED << now, signerState, observerState, crashes >>
  PROVE  DeliveryInv'
<1>1. exchange \in Seq(Events) /\ now \in Nat
  BY DEF DeliveryInv, ExchangeTrue
<1>2. Len(exchange) + 1 \in Nat
  <2>1. Len(exchange) \in Nat
    BY <1>1, LenProperties
  <2> QED BY <2>1
<1>3. PICK e \in Events :
        /\ exchange' = Append(exchange, e)
        /\ e.id = Len(exchange) + 1 /\ (IsFill(e) => Authorized(e.cloid))
  <2> DEFINE e == [ kind |-> k, id |-> Len(exchange) + 1, cloid |-> c, asset |-> a,
                    delta |-> d, at |-> now ]
  <2>1. e \in Events
    BY <1>1, <1>2 DEF Events
  <2>2. exchange' = Append(exchange, e)
    BY DEF Happens
  <2>3. e.id = Len(exchange) + 1 /\ (IsFill(e) => Authorized(e.cloid))
    BY DEF IsFill
  <2> QED BY <2>1, <2>2, <2>3
<1>4. exchange' \in Seq(Events) /\ IsOneMore(exchange', exchange, e)
  BY <1>1, <1>3, OneMore
<1>5. history' = history /\ stamp' = stamp /\ now' = now
  BY DEF signerState, reads
<1>6. ExchangeTrue'
  <2>1. ASSUME NEW n \in 1..Len(exchange')
        PROVE  /\ exchange'[n].id = n
               /\ IsFill(exchange'[n]) => Authorized(exchange'[n].cloid)
    <3>1. CASE n \in 1..Len(exchange)
      BY <1>4, <3>1 DEF DeliveryInv, ExchangeTrue, IsOneMore
    <3>2. CASE n = Len(exchange) + 1
      BY <1>3, <1>4, <3>2 DEF IsOneMore
    <3> QED BY <1>4, <3>1, <3>2 DEF IsOneMore
  <2> QED BY <1>4, <1>5, <2>1 DEF DeliveryInv, ExchangeTrue, Authorized
<1>7. HistoryTrue'
  BY <1>5 DEF DeliveryInv, HistoryTrue
<1>8. SignerTrue'
  BY <1>4, SignerKept DEF IsOneMore, DeliveryInv, SignerTrue, signerState, reads, observerState
<1>9. ObserverTrue'
  BY DEF DeliveryInv, ObserverTrue, signerState, observerState
<1> QED BY <1>6, <1>7, <1>8, <1>9 DEF DeliveryInv

\* Nothing is a good ledger, and the empty state a copy.
LEMMA EmptyGood ==
  ASSUME NEW o, NEW q, NEW E, Len(o) \in Nat, Len(q) \in Nat
  PROVE  GoodLedger(EmptyLedger, E) /\ IsCopy(EmptyState, o, q)
<1>1. /\ EmptyLedger \in Ledgers /\ EmptyLedger.fills = << >> /\ EmptyLedger.funding = << >>
      /\ EmptyLedger.position = [ a \in Assets |-> 0 ]
  BY DEF EmptyLedger, Ledgers
<1>2. Folded(EmptyLedger)
  <2> DEFINE P == [ n \in 0..0 |-> [ a \in Assets |-> 0 ] ]
  <2>1. P \in [ 0..0 -> [ Assets -> Int ] ] /\ P[0] = [ a \in Assets |-> 0 ]
    OBVIOUS
  <2>2. IsFold(P, << >>)
    BY <2>1 DEF IsFold
  <2> HIDE DEF P
  <2>3. Len(<< >>) = 0
    OBVIOUS
  <2> QED BY <1>1, <2>1, <2>2, <2>3 DEF Folded
<1>3. \A F : GoodLedger(EmptyLedger, F)
  BY <1>1, <1>2 DEF GoodLedger, NoDup
<1>4. EmptyState.applied = << >> /\ EmptyState.ledger = EmptyLedger
  BY DEF EmptyState
<1>5. Len(<< >>) = 0 /\ << >> \in Seq(Payloads) /\ \A s : Len(s) \in Nat => Extends(<< >>, s)
  BY DEF Extends
<1>6. NumFills(<< >>, 0) = 0
  BY NumFillsNext
<1>7. IsCopy(EmptyState, o, q)
  BY <1>1, <1>3, <1>4, <1>5, <1>6 DEF IsCopy
<1> QED BY <1>3, <1>7

\* A signer that stops takes the connection with it.
LEMMA StopKeeps ==
  ASSUME DeliveryInv, Stop,
         UNCHANGED << world, history, ledgerFile, outboxFile, acked, stateFile >>
  PROVE  DeliveryInv'
<1>1. ExchangeTrue' /\ HistoryTrue'
  BY DEF DeliveryInv, ExchangeTrue, HistoryTrue, Authorized, Stop, NoReads, world
<1>2. SignerTrue'
  <2>1. batch' \subseteq Range(exchange')
    BY DEF Stop, NoReads
  <2> QED BY <2>1, SignerKept DEF DeliveryInv, Stop, world
<1>3. IsCopy(EmptyState, outboxFile, ledgerFile.fills)
  BY FilesTyped, EmptyGood
<1>4. ObserverTrue'
  BY <1>3 DEF DeliveryInv, ObserverTrue, Stop
<1> QED BY <1>1, <1>2, <1>4 DEF DeliveryInv

\* The registry records another transition of an order.
LEMMA HistoryGrows ==
  ASSUME HistoryTrue, NEW t \in Seq(Transitions),
         \A n \in 1..Len(t) : t[n].kind = "settled" => Authorized(t[n].cloid),
         \A n \in 1..Len(t) : t[n].kind # "fill",
         history' = history \o t
  PROVE  HistoryTrue' /\ \A c : Authorized(c) => Authorized(c)'
<1> DEFINE p == history \o t
<1>1. history \in Seq(Transitions) /\ Len(history) \in Nat /\ Len(t) \in Nat
  BY DEF HistoryTrue
<1>2. /\ p \in Seq(Transitions) /\ Len(p) = Len(history) + Len(t)
      /\ \A i \in 1..Len(history) : p[i] = history[i]
      /\ \A i \in 1..Len(t) : p[Len(history) + i] = t[i]
  BY <1>1, Joined
<1>3. history' = p
  OBVIOUS
<1> HIDE DEF p
<1>4. ASSUME NEW n \in 1..Len(p), p[n].kind \in { "settled", "fill" }
      PROVE  \E m \in 1..(n - 1) : p[m] = Transition("accepted", p[n].cloid)
  <2>1. CASE n \in 1..Len(history)
    <3>1. p[n] = history[n]
      BY <1>2, <2>1
    <3>2. PICK m \in 1..(n - 1) : history[m] = Transition("accepted", p[n].cloid)
      BY <1>4, <2>1, <3>1 DEF HistoryTrue, IntentsFirst
    <3>3. m \in 1..Len(history)
      BY <1>1, <2>1
    <3> QED BY <1>2, <3>2, <3>3
  <2>2. CASE n \notin 1..Len(history)
    <3>1. n - Len(history) \in 1..Len(t) /\ Len(history) + (n - Len(history)) = n
      BY <1>1, <1>2, <2>2
    <3>2. Authorized(p[n].cloid)
      BY <1>2, <1>4, <3>1
    <3>3. PICK m \in 1..Len(history) : history[m] = Transition("accepted", p[n].cloid)
      BY <3>2 DEF Authorized, Contains
    <3>4. m \in 1..(n - 1)
      BY <1>1, <1>2, <2>2
    <3> QED BY <1>2, <3>3, <3>4
  <2> QED BY <2>1, <2>2
<1>5. ASSUME NEW c, Authorized(c) PROVE Authorized(c)'
  <2>1. PICK m \in 1..Len(history) : history[m] = Transition("accepted", c)
    BY <1>5 DEF Authorized, Contains
  <2>2. m \in 1..Len(p) /\ p[m] = Transition("accepted", c)
    BY <1>1, <1>2, <2>1
  <2> QED BY <1>3, <2>2 DEF Authorized, Contains
<1>6. HistoryTrue'
  BY <1>2, <1>3, <1>4 DEF HistoryTrue, IntentsFirst
<1> QED BY <1>5, <1>6

\* An order is authorized.
LEMMA AuthorizeKeeps ==
  ASSUME DeliveryInv, NEW c \in Cloids, Authorize(c)
  PROVE  DeliveryInv'
<1> DEFINE t == << Transition("accepted", c) >>
<1>1. /\ t \in Seq(Transitions) /\ Len(t) = 1
      /\ \A n \in 1..Len(t) : t[n].kind = "accepted"
  BY DEF Transition, Transitions
<1>2. history' = history \o t
  BY AppendIsConcat DEF Authorize, DeliveryInv, HistoryTrue, Transition, Transitions
<1> HIDE DEF t
<1>3. HistoryTrue' /\ \A d : Authorized(d) => Authorized(d)'
  BY <1>1, <1>2, HistoryGrows DEF DeliveryInv
<1>4. ExchangeTrue'
  BY <1>3 DEF DeliveryInv, ExchangeTrue, Authorize, world, reads
<1>5. SignerTrue'
  BY DEF DeliveryInv, SignerTrue, Authorize, world, reads, observerState
<1>6. ObserverTrue'
  BY DEF DeliveryInv, ObserverTrue, Authorize, observerState
<1> QED BY <1>3, <1>4, <1>5, <1>6 DEF DeliveryInv

\* The positions agree, and orders are found settled.
LEMMA CompareKeeps ==
  ASSUME DeliveryInv, Compare
  PROVE  DeliveryInv'
<1>1. PICK settled \in SUBSET { c \in Cloids : Authorized(c) } :
        history' = history \o SetToSeq({ Transition("settled", c) : c \in
                     { c \in settled : ~Contains(history, Transition("settled", c)) } })
  BY DEF Compare
<1> DEFINE new == { c \in settled : ~Contains(history, Transition("settled", c)) }
           T == { Transition("settled", c) : c \in new }
           t == SetToSeq(T)
<1>2. new \in SUBSET { c \in Cloids : Authorized(c) }
  OBVIOUS
<1>3. history' = history \o t
  BY <1>1
<1>4. \A x \in T : x \in Transitions /\ x.kind = "settled" /\ Authorized(x.cloid)
  <2> SUFFICES ASSUME NEW x \in T
               PROVE  x \in Transitions /\ x.kind = "settled" /\ Authorized(x.cloid)
    OBVIOUS
  <2>1. PICK c \in new : x = Transition("settled", c)
    OBVIOUS
  <2>2. c \in Cloids /\ Authorized(c)
    BY <1>2
  <2>3. x.kind = "settled" /\ x.cloid = c /\ x \in Transitions
    BY <2>1, <2>2 DEF Transition, Transitions
  <2> QED BY <2>2, <2>3
<1>5. t \in Seq(T)
  <2> HIDE DEF new
  <2> QED BY <1>2, SettledSeq DEF DeliveryInv
<1> HIDE DEF T, t
<1>6. T \subseteq Transitions /\ \A n \in 1..Len(t) : t[n] \in T
  BY <1>4, <1>5
<1>7. t \in Seq(Transitions)
  BY <1>5, <1>6, SeqMonotonic
<1>8. /\ \A n \in 1..Len(t) : t[n].kind = "settled" => Authorized(t[n].cloid)
      /\ \A n \in 1..Len(t) : t[n].kind # "fill"
  BY <1>4, <1>6
<1>9. HistoryTrue' /\ \A d : Authorized(d) => Authorized(d)'
  BY <1>3, <1>7, <1>8, HistoryGrows DEF DeliveryInv
<1>10. ExchangeTrue'
  BY <1>9 DEF DeliveryInv, ExchangeTrue, Compare, NoReads, world
<1>11. SignerTrue'
  <2>1. batch' \subseteq Range(exchange')
    BY DEF Compare, NoReads
  <2> QED BY <2>1 DEF DeliveryInv, SignerTrue, Compare, world, observerState
<1>12. ObserverTrue'
  BY DEF DeliveryInv, ObserverTrue, Compare, observerState
<1> QED BY <1>9, <1>10, <1>11, <1>12 DEF DeliveryInv

\* The batch is applied to the ledger, in memory and on disk.
LEMMA ApplyBatchesKeeps ==
  ASSUME DeliveryInv, ApplyBatches
  PROVE  DeliveryInv'
<1> DEFINE E == Range(exchange)
           L == ledgerFile
           K == ApplyBatch(ledger, batch, stamp)
<1>1. ledger = L /\ GoodLedger(L, E) /\ batch \subseteq E /\ stamp \in Nat
  BY DEF DeliveryInv, SignerTrue, ExchangeTrue, ApplyBatches
<1>2. E \subseteq Events /\ IsFiniteSet(batch) /\ \A d, e \in batch : d.id = e.id => d = e
  BY <1>1, BatchIsSound DEF DeliveryInv
<1>3. ledgerFile' = K /\ ledger' = K /\ exchange' = exchange /\ outboxFile' = outboxFile
  BY DEF ApplyBatches, world
<1>4. GoodLedger(K, E) /\ Extends(L.fills, K.fills)
  <2> HIDE DEF E
  <2> QED BY <1>1, <1>2, ApplyBatchGood
<1> HIDE DEF K, E, L
<1>5. K.fills \in Seq(Events) /\ Len(K.fills) \in Nat
  BY <1>4 DEF GoodLedger, Ledgers
<1>6. /\ Len(L.fills) \in Nat /\ outboxFile \in Seq(Payloads) /\ Len(outboxFile) \in Nat
      /\ FillsMatch(outboxFile, L.fills)
  BY FilesTyped DEF DeliveryInv, SignerTrue, L
<1>7. FillsMatch(outboxFile, K.fills)
  BY <1>4, <1>5, <1>6, FillsMatchGrows
<1>8. SignerTrue'
  <2>1. batch' = batch /\ outbox' = outbox /\ signer' = "compare" /\ signer = "apply"
    BY DEF ApplyBatches, reads
  <2>2. GoodLedger(ledgerFile', Range(exchange')) /\ FillsMatch(outboxFile', ledgerFile'.fills)
    BY <1>3, <1>4, <1>7 DEF E
  <2>3. /\ batch \subseteq Range(exchange) /\ outboxFile \in Seq(Payloads)
        /\ IntentsFirst(outboxFile) /\ outbox = outboxFile
    BY <2>1 DEF DeliveryInv, SignerTrue
  <2> QED BY <1>3, <2>1, <2>2, <2>3 DEF SignerTrue
<1>9. ObserverTrue'
  <2>1. Extends(outboxFile, outboxFile') /\ outboxFile' \in Seq(Payloads)
    BY <1>3, <1>6, ExtendsItself
  <2>2. Extends(ledgerFile.fills, ledgerFile'.fills) /\ ledgerFile'.fills \in Seq(Events)
    BY <1>3, <1>4, <1>5 DEF L
  <2>3. signer # "down" => outbox' = outboxFile'
    BY <1>3 DEF DeliveryInv, SignerTrue, ApplyBatches
  <2>4. UNCHANGED << acked, observerState >>
    BY DEF ApplyBatches
  <2> QED BY <2>1, <2>2, <2>3, <2>4, ObserverKept
<1>10. ExchangeTrue' /\ HistoryTrue'
  BY DEF DeliveryInv, ExchangeTrue, HistoryTrue, Authorized, ApplyBatches, world, reads
<1> QED BY <1>8, <1>9, <1>10 DEF DeliveryInv

\* The outbox is completed: at the end of a reconciliation, and before it is read.
LEMMA SyncKeepsSigner ==
  ASSUME DeliveryInv, signer # "down", signer' # "down",
         outbox' = Synced(outbox), outboxFile' = outbox',
         UNCHANGED << exchange, batch, ledger, ledgerFile >>
  PROVE  SignerTrue' /\ outboxFile' \in Seq(Payloads) /\ Extends(outboxFile, outboxFile')
<1>1. /\ outbox' \in Seq(Payloads) /\ Extends(outboxFile, outbox')
      /\ IntentsFirst(outbox') /\ FillsMatch(outbox', ledgerFile.fills)
      /\ NumFills(outbox', Len(outbox')) = Len(ledgerFile.fills)
  BY SyncGood
<1>2. /\ batch \subseteq Range(exchange) /\ GoodLedger(ledgerFile, Range(exchange))
      /\ ledger = ledgerFile
  BY DEF DeliveryInv, SignerTrue
<1>3. SignerTrue'
  BY <1>1, <1>2 DEF SignerTrue
<1> QED BY <1>1, <1>3

\* The outbox at the end of a reconciliation.
LEMMA SyncOutboxKeeps ==
  ASSUME DeliveryInv, SyncOutbox
  PROVE  DeliveryInv'
<1>1. SignerTrue' /\ outboxFile' \in Seq(Payloads) /\ Extends(outboxFile, outboxFile')
  BY SyncKeepsSigner DEF SyncOutbox, world, reads
<1>2. ObserverTrue'
  <2>1. Extends(ledgerFile.fills, ledgerFile'.fills) /\ ledgerFile'.fills \in Seq(Events)
    BY FilesTyped, ExtendsItself DEF SyncOutbox
  <2>2. UNCHANGED << acked, observerState >> /\ outbox' = outboxFile'
    BY DEF SyncOutbox
  <2> QED BY <1>1, <2>1, <2>2, ObserverKept
<1>3. ExchangeTrue' /\ HistoryTrue'
  BY DEF DeliveryInv, ExchangeTrue, HistoryTrue, Authorized, SyncOutbox, world, reads
<1> QED BY <1>1, <1>2, <1>3 DEF DeliveryInv

\* The observer is sent what follows the last event it applied.
LEMMA ServeReplayKeeps ==
  ASSUME DeliveryInv, ServeReplay
  PROVE  DeliveryInv'
<1>1. SignerTrue' /\ outboxFile' \in Seq(Payloads) /\ Extends(outboxFile, outboxFile')
  BY SyncKeepsSigner DEF ServeReplay, world, reads
<1>2. ExchangeTrue' /\ HistoryTrue'
  BY DEF DeliveryInv, ExchangeTrue, HistoryTrue, Authorized, ServeReplay, world, reads
<1>3. /\ Len(outboxFile) \in Nat /\ Len(outboxFile') \in Nat
      /\ Len(ledgerFile.fills) \in Nat /\ Extends(ledgerFile.fills, ledgerFile.fills)
  BY <1>1, FilesTyped, ExtendsItself
<1>4. /\ IsCopy(state, outboxFile, ledgerFile.fills) /\ state = stateFile
      /\ acked \in Nat /\ acked <= Len(stateFile.applied)
  BY DEF DeliveryInv, ObserverTrue, ServeReplay
<1>5. IsCopy(state, outboxFile', ledgerFile.fills)
  BY <1>1, <1>3, <1>4, CopyGrows
<1>6. Follows(reply', state, outbox')
  <2> DEFINE k == Len(state.applied)
             o == outbox'
             r == SubSeq(o, k + 1, Len(o))
  <2>1. reply' = r /\ outboxFile' = o
    BY DEF ServeReplay
  <2>2. k \in Nat /\ k <= Len(o) /\ Len(o) \in Nat /\ o \in Seq(Payloads)
    BY <1>1, <1>3, <1>5, <2>1 DEF IsCopy, Extends
  <2> HIDE DEF k, o
  <2>3. \A i \in (k + 1)..Len(o) : o[i] \in Payloads
    BY <2>2
  <2>4. /\ r \in Seq(Payloads) /\ Len(r) = IF k + 1 <= Len(o) THEN Len(o) - (k + 1) + 1 ELSE 0
        /\ \A i \in 1..(Len(o) - (k + 1) + 1) : r[i] = o[(k + 1) + i - 1]
    <3>1. k + 1 \in Int /\ Len(o) \in Int
      BY <2>2
    <3> QED BY <2>3, <3>1, SubSeqProperties
  <2> HIDE DEF r
  <2>5. Len(r) = Len(o) - k /\ \A i \in 1..Len(r) : r[i] = o[k + i]
    <3>1. Len(r) = Len(o) - k
      <4>1. Len(r) = IF k + 1 <= Len(o) THEN Len(o) - (k + 1) + 1 ELSE 0
        BY <2>4
      <4> QED BY ONLY <2>2, <4>1
    <3>2. ASSUME NEW i \in 1..Len(r) PROVE r[i] = o[k + i]
      <4>1. i \in 1..(Len(o) - (k + 1) + 1) /\ (k + 1) + i - 1 = k + i
        BY <2>2, <3>1
      <4> QED BY <2>4, <4>1
    <3> QED BY <3>1, <3>2
  <2>6. k + Len(r) <= Len(o)
    BY <2>2, <2>5
  <2>7. Follows(r, state, o)
    BY <2>4, <2>5, <2>6 DEF Follows, k
  <2> QED BY <2>1, <2>7 DEF o
<1>7. ObserverTrue'
  BY <1>4, <1>5, <1>6 DEF ObserverTrue, ServeReplay
<1> QED BY <1>1, <1>2, <1>7 DEF DeliveryInv

\* The observer's own steps leave the signer as it is.
LEMMA ObserverSteps ==
  ASSUME DeliveryInv, UNCHANGED << world, signerState >>, observer # "down" \/ signer # "down",
         ObserverTrue'
  PROVE  DeliveryInv'
<1>1. signer # "down"
  BY DEF DeliveryInv, SignerTrue
<1>2. SignerTrue'
  BY <1>1 DEF DeliveryInv, SignerTrue, world, signerState, reads
<1>3. ExchangeTrue' /\ HistoryTrue'
  BY DEF DeliveryInv, ExchangeTrue, HistoryTrue, Authorized, world, signerState, reads
<1> QED BY <1>2, <1>3 DEF DeliveryInv

\* The observer starts from its file.
LEMMA StartKeeps ==
  ASSUME DeliveryInv, Start
  PROVE  DeliveryInv'
<1>1. /\ state' = stateFile /\ observer' = "idle" /\ reply' = << >> /\ stateFile' = stateFile
      /\ signer = "idle"
      /\ UNCHANGED << acked, outbox, outboxFile, ledgerFile >>
  BY DEF Start, signerState, DeliveryInv, ObserverTrue
<1>2. IsCopy(stateFile, outboxFile, ledgerFile.fills) /\ outbox = outboxFile
  BY <1>1 DEF DeliveryInv, ObserverTrue, SignerTrue
<1>3. Follows(<< >>, stateFile, outbox)
  <2>1. << >> \in Seq(Payloads) /\ Len(<< >>) = 0
    OBVIOUS
  <2>2. Len(stateFile.applied) \in Nat /\ Len(stateFile.applied) <= Len(outbox)
    BY <1>2 DEF IsCopy, Extends
  <2> QED BY <2>1, <2>2 DEF Follows
<1>4. ObserverTrue'
  BY <1>1, <1>2, <1>3 DEF DeliveryInv, ObserverTrue
<1> QED BY <1>1, <1>4, ObserverSteps DEF Start

\* The observer stops or crashes.
LEMMA ExitKeeps ==
  ASSUME DeliveryInv, Exit, observer # "down", UNCHANGED << world, signerState, stateFile >>
  PROVE  DeliveryInv'
<1>1. IsCopy(EmptyState, outboxFile, ledgerFile.fills)
  BY FilesTyped, EmptyGood
<1>2. ObserverTrue'
  BY <1>1 DEF DeliveryInv, ObserverTrue, Exit, signerState
<1> QED BY <1>2, ObserverSteps

\* The observer applies the next event.
LEMMA ApplyNextKeeps ==
  ASSUME DeliveryInv, ApplyNext
  PROVE  DeliveryInv'
<1>1. /\ observer = "apply" /\ observer' = "save" /\ reply # << >> /\ stateFile' = stateFile
      /\ state' = ApplyEvent(state, Head(reply)) /\ reply' = Tail(reply)
      /\ UNCHANGED << acked, outbox, outboxFile, ledgerFile >>
  BY DEF ApplyNext, signerState
<1>2. /\ IsCopy(state, outboxFile, ledgerFile.fills) /\ Follows(reply, state, outbox)
      /\ state = stateFile /\ outbox = outboxFile
      /\ FillsMatch(outboxFile, ledgerFile.fills) /\ NoDup(ledgerFile.fills)
  BY <1>1 DEF DeliveryInv, ObserverTrue, SignerTrue, GoodLedger
<1>3. outboxFile \in Seq(Payloads) /\ ledgerFile.fills \in Seq(Events)
  BY FilesTyped
<1>4. /\ IsCopy(state', outboxFile, ledgerFile.fills) /\ Follows(reply', state', outboxFile)
      /\ Extends(state.applied, state'.applied)
  BY <1>1, <1>2, <1>3, CopyApplies
<1>5. ObserverTrue'
  BY <1>1, <1>2, <1>4 DEF DeliveryInv, ObserverTrue
<1> QED BY <1>1, <1>5, ObserverSteps DEF ApplyNext

\* Every step keeps the invariant.
LEMMA NextKeeps ==
  ASSUME DeliveryInv, [Next]_vars
  PROVE  DeliveryInv'
<1> USE DEF DeliveryInv
<1>1. CASE Boot
  <2>1. ExchangeTrue' /\ HistoryTrue'
    BY <1>1 DEF ExchangeTrue, HistoryTrue, Authorized, Boot, world, reads
  <2>2. SignerTrue' /\ ObserverTrue'
    BY <1>1 DEF SignerTrue, ObserverTrue, Boot, world, reads, observerState
  <2> QED BY <2>1, <2>2
<1>2. CASE Begin
  <2>1. ExchangeTrue' /\ HistoryTrue'
    BY <1>2 DEF ExchangeTrue, HistoryTrue, Authorized, Begin, world
  <2>2. SignerTrue' /\ ObserverTrue'
    BY <1>2 DEF SignerTrue, ObserverTrue, Begin, world, observerState
  <2> QED BY <2>1, <2>2
<1>3. CASE ReadEvents
  <2>1. ExchangeTrue' /\ HistoryTrue'
    BY <1>3 DEF ExchangeTrue, HistoryTrue, Authorized, ReadEvents, world
  <2>2. SignerTrue' /\ ObserverTrue'
    BY <1>3 DEF SignerTrue, ObserverTrue, ReadEvents, world, observerState
  <2> QED BY <2>1, <2>2
<1>4. CASE ReadPositions
  <2>1. ExchangeTrue' /\ HistoryTrue'
    BY <1>4 DEF ExchangeTrue, HistoryTrue, Authorized, ReadPositions, world
  <2>2. SignerTrue' /\ ObserverTrue'
    BY <1>4 DEF SignerTrue, ObserverTrue, ReadPositions, world, observerState
  <2> QED BY <2>1, <2>2
<1>5. CASE ApplyBatches
  BY <1>5, ApplyBatchesKeeps
<1>6. CASE Compare
  BY <1>6, CompareKeeps
<1>7. CASE ReconcileFails
  <2>1. CASE ctx = "boot"
    BY <1>7, <2>1, StopKeeps DEF ReconcileFails
  <2>2. CASE ctx # "boot"
    <3>1. /\ signer # "down" /\ signer' = "sync" /\ NoReads
          /\ UNCHANGED << ctx, ready, ledger, outbox, observer, reply, state, world, history,
                          ledgerFile, outboxFile, acked, stateFile, crashes >>
      BY <1>7, <2>2 DEF ReconcileFails
    <3>2. ExchangeTrue' /\ HistoryTrue'
      BY <3>1 DEF ExchangeTrue, HistoryTrue, Authorized, NoReads, world
    <3>3. SignerTrue' /\ ObserverTrue'
      BY <3>1 DEF SignerTrue, ObserverTrue, NoReads, world
    <3> QED BY <3>2, <3>3
  <2> QED BY <2>1, <2>2
<1>8. CASE SyncOutbox
  BY <1>8, SyncOutboxKeeps
<1>9. CASE ServeReplay
  BY <1>9, ServeReplayKeeps
<1>10. CASE ServeAcknowledge
  <2>1. ExchangeTrue' /\ HistoryTrue'
    BY <1>10 DEF ExchangeTrue, HistoryTrue, Authorized, ServeAcknowledge, world, reads
  <2>2. SignerTrue'
    BY <1>10 DEF SignerTrue, ServeAcknowledge, world, reads
  <2>3. /\ state = stateFile /\ outboxFile' = outboxFile /\ state'.applied \in Seq(Payloads)
        /\ acked' = Len(state'.applied) /\ UNCHANGED << reply, state, stateFile, outbox, ledgerFile >>
        /\ observer = "acking" /\ observer' = "idle"
    BY <1>10 DEF ServeAcknowledge, SignerTrue, ObserverTrue, IsCopy
  <2>4. ObserverTrue'
    BY <2>3 DEF ObserverTrue
  <2> QED BY <2>1, <2>2, <2>4
<1>11. CASE Start
  BY <1>11, StartKeeps
<1>12. CASE Ask
  <2>1. ObserverTrue'
    BY <1>12 DEF ObserverTrue, Ask, signerState
  <2> QED BY <1>12, <2>1, ObserverSteps DEF Ask
<1>13. CASE ApplyNext
  BY <1>13, ApplyNextKeeps
<1>14. CASE Save
  <2>1. Len(state.applied) \in Nat /\ Len(stateFile.applied) \in Nat
    BY DEF ObserverTrue, IsCopy
  <2>2. ObserverTrue'
    BY <1>14, <2>1 DEF ObserverTrue, Save, signerState, Extends
  <2> QED BY <1>14, <2>2, ObserverSteps DEF Save
<1>15. CASE ApplyFails
  BY <1>15, ExitKeeps DEF ApplyFails
<1>16. CASE Acknowledge
  <2>1. ObserverTrue'
    BY <1>16 DEF ObserverTrue, Acknowledge, signerState
  <2> QED BY <1>16, <2>1, ObserverSteps DEF Acknowledge
<1>17. CASE SignerCrash
  BY <1>17, StopKeeps DEF SignerCrash
<1>18. CASE ObserverCrash
  BY <1>18, ExitKeeps DEF ObserverCrash
<1>19. CASE Tick
  <2>1. ExchangeTrue' /\ HistoryTrue'
    BY <1>19 DEF ExchangeTrue, HistoryTrue, Authorized, Tick, signerState, reads
  <2>2. SignerTrue' /\ ObserverTrue'
    BY <1>19 DEF SignerTrue, ObserverTrue, Tick, signerState, reads, observerState
  <2> QED BY <2>1, <2>2
<1>20. ASSUME NEW c \in Cloids, Authorize(c) PROVE DeliveryInv'
  BY <1>20, AuthorizeKeeps
<1>21. ASSUME NEW c \in Cloids, ExchangeFill(c) PROVE DeliveryInv'
  <2>1. /\ AssetOf[c] \in Assets /\ DeltaOf[c] \in Int /\ c \in Names /\ Authorized(c)
        /\ Happens("fill", c, AssetOf[c], DeltaOf[c])
        /\ UNCHANGED << now, signerState, observerState, crashes >>
    BY <1>21, DeliveryAssumption DEF ExchangeFill, Names
  <2> QED BY <2>1, HappensKeeps
<1>22. ASSUME NEW a \in Assets, ExchangeFunding(a) PROVE DeliveryInv'
  <2> DEFINE none == ""
  <2>1. none \in Names /\ 0 \in Int
    BY DEF Names
  <2>2. /\ Happens("funding", none, a, 0)
        /\ UNCHANGED << now, signerState, observerState, crashes >>
    BY <1>22 DEF ExchangeFunding
  <2> HIDE DEF none
  <2> QED BY <2>1, <2>2, HappensKeeps
<1>23. CASE UNCHANGED vars
  <2>1. ExchangeTrue' /\ HistoryTrue'
    BY <1>23 DEF ExchangeTrue, HistoryTrue, Authorized, vars
  <2>2. SignerTrue' /\ ObserverTrue'
    BY <1>23 DEF SignerTrue, ObserverTrue, vars
  <2> QED BY <2>1, <2>2
<1> QED BY <1>1, <1>2, <1>3, <1>4, <1>5, <1>6, <1>7, <1>8, <1>9, <1>10, <1>11, <1>12, <1>13,
           <1>14, <1>15, <1>16, <1>17, <1>18, <1>19, <1>20, <1>21, <1>22, <1>23
        DEF Next, Signer, Reconciliation, Observer

\* The invariant holds at the start.
LEMMA InitGood ==
  ASSUME Init
  PROVE  DeliveryInv
<1>1. /\ IsCopy(EmptyState, << >>, << >>) /\ GoodLedger(EmptyLedger, Range(exchange))
  BY EmptyGood
<1>2. EmptyState.applied = << >> /\ EmptyLedger.fills = << >> /\ Len(<< >>) = 0
  BY DEF EmptyState, EmptyLedger
<1>3. ExchangeTrue /\ HistoryTrue
  BY DEF Init, ExchangeTrue, HistoryTrue, IntentsFirst
<1>4. NumFills(<< >>, 0) = 0
  BY NumFillsNext
<1>5. SignerTrue
  BY <1>1, <1>2, <1>4 DEF Init, SignerTrue, IntentsFirst, FillsMatch
<1>6. ObserverTrue
  BY <1>1, <1>2 DEF Init, ObserverTrue
<1> QED BY <1>3, <1>5, <1>6 DEF DeliveryInv

-----------------------------------------------------------------------------
(* The results.                                                            *)

\* The invariant: the outbox holds the fills of the ledger, each after the
\* authorization of its order, and the observer's state is what a prefix of
\* the outbox makes of nothing (sync_outbox, apply_reconciliation_event).
THEOREM DeliveryIsTrue == Spec => []DeliveryInv
<1>1. Init => DeliveryInv
  BY InitGood
<1>2. DeliveryInv /\ [Next]_vars => DeliveryInv'
  BY NextKeeps
<1> QED BY <1>1, <1>2, PTL DEF Spec

\* The observer acknowledges nothing that a crash could make it forget, and its
\* acknowledgment is always one that the signer accepts (acknowledge).
THEOREM AcknowledgedStays == Spec => []AcknowledgedIsDurable
<1>1. DeliveryInv => AcknowledgedIsDurable
  <2> SUFFICES ASSUME DeliveryInv PROVE AcknowledgedIsDurable
    OBVIOUS
  <2>1. acked <= Len(stateFile.applied)
    BY DEF DeliveryInv, ObserverTrue
  <2>2. ASSUME signer = "idle", observer = "acking"
        PROVE  CanAcknowledge(Len(state.applied))
    <3>1. state = stateFile /\ outbox = outboxFile /\ IsCopy(state, outboxFile, ledgerFile.fills)
      BY <2>2 DEF DeliveryInv, ObserverTrue, SignerTrue
    <3> QED BY <2>1, <3>1 DEF CanAcknowledge, IsCopy, Extends
  <2> QED BY <2>1, <2>2 DEF AcknowledgedIsDurable
<1> QED BY <1>1, DeliveryIsTrue, PTL

\* Once the observer has applied the outbox of an idle signer, the two ledgers
\* have the same fills and the same positions: no fill is lost on the way, and
\* none counts twice (sync_outbox, apply_exchange_fill).
THEOREM LedgersMeet == Spec => []LedgersAgree
<1>1. DeliveryInv => LedgersAgree
  <2> SUFFICES ASSUME DeliveryInv, signer = "idle", observer = "idle", state.applied = outbox
               PROVE  /\ state.ledger.position = ledger.position
                      /\ Range(state.ledger.fills) = Range(ledger.fills)
                      /\ Len(state.ledger.fills) = Len(ledger.fills)
    BY DEF LedgersAgree
  <2> DEFINE L == state.ledger
  <2>1. /\ ledger = ledgerFile /\ outbox = outboxFile
        /\ NumFills(outboxFile, Len(outboxFile)) = Len(ledgerFile.fills)
        /\ GoodLedger(ledgerFile, Range(exchange))
    BY DEF DeliveryInv, SignerTrue
  <2>2. /\ GoodLedger(L, Events) /\ Extends(L.fills, ledgerFile.fills)
        /\ Len(L.fills) = NumFills(state.applied, Len(state.applied))
    BY DEF DeliveryInv, ObserverTrue, IsCopy
  <2>3. /\ L \in Ledgers /\ ledgerFile \in Ledgers /\ Folded(L) /\ Folded(ledgerFile)
        /\ L.fills \in Seq(Events) /\ ledgerFile.fills \in Seq(Events)
    BY <2>1, <2>2 DEF GoodLedger, Ledgers
  <2>4. Len(L.fills) = Len(ledgerFile.fills)
    BY <2>1, <2>2
  <2>5. L.fills = ledgerFile.fills
    BY <2>2, <2>3, <2>4, SeqEqual DEF Extends
  <2>6. L.position = ledgerFile.position
    BY <2>3, <2>5, FoldedAlike
  <2> QED BY <2>1, <2>5, <2>6
<1> QED BY <1>1, DeliveryIsTrue, PTL

\* The observer never meets a settlement or a fill of an order that the outbox
\* has not told it of before (ReconciliationApplyError::UnknownIntent).
THEOREM IntentsLead == Spec => []IntentsComeFirst
<1>1. DeliveryInv => IntentsComeFirst
  <2> SUFFICES ASSUME DeliveryInv PROVE IntentsComeFirst
    OBVIOUS
  <2>1. CASE signer = "down"
    <3>1. outbox = << >>
      BY <2>1 DEF DeliveryInv, SignerTrue
    <3> QED BY <3>1 DEF IntentsComeFirst
  <2>2. CASE signer # "down"
    <3>1. outbox = outboxFile /\ outboxFile \in Seq(Payloads) /\ IntentsFirst(outboxFile)
      BY <2>2 DEF DeliveryInv, SignerTrue
    <3>2. DOMAIN outbox = 1..Len(outbox)
      BY <3>1
    <3> QED BY <3>1, <3>2 DEF IntentsComeFirst, IntentsFirst
  <2> QED BY <2>1, <2>2
<1> QED BY <1>1, DeliveryIsTrue, PTL

\* The signer and the observer implement ordered delivery: the durable outbox
\* only grows at its end, and what the observer has durably applied is a prefix
\* of it that only grows (append_once, events_after, reconcile_into).
THEOREM DeliveryInOrder == Spec => DeliversInOrder
<1>1. Init => Delivery!Init
  BY DEF Init, Delivery!Init, EmptyState
<1>2. ASSUME DeliveryInv, DeliveryInv', [Next]_vars
      PROVE  [Delivery!Next]_<< outboxFile, stateFile.applied >>
  <2> SUFFICES Delivery!Extend \/ Delivery!Deliver
               \/ UNCHANGED << outboxFile, stateFile.applied >>
    BY DEF Delivery!Next
  <2>1. ASSUME signer # "down", outbox' = Synced(outbox), outboxFile' = outbox',
               stateFile' = stateFile
        PROVE  Delivery!Extend
    <3>1. outboxFile' \in Seq(Payloads) /\ Extends(outboxFile, outboxFile')
      BY <1>2, <2>1, SyncGood
    <3> QED BY <2>1, <3>1 DEF Delivery!Extend, Delivery!IsPrefixOf, Extends
  <2>2. CASE SyncOutbox
    BY <2>1, <2>2 DEF SyncOutbox, observerState
  <2>3. CASE ServeReplay
    BY <2>1, <2>3 DEF ServeReplay
  <2>4. CASE ServeAcknowledge
    BY <1>2, <2>4 DEF ServeAcknowledge, DeliveryInv, SignerTrue
  <2>5. CASE Save
    <3>1. /\ observer = "save" /\ stateFile' = state /\ outboxFile' = outboxFile
          /\ IsCopy(state, outboxFile, ledgerFile.fills)
          /\ Extends(stateFile.applied, state.applied)
      BY <1>2, <2>5 DEF Save, signerState, DeliveryInv, ObserverTrue
    <3> QED BY <3>1 DEF Delivery!Deliver, Delivery!IsPrefixOf, IsCopy, Extends
  <2>6. CASE /\ ~SyncOutbox /\ ~ServeReplay /\ ~ServeAcknowledge /\ ~Save
    <3>1. CASE Next
      <4> USE DEF observerState, signerState
      <4>1. CASE Signer
        BY <2>6, <4>1 DEF Signer, Reconciliation, Boot, Begin, ReadEvents, ReadPositions,
                          ApplyBatches, Compare, ReconcileFails
      <4>2. CASE Observer
        BY <2>6, <4>2 DEF Observer, Start, Ask, ApplyNext, ApplyFails, Acknowledge
      <4>3. CASE SignerCrash \/ ObserverCrash \/ Tick
        BY <4>3 DEF SignerCrash, ObserverCrash, Tick
      <4>4. ASSUME NEW c \in Cloids, Authorize(c) \/ ExchangeFill(c)
            PROVE  UNCHANGED << outboxFile, stateFile.applied >>
        BY <4>4 DEF Authorize, ExchangeFill
      <4>5. ASSUME NEW a \in Assets, ExchangeFunding(a)
            PROVE  UNCHANGED << outboxFile, stateFile.applied >>
        BY <4>5 DEF ExchangeFunding
      <4> QED BY <3>1, <4>1, <4>2, <4>3, <4>4, <4>5 DEF Next
    <3>2. CASE UNCHANGED vars
      BY <3>2 DEF vars
    <3> QED BY <1>2, <3>1, <3>2
  <2> QED BY <2>2, <2>3, <2>4, <2>5, <2>6
<1>3. Spec => []DeliveryInv
  BY DeliveryIsTrue
<1> QED BY <1>1, <1>2, <1>3, PTL DEF Spec, DeliversInOrder, Delivery!Spec
=============================================================================
