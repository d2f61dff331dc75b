-------------------------- MODULE HrxObjectsProofs --------------------------
(***************************************************************************)
(* Proofs about HrxObjects: the counts are exact, nothing ends twice or    *)
(* before what it points to, what lives is reachable, and only a client's  *)
(* own reference makes the release of virtual memory abort.                *)
(***************************************************************************)
EXTENDS HrxObjectsCounts, HrxObjectsOrder, FiniteSetTheorems

\* Zenon proves what needs no arithmetic; the other leaves name SMT.
USE Zenon

(***************************************************************************)
(* The facts about counting.                                               *)
(***************************************************************************)
\* The pairs that Total counts.
Pairs(f, D) == UNION {{x} \X (1 .. f[x]) : x \in D}

\* The laws hold: they are about finite sets and their cardinality.
LEMMA CountingLaws ==
    Counting
\* Occurrences are a number.
<1>OccType.
    ASSUME NEW S, NEW s \in Seq(S), NEW o
    PROVE  IsFiniteSet({i \in DOMAIN s : s[i] = o}) /\ Occurrences(s, o) \in Nat
  <2> USE <1>OccType
  <2>1. DOMAIN s = 1 .. Len(s) /\ Len(s) \in Nat
    BY SMT
  <2>2. IsFiniteSet(1 .. Len(s))
    <3>1. 1 \in Int /\ Len(s) \in Int
      BY <2>1, SMT
    <3> QED BY <3>1, FS_Interval
  <2>3. {i \in DOMAIN s : s[i] = o} \in SUBSET (1 .. Len(s))
    BY <2>1
  <2>4. IsFiniteSet({i \in DOMAIN s : s[i] = o})
    BY <2>2, <2>3, FS_Subset
  <2> QED BY <2>4, FS_CardinalityType DEF Occurrences
\* The size of a finite set is a number.
<1>SizeType.
    ASSUME NEW S, IsFiniteSet(S)
    PROVE  Cardinality(S) \in Nat
  BY <1>SizeType, FS_CardinalityType
\* A part of 1 .. n is finite.
<1>PartsFinite.
    ASSUME NEW n \in Nat, NEW S \in SUBSET (1 .. n)
    PROVE  IsFiniteSet(S) /\ Cardinality(S) \in Nat
  <2> USE <1>PartsFinite
  <2>1. 1 \in Int /\ n \in Int
    BY SMT
  <2>2. IsFiniteSet(1 .. n)
    BY <2>1, FS_Interval
  <2>3. IsFiniteSet(S)
    BY <2>2, FS_Subset
  <2> QED BY <2>3, FS_CardinalityType
\* Nothing occurs in the empty sequence.
<1>OccEmpty.
    ASSUME NEW o PROVE Occurrences(<<>>, o) = 0
  <2> USE <1>OccEmpty
  <2>1. DOMAIN <<>> = {}
    BY SMT
  <2>2. {i \in DOMAIN <<>> : <<>>[i] = o} = {}
    BY <2>1
  <2> QED BY <2>2, FS_EmptySet DEF Occurrences
\* Occurrences in a concatenation add up.
<1>OccConcat.
    ASSUME NEW S, NEW s \in Seq(S), NEW t \in Seq(S), NEW o
    PROVE  Occurrences(s \o t, o) = Occurrences(s, o) + Occurrences(t, o)
  <2> USE <1>OccConcat
  <2> DEFINE m == Len(s)
             A == {i \in DOMAIN s : s[i] = o}
             B == {i \in DOMAIN t : t[i] = o}
             C == {i \in m + 1 .. m + Len(t) : t[i - m] = o}
             W == {i \in DOMAIN (s \o t) : (s \o t)[i] = o}
             f == [i \in B |-> i + m]
  <2>1. /\ m \in Nat /\ Len(t) \in Nat /\ DOMAIN s = 1 .. m /\ DOMAIN t = 1 .. Len(t)
        /\ DOMAIN (s \o t) = 1 .. m + Len(t)
        /\ \A i \in 1 .. m : (s \o t)[i] = s[i]
        /\ \A i \in m + 1 .. m + Len(t) : (s \o t)[i] = t[i - m]
    BY SMT
  <2> HIDE DEF m
  <2>2. W = A \cup C
    <3>1. \A i \in DOMAIN (s \o t) : i \in 1 .. m \/ i \in m + 1 .. m + Len(t)
      BY <2>1, SMT
    <3>2. \A i : i \in 1 .. m \/ i \in m + 1 .. m + Len(t) => i \in DOMAIN (s \o t)
      BY <2>1, SMT
    <3>3. \A i \in DOMAIN s : i \in 1 .. m
      BY <2>1, SMT
    <3> QED BY <3>1, <3>2, <3>3, <2>1
  <2>3. A \cap C = {}
    BY <2>1, SMT
  <2>4. f \in Bijection(B, C)
    <3>1. \A i \in B : i + m \in C
      <4>1. \A i \in B : i \in Nat /\ i >= 1 /\ i <= Len(t) /\ t[i] = o
        BY <2>1, SMT
      <4>2. \A i \in B : i + m \in m + 1 .. m + Len(t) /\ (i + m) - m = i
        BY <2>1, <4>1, SMT
      <4> QED BY <4>1, <4>2
    <3>2. \A j \in C : j - m \in B /\ (j - m) + m = j
      <4>1. \A j \in C : j \in m + 1 .. m + Len(t) /\ t[j - m] = o
        BY SMT
      <4>2. \A j \in m + 1 .. m + Len(t) : j - m \in 1 .. Len(t) /\ (j - m) + m = j
        BY <2>1, SMT
      <4>3. \A j \in C : j - m \in DOMAIN t
        BY <4>1, <4>2, <2>1
      <4> QED BY <4>1, <4>2, <4>3
    <3>3. \A i, j \in B : i + m = j + m => i = j
      <4>1. \A i \in B : i \in Int
        BY <2>1, SMT
      <4> QED BY <4>1, <2>1, SMT
    <3> HIDE DEF B, C
    <3>4. f \in [B -> C]
      BY <3>1
    <3>5. \A i \in B : f[i] = i + m
      BY SMT
    <3>6. IsInjective(f)
      <4>1. DOMAIN f = B
        BY SMT
      <4> HIDE DEF f
      <4> QED BY <3>3, <3>5, <4>1 DEF IsInjective
    <3> HIDE DEF f
    <3>7. \A j \in C : \E i \in B : f[i] = j
      BY <3>2, <3>5
    <3> QED BY <3>4, <3>6, <3>7 DEF Bijection, Injection, Surjection
  <2>5. IsFiniteSet(A) /\ IsFiniteSet(B)
    BY <1>OccType
  <2> HIDE DEF A, B, C, W, f
  <2>6. IsFiniteSet(C) /\ Cardinality(C) = Cardinality(B)
    BY <2>4, <2>5, FS_Bijection DEF ExistsBijection
  <2>7. Cardinality(W) = Cardinality(A) + Cardinality(C) - Cardinality(A \cap C)
    BY <2>2, <2>5, <2>6, FS_Union
  <2>8. Cardinality(A \cap C) = 0
    BY <2>3, FS_EmptySet
  <2>9. Cardinality(A) \in Nat /\ Cardinality(B) \in Nat
    BY <2>5, FS_CardinalityType
  <2>10. Cardinality(W) = Cardinality(A) + Cardinality(B)
    BY <2>6, <2>7, <2>8, <2>9, SMT
  <2> QED BY <2>10 DEF Occurrences, A, B, W
\* A single reference counts once.
<1>OccOne.
    ASSUME NEW x, NEW o PROVE Occurrences(<<x>>, o) = One(x, o)
  <2> USE <1>OccOne
  <2> DEFINE A == {i \in DOMAIN <<x>> : <<x>>[i] = o}
  <2>1. DOMAIN <<x>> = {1} /\ <<x>>[1] = x
    BY SMT
  <2>2. CASE x = o
    <3>1. A = {1}
      BY <2>1, <2>2
    <3>2. Cardinality(A) = 1
      BY <3>1, FS_Singleton
    <3> QED BY <3>2, <2>2 DEF Occurrences, One
  <2>3. CASE x # o
    <3>1. A = {}
      BY <2>1, <2>3
    <3>2. Cardinality(A) = 0
      BY <3>1, FS_EmptySet
    <3> QED BY <3>2, <2>3 DEF Occurrences, One
  <2> QED BY <2>2, <2>3
\* The order of releases does not change how many there are.
<1>OccLastFirst.
    ASSUME NEW S, NEW s \in Seq(S), NEW o
    PROVE  LastFirst(s) \in Seq(S) /\ Occurrences(LastFirst(s), o) = Occurrences(s, o)
  <2> USE <1>OccLastFirst
  <2> DEFINE m == Len(s)
             r == LastFirst(s)
             A == {i \in DOMAIN s : s[i] = o}
             B == {i \in DOMAIN r : r[i] = o}
             f == [i \in A |-> (m - i) + 1]
  <2>1. m \in Nat /\ DOMAIN s = 1 .. m /\ \A i \in 1 .. m : s[i] \in S
    BY SMT
  <2>2. \A i \in 1 .. m : (m - i) + 1 \in 1 .. m /\ (m - ((m - i) + 1)) + 1 = i
    BY <2>1, SMT
  <2>3. DOMAIN r = 1 .. m /\ \A i \in 1 .. m : r[i] = s[(m - i) + 1]
    BY <2>1 DEF LastFirst
  <2>4. r \in Seq(S)
    <3>1. r = [i \in 1 .. m |-> s[(m - i) + 1]]
      BY <2>1 DEF LastFirst
    <3>2. \A i \in 1 .. m : s[(m - i) + 1] \in S
      BY <2>1, <2>2
    <3>3. r \in [1 .. m -> S]
      BY <3>1, <3>2
    <3>4. ASSUME NEW n \in Nat, NEW g \in [1 .. n -> S] PROVE g \in Seq(S)
      BY SMT
    <3> QED BY <3>3, <3>4, <2>1
  <2> HIDE DEF m, r
  <2>5. f \in Bijection(A, B)
    <3>1. \A i \in A : i \in 1 .. m /\ s[i] = o
      BY <2>1
    <3>2. \A i \in B : i \in 1 .. m /\ s[(m - i) + 1] = o
      BY <2>3
    <3>3. \A i \in A : (m - i) + 1 \in B
      <4>1. \A i \in A : r[(m - i) + 1] = s[(m - ((m - i) + 1)) + 1]
        BY <3>1, <2>2, <2>3
      <4>2. \A i \in A : r[(m - i) + 1] = o /\ (m - i) + 1 \in DOMAIN r
        BY <4>1, <3>1, <2>2, <2>3
      <4> QED BY <4>2
    <3>4. \A j \in B : (m - j) + 1 \in A /\ (m - ((m - j) + 1)) + 1 = j
      <4>1. \A j \in B : (m - j) + 1 \in DOMAIN s /\ (m - ((m - j) + 1)) + 1 = j
        BY <3>2, <2>2, <2>1
      <4> QED BY <4>1, <3>2
    <3>5. \A i, j \in A : (m - i) + 1 = (m - j) + 1 => i = j
      <4>1. \A i \in A : i \in Int
        BY <3>1, SMT
      <4> QED BY <4>1, <2>1, SMT
    <3> HIDE DEF A, B
    <3>6. f \in [A -> B]
      BY <3>3
    <3>7. \A i \in A : f[i] = (m - i) + 1
      BY SMT
    <3>8. IsInjective(f)
      <4>1. DOMAIN f = A
        BY SMT
      <4> HIDE DEF f
      <4>2. \A i, j \in A : f[i] = f[j] => i = j
        BY <3>5, <3>7, SMT
      <4> QED BY <4>1, <4>2 DEF IsInjective
    <3> HIDE DEF f
    <3>9. \A j \in B : \E i \in A : f[i] = j
      BY <3>4, <3>7
    <3> QED BY <3>6, <3>8, <3>9 DEF Bijection, Injection, Surjection
  <2>6. IsFiniteSet(A)
    BY <1>OccType
  <2> HIDE DEF A, B, f
  <2>7. Cardinality(B) = Cardinality(A)
    BY <2>5, <2>6, FS_Bijection DEF ExistsBijection
  <2> QED BY <2>4, <2>7 DEF Occurrences, A, B, r
\* An element of a sequence occurs in it.
<1>OccIn.
    ASSUME NEW S, NEW s \in Seq(S), NEW i \in DOMAIN s
    PROVE  Occurrences(s, s[i]) >= 1
  <2> USE <1>OccIn
  <2> DEFINE A == {j \in DOMAIN s : s[j] = s[i]}
  <2>1. IsFiniteSet(A) /\ A # {}
    BY <1>OccType
  <2> HIDE DEF A
  <2>2. Cardinality(A) # 0 /\ Cardinality(A) \in Nat
    BY <2>1, FS_EmptySet, FS_CardinalityType
  <2>3. Cardinality(A) >= 1
    BY <2>2, SMT
  <2> QED BY <2>3 DEF Occurrences, A
\* What occurs in a sequence is an element of it.
<1>OccSome.
    ASSUME NEW S, NEW s \in Seq(S), NEW o, Occurrences(s, o) # 0
    PROVE  \E i \in DOMAIN s : s[i] = o
  <2> USE <1>OccSome
  <2>1. {i \in DOMAIN s : s[i] = o} # {}
    BY FS_EmptySet DEF Occurrences
  <2> QED BY <2>1
\* The pairs of one value are as many as the value.
<1>PairsOne.
    ASSUME NEW x, NEW n \in Nat
    PROVE  IsFiniteSet({x} \X (1 .. n)) /\ Cardinality({x} \X (1 .. n)) = n
  <2> USE <1>PairsOne
  <2>1. IsFiniteSet({x}) /\ Cardinality({x}) = 1
    BY FS_Singleton
  <2>2. IsFiniteSet(1 .. n) /\ Cardinality(1 .. n) = n
    <3>1. 1 \in Int /\ n \in Int /\ (IF 1 > n THEN 0 ELSE (n - 1) + 1) = n
      BY SMT
    <3> QED BY <3>1, FS_Interval, SMT
  <2>3. IsFiniteSet({x} \X (1 .. n))
        /\ Cardinality({x} \X (1 .. n)) = Cardinality({x}) * Cardinality(1 .. n)
    BY <2>1, <2>2, FS_Product
  <2>4. Cardinality({x}) * Cardinality(1 .. n) = n
    BY <2>1, <2>2, SMT
  <2> QED BY <2>3, <2>4
\* A finite function into the naturals has a finite total.
<1>PairsFinite.
    ASSUME NEW D, IsFiniteSet(D), NEW f, \A x \in D : f[x] \in Nat
    PROVE  IsFiniteSet(Pairs(f, D)) /\ Cardinality(Pairs(f, D)) \in Nat
  <2> USE <1>PairsFinite
  <2> DEFINE T == {{x} \X (1 .. f[x]) : x \in D}
             g == [x \in D |-> {x} \X (1 .. f[x])]
  <2>1. g \in Surjection(D, T)
    BY DEF Surjection
  <2>2. \A U \in T : IsFiniteSet(U)
    <3> SUFFICES ASSUME NEW x \in D PROVE IsFiniteSet({x} \X (1 .. f[x]))
      OBVIOUS
    <3> QED BY <1>PairsOne
  <2> HIDE DEF T, g
  <2>3. IsFiniteSet(T)
    BY <2>1, FS_Surjection
  <2>4. IsFiniteSet(UNION T)
    BY <2>2, <2>3, FS_UNION
  <2>5. IsFiniteSet(Pairs(f, D))
    BY <2>4 DEF Pairs, T
  <2> QED BY <2>5, FS_CardinalityType
\* One more index adds its value to the sum.
<1>PairsAdd.
    ASSUME NEW D, IsFiniteSet(D), NEW i, i \notin D, NEW f, \A x \in D \cup {i} : f[x] \in Nat
    PROVE  Cardinality(Pairs(f, D \cup {i})) = Cardinality(Pairs(f, D)) + f[i]
  <2> USE <1>PairsAdd
  <2> DEFINE P == Pairs(f, D)
             Q == {i} \X (1 .. f[i])
  <2>1. Pairs(f, D \cup {i}) = P \cup Q
    BY DEF Pairs
  <2>2. P \cap Q = {}
    <3>1. \A p \in P : p[1] \in D
      BY SMT DEF Pairs
    <3>2. \A p \in Q : p[1] = i
      BY SMT
    <3> QED BY <3>1, <3>2
  <2>3. IsFiniteSet(P) /\ Cardinality(P) \in Nat
    BY <1>PairsFinite
  <2>4. IsFiniteSet(Q) /\ Cardinality(Q) = f[i] /\ f[i] \in Nat
    BY <1>PairsOne
  <2> HIDE DEF P, Q
  <2>5. Cardinality(P \cup Q) = Cardinality(P) + Cardinality(Q) - Cardinality(P \cap Q)
    BY <2>3, <2>4, FS_Union
  <2>6. Cardinality(P \cap Q) = 0
    BY <2>2, FS_EmptySet
  <2>7. Cardinality(P \cup Q) = Cardinality(P) + f[i]
    BY <2>3, <2>4, <2>5, <2>6, SMT
  <2> QED BY <2>7, <2>1 DEF P
\* The sum depends on the values only.
<1>PairsSame.
    ASSUME NEW D, NEW f, NEW g, \A x \in D : f[x] = g[x]
    PROVE  Pairs(f, D) = Pairs(g, D)
  BY <1>PairsSame DEF Pairs
\* Total in terms of pairs.
<1>TotalPairs.
    ASSUME NEW f, NEW D, DOMAIN f = D
    PROVE  Total(f) = Cardinality(Pairs(f, D))
  BY <1>TotalPairs DEF Total, Pairs
\* A total is a number, and no less than any of its summands.
<1>TotalType.
    ASSUME NEW D, IsFiniteSet(D), NEW f \in [D -> Nat]
    PROVE  Total(f) \in Nat /\ \A i \in D : f[i] <= Total(f)
  <2> USE <1>TotalType
  <2>1. Total(f) = Cardinality(Pairs(f, D)) /\ \A x \in D : f[x] \in Nat
    BY <1>TotalPairs
  <2>2. Total(f) \in Nat
    BY <2>1, <1>PairsFinite
  <2>3. ASSUME NEW i \in D PROVE f[i] <= Total(f)
    <3> DEFINE E == D \ {i}
    <3>1. IsFiniteSet(E)
      BY FS_RemoveElement
    <3>2. i \notin E /\ E \cup {i} = D
      OBVIOUS
    <3> HIDE DEF E
    <3>3. Cardinality(Pairs(f, E)) \in Nat
      BY <2>1, <3>1, <3>2, <1>PairsFinite
    <3>4. Total(f) = Cardinality(Pairs(f, E)) + f[i]
      BY <2>1, <3>1, <3>2, <1>PairsAdd
    <3> QED BY <3>3, <3>4, <2>1, SMT
  <2> QED BY <2>2, <2>3
\* Changing one summand changes the total by as much.
<1>TotalChange.
    ASSUME NEW D, NEW f, NEW g, NEW i, Differ(f, g, D, i), Summands(f, D)
    PROVE  Total(g) + f[i] = Total(f) + g[i]
  <2> USE <1>TotalChange
  <2> USE DEF Differ
  <2> DEFINE E == D \ {i}
             n == Cardinality(Pairs(f, E))
  <2>1. /\ Total(f) = Cardinality(Pairs(f, D)) /\ \A x \in D : f[x] \in Nat
        /\ Total(g) = Cardinality(Pairs(g, D)) /\ \A x \in D : g[x] \in Nat
    BY <1>TotalPairs DEF Summands
  <2>2. IsFiniteSet(E)
    BY FS_RemoveElement
  <2>3. i \notin E /\ E \cup {i} = D /\ \A x \in E : x \in D /\ f[x] = g[x]
    OBVIOUS
  <2> HIDE DEF E
  <2>4. Pairs(g, E) = Pairs(f, E)
    BY <2>3, <1>PairsSame
  <2>5. n \in Nat
    BY <2>1, <2>2, <2>3, <1>PairsFinite
  <2>6. Total(f) = n + f[i]
    BY <2>1, <2>2, <2>3, <1>PairsAdd
  <2>7. Total(g) = n + g[i]
    <3>1. Cardinality(Pairs(g, E \cup {i})) = Cardinality(Pairs(g, E)) + g[i]
      BY <2>1, <2>2, <2>3, <1>PairsAdd
    <3> QED BY <3>1, <2>1, <2>3, <2>4
  <2> HIDE DEF n
  <2> QED BY <2>1, <2>5, <2>6, <2>7, SMT
\* One more summand.
<1>TotalExtend.
    ASSUME NEW D, NEW f, NEW g, NEW i, Differ(f, g, D, i), Summands(f, D \ {i})
    PROVE  Total(g) = Total(f) + g[i]
  <2> USE <1>TotalExtend
  <2> USE DEF Differ
  <2> DEFINE E == D \ {i}
  <2>1. Total(f) = Cardinality(Pairs(f, E)) /\ Total(g) = Cardinality(Pairs(g, D))
    BY <1>TotalPairs DEF Summands
  <2>2. \A x \in D : g[x] \in Nat
    BY DEF Summands
  <2>3. Pairs(f, E) = Pairs(g, E)
    BY <1>PairsSame
  <2>4. IsFiniteSet(E)
    BY FS_RemoveElement
  <2>5. i \notin E /\ E \cup {i} = D
    OBVIOUS
  <2> HIDE DEF E
  <2>6. Cardinality(Pairs(g, E \cup {i})) = Cardinality(Pairs(g, E)) + g[i]
    BY <2>2, <2>4, <2>5, <1>PairsAdd
  <2> QED BY <2>1, <2>3, <2>5, <2>6
\* A total of zeros, and of ones.
<1>TotalZero.
    ASSUME NEW D, NEW f, DOMAIN f = D, \A x \in D : f[x] = 0
    PROVE  Total(f) = 0
  <2> USE <1>TotalZero
  <2>1. \A x \in D : 1 .. f[x] = {}
    BY SMT
  <2>2. Pairs(f, D) = {}
    <3>1. \A x \in D : {x} \X (1 .. f[x]) = {}
      BY <2>1, SMT
    <3>2. \A z \in Pairs(f, D) : \E x \in D : z \in {x} \X (1 .. f[x])
      BY DEF Pairs
    <3>3. \A z \in Pairs(f, D) : z \in {}
      BY <3>1, <3>2
    <3> QED BY <3>3
  <2> QED BY <2>2, <1>TotalPairs, FS_EmptySet
\* A sum of ones counts the domain.
<1>TotalOnes.
    ASSUME NEW D, IsFiniteSet(D), NEW f, DOMAIN f = D, \A x \in D : f[x] = 1
    PROVE  Total(f) = Cardinality(D)
  <2> USE <1>TotalOnes
  <2>1. \A x \in D : 1 .. f[x] = {1}
    BY SMT
  <2>2. Pairs(f, D) = D \X {1}
    <3>1. Pairs(f, D) = UNION {{x} \X {1} : x \in D}
      BY <2>1 DEF Pairs
    <3>2. D \X {1} = UNION {{x} \X {1} : x \in D}
      BY SMT
    <3> QED BY <3>1, <3>2
  <2>3. IsFiniteSet({1}) /\ Cardinality({1}) = 1
    BY FS_Singleton
  <2>4. Cardinality(D \X {1}) = Cardinality(D) * 1
    BY <2>3, FS_Product
  <2>5. Cardinality(D) \in Nat
    BY FS_CardinalityType
  <2>6. Cardinality(D \X {1}) = Cardinality(D)
    BY <2>4, <2>5, SMT
  <2> QED BY <2>2, <2>6, <1>TotalPairs
<1>1. OccurrenceLaws
  <2>1. /\ \A o : Occurrences(<<>>, o) = 0
        /\ \A x, o : Occurrences(<<x>>, o) = One(x, o)
    BY <1>OccEmpty, <1>OccOne
  <2>2. ASSUME NEW S, NEW s \in Seq(S)
        PROVE  /\ LastFirst(s) \in Seq(S)
               /\ \A i \in DOMAIN s : Occurrences(s, s[i]) >= 1
    BY <2>2, <1>OccLastFirst, <1>OccIn
  <2>3. ASSUME NEW S, NEW s \in Seq(S), NEW o
        PROVE  /\ Occurrences(s, o) \in Nat
               /\ Occurrences(s, o) # 0 => \E i \in DOMAIN s : s[i] = o
               /\ Occurrences(LastFirst(s), o) = Occurrences(s, o)
    BY <2>3, <1>OccType, <1>OccSome, <1>OccLastFirst
  <2>4. ASSUME NEW S, NEW s \in Seq(S), NEW t \in Seq(S), NEW o
        PROVE  Occurrences(s \o t, o) = Occurrences(s, o) + Occurrences(t, o)
    BY <2>4, <1>OccConcat
  <2> QED BY <2>1, <2>2, <2>3, <2>4 DEF OccurrenceLaws
<1>2. TotalLaws
  <2>1. \A D, f : DOMAIN f = D /\ (\A x \in D : f[x] = 0) => Total(f) = 0
    BY <1>TotalZero
  <2>2. \A D, f : IsFiniteSet(D) /\ DOMAIN f = D /\ (\A x \in D : f[x] = 1)
                     => Total(f) = Cardinality(D)
    BY <1>TotalOnes
  <2>3. \A D, f : IsFiniteSet(D) /\ f \in [D -> Nat]
                     => Total(f) \in Nat /\ \A i \in D : f[i] <= Total(f)
    BY <1>TotalType
  <2>4. \A D, f, g, i : Differ(f, g, D, i) /\ Summands(f, D) => Total(g) + f[i] = Total(f) + g[i]
    BY <1>TotalChange, SMT
  <2>5. \A D, f, g, i : Differ(f, g, D, i) /\ Summands(f, D \ {i}) => Total(g) = Total(f) + g[i]
    BY <1>TotalExtend, SMT
  <2> QED BY <2>1, <2>2, <2>3, <2>4, <2>5 DEF TotalLaws
<1>3. FiniteLaws
  <2>1. ASSUME NEW S, IsFiniteSet(S) PROVE Cardinality(S) \in Nat
    BY <2>1, <1>SizeType
  <2>2. ASSUME NEW n \in Nat, NEW S \in SUBSET (1 .. n)
        PROVE  IsFiniteSet(S) /\ Cardinality(S) \in Nat
    BY <2>2, <1>PartsFinite
  <2> QED BY <2>1, <2>2 DEF FiniteLaws
<1> QED BY <1>1, <1>2, <1>3 DEF Counting

(***************************************************************************)
(* Steps that change the fields of an object.                              *)
(***************************************************************************)
NetGrown(h, g, s) == \A q \in Cells : Net(h, q) = Net(g, q) + Occurrences(s, q)

\* What a fence or a list takes up, and mapping and unmapping a buffer, preserve Core.
LEMMA FieldSteps ==
    ASSUME Counting
    PROVE  \A c \in Clients :
               Core /\ (\/ hrx_fence_insert(c) \/ hrx_fence_extend(c) \/ hrx_value_list_push(c) \/ hrx_function_invoke(c)
                        \/ hrx_buffer_map(c) \/ hrx_buffer_get_device_ptr(c) \/ hrx_buffer_unmap(c)) => Core'
\* Such a step must leave the references it counts outside of fields as they are.
<1>HeapOnly.
    ASSUME Core, NEW c \in Clients, HeapOK(heap'), KindsKept(heap, heap'),
           \A q \in Cells : Net(heap', q) = Net(heap, q),
           refs' = refs, call' = call, todo' = todo, up' = up, crashed' = crashed
    PROVE  Core'
  <2> USE <1>HeapOnly
  <2>1. Alone(c)
    BY CoreFacts DEF Alone
  <2>2. CallSound(heap', call'[c], todo'[c], refs'[c]) /\ HandlesSound(heap', refs'[c])
    BY CoreFacts, ClientKept
  <2>3. Settles(c)
    BY DEF Settles
  <2> QED BY <2>1, <2>2, <2>3, ClientStep
\* A fence or a list takes over references.
<1>GrowCell.
    ASSUME NEW h, HeapOK(h), NEW p \in DOMAIN h, h[p].kind \in {"hal_fence", "vm_list"},
           h[p].count > 0, NEW s \in Seq(Cells), \A i \in DOMAIN s : Ownable(h, s[i]),
           NEW g, g = [h EXCEPT ![p] = [h[p] EXCEPT !.own = h[p].own \o s]]
    PROVE  HeapOK(g) /\ KindsKept(h, g) /\ NetGrown(h, g, s)
  <2> USE <1>GrowCell
  <2> DEFINE t == h[p].own \o s
             x == [h[p] EXCEPT !.own = t]
  <2>1. h[p] \in CellType /\ Sound(h, h[p])
    BY HeapFacts
  <2>2. h[p].count \in Nat /\ h[p].lost \in Nat /\ h[p].own \in Seq(Cells)
    BY <2>1, CellFields
  <2>3. /\ t \in Seq(Cells)
        /\ \A i \in DOMAIN t : (i \in DOMAIN h[p].own /\ t[i] = h[p].own[i])
                                 \/ \E j \in DOMAIN s : t[i] = s[j]
    <3>1. ASSUME NEW a \in Seq(Cells), NEW i \in DOMAIN (a \o s)
          PROVE  (i \in DOMAIN a /\ (a \o s)[i] = a[i]) \/ \E j \in DOMAIN s : (a \o s)[i] = s[j]
      <4>1. i \notin DOMAIN a => i - Len(a) \in DOMAIN s /\ (a \o s)[i] = s[i - Len(a)]
        BY SMT
      <4>2. i \in DOMAIN a => (a \o s)[i] = a[i]
        BY SMT
      <4> QED BY <4>1, <4>2
    <3>2. \A a \in Seq(Cells) : a \o s \in Seq(Cells)
      BY SMT
    <3> QED BY <2>2, <3>1, <3>2
  <2> HIDE DEF t
  <2>4. /\ x \in CellType /\ x.kind = h[p].kind /\ x.lost = h[p].lost
        /\ x.count = h[p].count /\ x.ends = h[p].ends /\ x.own = t
    BY <2>1, <2>3 DEF CellType
  <2>5. g = [h EXCEPT ![p] = x]
    BY DEF t
  <2> HIDE DEF x
  <2>6. Edited(h, g, p) /\ g[p] = x
    <3>1. Edited(h, [h EXCEPT ![p] = x], p) /\ [h EXCEPT ![p] = x][p] = x
      BY <2>4, ExceptEdits
    <3> QED BY <2>5, <3>1
  <2>7. Sound(h, x)
    <3>1. /\ h[p].kind # "buffer" /\ h[p].kind # "device" /\ h[p].kind # "mapped_range"
          /\ h[p].kind \notin {"buffer", "semaphore", "fence", "view", "list"}
      BY SMT
    <3>2. \A i \in DOMAIN h[p].own : Ownable(h, h[p].own[i])
      BY <2>1, <3>1 DEF Sound, Ownable
    <3>3. \A i \in DOMAIN x.own : x.own[i] \in DOMAIN h /\ h[x.own[i]].kind \notin Private
      BY <2>3, <2>4, <3>2 DEF Ownable
    <3> QED BY <2>1, <2>4, <3>1, <3>3 DEF Sound
  <2>8. HeapOK(g) /\ KindsKept(h, g) /\ NetEdited(h, g, p)
    BY <2>4, <2>6, <2>7, EditCell
  <2>9. ASSUME NEW q \in Cells PROVE Net(h, q) = Net(g, q) + Occurrences(s, q)
    <3> DEFINE d == IF q = p THEN (x.count - x.lost) - (h[p].count - h[p].lost) ELSE 0
               n == Net(h, q)
               a == Occurrences(h[p].own, q)
               b == Occurrences(s, q)
    <3>1. Net(g, q) = n + d + a - Occurrences(t, q)
      BY <2>4, <2>6, <2>8 DEF NetEdited
    <3>2. d = 0
      BY <2>2, <2>4, SMT
    <3>3. Occurrences(t, q) = a + b
      BY <2>2, OccJoin DEF t, CountsJoin
    <3>4. n \in Int /\ a \in Nat /\ b \in Nat
      BY <2>2, HeapFacts, NetType, OccType
    <3> HIDE DEF d, n, a, b
    <3>5. n = (n + 0 + a - (a + b)) + b
      BY <3>4, SMT
    <3> QED BY <3>1, <3>2, <3>3, <3>5 DEF n, b
  <2> QED BY <2>8, <2>9 DEF NetGrown
\* Retaining what a fence or a list takes over.
<1>AbsorbStep.
    ASSUME Core, NEW c \in Clients, NEW p \in DOMAIN heap,
           heap[p].kind \in {"hal_fence", "vm_list"}, heap[p].count > 0, NEW s \in Seq(Cells),
           \A i \in DOMAIN s : Retainable(heap, s[i]) /\ Ownable(heap, s[i]), Absorb(p, s)
    PROVE  Core'
  <2> USE <1>AbsorbStep
  <2> DEFINE h == Lent(s)
  <2>1. /\ heap' = [h EXCEPT ![p] = [h[p] EXCEPT !.own = h[p].own \o s]]
        /\ refs' = refs /\ call' = call /\ todo' = todo /\ up' = up /\ crashed' = crashed
    BY DEF Absorb
  <2>2. More(heap, s, h)
    BY RetainedMore
  <2> HIDE DEF h
  <2>3. HeapOK(heap)
    BY CoreFacts
  <2>4. /\ HeapOK(h) /\ KindsKept(heap, h) /\ DOMAIN h = DOMAIN heap
        /\ \A q \in Cells : Net(h, q) = Net(heap, q) + Occurrences(s, q)
    BY <2>2, <2>3, MoreReferences
  <2>5. /\ p \in DOMAIN h /\ h[p].kind \in {"hal_fence", "vm_list"}
        /\ \A i \in DOMAIN s : Ownable(h, s[i])
    BY <2>4 DEF KindsKept, Ownable
  <2>a. h[p].count > 0
    <3>1. /\ h[p].count = heap[p].count + Occurrences(s, p) /\ heap[p].count \in Nat
          /\ Occurrences(s, p) \in Nat
      BY <2>2, <2>3, HeapFacts, CellFields, OccType DEF More
    <3> QED BY <3>1, SMT
  <2>6. HeapOK(heap') /\ KindsKept(h, heap') /\ NetGrown(h, heap', s)
    BY <2>1, <2>4, <2>5, <2>a, <1>GrowCell
  <2>7. KindsKept(heap, heap')
    BY <2>4, <2>6, KindsKeptTwice
  <2>8. ASSUME NEW q \in Cells PROVE Net(heap', q) = Net(heap, q)
    <3>1. Net(heap', q) + Occurrences(s, q) = Net(heap, q) + Occurrences(s, q)
      BY <2>4, <2>6 DEF NetGrown
    <3>2. Net(heap', q) \in Int /\ Net(heap, q) \in Int /\ Occurrences(s, q) \in Nat
      BY <2>3, <2>6, HeapFacts, NetType, OccType
    <3> QED BY <3>1, <3>2, SMT
  <2> QED BY <2>1, <2>6, <2>7, <2>8, <1>HeapOnly
\* A fence takes over one semaphore.
<1>FenceInsertStep.
    ASSUME Core, NEW c \in Clients, hrx_fence_insert(c)
    PROVE  Core'
  <2> USE <1>FenceInsertStep
  <2>1. PICK f \in Holds(c, "fence"), s \in Holds(c, "semaphore") : Absorb(Hal(f), <<Hal(s)>>)
    BY DEF hrx_fence_insert
  <2>2. /\ Hal(f) \in DOMAIN heap /\ heap[Hal(f)].kind \in {"hal_fence", "vm_list"}
        /\ heap[Hal(f)].count > 0
    BY HoldsHal DEF Retainable
  <2>3. Hal(s) \in Cells /\ Retainable(heap, Hal(s)) /\ Ownable(heap, Hal(s))
    BY HoldsHal
  <2>4. /\ <<Hal(s)>> \in Seq(Cells)
        /\ \A i \in DOMAIN <<Hal(s)>> : Retainable(heap, <<Hal(s)>>[i]) /\ Ownable(heap, <<Hal(s)>>[i])
    BY <2>3, OneElement
  <2> QED BY <2>1, <2>2, <2>4, <1>AbsorbStep
\* A fence takes over the semaphores of another that it lacks.
<1>FenceExtendStep.
    ASSUME Core, NEW c \in Clients, hrx_fence_extend(c)
    PROVE  Core'
  <2> USE <1>FenceExtendStep
  <2>1. PICK f \in Holds(c, "fence"), g \in Holds(c, "fence") :
            LET from == heap[Hal(g)].own
                missing == {i \in DOMAIN from : from[i] \notin Range(heap[Hal(f)].own)}
            IN  \E n \in 1 .. Cardinality(missing) : \E at \in [1 .. n -> missing] :
                   Absorb(Hal(f), [i \in DOMAIN at |-> from[at[i]]])
    BY DEF hrx_fence_extend
  <2> DEFINE p == Hal(g)
             from == heap[p].own
             missing == {i \in DOMAIN from : from[i] \notin Range(heap[Hal(f)].own)}
  <2>n. PICK n \in 1 .. Cardinality(missing) : \E at \in [1 .. n -> missing] :
            Absorb(Hal(f), [i \in DOMAIN at |-> from[at[i]]])
    BY <2>1
  <2>2. PICK at \in [1 .. n -> missing] :
            Absorb(Hal(f), [i \in DOMAIN at |-> from[at[i]]])
    BY <2>n
  <2> DEFINE s == [i \in DOMAIN at |-> from[at[i]]]
  <2>3. /\ Hal(f) \in DOMAIN heap /\ heap[Hal(f)].kind \in {"hal_fence", "vm_list"}
        /\ heap[Hal(f)].count > 0
    BY HoldsHal DEF Retainable
  <2>4. p \in DOMAIN heap /\ heap[p].kind \in {"hal_fence", "vm_list"}
    BY HoldsHal
  <2>5. heap[p] \in CellType /\ Sound(heap, heap[p]) /\ from \in Seq(Cells)
    BY <2>4, CoreFacts, HeapFacts, CellFields
  <2>6. \A j \in DOMAIN from : Retainable(heap, from[j]) /\ Ownable(heap, from[j]) /\ from[j] \in Cells
    <3>1. heap[p].kind # "buffer"
      BY <2>4, SMT
    <3>2. \A j \in DOMAIN from : heap[from[j]].kind \notin Private
      BY <2>5, <3>1 DEF Sound
    <3>3. \A j \in DOMAIN from : from[j] \in Cells /\ from[j] \in DOMAIN heap /\ heap[from[j]].count > 0
      BY <2>4, FieldLive
    <3> QED BY <3>2, <3>3 DEF Retainable, Ownable, Private
  <2>7. n \in Nat
    BY ONLY <2>n, SMT
  <2>8. DOMAIN at = 1 .. n /\ \A i \in DOMAIN at : at[i] \in DOMAIN from
    BY <2>2
  <2>9. \A i \in DOMAIN s : s[i] \in Cells /\ Retainable(heap, s[i]) /\ Ownable(heap, s[i])
    BY <2>6, <2>8
  <2>10. s \in Seq(Cells)
    <3>1. s \in [1 .. n -> Cells]
      BY <2>6, <2>8
    <3>2. ASSUME NEW m \in Nat, NEW e \in [1 .. m -> Cells] PROVE e \in Seq(Cells)
      BY SMT
    <3> HIDE DEF s, missing
    <3> QED BY <2>7, <3>1, <3>2
  <2>11. Absorb(Hal(f), s)
    BY <2>2
  <2> HIDE DEF s
  <2> QED BY <2>3, <2>9, <2>10, <2>11, <1>AbsorbStep
\* A failed push loses the reference it took.
<1>LostStep.
    ASSUME Core, NEW c \in Clients, NEW p \in Cells, Retainable(heap, p), Ownable(heap, p),
           heap[p].lost = 0,
           heap' = [Lent(<<p>>) EXCEPT ![p] = [Lent(<<p>>)[p] EXCEPT !.lost = 1]],
           refs' = refs, call' = call, todo' = todo, up' = up, crashed' = crashed
    PROVE  Core'
  <2> USE <1>LostStep
  <2> DEFINE h == Lent(<<p>>)
             x == [h[p] EXCEPT !.lost = 1]
  <2>1. /\ <<p>> \in Seq(Cells) /\ \A i \in DOMAIN <<p>> : Retainable(heap, <<p>>[i])
        /\ HeapOK(heap)
    BY OneElement, CoreFacts
  <2>2. More(heap, <<p>>, h)
    BY <2>1, RetainedMore
  <2>3. heap' = [h EXCEPT ![p] = x]
    OBVIOUS
  <2> HIDE DEF h
  <2>4. /\ HeapOK(h) /\ KindsKept(heap, h) /\ DOMAIN h = DOMAIN heap
        /\ \A q \in Cells : Net(h, q) = Net(heap, q) + Occurrences(<<p>>, q)
    BY <2>1, <2>2, MoreReferences
  <2>5. p \in DOMAIN h /\ h[p].kind \notin Private /\ h[p] \in CellType /\ Sound(h, h[p]) /\ h[p].lost = 0
    BY <2>2, <2>4, HeapFacts DEF KindsKept, Ownable, More
  <2>6. h[p].count \in Nat /\ h[p].own \in Seq(Cells)
    BY <2>5, CellFields
  <2>7. /\ x \in CellType /\ x.kind = h[p].kind /\ x.lost = 1
        /\ x.count = h[p].count /\ x.ends = h[p].ends /\ x.own = h[p].own
    <3>1. 1 \in Nat
      BY SMT
    <3> QED BY <2>5, <3>1 DEF CellType
  <2> HIDE DEF x
  <2>8. Edited(h, heap', p) /\ heap'[p] = x
    <3>1. Edited(h, [h EXCEPT ![p] = x], p) /\ [h EXCEPT ![p] = x][p] = x
      BY <2>4, <2>5, <2>7, ExceptEdits
    <3> QED BY <2>3, <3>1
  <2>9. Sound(h, x)
    BY <2>5, <2>7 DEF Sound, Private
  <2>10. HeapOK(heap') /\ KindsKept(h, heap') /\ NetEdited(h, heap', p)
    BY <2>4, <2>7, <2>8, <2>9, EditCell
  <2>11. ASSUME NEW q \in Cells PROVE Net(heap', q) = Net(heap, q)
    <3> DEFINE d == IF q = p THEN (x.count - x.lost) - (h[p].count - h[p].lost) ELSE 0
               n == Net(heap, q)
               a == Occurrences(h[p].own, q)
               u == One(p, q)
    <3>1. Net(heap', q) = Net(h, q) + d + a - a
      BY <2>7, <2>8, <2>10 DEF NetEdited
    <3>2. d = 0 - u
      BY <2>5, <2>6, <2>7, SMT DEF One
    <3>3. Net(h, q) = n + u
      BY <2>4, OccOne
    <3>4. n \in Int /\ a \in Nat
      BY <2>1, <2>6, HeapFacts, NetType, OccType
    <3>5. u \in Nat
      BY SMT DEF One
    <3> HIDE DEF d, n, a, u
    <3>6. (n + u) + (0 - u) + a - a = n
      BY <3>4, <3>5, SMT
    <3> QED BY <3>1, <3>2, <3>3, <3>6 DEF n
  <2>12. KindsKept(heap, heap')
    BY <2>4, <2>10, KindsKeptTwice
  <2> QED BY <2>10, <2>11, <2>12, <1>HeapOnly
\* Pushing a buffer, a view or a fence on a list.
<1>PushStep.
    ASSUME Core, NEW c \in Clients, hrx_value_list_push(c)
    PROVE  Core'
  <2> USE <1>PushStep
  <2> DEFINE Pushed(l, h) ==
            \/ Absorb(Hal(l), <<Hal(h)>>)
            \/ /\ heap[Hal(h)].lost = 0
               /\ heap' = [Lent(<<Hal(h)>>) EXCEPT ![Hal(h)] =
                              [Lent(<<Hal(h)>>)[Hal(h)] EXCEPT !.lost = 1]]
               /\ refs' = refs /\ call' = call /\ todo' = todo /\ up' = up /\ crashed' = crashed
  <2>0. PICK l \in Holds(c, "list"), kind \in {"buffer", "view", "fence"} :
            \E h \in Holds(c, kind) : Pushed(l, h)
    BY DEF hrx_value_list_push
  <2>1. PICK h \in Holds(c, kind) : Pushed(l, h)
    BY <2>0
  <2>2. /\ Hal(l) \in DOMAIN heap /\ heap[Hal(l)].kind \in {"hal_fence", "vm_list"}
        /\ heap[Hal(l)].count > 0
    BY HoldsHal DEF Retainable
  <2>3. kind \in {"buffer", "semaphore", "fence", "view", "list"}
    OBVIOUS
  <2>4. Hal(h) \in Cells /\ Retainable(heap, Hal(h)) /\ Ownable(heap, Hal(h))
    BY <2>3, HoldsHal
  <2>5. /\ <<Hal(h)>> \in Seq(Cells)
        /\ \A i \in DOMAIN <<Hal(h)>> : Retainable(heap, <<Hal(h)>>[i]) /\ Ownable(heap, <<Hal(h)>>[i])
    BY <2>4, OneElement
  <2>6. CASE Absorb(Hal(l), <<Hal(h)>>)
    BY <2>2, <2>5, <2>6, <1>AbsorbStep
  <2>7. CASE ~Absorb(Hal(l), <<Hal(h)>>)
    BY <2>1, <2>4, <2>7, <1>LostStep
  <2> QED BY <2>6, <2>7
\* An edit of a cell and a new one at the end do not disturb each other.
<1>AppendExcept.
    ASSUME NEW h, HeapOK(h), NEW p \in DOMAIN h, NEW x \in CellType, NEW y \in CellType
    PROVE  Append([h EXCEPT ![p] = x], y) = [Append(h, y) EXCEPT ![p] = x]
  <2> USE <1>AppendExcept
  <2>1. h \in Seq(CellType) /\ p \in 1 .. Len(h)
    BY HeapFacts
  <2> DEFINE e == [h EXCEPT ![p] = x]
             a == Append(h, y)
             l == Append(e, y)
             r == [a EXCEPT ![p] = x]
             n == Len(h) + 1
  <2>2. ASSUME NEW s \in Seq(CellType), NEW z \in CellType
        PROVE  /\ Append(s, z) \in Seq(CellType) /\ Len(Append(s, z)) = Len(s) + 1
               /\ \A i \in 1 .. (Len(s) + 1) : Append(s, z)[i] = IF i = Len(s) + 1 THEN z ELSE s[i]
    BY SMT
  <2>3. ASSUME NEW s \in Seq(CellType), NEW j \in 1 .. Len(s), NEW z \in CellType
        PROVE  /\ [s EXCEPT ![j] = z] \in Seq(CellType) /\ Len([s EXCEPT ![j] = z]) = Len(s)
               /\ \A i \in 1 .. Len(s) : [s EXCEPT ![j] = z][i] = IF i = j THEN z ELSE s[i]
    BY SMT
  <2>4. /\ e \in Seq(CellType) /\ Len(e) = Len(h)
        /\ \A i \in 1 .. Len(h) : e[i] = IF i = p THEN x ELSE h[i]
    BY <2>1, <2>3
  <2>5. /\ a \in Seq(CellType) /\ Len(a) = n
        /\ \A i \in 1 .. n : a[i] = IF i = n THEN y ELSE h[i]
    BY <2>1, <2>2
  <2>6. /\ l \in Seq(CellType) /\ Len(l) = n
        /\ \A i \in 1 .. n : l[i] = IF i = n THEN y ELSE e[i]
    <3> HIDE DEF e
    <3>1. /\ Append(e, y) \in Seq(CellType) /\ Len(Append(e, y)) = Len(e) + 1
          /\ \A i \in 1 .. (Len(e) + 1) : Append(e, y)[i] = IF i = Len(e) + 1 THEN y ELSE e[i]
      BY <2>4, <2>2
    <3> QED BY <3>1, <2>4
  <2>7. p \in 1 .. n /\ p # n /\ \A i \in 1 .. n : i = n \/ i \in 1 .. Len(h)
    BY <2>1, SMT
  <2>8. /\ r \in Seq(CellType) /\ Len(r) = n
        /\ \A i \in 1 .. n : r[i] = IF i = p THEN x ELSE a[i]
    <3> HIDE DEF a, n
    <3>1. p \in 1 .. Len(a)
      BY <2>5, <2>7
    <3>2. /\ [a EXCEPT ![p] = x] \in Seq(CellType) /\ Len([a EXCEPT ![p] = x]) = Len(a)
          /\ \A i \in 1 .. Len(a) : [a EXCEPT ![p] = x][i] = IF i = p THEN x ELSE a[i]
      BY <2>5, <3>1, <2>3, SMT
    <3> QED BY <2>5, <3>2
  <2> HIDE DEF e, a, l, r, n
  <2>9. \A i \in 1 .. n : l[i] = r[i]
    BY <2>4, <2>5, <2>6, <2>7, <2>8
  <2>10. l = r
    BY SameList, <2>6, <2>8, <2>9
  <2> QED BY <2>10 DEF l, r, e, a
\* A module's function leaves a new buffer in the list of results.
<1>InvokeStep.
    ASSUME Core, NEW c \in Clients, hrx_function_invoke(c)
    PROVE  Core'
  <2> USE <1>InvokeStep
  <2> DEFINE y == [Cell("hal_buffer", <<>>, {HalDevice}) EXCEPT !.lent = TRUE]
             n == Len(heap) + 1
  <2>1. PICK rets \in Holds(c, "list") :
            /\ New <= MaxCells
            /\ LET hal == Hal(rets)
               IN  heap' = Append([heap EXCEPT ![hal] = [heap[hal] EXCEPT !.own = Append(heap[hal].own, n)]], y)
            /\ refs' = refs /\ call' = call /\ todo' = todo /\ up' = up /\ crashed' = crashed
    BY DEF hrx_function_invoke, New
  <2> DEFINE p == Hal(rets)
             h == Append(heap, y)
             x == [heap[p] EXCEPT !.own = heap[p].own \o <<n>>]
  <2>2. /\ HeapOK(heap) /\ Len(heap) < MaxCells /\ p \in DOMAIN heap
        /\ heap[p].kind \in {"hal_fence", "vm_list"} /\ heap[p] \in CellType /\ heap[p].count > 0
    BY <2>1, CoreFacts, HeapFacts, Room, HoldsHal DEF Retainable
  <2>3. y \in CellType /\ Sound(heap, y) /\ y.count = 1 /\ y.lost = 0 /\ y.own = <<>>
    <3> DEFINE z == Cell("hal_buffer", <<>>, {HalDevice})
    <3>1. "hal_buffer" \in Kinds /\ {HalDevice} \in SUBSET Cells /\ <<>> \in Seq(Cells)
      BY FixedCells, SMT DEF Kinds
    <3>2. z \in CellType /\ z.kind = "hal_buffer" /\ z.own = <<>> /\ z.count = 1 /\ z.lost = 0 /\ z.ends = 0
      BY <3>1, SMT DEF Cell, CellType
    <3> HIDE DEF z
    <3>3. /\ y \in CellType /\ y.kind = "hal_buffer" /\ y.own = <<>> /\ y.count = 1 /\ y.lost = 0
          /\ y.ends = 0
      <4>1. y = [z EXCEPT !.lent = TRUE]
        BY DEF z
      <4> QED BY <3>2, <4>1 DEF CellType
    <3> HIDE DEF y
    <3>4. /\ DOMAIN y.own = {} /\ y.count > 0 /\ y.kind \notin Private /\ y.kind # "mapped_range"
          /\ y.kind \notin {"buffer", "semaphore", "fence", "view", "list"} /\ y.kind # "device"
      BY <3>3, SMT DEF Private
    <3> QED BY <3>3, <3>4 DEF Sound
  <2> HIDE DEF y
  <2>4. Created(heap, y, h)
    BY <2>2, <2>3, Creation
  <2>5. /\ HeapOK(h) /\ KindsKept(heap, h) /\ n \in Cells /\ n \in DOMAIN h /\ h[n] = y
        /\ p \in DOMAIN h /\ h[p] = heap[p]
        /\ \A q \in Cells : Net(h, q) + Occurrences(y.own, q) = Net(heap, q) + One(n, q)
    BY <2>2, <2>4 DEF Created
  <2>6. heap' = [h EXCEPT ![p] = [h[p] EXCEPT !.own = h[p].own \o <<n>>]]
    <3>1. heap[p].own \in Seq(Cells)
      BY <2>2, CellFields
    <3>2. Append(heap[p].own, n) = heap[p].own \o <<n>>
      <4>1. ASSUME NEW s \in Seq(Cells), NEW i \in Cells PROVE Append(s, i) = s \o <<i>>
        BY SMT
      <4> QED BY <3>1, <2>5, <4>1
    <3>3. heap[p].own \o <<n>> \in Seq(Cells)
      <4>1. ASSUME NEW s \in Seq(Cells), NEW i \in Cells PROVE s \o <<i>> \in Seq(Cells)
        BY SMT
      <4> QED BY <3>1, <2>5, <4>1
    <3>4. x \in CellType
      BY <2>2, <3>3 DEF CellType
    <3>5. heap' = Append([heap EXCEPT ![p] = x], y)
      BY <2>1, <3>2
    <3>6. heap' = [h EXCEPT ![p] = x]
      <4> HIDE DEF x, p
      <4>1. Append([heap EXCEPT ![p] = x], y) = [Append(heap, y) EXCEPT ![p] = x]
        BY <2>2, <2>3, <3>4, <1>AppendExcept, SMT
      <4> QED BY <3>5, <4>1
    <3> QED BY <3>6, <2>5
  <2> HIDE DEF h, n, p, x
  <2>7. <<n>> \in Seq(Cells) /\ \A i \in DOMAIN <<n>> : Ownable(h, <<n>>[i])
    <3>1. Ownable(h, n)
      <4>1. y.kind \notin Private
        <5>1. y.kind = "hal_buffer"
          BY SMT DEF y, Cell
        <5> QED BY <5>1, SMT DEF Private
      <4> QED BY <2>5, <4>1 DEF Ownable
    <3> QED BY <2>5, <3>1, OneElement
  <2>8. HeapOK(heap') /\ KindsKept(h, heap') /\ NetGrown(h, heap', <<n>>)
    <3>1. h[p].kind \in {"hal_fence", "vm_list"} /\ h[p].count > 0
      BY <2>2, <2>5
    <3> QED BY <2>5, <2>6, <2>7, <3>1, <1>GrowCell
  <2>9. ASSUME NEW q \in Cells PROVE Net(heap', q) = Net(heap, q)
    <3>1. Net(h, q) + 0 = Net(heap, q) + One(n, q)
      BY <2>3, <2>5, OccEmpty
    <3>2. Net(h, q) = Net(heap', q) + One(n, q)
      BY <2>8, OccOne DEF NetGrown
    <3>3. Net(heap', q) \in Int /\ Net(heap, q) \in Int /\ Net(h, q) \in Int
      BY <2>2, <2>5, <2>8, HeapFacts, NetType
    <3>4. One(n, q) \in Nat
      BY SMT DEF One
    <3> DEFINE a == Net(heap', q)
               b == Net(heap, q)
               d == Net(h, q)
               e == One(n, q)
    <3>5. d + 0 = b + e /\ d = a + e /\ a \in Int /\ b \in Int /\ d \in Int /\ e \in Nat
      BY <3>1, <3>2, <3>3, <3>4
    <3> HIDE DEF a, b, d, e
    <3>6. a = b
      BY <3>5, SMT
    <3> QED BY <3>6 DEF a, b
  <2>10. KindsKept(heap, heap')
    BY <2>5, <2>8, KindsKeptTwice
  <2> QED BY <2>1, <2>8, <2>9, <2>10, <1>HeapOnly
\* What a held buffer that is not mapped owns is not private.
<1>UnmappedOwns.
    ASSUME Core, NEW c \in Clients, NEW b \in Holds(c, "buffer"), ~Mapped(b)
    PROVE  /\ heap[b].own \in Seq(Cells) /\ heap[b].own # <<>>
           /\ \A i \in DOMAIN heap[b].own : Ownable(heap, heap[b].own[i])
  <2> USE <1>UnmappedOwns
  <2>1. heap[b].kind = "buffer" /\ heap[b].count > 0 /\ heap[b] \in CellType /\ Sound(heap, heap[b])
    BY HoldsFacts
  <2>2. heap[b].own \in Seq(Cells)
    BY <2>1, CellFields
  <2>3. heap[b].own # <<>>
    BY <2>1 DEF Sound
  <2>4. heap[heap[b].own[1]].kind # "mapped_range"
    BY DEF Mapped
  <2> QED BY <2>1, <2>2, <2>3, <2>4 DEF Sound, Ownable
\* A buffer is mapped.
<1>MapRangeStep.
    ASSUME Core, NEW c \in Clients, NEW b \in Holds(c, "buffer"), ~Mapped(b), MapRange(c, b)
    PROVE  Core'
  <2> USE <1>MapRangeStep
  <2> DEFINE y == Cell("mapped_range", <<>>, {Hal(b)})
             n == Len(heap) + 1
             t == <<n>> \o heap[b].own
             h == Append(heap, y)
             x == [heap[b] EXCEPT !.own = t]
  <2>1. /\ New <= MaxCells /\ heap' = Append([heap EXCEPT ![b] = x], y)
        /\ refs' = refs /\ call' = call /\ todo' = todo /\ up' = up /\ crashed' = crashed
    BY DEF MapRange, New
  <2>2. /\ HeapOK(heap) /\ Len(heap) < MaxCells /\ b \in DOMAIN heap /\ heap[b].count > 0
        /\ heap[b].kind = "buffer" /\ heap[b] \in CellType /\ Sound(heap, heap[b])
        /\ b \in Cells
    BY <2>1, HoldsFacts, Room
  <2>3. /\ y \in CellType /\ Sound(heap, y) /\ y.count = 1 /\ y.lost = 0 /\ y.own = <<>>
        /\ y.kind = "mapped_range"
    <3>1. Hal(b) \in Cells
      BY HoldsHal
    <3>2. "mapped_range" \in Kinds /\ {Hal(b)} \in SUBSET Cells /\ <<>> \in Seq(Cells) /\ DOMAIN <<>> = {}
      BY <3>1, FixedCells, SMT DEF Kinds
    <3>3. y.count = 1 /\ y.lost = 0 /\ y.own = <<>> /\ y.kind = "mapped_range"
      BY DEF Cell
    <3>4. y \in CellType /\ Sound(heap, y)
      BY <3>2, CellSound
    <3> QED BY <3>3, <3>4
  <2> HIDE DEF y
  <2>4. Created(heap, y, h)
    BY <2>2, <2>3, Creation
  <2>5. /\ HeapOK(h) /\ KindsKept(heap, h) /\ n \in Cells /\ n \in DOMAIN h /\ h[n] = y
        /\ b \in DOMAIN h /\ h[b] = heap[b] /\ n \notin DOMAIN heap
        /\ \A q \in Cells : Net(h, q) + Occurrences(y.own, q) = Net(heap, q) + One(n, q)
    BY <2>2, <2>4 DEF Created
  <2>6. /\ heap[b].own \in Seq(Cells) /\ heap[b].own # <<>>
        /\ \A i \in DOMAIN heap[b].own : Ownable(heap, heap[b].own[i])
    BY <1>UnmappedOwns
  <2> HIDE DEF n
  <2>7. /\ t \in Seq(Cells) /\ Len(t) >= 2 /\ t[1] = n
        /\ \A i \in DOMAIN t : i = 1 \/ (i - 1 \in DOMAIN heap[b].own /\ t[i] = heap[b].own[i - 1])
    BY <2>5, <2>6, SMT
  <2> HIDE DEF t
  <2>8. /\ x \in CellType /\ x.kind = heap[b].kind /\ x.count = heap[b].count
        /\ x.lost = heap[b].lost /\ x.ends = heap[b].ends /\ x.own = t
    BY <2>2, <2>7 DEF CellType
  <2> HIDE DEF x
  <2>9. Sound(h, x)
    <3>1. x.kind = "buffer" /\ x.own # <<>> /\ Len(x.own) >= 2
      BY <2>2, <2>7, <2>8, SMT
    <3>2. ASSUME NEW i \in DOMAIN x.own
          PROVE  /\ x.own[i] \in DOMAIN h
                 /\ h[x.own[i]].kind \in Private =>
                       h[x.own[i]].kind = "mapped_range" /\ x.kind = "buffer" /\ i = 1 /\ Len(x.own) >= 2
      <4>1. CASE i = 1
        BY <4>1, <3>1, <2>3, <2>5, <2>7, <2>8
      <4>2. CASE i # 1
        <5>1. Ownable(heap, x.own[i])
          BY <4>2, <2>6, <2>7, <2>8
        <5>2. x.own[i] \in DOMAIN h /\ h[x.own[i]].kind \notin Private
          BY <5>1, <2>5 DEF Ownable, KindsKept
        <5> QED BY <5>2
      <4> QED BY <4>1, <4>2
    <3>3. /\ x.kind # "mapped_range" /\ x.kind \notin {"fence", "list"} /\ x.kind # "device"
          /\ heap[b].kind \in Private
      BY <3>1, <2>2, SMT DEF Private
    <3>4. x.lost = 0
      BY <2>2, <2>8, <3>3 DEF Sound
    <3>5. x.ends = (IF x.count > 0 THEN 0 ELSE 1)
      BY <2>2, <2>8 DEF Sound
    <3>6. x.count > 0
      BY <2>2, <2>8
    <3> QED BY <3>1, <3>2, <3>3, <3>4, <3>5, <3>6 DEF Sound
  <2>10. heap' = [h EXCEPT ![b] = x]
    <3>1. Append([heap EXCEPT ![b] = x], y) = [Append(heap, y) EXCEPT ![b] = x]
      BY <2>2, <2>3, <2>8, <1>AppendExcept, SMT
    <3> QED BY <2>1, <3>1
  <2> HIDE DEF h
  <2>11. HeapOK(heap') /\ KindsKept(h, heap') /\ NetEdited(h, heap', b) /\ heap'[b] = x
    <3>1. Edited(h, heap', b) /\ heap'[b] = x
      <4>1. Edited(h, [h EXCEPT ![b] = x], b) /\ [h EXCEPT ![b] = x][b] = x
        BY <2>5, <2>8, ExceptEdits
      <4> QED BY <4>1, <2>10
    <3>2. heap'[b].kind = h[b].kind /\ Sound(h, heap'[b])
      BY <3>1, <2>5, <2>8, <2>9
    <3> QED BY <3>1, <3>2, <2>5, EditCell
  <2>12. ASSUME NEW q \in Cells PROVE Net(heap', q) = Net(heap, q)
    <3> DEFINE a == Net(heap', q)
               d == Net(heap, q)
               m == Net(h, q)
               e == One(n, q)
               o == Occurrences(heap[b].own, q)
               k == heap[b].count - heap[b].lost
    <3>1. m + 0 = d + e
      BY <2>3, <2>5, OccEmpty
    <3>2. a = m + (IF q = b THEN k - k ELSE 0) + o - Occurrences(t, q)
      BY <2>5, <2>8, <2>11 DEF NetEdited
    <3>3. Occurrences(t, q) = e + o
      <4>1. CountsCons(n, heap[b].own, t)
        <5>1. Cons(Cells, n, heap[b].own, t)
          BY <2>5, <2>6 DEF Cons, t
        <5> QED BY <5>1, OccCons
      <4> QED BY <4>1 DEF CountsCons
    <3>4. a \in Int /\ d \in Int /\ m \in Int
      BY <2>2, <2>5, <2>11, HeapFacts, NetType
    <3>5. e \in Nat /\ o \in Nat /\ k \in Int
      <4>1. e \in Nat
        BY SMT DEF One
      <4>2. o \in Nat
        BY <2>6, OccType
      <4>3. heap[b].count \in Nat /\ heap[b].lost \in Nat
        BY <2>2, CellFields
      <4> QED BY <4>1, <4>2, <4>3, SMT
    <3>6. a = m + (IF q = b THEN k - k ELSE 0) + o - (e + o)
      BY <3>2, <3>3
    <3> HIDE DEF a, d, m, e, o, k
    <3>7. a = d
      BY <3>1, <3>4, <3>5, <3>6, SMT
    <3> QED BY <3>7 DEF a, d
  <2>13. KindsKept(heap, heap')
    BY <2>5, <2>11, KindsKeptTwice
  <2> QED BY <2>1, <2>11, <2>12, <2>13, <1>HeapOnly
\* Both ways to map a buffer.
<1>MapStep.
    ASSUME Core, NEW c \in Clients, hrx_buffer_map(c) \/ hrx_buffer_get_device_ptr(c)
    PROVE  Core'
  <2> USE <1>MapStep
  <2>1. PICK b \in Holds(c, "buffer") : ~Mapped(b) /\ MapRange(c, b)
    BY DEF hrx_buffer_map, hrx_buffer_get_device_ptr
  <2> QED BY <2>1, <1>MapRangeStep
\* A buffer is unmapped: it was the only owner of the range.
<1>UnmapStep.
    ASSUME Core, NEW c \in Clients, hrx_buffer_unmap(c)
    PROVE  Core'
  <2> USE <1>UnmapStep
  <2>1. PICK b \in Holds(c, "buffer") :
            /\ Mapped(b)
            /\ LET m == heap[b].own[1]
               IN  heap' = [heap EXCEPT ![b] = [heap[b] EXCEPT !.own = Tail(heap[b].own)],
                                        ![m] = [heap[m] EXCEPT !.ends = heap[m].ends + 1, !.count = 0]]
            /\ refs' = refs /\ call' = call /\ todo' = todo /\ up' = up /\ crashed' = crashed
    BY DEF hrx_buffer_unmap
  <2> DEFINE m == heap[b].own[1]
             t == Tail(heap[b].own)
             x == [heap[b] EXCEPT !.own = t]
             h == [heap EXCEPT ![b] = x]
             e == heap[m].ends + 1
             y == [heap[m] EXCEPT !.ends = e, !.count = 0]
  <2>2. /\ HeapOK(heap) /\ b \in DOMAIN heap /\ heap[b].count > 0
        /\ heap[b].kind = "buffer" /\ heap[b] \in CellType /\ Sound(heap, heap[b]) /\ b \in Cells
    BY <2>1, HoldsFacts
  <2>3. heap[m].kind = "mapped_range"
    BY <2>1 DEF Mapped
  <2>4. heap[b].own \in Seq(Cells) /\ heap[b].own # <<>> /\ 1 \in DOMAIN heap[b].own
    <3>1. heap[b].own \in Seq(Cells) /\ heap[b].own # <<>>
      BY <2>2, CellFields DEF Sound
    <3> QED BY <3>1, FirstField
  <2>5. /\ m \in Cells /\ m \in DOMAIN heap /\ heap[m].count > 0 /\ Len(heap[b].own) >= 2
        /\ heap[m] \in CellType /\ Sound(heap, heap[m])
    <3>1. m \in Cells /\ m \in DOMAIN heap /\ heap[m].count > 0
      BY <2>2, <2>4, FieldLive
    <3>2. heap[m].kind \in Private
      BY <2>3, SMT DEF Private
    <3> QED BY <3>1, <3>2, <2>2, <2>4, HeapFacts DEF Sound
  <2>6. heap[m].count = 1 /\ heap[m].lost = 0 /\ heap[m].ends = 0 /\ m # b /\ e = 1
    <3>1. heap[m].count \in Nat /\ heap[m].count <= 1
      BY <2>3, <2>5, CellFields DEF Sound
    <3>2. heap[m].lost = 0 /\ heap[m].ends = 0
      <4>1. heap[m].kind \in Private
        BY <2>3, SMT DEF Private
      <4> QED BY <4>1, <2>5 DEF Sound
    <3>3. m # b
      BY <2>2, <2>3, SMT
    <3> QED BY <3>1, <3>2, <3>3, <2>5, SMT
  <2>7. heap' = [h EXCEPT ![m] = y]
    BY <2>1
  <2>8. /\ t \in Seq(Cells) /\ t # <<>> /\ \A i \in DOMAIN t : i + 1 \in DOMAIN heap[b].own
                                                  /\ t[i] = heap[b].own[i + 1] /\ i + 1 # 1
    <3>1. ASSUME NEW s \in Seq(Cells), Len(s) >= 2
          PROVE  /\ Tail(s) \in Seq(Cells) /\ Len(Tail(s)) = Len(s) - 1 /\ Len(s) \in Nat
                 /\ \A i \in 1 .. (Len(s) - 1) : Tail(s)[i] = s[i + 1]
      BY <3>1, SMT
    <3>2. ASSUME NEW s \in Seq(Cells) PROVE DOMAIN s = 1 .. Len(s)
      BY SMT
    <3>3. ASSUME NEW s \in Seq(Cells), Len(s) >= 1 PROVE s # <<>>
      BY <3>3, SMT
    <3>4. /\ t \in Seq(Cells) /\ Len(t) = Len(heap[b].own) - 1 /\ Len(heap[b].own) \in Nat
          /\ \A i \in 1 .. (Len(heap[b].own) - 1) : t[i] = heap[b].own[i + 1]
      BY <2>4, <2>5, <3>1
    <3>5. DOMAIN t = 1 .. Len(t) /\ DOMAIN heap[b].own = 1 .. Len(heap[b].own)
      BY <2>4, <3>2, <3>4
    <3> HIDE DEF t
    <3>6. Len(t) >= 1
      BY <2>5, <3>4, SMT
    <3>7. t # <<>>
      BY <3>3, <3>4, <3>6
    <3>8. \A i \in DOMAIN t : i + 1 \in DOMAIN heap[b].own /\ i \in 1 .. (Len(heap[b].own) - 1) /\ i + 1 # 1
      BY <3>4, <3>5, SMT
    <3> QED BY <3>4, <3>7, <3>8
  <2> HIDE DEF t, m, e
  <2>9. /\ x \in CellType /\ x.kind = heap[b].kind /\ x.count = heap[b].count
        /\ x.lost = heap[b].lost /\ x.ends = heap[b].ends /\ x.own = t
    BY <2>2, <2>8 DEF CellType
  <2>10. /\ y \in CellType /\ y.kind = heap[m].kind /\ y.count = 0
         /\ y.lost = heap[m].lost /\ y.ends = e /\ y.own = heap[m].own
    <3>1. 0 \in Nat /\ e \in Nat
      BY <2>6, SMT
    <3> QED BY <2>5, <3>1 DEF CellType
  <2> HIDE DEF x, y
  <2>11. Sound(heap, x)
    <3>1. ASSUME NEW i \in DOMAIN x.own
          PROVE  x.own[i] \in DOMAIN heap /\ heap[x.own[i]].kind \notin Private
      BY <2>2, <2>8, <2>9 DEF Sound
    <3>2. /\ x.kind # "mapped_range" /\ x.kind \notin {"fence", "list"} /\ x.kind # "device"
          /\ heap[b].kind \in Private
      BY <2>2, <2>9, SMT DEF Private
    <3>3. x.lost = 0 /\ x.ends = (IF x.count > 0 THEN 0 ELSE 1)
      BY <2>2, <2>9, <3>2 DEF Sound
    <3>4. x.count > 0 /\ x.own # <<>>
      BY <2>2, <2>8, <2>9
    <3> QED BY <3>1, <3>2, <3>3, <3>4 DEF Sound
  <2>12. /\ Edited(heap, h, b) /\ h[b] = x /\ HeapOK(h) /\ KindsKept(heap, h) /\ NetEdited(heap, h, b)
    <3>1. Edited(heap, h, b) /\ h[b] = x
      BY <2>2, <2>9, ExceptEdits
    <3> HIDE DEF h
    <3> QED BY <3>1, <2>2, <2>9, <2>11, EditCell
  <2>13. m \in DOMAIN h /\ h[m] = heap[m]
    BY <2>5, <2>6, <2>12 DEF Edited
  <2> HIDE DEF h
  <2>14. Sound(h, y)
    <3>1. Sound(h, heap[m])
      BY <2>5, <2>12, SoundKept
    <3>2. y.count <= 1 /\ ~(y.count > 0) /\ y.ends = 1
      BY <2>6, <2>10, SMT
    <3> QED BY <3>1, <3>2, <2>3, <2>6, <2>10 DEF Sound
  <2>15. HeapOK(heap') /\ KindsKept(h, heap') /\ NetEdited(h, heap', m) /\ heap'[m] = y
    <3>1. Edited(h, heap', m) /\ heap'[m] = y
      <4>1. Edited(h, [h EXCEPT ![m] = y], m) /\ [h EXCEPT ![m] = y][m] = y
        BY <2>12, <2>13, <2>10, ExceptEdits
      <4> QED BY <4>1, <2>7
    <3>2. heap'[m].kind = h[m].kind /\ Sound(h, heap'[m])
      BY <3>1, <2>13, <2>10, <2>14
    <3> QED BY <3>1, <3>2, <2>12, EditCell
  <2>16. ASSUME NEW q \in Cells PROVE Net(heap', q) = Net(heap, q)
    <3> DEFINE a == Net(heap', q)
               d == Net(heap, q)
               w == Net(h, q)
               u == One(m, q)
               o == Occurrences(t, q)
               k == heap[b].count - heap[b].lost
               v == Occurrences(heap[m].own, q)
    <3>1. w = d + (IF q = b THEN k - k ELSE 0) + Occurrences(heap[b].own, q) - o
      BY <2>9, <2>12 DEF NetEdited
    <3>2. a = w + (IF q = m THEN (0 - 0) - (1 - 0) ELSE 0) + v - v
      BY <2>6, <2>10, <2>13, <2>15 DEF NetEdited
    <3>3. Occurrences(heap[b].own, q) = u + o
      <4>1. Head(heap[b].own) = heap[b].own[1]
        BY <2>4, SMT
      <4> QED BY <4>1, <2>4, OccHeadTail DEF t, m
    <3>4. a \in Int /\ d \in Int /\ w \in Int
      BY <2>2, <2>12, <2>15, HeapFacts, NetType
    <3>5. u \in Nat /\ o \in Nat /\ k \in Int /\ v \in Nat
      <4>1. o \in Nat /\ v \in Nat
        BY <2>5, <2>8, CellFields, OccType
      <4>2. heap[b].count \in Nat /\ heap[b].lost \in Nat
        BY <2>2, CellFields
      <4> QED BY <4>1, <4>2, SMT DEF One
    <3>6. w = d + (IF q = b THEN k - k ELSE 0) + (u + o) - o
      BY <3>1, <3>3
    <3>7. (IF q = m THEN (0 - 0) - (1 - 0) ELSE 0) = 0 - u
      BY SMT DEF One
    <3>8. a = w + (0 - u) + v - v
      BY <3>2, <3>7
    <3> HIDE DEF a, d, w, u, o, k, v
    <3>9. a = d
      BY <3>4, <3>5, <3>6, <3>8, SMT
    <3> QED BY <3>9 DEF a, d
  <2>17. KindsKept(heap, heap')
    BY <2>12, <2>15, KindsKeptTwice
  <2> QED BY <2>1, <2>15, <2>16, <2>17, <1>HeapOnly
<1> SUFFICES ASSUME Core, NEW c \in Clients,
                    \/ hrx_fence_insert(c) \/ hrx_fence_extend(c) \/ hrx_value_list_push(c) \/ hrx_function_invoke(c)
                    \/ hrx_buffer_map(c) \/ hrx_buffer_get_device_ptr(c) \/ hrx_buffer_unmap(c)
             PROVE  Core'
  OBVIOUS
<1> QED BY <1>FenceInsertStep, <1>FenceExtendStep, <1>PushStep, <1>InvokeStep, <1>MapStep, <1>UnmapStep

(***************************************************************************)
(* The abort of virtual_memory_release.                                    *)
(***************************************************************************)
\* A live buffer handle is held by a client or being released by one.
LEMMA BufferHeld == Core => BuffersUsed
BY CountingLaws, BufferUsed

\* virtual_memory_release, where it aborts, leaves a live buffer of reserved memory,
\* and whoever else refers to it is a client.
LEMMA VirtualMemoryReleaseAborts ==
    ASSUME Core, NEW c \in Clients, hrx_allocator_virtual_memory_release(c)
    PROVE  AbortMeansShared'
<1> USE CountingLaws
<1>1. Core' /\ BuffersUsed'
  <2>1. Core'
    BY TeardownSteps
  <2>2. Core' => BuffersUsed'
    BY BufferHeld, PTL
  <2> QED BY <2>1, <2>2
<1>2. PICK b \in Holds(c, "buffer") :
        /\ Idle(c) /\ heap[Hal(b)].kind = "virtual_memory"
        /\ IF heap[b].count = 1
             THEN UNCHANGED crashed
             ELSE heap' = [heap EXCEPT ![b] = [heap[b] EXCEPT !.count = @ - 1]]
  BY DEF hrx_allocator_virtual_memory_release
<1>3. CASE heap[b].count = 1
  <2>1. ~crashed'
    BY <1>2, <1>3 DEF Idle
  <2> QED BY <2>1 DEF AbortMeansShared
<1>4. CASE heap[b].count # 1
  <2> DEFINE x == [heap[b] EXCEPT !.count = @ - 1]
  <2>1. /\ b \in DOMAIN heap /\ heap[b].kind = "buffer" /\ heap[b].count > 0
        /\ heap[b] \in CellType /\ Sound(heap, heap[b]) /\ HeapOK(heap)
    BY HoldsFacts
  <2>2. heap \in Seq(CellType) /\ \A p \in DOMAIN heap : heap[p] \in CellType
    BY <2>1, HeapFacts
  <2>3. x.kind = "buffer" /\ x.own = heap[b].own /\ x.count = heap[b].count - 1
    BY <2>1 DEF CellType
  <2>4. heap[b].count \in Nat
    BY <2>1, CellFields
  <2>5. heap[b].count - 1 > 0
    BY <1>4, <2>1, <2>4, SMT
  <2>6. heap' = [heap EXCEPT ![b] = x]
    BY <1>2, <1>4
  <2> HIDE DEF x
  <2>7. /\ DOMAIN heap' = DOMAIN heap /\ heap'[b] = x
        /\ \A p \in DOMAIN heap : heap'[p].kind = heap[p].kind
    <3>1. DOMAIN heap' = DOMAIN heap /\ \A p \in DOMAIN heap : heap'[p] = IF p = b THEN x ELSE heap[p]
      BY <2>6
    <3> QED BY <2>1, <2>3, <3>1
  <2>8. Hal(b) \in DOMAIN heap /\ heap[b].own[1] \in DOMAIN heap
    <3>1. Hal(b) \in DOMAIN heap
      BY HoldsHal, SMT
    <3>2. heap[b].own \in Seq(Cells) /\ heap[b].own # <<>>
      <4>1. "buffer" \in {"buffer", "semaphore", "fence", "view", "list"}
        BY SMT
      <4> QED BY <2>1, <4>1, CellFields DEF Sound
    <3>3. 1 \in DOMAIN heap[b].own
      BY <3>2, SMT
    <3> QED BY <2>1, <3>1, <3>3 DEF Sound
  <2>9. Hal(b)' = Hal(b)
    BY <2>3, <2>7, <2>8 DEF Hal
  <2>10. heap'[Hal(b)'].kind = "virtual_memory"
    BY <1>2, <2>7, <2>8, <2>9
  <2>11. heap'[b].kind = "buffer" /\ heap'[b].count > 0 /\ b \in DOMAIN heap'
    BY <2>1, <2>3, <2>5, <2>7
  <2>12. PICK d \in Clients : refs'[d][b] > 0 \/ b \in Range(todo'[d])
    BY <1>1, <2>11 DEF BuffersUsed
  <2> QED BY <2>10, <2>11, <2>12 DEF AbortMeansShared, Live
<1> QED BY <1>3, <1>4

(***************************************************************************)
(* The theorems.                                                           *)
(***************************************************************************)
\* What a client holds, has as a local or has still to release is alive.
LEMMA UsedLive ==
    ASSUME Core, NEW c \in Clients, NEW o \in Cells,
           \/ Held(c, o) > 0
           \/ \E i \in DOMAIN Locals(c) : Locals(c)[i] = o
           \/ \E i \in DOMAIN todo[c] : todo[c][i] = o
    PROVE  o \in DOMAIN heap /\ Live(o)
<1>1. refs[c] \in [Cells -> Nat] /\ call[c].locals \in Seq(Cells) /\ todo[c] \in Seq(Cells)
  BY CoreFacts
<1>2. /\ UsesIn(refs[c], call[c].locals, todo[c], o) \in Nat /\ HeldIn(refs[c], o) \in Nat
      /\ Occurrences(call[c].locals, o) \in Nat /\ Occurrences(todo[c], o) \in Nat
  BY <1>1, CountingLaws, UsesType
<1>3. \/ HeldIn(refs[c], o) > 0 \/ Occurrences(call[c].locals, o) >= 1
      \/ Occurrences(todo[c], o) >= 1
  BY <1>1, CountingLaws, OccIn DEF Held, HeldIn, Locals
<1>4. UsesIn(refs[c], call[c].locals, todo[c], o) # 0
  <2>1. ASSUME NEW i \in Nat, NEW j \in Nat, NEW k \in Nat, i > 0 \/ j >= 1 \/ k >= 1
        PROVE  i + j + k # 0
    BY <2>1, SMT
  <2> QED BY <1>2, <1>3, <2>1 DEF UsesIn
<1> QED BY <1>4, CountingLaws, Referenced DEF Live

\* Exact counts keep every reference on a live object.
LEMMA CoreUpholds ==
    Core => Grounded /\ Upheld
<1> SUFFICES ASSUME Core PROVE Grounded /\ Upheld
  BY SMT
<1>1. /\ HeapOK(heap) /\ Device \in Cells
      /\ \A c \in Clients : /\ refs[c] \in [Cells -> Nat] /\ call[c].locals \in Seq(Cells)
                            /\ todo[c] \in Seq(Cells)
  BY CoreFacts, FixedCells
<1>2. ASSUME NEW S, NEW s \in Seq(S), NEW i \in DOMAIN s PROVE s[i] \in S
  BY <1>2, SMT
<1>3. ASSUME NEW c \in Clients
      PROVE  /\ \A o \in Cells : Held(c, o) > 0 => Live(o)
             /\ \A i \in DOMAIN Locals(c) : Live(Locals(c)[i])
             /\ \A i \in DOMAIN todo[c] : todo[c][i] \in DOMAIN heap /\ Live(todo[c][i])
  <2>1. /\ \A i \in DOMAIN Locals(c) : Locals(c)[i] \in Cells
        /\ \A i \in DOMAIN todo[c] : todo[c][i] \in Cells
    BY <1>1, <1>2 DEF Locals
  <2> QED BY <2>1, UsedLive
<1>4. ASSUME NEW c \in Clients, NEW o \in Cells, refs[c][o] > 0 PROVE heap[o].count > 0
  BY <1>4, CountingLaws, HandleLive DEF Retainable
<1>5. Grounded
  BY <1>3, <1>4 DEF Core, Grounded
<1>6. ASSUME NEW o \in DOMAIN heap
      PROVE  /\ heap[o].count \in Nat /\ heap[o].lost \in Nat
             /\ heap[o].count - heap[o].lost \in Nat
             /\ up /\ o = Device => heap[o].count - heap[o].lost > 0
  <2>1. o \in Cells /\ heap[o] \in CellType /\ heap \in Seq(CellType)
    BY <1>1, CountingLaws, HeapFacts DEF HeapOK
  <2>2. heap[o].count \in Nat /\ heap[o].lost \in Nat
    BY <2>1, CellFields
  <2>3. Runtime(up, o) + Users(refs, call, todo, o) + Fields(heap, o) = heap[o].count - heap[o].lost
    <3>1. Runtime(up, o) + Users(refs, call, todo, o) + Fields(heap, o) = Counted(heap, o)
      BY <2>1, CoreFacts
    <3> QED BY <3>1 DEF Counted
  <2>4. Runtime(up, o) \in Nat /\ Users(refs, call, todo, o) \in Nat /\ Fields(heap, o) \in Nat
    BY <2>1, CountingLaws, CoreFacts, UsersType, FieldsType, RuntimeType
  <2>5. up /\ o = Device => Runtime(up, o) = 1
    BY DEF Runtime
  <2> QED BY <2>2, <2>3, <2>4, <2>5, SMT
<1>7. Device \in DOMAIN heap
  BY <1>1, CountingLaws, HeapFacts
<1>8. up => Live(Device)
  <2>1. up => /\ heap[Device].count - heap[Device].lost > 0
              /\ heap[Device].count \in Nat /\ heap[Device].lost \in Nat
    BY <1>6, <1>7
  <2> QED BY <1>7, <2>1, SMT DEF Live
<1>9. ASSUME NEW q \in DOMAIN heap
      PROVE  /\ heap[q].lost > 0 => Live(q)
             /\ \A i \in DOMAIN heap[q].own : Live(heap[q].own[i])
  <2>1. heap[q].lost > 0 => Live(q)
    BY <1>6, <1>9, SMT DEF Live
  <2>2. \A i \in DOMAIN heap[q].own : Live(heap[q].own[i])
    BY CountingLaws, FieldLive DEF Live
  <2> QED BY <2>1, <2>2
<1>10. Upheld
  BY <1>3, <1>8, <1>9 DEF Upheld
<1> QED BY <1>5, <1>10

\* Exact counts leave no live object without a reference, and none in an ended object.
LEMMA CoreSupports ==
    Core => Supported
<1> SUFFICES ASSUME Core, NEW o \in DOMAIN heap, Live(o), ~(heap[o].lost > 0), ~(up /\ o = Device)
             PROVE  \/ \E c \in Clients : \/ Held(c, o) > 0
                                          \/ \E i \in DOMAIN Locals(c) : Locals(c)[i] = o
                                          \/ \E i \in DOMAIN todo[c] : todo[c][i] = o
                    \/ \E q \in DOMAIN heap :
                          Live(q) /\ \E i \in DOMAIN heap[q].own : heap[q].own[i] = o
  BY DEF Supported
<1>1. /\ HeapOK(heap) /\ o \in Cells /\ heap[o] \in CellType /\ heap \in Seq(CellType)
      /\ \A q \in DOMAIN heap : heap[q] \in CellType /\ Sound(heap, heap[q])
  BY CoreFacts, CountingLaws, HeapFacts DEF HeapOK
<1>2. /\ Users(refs, call, todo, o) \in Nat /\ Fields(heap, o) \in Nat
      /\ Users(refs, call, todo, o) # 0
           => \E c \in Clients : UsesIn(refs[c], call[c].locals, todo[c], o) # 0
  BY <1>1, CountingLaws, CoreFacts, UsersType, FieldsType
<1>3. Users(refs, call, todo, o) # 0 \/ Fields(heap, o) # 0
  <2>1. Runtime(up, o) + Users(refs, call, todo, o) + Fields(heap, o) = Counted(heap, o)
    BY <1>1, CoreFacts
  <2>2. Counted(heap, o) = heap[o].count - heap[o].lost /\ Runtime(up, o) = 0
    BY DEF Counted, Runtime
  <2>3. heap[o].count \in Nat /\ heap[o].lost \in Nat /\ heap[o].count > 0
    BY <1>1, CellFields DEF Live
  <2> QED BY <1>2, <2>1, <2>2, <2>3, SMT
<1>4. CASE Users(refs, call, todo, o) # 0
  <2>1. PICK c \in Clients : UsesIn(refs[c], call[c].locals, todo[c], o) # 0
    BY <1>2, <1>4
  <2>2. refs[c] \in [Cells -> Nat] /\ call[c].locals \in Seq(Cells) /\ todo[c] \in Seq(Cells)
    BY CoreFacts
  <2>3. /\ HeldIn(refs[c], o) \in Nat
        /\ Occurrences(call[c].locals, o) \in Nat /\ Occurrences(todo[c], o) \in Nat
    BY <1>1, <2>2, CountingLaws, UsesType
  <2>4. \/ HeldIn(refs[c], o) > 0 \/ Occurrences(call[c].locals, o) # 0
        \/ Occurrences(todo[c], o) # 0
    BY <2>1, <2>3, SMT DEF UsesIn
  <2>5. HeldIn(refs[c], o) = Held(c, o) /\ Locals(c) = call[c].locals
    BY DEF HeldIn, Held, Locals
  <2>6. /\ Occurrences(call[c].locals, o) # 0
             => \E i \in DOMAIN call[c].locals : call[c].locals[i] = o
        /\ Occurrences(todo[c], o) # 0 => \E i \in DOMAIN todo[c] : todo[c][i] = o
    BY <2>2, CountingLaws, OccSome
  <2> QED BY <2>4, <2>5, <2>6
<1>5. CASE Fields(heap, o) # 0
  <2> DEFINE f == [p \in DOMAIN heap |-> Occurrences(heap[p].own, o)]
  <2>1. Fields(heap, o) = Total(f) /\ DOMAIN f = DOMAIN heap
    BY DEF Fields
  <2>2. \A q \in DOMAIN heap : f[q] = Occurrences(heap[q].own, o)
    OBVIOUS
  <2> HIDE DEF f
  <2>3. PICK q \in DOMAIN heap : f[q] # 0
    BY <1>5, <2>1, CountingLaws, TotalSome
  <2>4. heap[q].own \in Seq(Cells) /\ Sound(heap, heap[q])
    BY <1>1, CellFields
  <2>5. PICK i \in DOMAIN heap[q].own : heap[q].own[i] = o
    BY <2>2, <2>3, <2>4, CountingLaws, OccSome
  <2>6. heap[q].own # <<>>
    <3>1. ASSUME NEW s, s = <<>> PROVE DOMAIN s = {}
      BY <3>1, SMT
    <3> QED BY <2>5, <3>1
  <2>7. Live(q)
    BY <2>4, <2>6 DEF Sound, Live
  <2> QED BY <2>5, <2>7
<1> QED BY <1>3, <1>4, <1>5

\* The counts, the reason of an abort, and the order.
IInv == Core /\ AbortMeansShared /\ Shape

\* The invariant holds at first.
LEMMA InitInv ==
    Init => IInv
<1> SUFFICES ASSUME Init PROVE IInv
  BY SMT
<1>1. Core
  BY CountingLaws, InitCore
<1>2. ~crashed
  BY DEF Init
<1>3. Shape
  BY OrderInit
<1> QED BY <1>1, <1>2, <1>3 DEF IInv, AbortMeansShared

\* Every operation of every client preserves the invariant.
LEMMA NextInv ==
    IInv /\ [Next]_vars => IInv'
<1> SUFFICES ASSUME IInv, [Next]_vars PROVE IInv'
  BY SMT
<1>1. Core /\ Shape
  BY DEF IInv
<1>2. ASSUME NEW c \in Clients, Ordinary(c) PROVE Core' /\ AbortMeansShared'
  <2>1. Core'
    BY <1>1, <1>2, CountingLaws, HandleSteps, TeardownSteps, FieldSteps, CreateSteps,
       ConstructorSteps DEF Ordinary
  <2>2. ~crashed'
    BY <1>2, StillRunning
  <2> QED BY <2>1, <2>2 DEF AbortMeansShared
<1>3. ASSUME NEW c \in Clients, hrx_allocator_virtual_memory_release(c)
      PROVE  Core' /\ AbortMeansShared'
  BY <1>1, <1>3, CountingLaws, TeardownSteps, VirtualMemoryReleaseAborts
<1>4. ASSUME UNCHANGED vars PROVE Core' /\ AbortMeansShared'
  <2>1. /\ heap' = heap /\ refs' = refs /\ call' = call /\ todo' = todo /\ up' = up
        /\ crashed' = crashed
    BY <1>4 DEF vars
  <2>2. Core'
    BY <1>1, <2>1 DEF Core, Typed, Balanced, References, Uses, Held, Locals
  <2>3. AbortMeansShared'
    BY <2>1 DEF IInv, AbortMeansShared, Live, Hal
  <2> QED BY <2>2, <2>3
<1>5. Core' /\ AbortMeansShared'
  <2>1. CASE Next
    BY <1>2, <1>3, <2>1 DEF Next, Ordinary
  <2> QED BY <1>4, <2>1
<1>6. Shape'
  <2>1. FiniteParts
    BY CountingLaws DEF Counting, FiniteLaws, FiniteParts
  <2> QED BY <1>1, <2>1, CoreUpholds, OrderNext
<1> QED BY <1>5, <1>6 DEF IInv

\* The inductive invariant of the object model.
THEOREM ObjectsInvariant ==
    Spec => []IInv
BY InitInv, NextInv, PTL DEF Spec

\* Retain and release balance in every constructor, on every failing branch and
\* in every teardown of libhrx, with any number of threads: the count of an
\* object is the number of references that exist, plus what a failed push of a
\* value list lost.
THEOREM CountsAreExact ==
    Spec => []CountsExact
<1>1. IInv => CountsExact
  <2> SUFFICES ASSUME IInv, NEW o \in DOMAIN heap
               PROVE  heap[o].count = References(o) + heap[o].lost
    BY DEF CountsExact
  <2>1. Core
    BY DEF IInv
  <2>2. HeapOK(heap)
    BY <2>1, CoreFacts
  <2>3. o \in Cells /\ heap[o] \in CellType
    BY <2>2, CountingLaws, HeapFacts
  <2>4. References(o) = heap[o].count - heap[o].lost
    BY <2>1, <2>3 DEF Core, Balanced, Counted
  <2>5. heap[o].count \in Nat /\ heap[o].lost \in Nat
    BY <2>3, CellFields
  <2> QED BY <2>4, <2>5, SMT
<1> QED BY <1>1, ObjectsInvariant, PTL

\* No handle, no IREE object and no mapped range is torn down twice, and none
\* whose last reference is gone is left standing.
THEOREM ObjectsEndOnce ==
    Spec => []EndsOnce
<1>1. IInv => EndsOnce
  BY DEF IInv, Core, HeapSound, Sound, EndsOnce, Live
<1> QED BY <1>1, ObjectsInvariant, PTL

\* The panic of hrx_allocator_virtual_memory_release needs a second reference of
\* a client on the buffer: nothing inside libhrx can bring it about.
THEOREM AbortNeedsSharing ==
    Spec => []AbortMeansShared
<1>1. IInv => AbortMeansShared
  BY DEF IInv
<1> QED BY <1>1, ObjectsInvariant, PTL

\* Whatever the clients do, and in whichever order their teardowns interleave, no
\* object ends before one that points to it: the fields of every handle are dropped
\* before the device they need, a pool after its block, a mapping before its buffer.
\* The exception is what a view, a list or a fence of the client has kept.
THEOREM ParentsAlwaysOutlive ==
    Spec => []ParentsOutlive
<1>1. IInv => ParentsOutlive
  BY CoreUpholds, CoreSupports, OrderBacks DEF IInv
<1> QED BY <1>1, ObjectsInvariant, PTL

\* No object leaks and none is freed early: whenever no call is in progress, what is
\* alive is what the runtime or a client can reach, plus what a failed push lost.
THEOREM NothingLeaks ==
    Spec => []LiveIffReachable
<1>1. IInv => LiveIffReachable
  BY CoreUpholds, CoreSupports, OrderReaches DEF IInv
<1> QED BY <1>1, ObjectsInvariant, PTL

=============================================================================
