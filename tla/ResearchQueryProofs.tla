-------------------------- MODULE ResearchQueryProofs --------------------------
(***************************************************************************)
(* Proofs about ResearchQuery, for any archives, questions and deadlines:  *)
(* its type, that the status and the level of a response say what          *)
(* happened, that what is handed out fits the bounds and can be cited, and *)
(* how late a request can be.  The first half is about the operators the   *)
(* responses are computed with: sums, sorts, choices and the packing.      *)
(***************************************************************************)
EXTENDS ResearchQuery, SequenceTheorems, FiniteSetTheorems, FunctionTheorems,
        NaturalsInduction, WellFoundedInduction, TLAPS

-----------------------------------------------------------------------------
(* Steps over a range of numbers *)

\* A set of naturals has a least one; it stands for induction.
LEMMA LeastOf ==
  ASSUME NEW T \in SUBSET Nat, T # {}
  PROVE  \E x \in T : \A y \in T : x <= y
<1> DEFINE R == {ss \in Nat \X Nat : ss[1] < ss[2]}
<1>1. IsWellFoundedOn(R, Nat)
  BY NatLessThanWellFounded DEF OpToRel
<1>2. PICK x \in T : \A y \in T : ~(<<y, x>> \in R)
  BY <1>1, WFMin
<1>3. \A y \in T : ~(y < x)
  BY <1>2
<1> QED
  BY <1>3

\* A step that is taken n times from a.
StepsFrom(g, a, n, step) == g[0] = a /\ \A i \in 1..n : g[i] = step[i][g[i - 1]]

LEMMA Iterated ==
  ASSUME NEW S, NEW a \in S, NEW n \in Nat, NEW step, \A i \in 1..n : \A x \in S : step[i][x] \in S
  PROVE  \E g \in [0..n -> S] : StepsFrom(g, a, n, step)
<1> USE DEF StepsFrom
<1> DEFINE Taken(g, m) == StepsFrom(g, a, m, step)
           T == {m \in 0..n : ~\E g \in [0..m -> S] : Taken(g, m)}
<1>1. T = {}
  <2> SUFFICES ASSUME T # {} PROVE FALSE
    OBVIOUS
  <2>1. PICK m \in T : \A k \in T : m <= k
    <3>1. T \in SUBSET Nat
      OBVIOUS
    <3> HIDE DEF T
    <3> QED
      BY <3>1, LeastOf
  <2>2. m # 0
    <3>1. [i \in 0..0 |-> a] \in [0..0 -> S] /\ Taken([i \in 0..0 |-> a], 0)
      OBVIOUS
    <3> QED
      BY <3>1
  <2>3. m \in 1..n /\ m - 1 \in 0..n
    BY <2>1, <2>2
  <2>4. PICK g \in [0..(m - 1) -> S] : Taken(g, m - 1)
    <3>1. m - 1 \notin T
      <4> HIDE DEF T
      <4> QED
        BY <2>1, <2>3
    <3> QED
      BY <2>3, <3>1
  <2> DEFINE last == step[m][g[m - 1]]
             h == [i \in 0..m |-> IF i = m THEN last ELSE g[i]]
  <2>5. last \in S
    BY <2>3, <2>4
  <2>6. h \in [0..m -> S]
    BY <2>3, <2>4, <2>5
  <2>7. h[0] = a
    BY <2>3, <2>4
  <2>8. ASSUME NEW i \in 1..m PROVE h[i] = step[i][h[i - 1]]
    <3>1. CASE i = m
      <4>1. m \in 0..m /\ m - 1 \in 0..m /\ m - 1 # m
        BY <2>3
      <4>2. h[m] = last /\ h[m - 1] = g[m - 1]
        BY <4>1
      <4> QED
        BY <3>1, <4>2
    <3>2. CASE i # m
      <4>1. i \in 1..(m - 1) /\ i - 1 # m /\ i \in 0..m /\ i - 1 \in 0..m
        BY <2>3, <3>2
      <4>2. h[i] = g[i] /\ h[i - 1] = g[i - 1]
        BY <3>2, <4>1
      <4> QED
        BY <2>4, <4>1, <4>2
    <3> QED
      BY <3>1, <3>2
  <2> QED
    BY <2>1, <2>6, <2>7, <2>8
<1> QED
  BY <1>1

\* What starts in a set and is led from it back into it stays there.
LEMMA StaysIn ==
  ASSUME NEW n \in Nat, NEW S, NEW f, f[0] \in S,
         \A i \in 1..n : f[i - 1] \in S => f[i] \in S
  PROVE  \A i \in 0..n : f[i] \in S
<1> DEFINE T == {i \in 0..n : f[i] \notin S}
<1>1. T = {}
  <2> SUFFICES ASSUME T # {} PROVE FALSE
    OBVIOUS
  <2>1. PICK m \in T : \A k \in T : m <= k
    <3>1. T \in SUBSET Nat
      OBVIOUS
    <3> HIDE DEF T
    <3> QED
      BY <3>1, LeastOf
  <2>2. m \in 1..n /\ m - 1 \in 0..n
    BY <2>1
  <2>3. m - 1 \notin T
    <3> HIDE DEF T
    <3> QED
      BY <2>1, <2>2
  <2>4. f[m - 1] \in S
    BY <2>2, <2>3
  <2> QED
    BY <2>1, <2>2, <2>4
<1> QED
  BY <1>1

\* TotalOf adds one number after the other.
LEMMA TotalIs ==
  ASSUME NEW s \in Seq(Nat)
  PROVE  \E f : /\ f[0] = 0
                /\ \A i \in 1..Len(s) : f[i] = f[i - 1] + s[i]
                /\ \A i \in 0..Len(s) : f[i] \in Nat
                /\ TotalOf(s) = f[Len(s)]
<1> DEFINE n == Len(s)
           next(g) == [i \in 0..n |-> IF i = 0 THEN 0 ELSE g[i - 1] + s[i]]
           f == CHOOSE g : g = next(g)
           step == [i \in 1..n |-> [x \in Nat |-> x + s[i]]]
<1>1. TotalOf(s) = f[n]
  BY DEF TotalOf
<1>2. n \in Nat /\ \A i \in 1..n : s[i] \in Nat
  BY LenProperties, ElementOfSeq
<1> HIDE DEF n
<1>3. \A i \in 1..n : \A x \in Nat : step[i][x] = x + s[i] /\ step[i][x] \in Nat
  BY <1>2
<1>4. PICK g \in [0..n -> Nat] : StepsFrom(g, 0, n, step)
  <2> HIDE DEF step, f, next
  <2> QED
    BY <1>2, <1>3, Iterated
<1>5. ASSUME NEW i \in 1..n PROVE g[i] = g[i - 1] + s[i]
  <2>1. i - 1 \in 0..n /\ g[i - 1] \in Nat
    BY <1>2
  <2> HIDE DEF step, next
  <2> QED
    BY <1>3, <1>4, <2>1 DEF StepsFrom
<1>6. g = next(g)
  BY <1>2, <1>4, <1>5 DEF StepsFrom
<1>7. f = next(f)
  BY <1>6
<1> HIDE DEF f
<1>8. f[0] = 0 /\ \A i \in 1..n : f[i] = f[i - 1] + s[i]
  <2>1. \A i \in 0..n : f[i] = IF i = 0 THEN 0 ELSE f[i - 1] + s[i]
    BY <1>7
  <2> QED
    BY <1>2, <2>1
<1> HIDE DEF next, step
<1>9. ASSUME NEW i \in 1..n, f[i - 1] \in Nat PROVE f[i] \in Nat
  <2>1. f[i] = f[i - 1] + s[i]
    BY <1>8
  <2>2. s[i] \in Nat
    BY <1>2
  <2> QED
    BY <1>9, <2>1, <2>2
<1>10. \A i \in 0..n : f[i] \in Nat
  <2> DEFINE N == Nat
  <2>1. n \in Nat /\ f[0] \in N /\ \A i \in 1..n : f[i - 1] \in N => f[i] \in N
    BY <1>2, <1>8, <1>9
  <2> HIDE DEF N
  <2>2. \A i \in 0..n : f[i] \in N
    BY <2>1, StaysIn
  <2> QED
    BY <2>2 DEF N
<1> QED
  BY <1>1, <1>2, <1>8, <1>10 DEF n

LEMMA TotalIsNat ==
  ASSUME NEW s \in Seq(Nat)
  PROVE  TotalOf(s) \in Nat
<1>1. Len(s) \in 0..Len(s)
  BY LenProperties
<1> QED
  BY <1>1, TotalIs

-----------------------------------------------------------------------------
(* Sequences *)

\* What is computed of a function of 1..n.
LEMMA ListedIs ==
  ASSUME NEW n \in Nat, NEW f, DOMAIN f = 1..n, f = [k \in DOMAIN f |-> f[k]]
  PROVE  Listed(f) = f /\ Len(f) = n /\ f \in Seq(Elements(f))
<1> DEFINE S == {f[k] : k \in 1..n}
<1>1. f \in [1..n -> S]
  OBVIOUS
<1> HIDE DEF S
<1>2. f \in Seq(S) /\ Len(f) = n
  BY <1>1
<1>3. S = Elements(f)
  BY <1>2 DEF Elements, S
<1>4. SubSeq(f, 1, Len(f)) = f
  BY <1>2, SubSeqFull
<1> QED
  BY <1>2, <1>3, <1>4 DEF Listed

\* Several sequences, one after the other, have what these have.
LEMMA ConcatIs ==
  ASSUME NEW X, NEW ss \in Seq(Seq(X))
  PROVE  Concat(ss) \in Seq(X)
<1> DEFINE n == Len(ss)
           S == Seq(X)
           next(g) == [i \in 0..n |-> IF i = 0 THEN <<>> ELSE g[i - 1] \o ss[i]]
           f == CHOOSE g : g = next(g)
           step == [i \in 1..n |-> [x \in S |-> x \o ss[i]]]
<1>1. Concat(ss) = f[n]
  BY DEF Concat
<1>2. n \in Nat /\ <<>> \in S /\ \A i \in 1..n : ss[i] \in S
  BY LenProperties, ElementOfSeq, EmptySeq
<1>3. \A i \in 1..n : \A x \in S : step[i][x] = x \o ss[i] /\ x \o ss[i] \in S
  BY <1>2, ConcatProperties
<1> HIDE DEF n, S
<1>4. PICK g \in [0..n -> S] : StepsFrom(g, <<>>, n, step)
  <2> HIDE DEF step, f, next
  <2>1. \A i \in 1..n : \A x \in S : step[i][x] \in S
    BY <1>3
  <2> QED
    BY <1>2, <2>1, Iterated
<1>5. ASSUME NEW i \in 1..n PROVE g[i] = g[i - 1] \o ss[i]
  <2>1. i - 1 \in 0..n /\ g[i - 1] \in S
    BY <1>2
  <2> HIDE DEF step, next
  <2> QED
    BY <1>3, <1>4, <2>1 DEF StepsFrom
<1>6. g = next(g)
  <2>1. ASSUME NEW i \in 0..n PROVE g[i] = next(g)[i]
    <3>1. CASE i = 0
      BY <3>1, <1>4 DEF StepsFrom
    <3>2. CASE i # 0
      <4>1. i \in 1..n
        BY <3>2, <1>2
      <4> QED
        BY <3>2, <4>1, <1>5, Zenon
    <3> QED
      BY <3>1, <3>2
  <2> DEFINE h == next(g)
  <2>2. h = [i \in 0..n |-> h[i]] /\ g = [i \in 0..n |-> g[i]]
    BY <1>4
  <2> HIDE DEF h
  <2> QED
    BY <2>1, <2>2 DEF h
<1>7. f = next(f)
  BY <1>6
<1> HIDE DEF f
<1>8. \A i \in 0..n : f[i] = IF i = 0 THEN <<>> ELSE f[i - 1] \o ss[i]
  BY <1>7, Zenon
<1> HIDE DEF next, step
<1>9. ASSUME NEW i \in 1..n, f[i - 1] \in S PROVE f[i] \in S
  <2>1. i \in 0..n /\ i # 0
    BY <1>2
  <2>2. f[i] = f[i - 1] \o ss[i]
    BY <1>8, <2>1, Zenon
  <2>3. f[i - 1] \o ss[i] \in S
    BY <1>3, <1>9
  <2> QED
    BY <2>2, <2>3
<1>10. f[0] \in S
  BY <1>2, <1>8
<1>11. \A i \in 0..n : f[i] \in S
  BY <1>2, <1>9, <1>10, StaysIn
<1> QED
  BY <1>1, <1>2, <1>11 DEF n, S

\* AtIndexes takes each of the indexes once, in their order: counts[i] of them are at
\* most i.
CountsIndexes(counts, t, s, n, I) ==
    /\ counts \in [0..n -> Nat] /\ counts[0] = 0 /\ counts[n] = Len(t)
    /\ \A i \in 1..n : counts[i] = counts[i - 1] + (IF i \in I THEN 1 ELSE 0)
    /\ \A i \in I : counts[i] \in 1..Len(t) /\ t[counts[i]] = s[i]
    /\ \A k \in 1..Len(t) : \E i \in I : counts[i] = k /\ t[k] = s[i]
    /\ \A i, j \in I : i < j => counts[i] < counts[j]

LEMMA IndexesCounted ==
  ASSUME NEW s, NEW n \in Nat, NEW I \in SUBSET (1..n)
  PROVE  /\ AtIndexes(s, I) \in Seq(Elements(AtIndexes(s, I)))
         /\ \E counts : CountsIndexes(counts, AtIndexes(s, I), s, n, I)
<1> DEFINE upTo(i) == {j \in I : j <= i}
           counts == [i \in 0..n |-> Cardinality(upTo(i))]
           N == Cardinality(I)
           at(k) == CHOOSE i \in I : Cardinality({j \in I : j <= i}) = k
           f == [k \in 1..N |-> s[at(k)]]
<1>0. I \subseteq Nat /\ \A i \in I : 1 <= i /\ i <= n
  OBVIOUS
<1>1. IsFiniteSet(I) /\ \A i \in 0..n : IsFiniteSet(upTo(i)) /\ Cardinality(upTo(i)) \in Nat
  <2>1. IsFiniteSet(I)
    <3>1. 1 \in Int /\ n \in Int
      OBVIOUS
    <3>2. IsFiniteSet(1..n)
      BY <3>1, FS_Interval
    <3> QED
      BY <3>2, FS_Subset
  <2>2. \A i \in 0..n : IsFiniteSet(upTo(i))
    BY <2>1, FS_Subset
  <2> QED
    BY <2>1, <2>2, FS_CardinalityType
<1>2. N \in Nat
  BY <1>1, FS_CardinalityType
<1>3. counts \in [0..n -> Nat]
  BY <1>1
<1>4. counts[0] = 0 /\ counts[n] = N
  <2>1. \A i \in I : ~(i <= 0)
    BY <1>0
  <2>2. upTo(0) = {} /\ upTo(n) = I
    BY <1>0, <2>1
  <2> HIDE DEF upTo
  <2> QED
    BY <2>2, FS_EmptySet
<1>5. ASSUME NEW i \in 1..n PROVE counts[i] = counts[i - 1] + (IF i \in I THEN 1 ELSE 0)
  <2>1. i - 1 \in 0..n /\ i \in 0..n /\ i \notin upTo(i - 1)
    OBVIOUS
  <2>2. upTo(i) = IF i \in I THEN upTo(i - 1) \cup {i} ELSE upTo(i - 1)
    <3>1. \A j \in I : j <= i <=> j <= i - 1 \/ j = i
      BY <1>0
    <3> QED
      BY <3>1
  <2>3. Cardinality(upTo(i - 1) \cup {i}) = Cardinality(upTo(i - 1)) + 1
    BY <1>1, <2>1, FS_AddElement
  <2>4. counts[i] = Cardinality(upTo(i)) /\ counts[i - 1] = Cardinality(upTo(i - 1))
    BY <2>1
  <2> HIDE DEF upTo, counts
  <2>5. Cardinality(upTo(i)) = Cardinality(upTo(i - 1)) + (IF i \in I THEN 1 ELSE 0)
    BY <1>1, <2>1, <2>2, <2>3
  <2> QED
    BY <2>4, <2>5
<1>6. ASSUME NEW i \in I, NEW j \in I, i < j PROVE counts[i] < counts[j]
  <2>1. i \in 0..n /\ j \in 0..n /\ j - 1 \in 0..n /\ j \in 1..n
    BY <1>6
  <2>2. upTo(i) \in SUBSET upTo(j - 1)
    <3>1. \A k \in I : k <= i => k <= j - 1
      BY <1>0, <1>6
    <3> QED
      BY <3>1
  <2>3. Cardinality(upTo(i)) <= Cardinality(upTo(j - 1))
    <3> HIDE DEF upTo
    <3> QED
      BY <1>1, <2>1, <2>2, FS_Subset
  <2>4. counts[j] = counts[j - 1] + 1
    BY <1>5, <2>1
  <2> HIDE DEF upTo
  <2> QED
    BY <1>1, <2>1, <2>3, <2>4
<1>7. ASSUME NEW i \in I PROVE at(counts[i]) = i
  <2>1. Cardinality({j \in I : j <= i}) = counts[i]
    OBVIOUS
  <2> DEFINE k == counts[i]
             a == at(k)
  <2>2. a \in I /\ Cardinality({j \in I : j <= a}) = k
    BY <2>1
  <2> HIDE DEF k, a
  <2>3. counts[a] = counts[i]
    <3>1. a \in 0..n /\ counts[a] = k
      BY <2>2, <1>0
    <3> QED
      BY <3>1 DEF k
  <2> HIDE DEF counts, at
  <2>4. a \in Nat /\ i \in Nat /\ counts[i] \in Nat
    BY <1>3, <2>2
  <2>5. ~(a < i) /\ ~(i < a)
    BY <1>6, <2>2, <2>3, <2>4
  <2>6. a = i
    BY <2>4, <2>5
  <2> QED
    BY <2>6 DEF a, k
<1>8. ASSUME NEW k \in 1..N PROVE \E i \in I : counts[i] = k
  <2> DEFINE T == {i \in 0..n : counts[i] >= k}
  <2>1. PICK i \in T : \A j \in T : i <= j
    <3>1. T \in SUBSET Nat /\ n \in T
      BY <1>2, <1>4
    <3> HIDE DEF T
    <3> QED
      BY <3>1, LeastOf
  <2> HIDE DEF counts, N
  <2>2. i \in 1..n /\ i - 1 \in 0..n /\ i - 1 < i
    <3>1. i # 0
      BY <1>4, <1>8, <2>1
    <3> QED
      BY <2>1, <3>1
  <2>3. counts[i - 1] \in Nat /\ counts[i] \in Nat /\ counts[i] >= k /\ counts[i - 1] < k
    <3>1. i - 1 \notin T
      <4> HIDE DEF T
      <4>1. ~(i <= i - 1)
        BY <2>2
      <4> QED
        BY <2>1, <4>1
    <3> QED
      BY <1>2, <1>3, <2>1, <2>2, <3>1
  <2>4. counts[i] = counts[i - 1] + (IF i \in I THEN 1 ELSE 0)
    BY <1>5, <2>2
  <2> HIDE DEF T
  <2>5. i \in I /\ counts[i] = k
    BY <1>2, <1>8, <2>3, <2>4
  <2> QED
    BY <2>5
<1>9. AtIndexes(s, I) = f /\ Len(f) = N /\ f \in Seq(Elements(f))
  <2>1. AtIndexes(s, I) = Listed(f)
    BY DEF AtIndexes
  <2>2. DOMAIN f = 1..N /\ f = [k \in DOMAIN f |-> f[k]]
    OBVIOUS
  <2> HIDE DEF f, N
  <2> QED
    BY <1>2, <2>1, <2>2, ListedIs
<1>10. ASSUME NEW i \in I PROVE counts[i] \in 1..N /\ f[counts[i]] = s[i]
  <2>1. counts[i] \in 1..N
    <3>1. upTo(i) \in SUBSET I /\ i \in upTo(i) /\ i \in 0..n
      OBVIOUS
    <3>2. Cardinality(upTo(i)) <= N /\ Cardinality(upTo(i)) # 0
      <4> HIDE DEF upTo
      <4> QED
        BY <1>1, <3>1, FS_Subset, FS_EmptySet
    <3> HIDE DEF upTo, N
    <3> QED
      BY <1>1, <1>2, <3>1, <3>2
  <2> HIDE DEF counts, at, N
  <2>2. f[counts[i]] = s[at(counts[i])]
    BY <2>1
  <2> QED
    BY <1>7, <2>1, <2>2
<1>11. ASSUME NEW k \in 1..N PROVE \E i \in I : counts[i] = k /\ f[k] = s[i]
  <2> HIDE DEF counts, f, N
  <2> QED
    BY <1>8, <1>10, <1>11
<1> HIDE DEF counts, f, N
<1>12. CountsIndexes(counts, f, s, n, I)
  BY <1>3, <1>4, <1>5, <1>6, <1>9, <1>10, <1>11 DEF CountsIndexes
<1> QED
  BY <1>9, <1>12

\* AtIndexes is the sequence at an increasing choice of the indexes.
PicksIndexes(at, t, s, I) ==
    /\ at \in [1..Len(t) -> I]
    /\ \A k \in 1..Len(t) : t[k] = s[at[k]]
    /\ \A j, k \in 1..Len(t) : j < k => at[j] < at[k]

LEMMA IndexesPicked ==
  ASSUME NEW s, NEW n \in Nat, NEW I \in SUBSET (1..n)
  PROVE  /\ AtIndexes(s, I) \in Seq(Elements(AtIndexes(s, I)))
         /\ Len(AtIndexes(s, I)) \in 0..n
         /\ \E at : PicksIndexes(at, AtIndexes(s, I), s, I)
<1> DEFINE t == AtIndexes(s, I)
           N == Len(t)
<1>1. t \in Seq(Elements(t))
  BY IndexesCounted
<1>0. PICK counts : CountsIndexes(counts, t, s, n, I)
  BY IndexesCounted
<1> HIDE DEF t
<1>2. N \in Nat
  BY <1>1, LenProperties
<1> HIDE DEF N
<1> DEFINE at == [k \in 1..N |-> CHOOSE i \in I : counts[i] = k /\ t[k] = s[i]]
<1>3. \A k \in 1..N : at[k] \in I /\ counts[at[k]] = k /\ t[k] = s[at[k]]
  BY <1>0 DEF CountsIndexes, N
<1>4. at \in [1..N -> I]
  BY <1>3
<1> HIDE DEF at
<1>5. ASSUME NEW j \in 1..N, NEW k \in 1..N, j < k PROVE at[j] < at[k]
  <2>1. at[j] \in 1..n /\ at[k] \in 1..n
    BY <1>3
  <2>2. ~(at[k] < at[j]) /\ at[k] # at[j]
    <3>1. counts[at[j]] = j /\ counts[at[k]] = k /\ j \in Nat /\ k \in Nat
      BY <1>2, <1>3
    <3>2. at[k] < at[j] => counts[at[k]] < counts[at[j]]
      BY <1>0, <1>3 DEF CountsIndexes
    <3> QED
      BY <1>5, <3>1, <3>2
  <2> QED
    BY <2>1, <2>2
<1>6. N <= n
  <2>1. IsFiniteSet(1..n) /\ Cardinality(1..n) = n /\ IsFiniteSet(1..N) /\ Cardinality(1..N) = N
    <3>1. 1 \in Int /\ n \in Int /\ N \in Int
      BY <1>2
    <3> QED
      BY <1>2, <3>1, FS_Interval
  <2>2. at \in Injection(1..N, 1..n)
    <3>1. at \in [1..N -> 1..n]
      BY <1>4
    <3>2. \A j, k \in 1..N : at[j] = at[k] => j = k
      BY <1>3
    <3> QED
      BY <3>1, <3>2 DEF Injection, IsInjective
  <2> QED
    BY <2>1, <2>2, FS_Injection
<1>7. PicksIndexes(at, t, s, I)
  BY <1>3, <1>4, <1>5 DEF PicksIndexes, N
<1> QED
  BY <1>1, <1>2, <1>6, <1>7 DEF t, N

\* What is taken at some indexes is of the sequence.
LEMMA PickedAreElements ==
  ASSUME NEW X, NEW s \in Seq(X), NEW I \in SUBSET (1..Len(s))
  PROVE  AtIndexes(s, I) \in Seq(X) /\ Len(AtIndexes(s, I)) \in 0..Len(s)
<1> DEFINE n == Len(s)
           t == AtIndexes(s, I)
<1>1. n \in Nat /\ \A i \in I : s[i] \in X
  BY LenProperties, ElementOfSeq
<1>2. I \in SUBSET (1..n)
  OBVIOUS
<1> HIDE DEF n
<1>3. t \in Seq(Elements(t)) /\ Len(t) \in 0..n /\ \E at : PicksIndexes(at, t, s, I)
  BY <1>1, <1>2, IndexesPicked
<1> HIDE DEF t
<1>4. Elements(t) \subseteq X
  <2>1. PICK at : PicksIndexes(at, t, s, I)
    BY <1>3
  <2>2. ASSUME NEW k \in 1..Len(t) PROVE t[k] \in X
    <3>1. at[k] \in I /\ t[k] = s[at[k]]
      BY <2>1 DEF PicksIndexes
    <3> QED
      BY <1>1, <3>1
  <2> QED
    BY <2>2 DEF Elements
<1>5. t \in Seq(X)
  BY <1>3, <1>4, SeqMonotonic
<1> QED
  BY <1>3, <1>5 DEF t, n

\* The first of a sequence are of it.
LEMMA PrefixIs ==
  ASSUME NEW X, NEW s \in Seq(X), NEW n \in Nat
  PROVE  /\ Prefix(s, n) \in Seq(X) /\ Len(Prefix(s, n)) \in 0..n
         /\ Len(Prefix(s, n)) <= Len(s)
         /\ \A i \in 1..Len(Prefix(s, n)) : Prefix(s, n)[i] = s[i]
<1> DEFINE m == IF Len(s) < n THEN Len(s) ELSE n
<1>1. Len(s) \in Nat /\ m \in 0..n /\ m <= Len(s)
  BY LenProperties
<1>2. Prefix(s, n) = SubSeq(s, 1, m)
  BY DEF Prefix
<1> HIDE DEF m
<1>3. /\ SubSeq(s, 1, m) \in Seq(X) /\ Len(SubSeq(s, 1, m)) = m
      /\ \A i \in 1..m : SubSeq(s, 1, m)[i] = s[i]
  <2>1. \A i \in 1..m : s[i] \in X
    BY <1>1, ElementOfSeq
  <2> QED
    BY <1>1, <2>1, SubSeqProperties
<1> QED
  BY <1>1, <1>2, <1>3

\* A sort by numbers neither loses nor invents: every place is taken by one.
LEMMA SortedIs ==
  ASSUME NEW X, NEW s \in Seq(X), NEW keys, DOMAIN keys = 1..Len(s),
         keys = [i \in DOMAIN keys |-> keys[i]], \A i \in 1..Len(s) : keys[i] \in Int
  PROVE  SortedBy(s, keys) \in Seq(X) /\ Len(SortedBy(s, keys)) = Len(s)
<1> DEFINE n == Len(s)
           before(i, j) == keys[i] < keys[j] \/ (keys[i] = keys[j] /\ i < j)
           earlier(i) == {j \in 1..n : before(j, i)}
           place == [i \in 1..n |-> 1 + Cardinality(earlier(i))]
           f == [k \in 1..n |-> s[CHOOSE i \in 1..n : place[i] = k]]
<1>1. n \in Nat /\ \A i \in 1..n : s[i] \in X
  BY LenProperties, ElementOfSeq
<1>2. Listed(keys) = keys
  BY <1>1, ListedIs
<1>3. \A i \in 1..n : keys[i] \in Int
  OBVIOUS
<1>4. SortedBy(s, keys) = Listed([k \in 1..n |-> s[CHOOSE i \in 1..n : Listed(place)[i] = k]])
  BY <1>2 DEF SortedBy
<1> HIDE DEF n
<1>5. IsFiniteSet(1..n) /\ Cardinality(1..n) = n
  <2> HIDE DEF place, f, earlier, before
  <2>1. 1 \in Int /\ n \in Int
    BY <1>1
  <2>2. IsFiniteSet(1..n) /\ Cardinality(1..n) = IF 1 > n THEN 0 ELSE n - 1 + 1
    BY <2>1, FS_Interval
  <2> QED
    BY <1>1, <2>2
<1>6. \A i \in 1..n : IsFiniteSet(earlier(i)) /\ Cardinality(earlier(i)) \in Nat
  <2>1. \A i \in 1..n : earlier(i) \in SUBSET (1..n)
    OBVIOUS
  <2> HIDE DEF earlier
  <2> QED
    BY <1>5, <2>1, FS_Subset, FS_CardinalityType
<1>7. Listed(place) = place
  <2>1. DOMAIN place = 1..n /\ place = [k \in DOMAIN place |-> place[k]]
    OBVIOUS
  <2> HIDE DEF place
  <2> QED
    BY <1>1, <2>1, ListedIs
<1>8. ASSUME NEW i \in 1..n, NEW j \in 1..n, before(i, j) PROVE place[i] < place[j]
  <2>1. earlier(i) \cup {i} \in SUBSET earlier(j) /\ i \notin earlier(i)
    <3>1. i \in Nat /\ j \in Nat /\ keys[i] \in Int /\ keys[j] \in Int
      BY <1>1, <1>3
    <3>2. ~before(i, i)
      BY <3>1
    <3>3. ASSUME NEW k \in 1..n, before(k, i) PROVE before(k, j)
      <4>1. k \in Nat /\ keys[k] \in Int
        BY <1>1, <1>3
      <4> QED
        BY <1>8, <3>1, <3>3, <4>1
    <3> HIDE DEF before
    <3> QED
      BY <1>8, <3>2, <3>3
  <2> HIDE DEF earlier
  <2>2. /\ Cardinality(earlier(i) \cup {i}) = Cardinality(earlier(i)) + 1
        /\ Cardinality(earlier(i) \cup {i}) <= Cardinality(earlier(j))
    BY <1>6, <2>1, FS_AddElement, FS_Subset
  <2>3. Cardinality(earlier(i)) < Cardinality(earlier(j))
    BY <1>6, <2>2
  <2> QED
    BY <1>6, <2>3
<1>9. ASSUME NEW i \in 1..n, NEW j \in 1..n, i # j PROVE place[i] # place[j]
  <2>1. before(i, j) \/ before(j, i)
    <3>1. i \in Nat /\ j \in Nat /\ keys[i] \in Int /\ keys[j] \in Int
      BY <1>1, <1>3
    <3> QED
      BY <1>9, <3>1
  <2>2. place[i] \in Nat /\ place[j] \in Nat
    <3> HIDE DEF earlier
    <3> QED
      BY <1>6
  <2>3. place[i] < place[j] \/ place[j] < place[i]
    <3> HIDE DEF before, place
    <3> QED
      BY <1>8, <2>1
  <2> HIDE DEF place
  <2> QED
    BY <2>2, <2>3
<1>10. ASSUME NEW i \in 1..n PROVE place[i] \in 1..n
  <2>1. earlier(i) \in SUBSET ((1..n) \ {i})
    <3>1. ~before(i, i)
      BY <1>1, <1>3
    <3> QED
      BY <3>1
  <2>2. IsFiniteSet((1..n) \ {i}) /\ Cardinality((1..n) \ {i}) = n - 1
    BY <1>5, FS_RemoveElement
  <2> HIDE DEF earlier
  <2>3. Cardinality(earlier(i)) <= n - 1
    BY <2>1, <2>2, FS_Subset
  <2> QED
    BY <1>1, <1>6, <2>3
<1>11. ASSUME NEW k \in 1..n PROVE \E i \in 1..n : place[i] = k
  <2>1. place \in Injection(1..n, 1..n)
    <3>1. place \in [1..n -> 1..n]
      BY <1>10
    <3> HIDE DEF place
    <3> QED
      BY <1>9, <3>1 DEF Injection, IsInjective
  <2> HIDE DEF place
  <2>2. place \in Surjection(1..n, 1..n)
    BY <1>5, <2>1, FS_Injection
  <2> QED
    BY <2>2 DEF Surjection
<1>12. f \in [1..n -> X]
  <2>1. ASSUME NEW k \in 1..n PROVE f[k] \in X
    <3> DEFINE i == CHOOSE i \in 1..n : place[i] = k
    <3>1. i \in 1..n
      <4> HIDE DEF place
      <4> QED
        BY <1>11
    <3>2. f[k] = s[i]
      OBVIOUS
    <3> HIDE DEF i, f
    <3> QED
      BY <1>1, <3>1, <3>2
  <2> HIDE DEF place
  <2> QED
    BY <2>1
<1>13. SortedBy(s, keys) = Listed(f)
  <2> DEFINE p == Listed(place)
  <2>1. SortedBy(s, keys) = Listed([k \in 1..n |-> s[CHOOSE i \in 1..n : p[i] = k]]) /\ p = place
    BY <1>4, <1>7
  <2> HIDE DEF place, p
  <2> QED
    BY <2>1
<1> HIDE DEF f
<1>14. Listed(f) = f
  <2>1. DOMAIN f = 1..n /\ f = [k \in DOMAIN f |-> f[k]]
    BY <1>12
  <2> QED
    BY <1>1, <2>1, ListedIs
<1>15. f \in Seq(X) /\ Len(f) = n
  BY <1>1, <1>12
<1> QED
  BY <1>13, <1>14, <1>15 DEF n

-----------------------------------------------------------------------------
(* At most two of an article *)

\* No three of the numbers from a to b are the indexes of passages of one article.
NoThree(s, a, b) ==
    \A i, j, k \in a..b : i < j /\ j < k => ~(s[i].path = s[j].path /\ s[j].path = s[k].path)

\* A set of numbers that has no three has at most two.
LEMMA AtMostTwo ==
  ASSUME NEW S \in SUBSET Nat, \A i, j, k \in S : ~(i < j /\ j < k)
  PROVE  Cardinality(S) <= 2
<1>1. CASE S = {}
  BY <1>1, FS_EmptySet
<1>2. CASE S # {}
  <2>1. PICK x \in S : \A y \in S : x <= y
    BY <1>2, LeastOf
  <2>2. CASE S = {x}
    BY <2>2, FS_Singleton
  <2>3. CASE S # {x}
    <3>1. PICK y \in S \ {x} : \A z \in S \ {x} : y <= z
      <4>1. S \ {x} # {} /\ S \ {x} \in SUBSET Nat
        BY <2>1, <2>3
      <4> QED
        BY <4>1, LeastOf
    <3>2. S = {x} \cup {y}
      <4>1. x < y
        BY <2>1, <3>1
      <4>2. ASSUME NEW z \in S, z # x, z # y PROVE FALSE
        <5>1. y < z
          BY <3>1, <4>2
        <5> QED
          BY <4>1, <5>1, <2>1, <3>1
      <4> QED
        BY <2>1, <3>1, <4>2
    <3>3. IsFiniteSet({x}) /\ Cardinality({x}) = 1
      BY FS_Singleton
    <3>4. Cardinality({x} \cup {y}) = 1 + 1
      BY <3>1, <3>3, FS_AddElement
    <3> QED
      BY <3>2, <3>4
  <2> QED
    BY <2>2, <2>3
<1> QED
  BY <1>1, <1>2

\* What is taken of a sequence has no three where the sequence has none.
LEMMA PickedHaveNoThree ==
  ASSUME NEW X, NEW s \in Seq(X), NEW I \in SUBSET (1..Len(s)),
         \A i, j, k \in I : i < j /\ j < k => ~(s[i].path = s[j].path /\ s[j].path = s[k].path)
  PROVE  NoThree(AtIndexes(s, I), 1, Len(AtIndexes(s, I)))
<1> DEFINE n == Len(s)
           t == AtIndexes(s, I)
<1>1. n \in Nat /\ I \in SUBSET (1..n)
  BY LenProperties
<1> HIDE DEF n
<1>2. PICK at : PicksIndexes(at, t, s, I)
  BY <1>1, IndexesPicked
<1> HIDE DEF t
<1>3. ASSUME NEW i \in 1..Len(t), NEW j \in 1..Len(t), NEW k \in 1..Len(t), i < j, j < k
      PROVE ~(t[i].path = t[j].path /\ t[j].path = t[k].path)
  <2>1. /\ at[i] \in I /\ at[j] \in I /\ at[k] \in I /\ at[i] < at[j] /\ at[j] < at[k]
        /\ t[i] = s[at[i]] /\ t[j] = s[at[j]] /\ t[k] = s[at[k]]
    BY <1>2, <1>3 DEF PicksIndexes
  <2> QED
    BY <2>1
<1> QED
  BY <1>3 DEF NoThree, t

\* cap_per_article leaves at most two passages of an article.
LEMMA CappedHasNoThree ==
  ASSUME NEW X, NEW s \in Seq(X)
  PROVE  /\ CapPerArticle(s, 2) \in Seq(X)
         /\ NoThree(CapPerArticle(s, 2), 1, Len(CapPerArticle(s, 2)))
<1> DEFINE n == Len(s)
           before(i) == {j \in 1..(i - 1) : s[j].path = s[i].path}
           I == {i \in 1..n : Cardinality(before(i)) < 2}
<1>1. DOMAIN s = 1..n /\ n \in Nat
  BY LenProperties
<1>2. CapPerArticle(s, 2) = AtIndexes(s, I)
  BY <1>1 DEF CapPerArticle
<1>3. I \in SUBSET (1..Len(s))
  OBVIOUS
<1> HIDE DEF n
<1>4. ASSUME NEW i \in I, NEW j \in I, NEW k \in I, i < j, j < k,
             s[i].path = s[j].path, s[j].path = s[k].path
      PROVE FALSE
  <2>1. i \in Nat /\ j \in Nat /\ k \in Nat /\ 1 <= i /\ 1 <= j /\ k - 1 \in Nat
    BY <1>1
  <2>2. i \in before(k) /\ j \in before(k) /\ before(k) \in SUBSET (1..(k - 1))
    BY <1>4, <2>1
  <2>3. IsFiniteSet(before(k)) /\ Cardinality(before(k)) \in Nat /\ Cardinality(before(k)) < 2
    <3>1. IsFiniteSet(1..(k - 1))
      BY <2>1, FS_Interval
    <3>2. Cardinality(before(k)) < 2
      BY <1>4
    <3> HIDE DEF before, I
    <3> QED
      BY <2>2, <3>1, <3>2, FS_Subset, FS_CardinalityType
  <2> HIDE DEF before, I
  <2>4. Cardinality({i} \cup {j}) = 2
    <3>1. IsFiniteSet({i}) /\ Cardinality({i}) = 1
      BY FS_Singleton
    <3>2. j \notin {i}
      BY <1>4, <2>1
    <3>3. Cardinality({i} \cup {j}) = Cardinality({i}) + 1
      BY <3>1, <3>2, FS_AddElement
    <3> DEFINE one == Cardinality({i})
               both == Cardinality({i} \cup {j})
    <3>4. one = 1 /\ both = one + 1
      BY <3>1, <3>3
    <3> HIDE DEF one, both
    <3>5. both = 2
      BY <3>4
    <3> QED
      BY <3>5 DEF both
  <2>5. Cardinality({i} \cup {j}) <= Cardinality(before(k))
    BY <2>2, <2>3, FS_Subset
  <2> DEFINE both == Cardinality({i} \cup {j})
             all == Cardinality(before(k))
  <2>6. both = 2 /\ both <= all /\ all \in Nat /\ all < 2
    BY <2>3, <2>4, <2>5
  <2> HIDE DEF both, all
  <2> QED
    BY <2>6
<1> HIDE DEF I
<1>5. NoThree(AtIndexes(s, I), 1, Len(AtIndexes(s, I)))
  BY <1>3, <1>4, PickedHaveNoThree
<1>6. AtIndexes(s, I) \in Seq(X)
  BY <1>3, PickedAreElements
<1> QED
  BY <1>2, <1>5, <1>6

\* The cutoff leaves no more than so many, of what it is given.
LEMMA CutoffLeaves ==
  ASSUME NEW X, NEW s \in Seq(X), NoThree(s, 1, Len(s)), NEW own, NEW top2, NEW quantity
  PROVE  LET t == RelevanceCutoff(s, own, top2, 6, quantity) IN
         t \in Seq(X) /\ Len(t) <= 6 /\ NoThree(t, 1, Len(t))
<1> DEFINE relevant(p) ==
               /\ 4 * p.score >= s[1].score
               /\ own \cap p.text # {} \/ (quantity /\ p.infobox /\ p.path \in top2)
           I == {i \in DOMAIN s : relevant(s[i])}
           u == AtIndexes(s, I)
           kept == Prefix(u, 6)
           t == RelevanceCutoff(s, own, top2, 6, quantity)
<1>1. t = IF s = <<>> THEN <<>> ELSE IF kept = <<>> THEN <<s[1]>> ELSE kept
  BY DEF RelevanceCutoff
<1>2. I \in SUBSET (1..Len(s))
  BY LenProperties
<1> HIDE DEF t, I
<1>3. u \in Seq(X) /\ NoThree(u, 1, Len(u))
  <2>1. \A i, j, k \in I : i < j /\ j < k => ~(s[i].path = s[j].path /\ s[j].path = s[k].path)
    BY <1>2 DEF NoThree
  <2> QED
    BY <1>2, <2>1, PickedAreElements, PickedHaveNoThree
<1> HIDE DEF u
<1>4. kept \in Seq(X) /\ Len(kept) <= 6 /\ NoThree(kept, 1, Len(kept))
  <2>1. /\ kept \in Seq(X) /\ Len(kept) \in 0..6 /\ Len(kept) <= Len(u)
        /\ \A i \in 1..Len(kept) : kept[i] = u[i]
    BY <1>3, PrefixIs
  <2>2. Len(u) \in Nat
    BY <1>3, LenProperties
  <2> HIDE DEF kept
  <2>3. \A i \in 1..Len(kept) : i \in 1..Len(u) /\ kept[i] = u[i]
    BY <2>1, <2>2
  <2>4. NoThree(kept, 1, Len(kept))
    BY <1>3, <2>3 DEF NoThree
  <2> DEFINE m == Len(kept)
  <2>5. m \in 0..6
    BY <2>1
  <2> HIDE DEF m
  <2>6. m <= 6
    BY <2>5
  <2> QED
    BY <2>1, <2>4, <2>6 DEF m
<1> HIDE DEF kept
<1> SUFFICES t \in Seq(X) /\ Len(t) <= 6 /\ NoThree(t, 1, Len(t))
  BY DEF t
<1>5. CASE s = <<>>
  <2>1. <<>> \in Seq(X) /\ Len(<<>>) = 0 /\ NoThree(<<>>, 1, 0)
    BY EmptySeq DEF NoThree
  <2> QED
    BY <1>1, <1>5, <2>1
<1>6. CASE s # <<>> /\ kept = <<>>
  <2>1. s[1] \in X
    <3>1. Len(s) \in Nat \ {0}
      BY <1>6, EmptySeq
    <3> QED
      BY <3>1, ElementOfSeq
  <2> DEFINE first == <<s[1]>>
  <2>2. first \in Seq(X) /\ Len(first) = 1
    BY <2>1
  <2> HIDE DEF first
  <2>3. NoThree(first, 1, 1)
    BY DEF NoThree
  <2>4. t = first
    BY <1>1, <1>6, Zenon DEF first
  <2>5. Len(first) <= 6 /\ NoThree(first, 1, Len(first))
    BY <2>2, <2>3
  <2> QED
    BY <2>2, <2>4, <2>5, Zenon
<1>7. CASE s # <<>> /\ kept # <<>>
  <2>1. t = kept
    BY <1>1, <1>7, Zenon
  <2> QED
    BY <1>4, <2>1, Zenon
<1> QED
  BY <1>5, <1>6, <1>7

-----------------------------------------------------------------------------
(* The budget *)

\* What grows by at most one a step.
LEMMA GrowsSlowly ==
  ASSUME NEW n \in Nat, NEW I, NEW c \in [0..n -> Nat],
         \A i \in 1..n : c[i] = c[i - 1] + (IF i \in I THEN 1 ELSE 0)
  PROVE  \A i, j \in 0..n : i <= j => c[i] <= c[j] /\ c[j] <= c[i] + (j - i)
<1> SUFFICES ASSUME NEW i \in 0..n
             PROVE  \A j \in 0..n : i <= j => c[i] <= c[j] /\ c[j] <= c[i] + (j - i)
  OBVIOUS
<1> DEFINE T == {j \in 0..n : i <= j /\ ~(c[i] <= c[j] /\ c[j] <= c[i] + (j - i))}
<1>1. T = {}
  <2> SUFFICES ASSUME T # {} PROVE FALSE
    OBVIOUS
  <2>1. PICK m \in T : \A k \in T : m <= k
    <3>1. T \in SUBSET Nat
      OBVIOUS
    <3> HIDE DEF T
    <3> QED
      BY <3>1, LeastOf
  <2>2. c[i] \in Nat
    OBVIOUS
  <2>3. m \in 1..n /\ m - 1 \in 0..n /\ i <= m - 1
    <3>1. m # i
      BY <2>1, <2>2
    <3> QED
      BY <2>1, <3>1
  <2>4. m - 1 \notin T
    <3>1. ~(m <= m - 1)
      BY <2>3
    <3> HIDE DEF T
    <3> QED
      BY <2>1, <3>1
  <2>5. c[i] <= c[m - 1] /\ c[m - 1] <= c[i] + (m - 1 - i)
    BY <2>3, <2>4
  <2>6. c[m - 1] \in Nat /\ c[m] \in Nat /\ c[m - 1] <= c[m] /\ c[m] <= c[m - 1] + 1
    <3>1. c[m - 1] \in Nat /\ c[m] \in Nat /\ c[m] = c[m - 1] + (IF m \in I THEN 1 ELSE 0)
      BY <2>3
    <3> DEFINE y == c[m - 1]
    <3>2. y \in Nat /\ (c[m] = y \/ c[m] = y + 1)
      BY <3>1
    <3> HIDE DEF y, T
    <3>3. y <= c[m] /\ c[m] <= y + 1
      BY <3>2
    <3> QED
      BY <3>1, <3>3 DEF y
  <2>7. c[i] <= c[m] /\ c[m] <= c[i] + (m - i)
    <3> DEFINE x == c[i]
               y == c[m - 1]
               z == c[m]
    <3>1. /\ x \in Nat /\ y \in Nat /\ z \in Nat /\ m \in Nat /\ i \in Nat
          /\ x <= y /\ y <= x + (m - 1 - i) /\ y <= z /\ z <= y + 1
      BY <2>2, <2>3, <2>5, <2>6
    <3> HIDE DEF x, y, z, T
    <3>2. x <= z /\ z <= x + (m - i)
      BY <3>1
    <3> QED
      BY <3>2 DEF x, z
  <2> QED
    BY <2>1, <2>7
<1> QED
  BY <1>1

\* pack: some of the passages, which together fit the budget.
Costs(given) == [i \in 1..Len(given) |-> given[i].tokens]

LEMMA PackFits ==
  ASSUME NEW budget \in Nat, NEW X, NEW s \in Seq(X), \A p \in X : p.tokens \in Nat
  PROVE  /\ TotalOf(Costs(Pack(s, budget))) <= budget
         /\ \E I \in SUBSET (1..Len(s)) : Pack(s, budget) = AtIndexes(s, I)
<1> DEFINE n == Len(s)
           next(g) == [i \in 0..n |->
               IF i = 0 THEN budget
               ELSE LET before == g[i - 1] IN
                    IF before >= s[i].tokens THEN before - s[i].tokens ELSE before]
           f == CHOOSE g : g = next(g)
           I == {i \in DOMAIN s : f[i - 1] >= s[i].tokens}
           t == Pack(s, budget)
           cost == [i \in 1..n |-> s[i].tokens]
           step == [i \in 1..n |-> [x \in Nat |-> IF x >= cost[i] THEN x - cost[i] ELSE x]]
<1>1. t = AtIndexes(s, I)
  BY DEF Pack
<1>2. n \in Nat /\ DOMAIN s = 1..n /\ \A i \in 1..n : cost[i] \in Nat /\ s[i].tokens = cost[i]
  BY LenProperties, ElementOfSeq
<1>3. I \in SUBSET (1..n)
  BY <1>2
<1> HIDE DEF n, cost, t
<1>4. \A i \in 1..n : \A x \in Nat :
         step[i][x] = (IF x >= cost[i] THEN x - cost[i] ELSE x) /\ step[i][x] \in Nat
  BY <1>2
<1>5. PICK g \in [0..n -> Nat] : StepsFrom(g, budget, n, step)
  <2> HIDE DEF step, f, next
  <2> QED
    BY <1>2, <1>4, Iterated
<1>6. ASSUME NEW i \in 1..n
      PROVE g[i] = IF g[i - 1] >= s[i].tokens THEN g[i - 1] - s[i].tokens ELSE g[i - 1]
  <2>1. i - 1 \in 0..n /\ g[i - 1] \in Nat
    BY <1>2
  <2> HIDE DEF step, next, f, I
  <2>2. g[i] = step[i][g[i - 1]]
    BY <1>5 DEF StepsFrom
  <2> QED
    BY <1>2, <1>4, <2>1, <2>2
<1>7. g = next(g)
  BY <1>2, <1>5, <1>6 DEF StepsFrom
<1>8. f = next(f)
  BY <1>7
<1> HIDE DEF f
<1>9. f[0] = budget /\ \A i \in 1..n :
         f[i] = IF f[i - 1] >= cost[i] THEN f[i - 1] - cost[i] ELSE f[i - 1]
  <2>1. \A i \in 0..n : f[i] = IF i = 0 THEN budget
            ELSE IF f[i - 1] >= s[i].tokens THEN f[i - 1] - s[i].tokens ELSE f[i - 1]
    BY <1>8
  <2> QED
    BY <1>2, <2>1
<1> HIDE DEF next, step
<1>10. \A i \in 0..n : f[i] \in Nat
  <2> DEFINE N == Nat
  <2>1. ASSUME NEW i \in 1..n, f[i - 1] \in Nat PROVE f[i] \in Nat
    <3>1. f[i] = IF f[i - 1] >= cost[i] THEN f[i - 1] - cost[i] ELSE f[i - 1]
      BY <1>9
    <3>2. cost[i] \in Nat
      BY <1>2
    <3> QED
      BY <2>1, <3>1, <3>2
  <2>2. n \in Nat /\ f[0] \in N /\ \A i \in 1..n : f[i - 1] \in N => f[i] \in N
    BY <1>2, <1>9, <2>1
  <2> HIDE DEF N
  <2>3. \A i \in 0..n : f[i] \in N
    BY <2>2, StaysIn
  <2> QED
    BY <2>3 DEF N
<1>11. \A i \in 1..n : i \in I <=> f[i - 1] >= cost[i]
  BY <1>2
<1> HIDE DEF I
<1>12. PICK c : CountsIndexes(c, t, s, n, I)
  BY <1>1, <1>2, <1>3, IndexesCounted
<1> DEFINE u == [i \in 1..Len(t) |-> t[i].tokens]
<1>13. u \in Seq(Nat) /\ Len(u) = Len(t) /\ Len(t) \in Nat
  <2>1. t \in Seq(X)
    BY <1>1, <1>3, PickedAreElements DEF n
  <2>2. Len(t) \in Nat /\ \A i \in 1..Len(t) : t[i].tokens \in Nat
    BY <2>1, LenProperties, ElementOfSeq
  <2> QED
    BY <2>2
<1>14. \A i \in 1..Len(t) : u[i] = t[i].tokens
  OBVIOUS
<1> HIDE DEF u
<1>15. PICK F : /\ F[0] = 0
                /\ \A k \in 1..Len(u) : F[k] = F[k - 1] + u[k]
                /\ \A k \in 0..Len(u) : F[k] \in Nat
                /\ TotalOf(u) = F[Len(u)]
  BY <1>13, TotalIs
<1>16. c \in [0..n -> Nat] /\ c[0] = 0 /\ c[n] = Len(t) /\ \A i \in 0..n : c[i] <= Len(t)
  <2>1. /\ c \in [0..n -> Nat] /\ c[0] = 0 /\ c[n] = Len(t)
        /\ \A i \in 1..n : c[i] = c[i - 1] + (IF i \in I THEN 1 ELSE 0)
    BY <1>12 DEF CountsIndexes
  <2>2. \A i, j \in 0..n : i <= j => c[i] <= c[j] /\ c[j] <= c[i] + (j - i)
    BY <1>2, <2>1, GrowsSlowly
  <2>3. ASSUME NEW i \in 0..n PROVE c[i] <= c[n]
    <3>1. n \in 0..n /\ i <= n
      BY <1>2
    <3> QED
      BY <2>2, <3>1
  <2> QED
    BY <2>1, <2>3
<1> DEFINE h == [i \in 0..n |-> f[i] + F[c[i]]]
<1>17. ASSUME NEW i \in 1..n, h[i - 1] \in {budget} PROVE h[i] \in {budget}
  <2>1. i - 1 \in 0..n /\ i \in 0..n
    BY <1>2
  <2>2. f[i - 1] + F[c[i - 1]] = budget
    BY <1>17, <2>1
  <2>3. /\ f[i - 1] \in Nat /\ f[i] \in Nat /\ c[i - 1] \in Nat /\ c[i] \in Nat
        /\ c[i - 1] \in 0..Len(u) /\ F[c[i - 1]] \in Nat
    <3>1. f[i - 1] \in Nat /\ f[i] \in Nat
      BY <1>10, <2>1
    <3>2. c[i - 1] \in Nat /\ c[i] \in Nat /\ c[i - 1] <= Len(t)
      BY <1>16, <2>1
    <3>3. c[i - 1] \in 0..Len(u)
      BY <1>13, <3>2
    <3>4. F[c[i - 1]] \in Nat
      BY <1>15, <3>3
    <3> QED
      BY <3>1, <3>2, <3>3, <3>4
  <2>4. f[i] + F[c[i]] = budget
    <3>1. CASE i \in I
      <4>1. c[i] = c[i - 1] + 1 /\ c[i] \in 1..Len(t) /\ t[c[i]] = s[i]
        BY <1>12, <3>1 DEF CountsIndexes
      <4>2. F[c[i]] = F[c[i - 1]] + cost[i]
        <5>1. F[c[i]] = F[c[i] - 1] + u[c[i]]
          BY <1>13, <1>15, <4>1
        <5>2. u[c[i]] = cost[i]
          BY <1>2, <1>14, <4>1
        <5>3. c[i] - 1 = c[i - 1]
          BY <2>3, <4>1
        <5> QED
          BY <5>1, <5>2, <5>3
      <4>3. f[i] = f[i - 1] - cost[i] /\ cost[i] \in Nat
        BY <1>2, <1>9, <1>11, <3>1
      <4> QED
        BY <2>2, <2>3, <4>2, <4>3
    <3>2. CASE i \notin I
      <4>1. c[i] = c[i - 1]
        BY <1>12, <2>3, <3>2 DEF CountsIndexes
      <4>2. f[i] = f[i - 1]
        BY <1>9, <1>11, <3>2
      <4> QED
        BY <2>2, <4>1, <4>2
    <3> QED
      BY <3>1, <3>2
  <2> QED
    BY <2>1, <2>4
<1>18. h[0] \in {budget}
  BY <1>2, <1>9, <1>15, <1>16
<1>19. h[n] = budget
  <2> HIDE DEF h
  <2> DEFINE S == {budget}
  <2>1. n \in Nat /\ h[0] \in S /\ \A i \in 1..n : h[i - 1] \in S => h[i] \in S
    BY <1>2, <1>17, <1>18
  <2> HIDE DEF S
  <2>2. \A i \in 0..n : h[i] \in S
    BY <2>1, StaysIn
  <2> QED
    BY <1>2, <2>2 DEF S
<1>20. TotalOf(u) <= budget
  <2>1. f[n] + F[Len(t)] = budget /\ f[n] \in Nat /\ F[Len(t)] \in Nat
    BY <1>2, <1>10, <1>13, <1>15, <1>16, <1>19
  <2>2. TotalOf(u) = F[Len(t)]
    BY <1>13, <1>15
  <2> QED
    BY <2>1, <2>2
<1> QED
  BY <1>1, <1>3, <1>20 DEF t, u, n, Costs

\* What ResponseBounded says of the passages of one response.
Bounded(given) ==
    /\ TotalOf([i \in 1..Len(given) |-> given[i].tokens]) <= Budget
    /\ \E n \in 0..2 :
          /\ n <= Len(given) /\ Len(given) <= n + 6
          /\ \A i \in 1..n : given[i].score = FactScore
          /\ \A i \in (n + 1)..Len(given) :
                Cardinality({j \in (n + 1)..Len(given) : given[j].path = given[i].path}) <= 2

\* Nothing is within every bound.
LEMMA NothingIsBounded == Bounded(<<>>)
<1> DEFINE u == [i \in 1..Len(<<>>) |-> <<>>[i].tokens]
<1>1. Len(<<>>) = 0
  OBVIOUS
<1>2. u \in Seq(Nat) /\ Len(u) = 0
  BY <1>1
<1> HIDE DEF u
<1>3. TotalOf(u) = 0
  BY <1>2, TotalIs
<1>4. 0 <= Budget
  BY ResearchQueryAssumption
<1> QED
  BY <1>1, <1>3, <1>4 DEF Bounded, u

\* Two facts and six passages, no three of an article, stay within the bounds when
\* they are packed.
LEMMA PackedIsBounded ==
  ASSUME NEW X, NEW facts \in Seq(X), NEW chosen \in Seq(X),
         \A p \in X : p.tokens \in Nat,
         Len(facts) <= 2, \A i \in 1..Len(facts) : facts[i].score = FactScore,
         Len(chosen) <= 6, NoThree(chosen, 1, Len(chosen))
  PROVE  Bounded(Pack(facts \o chosen, Budget))
<1> DEFINE s == facts \o chosen
           t == Pack(s, Budget)
           a == Len(facts)
           b == Len(chosen)
           N == Len(t)
<1>1. /\ a \in Nat /\ b \in Nat /\ s \in Seq(X) /\ Len(s) = a + b
      /\ \A i \in 1..(a + b) : s[i] = IF i <= a THEN facts[i] ELSE chosen[i - a]
  BY LenProperties, ConcatProperties
<1> HIDE DEF s
<1>2. /\ TotalOf(Costs(t)) <= Budget
      /\ \E I \in SUBSET (1..Len(s)) : t = AtIndexes(s, I)
  BY <1>1, PackFits, ResearchQueryAssumption
<1> HIDE DEF t
<1>3. PICK I \in SUBSET (1..Len(s)) : t = AtIndexes(s, I)
  BY <1>2
<1>4. a <= 2 /\ b <= 6
  OBVIOUS
<1> HIDE DEF a, b
<1>5. I \in SUBSET (1..(a + b)) /\ a + b \in Nat
  BY <1>1, <1>3
<1>6. t \in Seq(Elements(t)) /\ \E c : CountsIndexes(c, t, s, a + b, I)
  BY <1>3, <1>5, IndexesCounted
<1>7. N \in Nat
  BY <1>6, LenProperties
<1> HIDE DEF N
<1>8. PICK c : CountsIndexes(c, t, s, a + b, I)
  BY <1>6
<1>9. /\ c \in [0..(a + b) -> Nat] /\ c[0] = 0 /\ c[a + b] = N
      /\ \A i \in 1..(a + b) : c[i] = c[i - 1] + (IF i \in I THEN 1 ELSE 0)
      /\ \A k \in 1..N : \E i \in I : c[i] = k /\ t[k] = s[i]
      /\ \A i, j \in I : i < j => c[i] < c[j]
  BY <1>8 DEF CountsIndexes, N
<1>10. \A i, j \in 0..(a + b) : i <= j => c[i] <= c[j] /\ c[j] <= c[i] + (j - i)
  <2> DEFINE m == a + b
  <2>1. /\ m \in Nat /\ c \in [0..m -> Nat]
        /\ \A i \in 1..m : c[i] = c[i - 1] + (IF i \in I THEN 1 ELSE 0)
    BY <1>5, <1>9
  <2> HIDE DEF m
  <2>2. \A i, j \in 0..m : i <= j => c[i] <= c[j] /\ c[j] <= c[i] + (j - i)
    BY <2>1, GrowsSlowly
  <2> QED
    BY <2>2 DEF m
<1> DEFINE n == c[a]
<1>11. a \in 0..(a + b) /\ 0 \in 0..(a + b) /\ a + b \in 0..(a + b)
  BY <1>1
<1>12. n \in Nat /\ n <= a /\ n <= N /\ N <= n + b
  <2>1. n \in Nat
    BY <1>9, <1>11
  <2>2. c[a] <= c[0] + (a - 0) /\ c[a] <= c[a + b] /\ c[a + b] <= c[a] + (a + b - a)
    BY <1>1, <1>10, <1>11
  <2> HIDE DEF n
  <2>3. n <= 0 + (a - 0) /\ n <= N /\ N <= n + (a + b - a)
    BY <1>9, <2>2 DEF n
  <2> QED
    BY <1>1, <1>7, <2>1, <2>3
<1>13. ASSUME NEW i \in 1..n PROVE t[i].score = FactScore
  <2>1. i \in 1..N
    BY <1>7, <1>12
  <2>2. PICK l \in I : c[l] = i /\ t[i] = s[l]
    BY <1>9, <2>1
  <2>3. l \in 1..(a + b) /\ l \in 0..(a + b)
    BY <1>5
  <2>4. l <= a
    <3>1. CASE a < l
      <4>1. c[l] = c[l - 1] + 1 /\ l - 1 \in 0..(a + b) /\ a <= l - 1
        BY <1>1, <1>9, <2>3, <3>1
      <4>2. c[a] <= c[l - 1] /\ c[l - 1] \in Nat
        BY <1>9, <1>10, <1>11, <4>1
      <4> HIDE DEF n
      <4>3. n <= c[l - 1] /\ i = c[l - 1] + 1
        BY <2>2, <4>1, <4>2 DEF n
      <4> QED
        BY <1>12, <4>2, <4>3
    <3> QED
      BY <1>1, <2>3, <3>1
  <2>5. s[l] = facts[l] /\ l \in 1..a
    BY <1>1, <2>3, <2>4
  <2> QED
    BY <2>2, <2>5 DEF a
<1>14. NoThree(t, n + 1, N)
  <2>1. ASSUME NEW i \in (n + 1)..N
        PROVE \E l \in I : c[l] = i /\ t[i] = s[l] /\ l - a \in 1..b /\ s[l] = chosen[l - a]
    <3>1. i \in 1..N /\ n < i
      BY <1>7, <1>12
    <3>2. PICK l \in I : c[l] = i /\ t[i] = s[l]
      BY <1>9, <3>1
    <3>3. l \in 1..(a + b) /\ l \in 0..(a + b)
      BY <1>5
    <3>4. ~(l <= a)
      <4>1. l <= a => c[l] <= c[a]
        BY <1>10, <1>11, <3>3
      <4> HIDE DEF n
      <4>2. l <= a => i <= n
        BY <3>2, <4>1 DEF n
      <4> QED
        BY <1>12, <3>1, <4>2
    <3>5. l - a \in 1..b /\ s[l] = chosen[l - a]
      BY <1>1, <3>3, <3>4
    <3> QED
      BY <3>2, <3>5
  <2> SUFFICES ASSUME NEW i \in (n + 1)..N, NEW j \in (n + 1)..N, NEW k \in (n + 1)..N,
                      i < j, j < k, t[i].path = t[j].path, t[j].path = t[k].path
               PROVE  FALSE
    BY DEF NoThree
  <2>2. PICK x \in I : c[x] = i /\ t[i] = s[x] /\ x - a \in 1..b /\ s[x] = chosen[x - a]
    BY <2>1
  <2>3. PICK y \in I : c[y] = j /\ t[j] = s[y] /\ y - a \in 1..b /\ s[y] = chosen[y - a]
    BY <2>1
  <2>4. PICK z \in I : c[z] = k /\ t[k] = s[z] /\ z - a \in 1..b /\ s[z] = chosen[z - a]
    BY <2>1
  <2> HIDE DEF n
  <2>5. i \in Nat /\ j \in Nat /\ k \in Nat /\ x \in Nat /\ y \in Nat /\ z \in Nat
    BY <1>5, <1>12
  <2>10. \A p, r \in I : p < r => c[p] < c[r]
    BY <1>9
  <2>6. x < y
    <3>1. y < x => j < i
      BY <2>2, <2>3, <2>10
    <3>2. x = y => i = j
      BY <2>2, <2>3
    <3> QED
      BY <2>5, <3>1, <3>2
  <2>7. y < z
    <3>1. z < y => k < j
      BY <2>3, <2>4, <2>10
    <3>2. y = z => j = k
      BY <2>3, <2>4
    <3> QED
      BY <2>5, <3>1, <3>2
  <2>8. x - a < y - a /\ y - a < z - a
    BY <1>1, <2>5, <2>6, <2>7
  <2>9. ~(chosen[x - a].path = chosen[y - a].path /\ chosen[y - a].path = chosen[z - a].path)
    <3> DEFINE p == x - a
               q == y - a
               r == z - a
    <3>1. p \in 1..Len(chosen) /\ q \in 1..Len(chosen) /\ r \in 1..Len(chosen) /\ p < q /\ q < r
      BY <2>2, <2>3, <2>4, <2>8 DEF b
    <3> HIDE DEF p, q, r
    <3>2. ~(chosen[p].path = chosen[q].path /\ chosen[q].path = chosen[r].path)
      BY <3>1 DEF NoThree
    <3> QED
      BY <3>2 DEF p, q, r
  <2> QED
    BY <2>2, <2>3, <2>4, <2>9
<1>15. ASSUME NEW i \in (n + 1)..N
       PROVE  Cardinality({j \in (n + 1)..N : t[j].path = t[i].path}) <= 2
  <2> DEFINE S == {j \in (n + 1)..N : t[j].path = t[i].path}
  <2> HIDE DEF n
  <2>1. S \in SUBSET Nat
    BY <1>7, <1>12
  <2>2. \A j, k, l \in S : ~(j < k /\ k < l)
    BY <1>14 DEF NoThree
  <2> HIDE DEF S
  <2>3. Cardinality(S) <= 2
    BY <2>1, <2>2, AtMostTwo
  <2> QED
    BY <2>3 DEF S
<1> HIDE DEF n
<1>16. n \in 0..2 /\ N <= n + 6
  BY <1>1, <1>4, <1>7, <1>12
<1>17. /\ n <= N /\ N <= n + 6
       /\ \A i \in 1..n : t[i].score = FactScore
       /\ \A i \in (n + 1)..N : Cardinality({j \in (n + 1)..N : t[j].path = t[i].path}) <= 2
  BY <1>12, <1>13, <1>15, <1>16
<1>18. Bounded(t)
  BY <1>2, <1>16, <1>17 DEF Bounded, N, Costs
<1> QED
  BY <1>18 DEF t, s

-----------------------------------------------------------------------------
(* Fusing *)

\* The weight of a place is a number.
LEMMA WeightIsNat ==
  ASSUME NEW i \in Nat
  PROVE  Unit \div (59 + i) \in Nat
<1> DEFINE d == 59 + i
           u == Unit
<1>1. d \in Nat \ {0} /\ u \in Nat
  BY UnitAssumption
<1> HIDE DEF d, u
<1>2. u \div d \in Nat
  BY <1>1
<1> QED
  BY <1>2 DEF d, u

\* A fused score is a number.
LEMMA RrfScoreIsNat ==
  ASSUME NEW X, NEW rankings \in Seq(Seq(X)), NEW x
  PROVE  RrfScore(rankings, x) \in Nat
<1> DEFINE parts(ranking) == [i \in 1..Len(ranking) |-> IF ranking[i] = x THEN Unit \div (59 + i) ELSE 0]
           shares == [r \in 1..Len(rankings) |-> TotalOf(parts(rankings[r]))]
<1>1. RrfScore(rankings, x) = TotalOf(shares)
  BY DEF RrfScore
<1>2. ASSUME NEW ranking \in Seq(X) PROVE TotalOf(parts(ranking)) \in Nat
  <2>1. Len(ranking) \in Nat
    BY LenProperties
  <2>2. \A i \in 1..Len(ranking) : Unit \div (59 + i) \in Nat
    BY <2>1, WeightIsNat
  <2>3. parts(ranking) \in [1..Len(ranking) -> Nat]
    BY <2>2
  <2>4. parts(ranking) \in Seq(Nat)
    BY <2>1, <2>3
  <2> HIDE DEF parts
  <2> QED
    BY <2>4, TotalIsNat
<1> HIDE DEF parts
<1>3. Len(rankings) \in Nat /\ \A r \in 1..Len(rankings) : rankings[r] \in Seq(X)
  BY LenProperties, ElementOfSeq
<1>4. shares \in [1..Len(rankings) -> Nat]
  BY <1>2, <1>3
<1> HIDE DEF shares
<1>5. shares \in Seq(Nat)
  <2> DEFINE m == Len(rankings)
  <2>1. m \in Nat /\ shares \in [1..m -> Nat]
    BY <1>3, <1>4
  <2> HIDE DEF m
  <2> QED
    BY <2>1
<1> QED
  BY <1>1, <1>5, TotalIsNat

\* What is fused was ranked.
LEMMA FusedAreRanked ==
  ASSUME NEW X, NEW rankings \in Seq(Seq(X))
  PROVE  RrfFuse(rankings) \in Seq(X)
<1> DEFINE all == Concat(rankings)
           I == {i \in 1..Len(all) : \A j \in 1..(i - 1) : all[j] # all[i]}
           found == AtIndexes(all, I)
           keys == [i \in DOMAIN found |-> FactScore - RrfScore(rankings, found[i])]
<1>1. RrfFuse(rankings) = SortedBy(found, keys)
  BY DEF RrfFuse, Distinct, FirstPerKey
<1>2. all \in Seq(X)
  BY ConcatIs
<1>3. I \in SUBSET (1..Len(all))
  OBVIOUS
<1> HIDE DEF all, I
<1>4. found \in Seq(X)
  BY <1>2, <1>3, PickedAreElements
<1> HIDE DEF found
<1>5. DOMAIN found = 1..Len(found)
  BY <1>4, LenProperties
<1>6. FactScore \in Nat
  BY UnitAssumption DEF FactScore
<1>7. ASSUME NEW i \in 1..Len(found) PROVE keys[i] \in Int
  <2>1. RrfScore(rankings, found[i]) \in Nat
    BY RrfScoreIsNat
  <2> QED
    BY <1>5, <1>6, <2>1
<1>8. DOMAIN keys = 1..Len(found) /\ keys = [i \in DOMAIN keys |-> keys[i]]
  BY <1>5
<1> HIDE DEF keys
<1>9. SortedBy(found, keys) \in Seq(X)
  BY <1>4, <1>7, <1>8, SortedIs
<1> QED
  BY <1>1, <1>9

-----------------------------------------------------------------------------
(* What is gathered *)

\* Passages, each with its tokens and its score.
Passages(s) ==
    s \in Seq(Elements(s)) /\ \A p \in Elements(s) : p.tokens \in Nat /\ p.score \in Nat

\* What a request has gathered.
Gathered(r) ==
    /\ Passages(r.candidates) /\ Passages(r.facts)
    /\ \A p \in Elements(r.facts) : p.score = FactScore

\* A sequence is one of its elements.
LEMMA OfItsElements ==
  ASSUME NEW X, NEW s \in Seq(X)
  PROVE  s \in Seq(Elements(s)) /\ Elements(s) \subseteq X
<1>1. s \in [1..Len(s) -> X] /\ Len(s) \in Nat
  BY LenProperties
<1>2. Elements(s) \subseteq X
  BY <1>1 DEF Elements
<1>3. s \in [1..Len(s) -> Elements(s)]
  BY <1>1 DEF Elements
<1> DEFINE S == Elements(s)
           n == Len(s)
<1>4. s \in [1..n -> S] /\ n \in Nat
  BY <1>1, <1>3
<1> HIDE DEF S, n
<1>5. s \in Seq(S)
  BY <1>4
<1> QED
  BY <1>2, <1>5 DEF S

\* Two sequences, one after the other, have the elements of both.
LEMMA GatheredTogether ==
  ASSUME NEW s, NEW t, Passages(s), Passages(t)
  PROVE  Passages(s \o t) /\ Elements(s \o t) \subseteq Elements(s) \cup Elements(t)
<1> DEFINE X == Elements(s) \cup Elements(t)
<1>1. s \in Seq(X) /\ t \in Seq(X)
  <2>1. s \in Seq(Elements(s)) /\ t \in Seq(Elements(t)) /\ Elements(s) \subseteq X /\ Elements(t) \subseteq X
    BY DEF Passages
  <2> HIDE DEF X
  <2> QED
    BY <2>1, SeqMonotonic
<1>2. \A p \in X : p.tokens \in Nat /\ p.score \in Nat
  BY DEF Passages
<1> HIDE DEF X
<1>3. s \o t \in Seq(X)
  BY <1>1, ConcatProperties
<1>4. s \o t \in Seq(Elements(s \o t)) /\ Elements(s \o t) \subseteq X
  BY <1>3, OfItsElements
<1> QED
  BY <1>2, <1>4 DEF Passages, X

\* What was fetched is there.
LEMMA FetchedAreThere ==
  ASSUME NEW n \in Nat, NEW ok
  PROVE  /\ Fetched(n, ok) \in Seq(Elements(Fetched(n, ok)))
         /\ \A k \in 1..Len(Fetched(n, ok)) :
               \E x \in Elements(Articles[arch.id]) : x.path = Fetched(n, ok)[k]
<1> DEFINE I == {i \in 1..n :
               /\ i <= Len(arch.top) /\ Op("fetch", <<arch.top[i]>>) \in ok
               /\ \E x \in Elements(Articles[arch.id]) : x.path = arch.top[i]}
           t == AtIndexes(arch.top, I)
<1>1. Fetched(n, ok) = t
  BY DEF Fetched
<1>2. I \in SUBSET (1..n) /\ \A i \in I : \E x \in Elements(Articles[arch.id]) : x.path = arch.top[i]
  OBVIOUS
<1> HIDE DEF I
<1>3. t \in Seq(Elements(t)) /\ \E at : PicksIndexes(at, t, arch.top, I)
  BY <1>2, IndexesPicked
<1>4. PICK at : PicksIndexes(at, t, arch.top, I)
  BY <1>3
<1> HIDE DEF t
<1>5. ASSUME NEW k \in 1..Len(t) PROVE \E x \in Elements(Articles[arch.id]) : x.path = t[k]
  <2>1. at[k] \in I /\ t[k] = arch.top[at[k]]
    BY <1>4 DEF PicksIndexes
  <2> QED
    BY <1>2, <2>1
<1> QED
  BY <1>1, <1>3, <1>5

\* The words asked are finitely many.
LEMMA AskedIsFinite ==
  ASSUME req.question \in Questions, NEW words
  PROVE  Cardinality((req.question.own \cup Elements(req.question.hint)) \cap words) \in Nat
<1> DEFINE hint == req.question.hint
           own == req.question.own
           H == Elements(hint)
           n == Len(hint)
<1>1. hint \in Seq(H) /\ IsFiniteSet(own)
  BY ResearchQueryAssumption
<1>2. n \in Nat
  BY <1>1, LenProperties
<1>3. IsFiniteSet(H)
  <2> DEFINE f == [i \in 1..n |-> hint[i]]
  <2>1. f \in Surjection(1..n, H)
    BY DEF Surjection, Elements
  <2>2. IsFiniteSet(1..n)
    <3>1. 1 \in Int /\ n \in Int
      BY <1>2
    <3> HIDE DEF n
    <3> QED
      BY <3>1, FS_Interval
  <2> HIDE DEF f, H, n
  <2> QED
    BY <2>1, <2>2, FS_Surjection
<1> HIDE DEF hint, own, H, n
<1>4. IsFiniteSet(own \cup H)
  BY <1>1, <1>3, FS_Union
<1>5. IsFiniteSet((own \cup H) \cap words)
  BY <1>4, FS_Intersection
<1>6. Cardinality((own \cup H) \cap words) \in Nat
  BY <1>5, FS_CardinalityType
<1> QED
  BY <1>6 DEF own, H, hint

\* The article of a path that is there is there.
LEMMA ArticleIsThere ==
  ASSUME NEW a \in Elements(Archives), NEW path, \E x \in Elements(Articles[a]) : x.path = path
  PROVE  /\ ArticleOf(a, path) \in Elements(Articles[a])
         /\ ArticleOf(a, path).passages \in Seq(Elements(ArticleOf(a, path).passages))
         /\ ArticleOf(a, path).facts \in Seq(Elements(ArticleOf(a, path).facts))
         /\ \A p \in Elements(ArticleOf(a, path).passages) \cup Elements(ArticleOf(a, path).facts) :
               {"score", "tokens"} \subseteq DOMAIN p /\ p.tokens \in Nat
<1>1. ArticleOf(a, path) \in Elements(Articles[a])
  BY DEF ArticleOf
<1> DEFINE x == ArticleOf(a, path)
<1> HIDE DEF x
<1>2. x \in Elements(Articles[a])
  BY <1>1 DEF x
<1>3. /\ x.passages \in Seq(Elements(x.passages)) /\ x.facts \in Seq(Elements(x.facts))
      /\ \A p \in Elements(x.passages) \cup Elements(x.facts) :
            {"score", "tokens"} \subseteq DOMAIN p /\ p.tokens \in Nat
  BY <1>2, ResearchQueryAssumption
<1> QED
  BY <1>1, <1>3 DEF x

\* A score is set, and the tokens are kept.
LEMMA ScoreSet ==
  ASSUME NEW p, NEW v, {"score", "tokens"} \subseteq DOMAIN p
  PROVE  [p EXCEPT !.score = v].score = v /\ [p EXCEPT !.score = v].tokens = p.tokens
  OBVIOUS

\* The passages of articles that are there, scored.
LEMMA ScoredAreTyped ==
  ASSUME arch.id \in Elements(Archives), req.question \in Questions,
         NEW paths, paths \in Seq(Elements(paths)),
         \A k \in 1..Len(paths) : \E x \in Elements(Articles[arch.id]) : x.path = paths[k]
  PROVE  Passages(ScoredPassages(paths))
<1> DEFINE m == Len(paths)
           parts == [i \in 1..m |-> ArticleOf(arch.id, paths[i]).passages]
           P == UNION {Elements(parts[i]) : i \in 1..m}
           byArticle == Concat(parts)
           asked == req.question.own \cup Elements(req.question.hint)
           keys == [i \in DOMAIN byArticle |-> 100 - Cardinality(asked \cap byArticle[i].text)]
           byWords == SortedBy(byArticle, keys)
           ids(ps) == Listed([i \in DOMAIN ps |-> ps[i].id])
           rankings == <<ids(byArticle), ids(byWords)>>
           fused == RrfFuse(rankings)
           passage(id) == CHOOSE p \in Elements(byArticle) : p.id = id
           f == [i \in DOMAIN fused |->
                    [passage(fused[i]) EXCEPT !.score = RrfScore(rankings, fused[i])]]
<1>1. ScoredPassages(paths) = Listed(f)
  BY DEF ScoredPassages
<1>2. m \in Nat
  BY LenProperties
<1>3. ASSUME NEW i \in 1..m
      PROVE  /\ parts[i] \in Seq(Elements(parts[i]))
             /\ \A p \in Elements(parts[i]) : {"score", "tokens"} \subseteq DOMAIN p /\ p.tokens \in Nat
  BY <1>3, ArticleIsThere
<1> HIDE DEF m
<1>4. DOMAIN parts = 1..m /\ parts = [i \in 1..m |-> parts[i]]
  OBVIOUS
<1> HIDE DEF parts
<1>5. \A p \in P : {"score", "tokens"} \subseteq DOMAIN p /\ p.tokens \in Nat
  BY <1>3
<1>6. \A i \in 1..m : parts[i] \in Seq(P)
  <2>1. \A i \in 1..m : Elements(parts[i]) \subseteq P
    OBVIOUS
  <2> HIDE DEF P
  <2> QED
    BY <1>3, <2>1, SeqMonotonic
<1> HIDE DEF P
<1>7. parts \in Seq(Seq(P))
  <2> DEFINE S == Seq(P)
  <2>1. parts \in [1..m -> S]
    BY <1>4, <1>6
  <2> HIDE DEF S
  <2>2. parts \in Seq(S)
    BY <1>2, <2>1
  <2> QED
    BY <2>2 DEF S
<1>8. byArticle \in Seq(P)
  BY <1>7, ConcatIs
<1> HIDE DEF byArticle
<1> DEFINE E == Elements(byArticle)
<1>9. byArticle \in Seq(E) /\ E \subseteq P
  BY <1>8, OfItsElements
<1>10. DOMAIN byArticle = 1..Len(byArticle) /\ Len(byArticle) \in Nat
  BY <1>8, LenProperties
<1>11. byWords \in Seq(E)
  <2>1. DOMAIN keys = 1..Len(byArticle) /\ keys = [i \in DOMAIN keys |-> keys[i]]
    BY <1>10
  <2>2. ASSUME NEW i \in 1..Len(byArticle) PROVE keys[i] \in Int
    <3>1. Cardinality(asked \cap byArticle[i].text) \in Nat
      BY AskedIsFinite
    <3> HIDE DEF asked
    <3> QED
      BY <1>10, <3>1
  <2> HIDE DEF keys, E
  <2> QED
    BY <1>9, <2>1, <2>2, SortedIs
<1> HIDE DEF byWords, keys
<1> DEFINE D == {p.id : p \in E}
<1>12. ASSUME NEW ps \in Seq(E) PROVE ids(ps) \in Seq(D)
  <2> DEFINE g == [i \in DOMAIN ps |-> ps[i].id]
             l == Len(ps)
  <2>1. DOMAIN ps = 1..l /\ l \in Nat /\ \A i \in 1..l : ps[i] \in E
    BY LenProperties, ElementOfSeq
  <2>2. DOMAIN g = 1..l /\ g = [i \in DOMAIN g |-> g[i]] /\ g \in [1..l -> D]
    BY <2>1
  <2> HIDE DEF g, l, D
  <2>3. Listed(g) = g
    BY <2>1, <2>2, ListedIs
  <2>4. g \in Seq(D)
    BY <2>1, <2>2
  <2> QED
    BY <2>3, <2>4 DEF g
<1>13. rankings \in Seq(Seq(D)) /\ fused \in Seq(D)
  <2>1. ids(byArticle) \in Seq(D) /\ ids(byWords) \in Seq(D)
    BY <1>9, <1>11, <1>12
  <2> DEFINE S == Seq(D)
             u == ids(byArticle)
             v == ids(byWords)
  <2>2. u \in S /\ v \in S
    BY <2>1
  <2> HIDE DEF S, u, v
  <2>3. <<u, v>> \in Seq(S)
    BY <2>2
  <2>4. rankings \in Seq(Seq(D))
    BY <2>3 DEF S, u, v
  <2> HIDE DEF rankings, D
  <2> QED
    BY <2>4, FusedAreRanked
<1> HIDE DEF rankings, fused, ids
<1>14. DOMAIN fused = 1..Len(fused) /\ Len(fused) \in Nat /\ \A i \in 1..Len(fused) : fused[i] \in D
  BY <1>13, LenProperties, ElementOfSeq
<1>15. ASSUME NEW i \in 1..Len(fused) PROVE f[i].tokens \in Nat /\ f[i].score \in Nat
  <2> DEFINE p == passage(fused[i])
             score == RrfScore(rankings, fused[i])
  <2>1. p \in E
    BY <1>14
  <2>2. f[i] = [p EXCEPT !.score = score]
    BY <1>14
  <2>3. score \in Nat
    BY <1>13, RrfScoreIsNat
  <2> HIDE DEF p, score, f, E
  <2>4. {"score", "tokens"} \subseteq DOMAIN p /\ p.tokens \in Nat
    BY <1>5, <1>9, <2>1
  <2>5. f[i].score = score /\ f[i].tokens = p.tokens
    BY <2>2, <2>4, ScoreSet
  <2> QED
    BY <2>3, <2>4, <2>5
<1>16. DOMAIN f = 1..Len(fused) /\ f = [i \in DOMAIN f |-> f[i]]
  BY <1>14
<1> HIDE DEF f
<1>17. Listed(f) = f /\ Len(f) = Len(fused) /\ f \in Seq(Elements(f))
  <2> DEFINE n == Len(fused)
  <2>1. n \in Nat /\ DOMAIN f = 1..n /\ f = [i \in DOMAIN f |-> f[i]]
    BY <1>14, <1>16
  <2> HIDE DEF n
  <2>2. Listed(f) = f /\ Len(f) = n /\ f \in Seq(Elements(f))
    BY <2>1, ListedIs
  <2> QED
    BY <2>2 DEF n
<1>18. \A p \in Elements(f) : p.tokens \in Nat /\ p.score \in Nat
  BY <1>15, <1>17 DEF Elements
<1> QED
  BY <1>1, <1>17, <1>18 DEF Passages

\* The key facts of articles that are there, above every passage.
LEMMA FactsAreTyped ==
  ASSUME arch.id \in Elements(Archives),
         NEW paths, paths \in Seq(Elements(paths)),
         \A k \in 1..Len(paths) : \E x \in Elements(Articles[arch.id]) : x.path = paths[k]
  PROVE  Passages(KeyFacts(paths)) /\ \A p \in Elements(KeyFacts(paths)) : p.score = FactScore
<1> DEFINE m == Len(paths)
           parts == [i \in 1..m |-> ArticleOf(arch.id, paths[i]).facts]
           P == UNION {Elements(parts[i]) : i \in 1..m}
           rows == Concat(parts)
           I == {i \in DOMAIN rows : rows[i].text \cap req.question.own # {}}
           asked == AtIndexes(rows, I)
           f == [i \in DOMAIN asked |-> [asked[i] EXCEPT !.score = FactScore]]
<1>1. KeyFacts(paths) = Listed(f)
  BY DEF KeyFacts
<1>2. m \in Nat
  BY LenProperties
<1>3. ASSUME NEW i \in 1..m
      PROVE  /\ parts[i] \in Seq(Elements(parts[i]))
             /\ \A p \in Elements(parts[i]) : {"score", "tokens"} \subseteq DOMAIN p /\ p.tokens \in Nat
  BY <1>3, ArticleIsThere
<1> HIDE DEF m
<1>4. DOMAIN parts = 1..m /\ parts = [i \in 1..m |-> parts[i]]
  OBVIOUS
<1> HIDE DEF parts
<1>5. \A p \in P : {"score", "tokens"} \subseteq DOMAIN p /\ p.tokens \in Nat
  BY <1>3
<1>6. \A i \in 1..m : parts[i] \in Seq(P)
  <2>1. \A i \in 1..m : Elements(parts[i]) \subseteq P
    OBVIOUS
  <2> HIDE DEF P
  <2> QED
    BY <1>3, <2>1, SeqMonotonic
<1> HIDE DEF P
<1>7. parts \in Seq(Seq(P))
  <2> DEFINE S == Seq(P)
  <2>1. parts \in [1..m -> S]
    BY <1>4, <1>6
  <2> HIDE DEF S
  <2>2. parts \in Seq(S)
    BY <1>2, <2>1
  <2> QED
    BY <2>2 DEF S
<1>8. rows \in Seq(P)
  BY <1>7, ConcatIs
<1> HIDE DEF rows
<1>9. I \in SUBSET (1..Len(rows))
  BY <1>8, LenProperties
<1> HIDE DEF I
<1>10. asked \in Seq(P)
  BY <1>8, <1>9, PickedAreElements
<1> HIDE DEF asked
<1>11. DOMAIN asked = 1..Len(asked) /\ Len(asked) \in Nat /\ \A i \in 1..Len(asked) : asked[i] \in P
  BY <1>10, LenProperties, ElementOfSeq
<1>12. ASSUME NEW i \in 1..Len(asked) PROVE f[i].tokens \in Nat /\ f[i].score = FactScore
  <2> DEFINE p == asked[i]
             score == FactScore
  <2>1. f[i] = [p EXCEPT !.score = score]
    BY <1>11
  <2>2. {"score", "tokens"} \subseteq DOMAIN p /\ p.tokens \in Nat
    BY <1>5, <1>11
  <2> HIDE DEF p, score, f
  <2>3. f[i].score = score /\ f[i].tokens = p.tokens
    BY <2>1, <2>2, ScoreSet
  <2> QED
    BY <2>2, <2>3 DEF score
<1>13. DOMAIN f = 1..Len(asked) /\ f = [i \in DOMAIN f |-> f[i]]
  BY <1>11
<1> HIDE DEF f
<1>14. Listed(f) = f /\ Len(f) = Len(asked) /\ f \in Seq(Elements(f))
  <2> DEFINE n == Len(asked)
  <2>1. n \in Nat /\ DOMAIN f = 1..n /\ f = [i \in DOMAIN f |-> f[i]]
    BY <1>11, <1>13
  <2> HIDE DEF n
  <2>2. Listed(f) = f /\ Len(f) = n /\ f \in Seq(Elements(f))
    BY <2>1, ListedIs
  <2> QED
    BY <2>2 DEF n
<1>15. FactScore \in Nat
  BY UnitAssumption DEF FactScore
<1>16. \A p \in Elements(f) : p.tokens \in Nat /\ p.score = FactScore
  BY <1>12, <1>14 DEF Elements
<1> QED
  BY <1>1, <1>14, <1>15, <1>16 DEF Passages

\* What is handed out fits.
LEMMA PackedFits ==
  ASSUME Gathered(req)
  PROVE  Bounded(Packed)
<1> DEFINE C == Elements(req.candidates)
           F == Elements(req.facts)
           X == C \cup F
<1>1. /\ req.candidates \in Seq(C) /\ req.facts \in Seq(F)
      /\ \A p \in X : p.tokens \in Nat /\ p.score \in Nat
      /\ \A p \in F : p.score = FactScore
  BY DEF Gathered, Passages
<1> HIDE DEF C, F
<1>2. Ranked \in Seq(C)
  <2> DEFINE q == req.question
             keys == [i \in DOMAIN req.candidates |-> FactScore - req.candidates[i].score]
             sorted == SortedBy(req.candidates, keys)
             topical == DropModifierOnly(sorted, QueryTerms(q), q.modifiers)
             words(c) == c.title \cup c.text
             I == {i \in DOMAIN sorted : \/ words(sorted[i]) \cap QueryTerms(q) # {}
                                         \/ words(sorted[i]) \cap q.modifiers = {}}
             kept == AtIndexes(sorted, I)
  <2>1. Ranked = topical
    BY DEF Ranked, TitleBoost, MentionPenalty, HeadingAffinity, LeadAugmentation
  <2>2. topical = IF q.modifiers = {} \/ QueryTerms(q) = {} \/ kept = <<>> THEN sorted ELSE kept
    BY DEF DropModifierOnly
  <2>3. sorted \in Seq(C)
    <3>1. /\ DOMAIN req.candidates = 1..Len(req.candidates)
          /\ \A i \in 1..Len(req.candidates) : req.candidates[i].score \in Nat
      BY <1>1, LenProperties, ElementOfSeq
    <3>2. FactScore \in Nat
      BY UnitAssumption DEF FactScore
    <3>3. /\ DOMAIN keys = 1..Len(req.candidates) /\ keys = [i \in DOMAIN keys |-> keys[i]]
          /\ \A i \in 1..Len(req.candidates) : keys[i] \in Int
      BY <3>1, <3>2
    <3> HIDE DEF keys
    <3> QED
      BY <1>1, <3>3, SortedIs
  <2> HIDE DEF sorted, topical
  <2>4. I \in SUBSET (1..Len(sorted))
    BY <2>3, LenProperties
  <2> HIDE DEF I
  <2>5. kept \in Seq(C)
    BY <2>3, <2>4, PickedAreElements
  <2> HIDE DEF kept
  <2> QED
    BY <2>1, <2>2, <2>3, <2>5
<1> DEFINE capped == CapPerArticle(Ranked, 2)
           paths == Distinct([i \in 1..Len(Ranked) |-> Ranked[i].path])
           chosen == RelevanceCutoff(capped, req.question.own, Elements(Prefix(paths, 2)), 6,
                                     req.question.quantity)
           keys == [i \in DOMAIN req.facts |-> req.facts[i].id]
           first == FirstPerKey(req.facts, keys)
           facts == Prefix(first, 2)
<1>3. Packed = Pack(facts \o chosen, Budget)
  BY DEF Packed
<1>4. capped \in Seq(C) /\ NoThree(capped, 1, Len(capped))
  BY <1>2, CappedHasNoThree
<1> HIDE DEF capped, paths, keys
<1>5. chosen \in Seq(C) /\ Len(chosen) <= 6 /\ NoThree(chosen, 1, Len(chosen))
  BY <1>4, CutoffLeaves
<1>6. first \in Seq(F)
  <2> DEFINE I == {i \in 1..Len(req.facts) : \A j \in 1..(i - 1) : keys[j] # keys[i]}
  <2>1. first = AtIndexes(req.facts, I)
    BY DEF FirstPerKey
  <2>2. I \in SUBSET (1..Len(req.facts))
    OBVIOUS
  <2> HIDE DEF I, first
  <2> QED
    BY <1>1, <2>1, <2>2, PickedAreElements
<1> HIDE DEF first, chosen
<1>7. facts \in Seq(F) /\ Len(facts) \in 0..2
  BY <1>6, PrefixIs
<1> HIDE DEF facts
<1>8. \A i \in 1..Len(facts) : facts[i].score = FactScore
  BY <1>1, <1>7, ElementOfSeq
<1>9. facts \in Seq(X) /\ chosen \in Seq(X)
  <2>1. C \subseteq X /\ F \subseteq X
    OBVIOUS
  <2> HIDE DEF X
  <2> QED
    BY <1>5, <1>7, <2>1, SeqMonotonic
<1>10. Len(facts) <= 2
  <2> DEFINE l == Len(facts)
  <2>1. l \in 0..2
    BY <1>7
  <2> HIDE DEF l
  <2>2. l <= 2
    BY <2>1
  <2> QED
    BY <2>2 DEF l
<1> HIDE DEF X
<1>11. Bounded(Pack(facts \o chosen, Budget))
  BY <1>1, <1>5, <1>8, <1>9, <1>10, PackedIsBounded
<1> QED
  BY <1>3, <1>11

-----------------------------------------------------------------------------
(* The shape of a request *)

ReqFields ==
    {"question", "key", "elapsed", "vec", "queue", "primary", "consulted", "timedOut",
     "lost", "corrected", "expanded", "unknown", "candidates", "facts", "memo"}

ArchFields ==
    {"id", "tokens", "pending", "hits", "ft", "ti", "words", "counts", "given", "near",
     "spelled", "joined", "corrections", "relax", "found", "best", "dense", "top"}

\* The stages of an archive.
Processing ==
    {"search", "terms", "rarity", "spell", "correct", "split", "join", "again", "entity",
     "relax", "together", "relatives", "substitute", "dense", "hint", "fetch"}

Stages == {"idle", "embed", "consult", "respond"} \cup Processing

-----------------------------------------------------------------------------
(* The invariant *)

\* What failed was a timeout, or need not be reported.
Excused(r) == r.timedOut \/ r.lost \subseteq Unreported

\* A request has the fields StartRequest gives it, and an archive those of ConsultNext.
Shaped ==
    /\ pc \in Stages
    /\ pc # "idle" => /\ DOMAIN req = ReqFields
                      /\ req.question \in Questions
                      /\ req.elapsed \in Nat
    /\ pc = "idle" => req = NoReq
    /\ pc \in Processing => DOMAIN arch = ArchFields /\ arch.id \in Elements(Archives)

\* The archives of the question are consulted or still wait, unless a deadline passed.
Accounted ==
    pc # "idle" =>
        /\ Excused(req)
        /\ req.queue \in Seq(Elements(req.queue))
        /\ Elements(req.queue) \subseteq Elements(Archives)
        /\ req.consulted \in Seq(Elements(req.consulted))
        /\ pc = "respond" => req.queue = <<>>
        /\ req.timedOut \/ Elements(Primary(req.question)) \subseteq
              Elements(req.consulted) \cup (IF req.primary THEN Elements(req.queue) ELSE {})

\* What is gathered has its tokens and its scores.
Filled == pc # "idle" => Gathered(req)

\* How late the request can be, by its stage.
LateBy ==
    LET e == req.elapsed IN
    /\ pc = "embed" => e = 0
    /\ pc = "search" => arch.tokens = SearchTokens(req.question)
    /\ pc \in {"search", "rarity", "together", "relatives", "substitute"} => e < Hard
    /\ pc = "terms" => /\ arch.pending \in Seq(Elements(arch.pending))
                       /\ Len(arch.pending) <= 6 /\ e + Len(arch.pending) <= Hard + 6
    /\ pc = "spell" => e <= Hard
    /\ pc \in {"correct", "join"} => e <= Hard /\ arch.given \in 0..Cap
    /\ pc \in {"split", "again", "entity"} => e <= Hard + Cap
    /\ pc = "relax" => arch.relax \in 2..4 /\ e + 1 <= Hard + Cap + arch.relax
    /\ pc \in {"dense", "hint"} => e <= Hard + Cap + 3 \/ e <= Hard + 6
    /\ pc # "idle" => e <= Hard + Cap + 4 \/ e <= Hard + 7

\* What StatusHonest says of one response.
Honest(r) ==
    r.status # "none" =>
        LET q == CHOOSE q \in Questions : q.name = r.question IN
        /\ r.status = "ok" =>
               /\ r.lost \subseteq Unreported /\ r.passages # <<>>
               /\ Elements(Primary(q)) \subseteq Elements(r.consulted)
        /\ r.status = "empty" =>
               /\ r.lost \subseteq Unreported
               /\ r.passages # <<>> => r.rewritten
        /\ (r.level = "empty") = (r.passages = <<>>)
        /\ r.level = "strong" /\ q.own # {} => OneIsAbout(q, r.corrections, r.passages)

\* A response that is given, at once or later from the cache, with these passages stored:
\* they are within the bounds.
Given(r, stored) ==
    /\ r.status \in Statuses /\ Honest(r)
    /\ r.status # "none" => /\ {p.id : p \in Elements(r.passages)} \subseteq stored
                            /\ Bounded(r.passages)

\* The cache keeps what was given.
Kept ==
    /\ Given(answer, snapshots)
    /\ responses \in Seq(Elements(responses)) /\ Len(responses) <= CacheSize
    /\ \A i \in 1..Len(responses) : Given(responses[i].response, snapshots)

\* The counters, and the counts of words.
Counts ==
    /\ DOMAIN idf = Elements(Archives)
    /\ \A a \in DOMAIN idf : \A q \in DOMAIN idf[a] : idf[a][q] \in Nat
    /\ requests \in 0..MaxRequests /\ failures \in 0..MaxFailures

IInv == Shaped /\ Accounted /\ Filled /\ LateBy /\ Kept /\ Counts

-----------------------------------------------------------------------------
(* Calls, the archives, the responses *)

\* A call in time ends by the deadline; a later one takes a tick at most.
LEMMA DeadlineBounds ==
  ASSUME req.elapsed \in Nat
  PROVE  /\ OpDeadline \in 0..Cap \cup {1} /\ OpDeadline \in Nat
         /\ req.elapsed < Hard => OpDeadline <= Cap /\ req.elapsed + OpDeadline <= Hard
         /\ req.elapsed >= Hard => OpDeadline = 1
  BY ResearchQueryAssumption DEF OpDeadline, Remaining

\* What a call given so long leaves of the request.
LEMMA CallLeaves ==
  ASSUME NEW ops, NEW reply \in Replies(ops), NEW given \in Nat,
         DOMAIN req = ReqFields, req.elapsed \in Nat
  PROVE  /\ DOMAIN AfterCall(reply, ops, given) = ReqFields
         /\ AfterCall(reply, ops, given).elapsed \in Nat
         /\ AfterCall(reply, ops, given).elapsed <= req.elapsed + given
         /\ \A field \in ReqFields \ {"memo", "elapsed", "lost"} :
               AfterCall(reply, ops, given)[field] = req[field]
         /\ reply.ok = ops => AfterCall(reply, ops, given).lost = req.lost
         /\ AfterCall(reply, ops, given).lost \in {req.lost, req.lost \cup {pc}}
<1> DEFINE late == IF reply.late THEN req.elapsed + given ELSE req.elapsed
           memo == req.memo \cup reply.ok
           lost == IF reply.ok = ops THEN req.lost ELSE req.lost \cup {pc}
           r == [req EXCEPT !["memo"] = memo, !["elapsed"] = late, !["lost"] = lost]
<1>1. late \in Nat /\ late <= req.elapsed + given
  OBVIOUS
<1>2. AfterCall(reply, ops, given) = r
  BY DEF AfterCall
<1> HIDE DEF late, memo, lost
<1>3. /\ DOMAIN r = ReqFields
      /\ r["elapsed"] = late /\ r["lost"] = lost
      /\ \A field \in ReqFields \ {"memo", "elapsed", "lost"} : r[field] = req[field]
  BY DEF ReqFields
<1> HIDE DEF r
<1> QED
  BY <1>1, <1>2, <1>3 DEF lost

\* A call given what the deadline leaves.
LEMMA CallInTime ==
  ASSUME NEW ops, NEW reply \in Replies(ops), DOMAIN req = ReqFields, req.elapsed \in Nat
  PROVE  /\ DOMAIN After(reply, ops) = ReqFields
         /\ After(reply, ops).elapsed \in Nat
         /\ req.elapsed < Hard => After(reply, ops).elapsed <= Hard
         /\ req.elapsed >= Hard => After(reply, ops).elapsed <= req.elapsed + 1
         /\ \A field \in ReqFields \ {"memo", "elapsed", "lost"} :
               After(reply, ops)[field] = req[field]
         /\ reply.ok = ops => After(reply, ops).lost = req.lost
         /\ After(reply, ops).lost \in {req.lost, req.lost \cup {pc}}
<1>1. OpDeadline \in Nat
  BY DeadlineBounds
<1> DEFINE r == After(reply, ops)
<1>2. /\ DOMAIN r = ReqFields
      /\ r.elapsed \in Nat
      /\ r.elapsed <= req.elapsed + OpDeadline
      /\ \A field \in ReqFields \ {"memo", "elapsed", "lost"} : r[field] = req[field]
      /\ reply.ok = ops => r.lost = req.lost
      /\ r.lost \in {req.lost, req.lost \cup {pc}}
  <2> DEFINE given == OpDeadline
  <2>1. r = AfterCall(reply, ops, given)
    BY DEF After
  <2>2. given \in Nat
    BY <1>1
  <2> HIDE DEF given, r
  <2>3. /\ DOMAIN r = ReqFields
        /\ r.elapsed \in Nat
        /\ r.elapsed <= req.elapsed + given
        /\ \A field \in ReqFields \ {"memo", "elapsed", "lost"} : r[field] = req[field]
    BY <2>1, <2>2, CallLeaves
  <2>4. /\ reply.ok = ops => r.lost = req.lost
        /\ r.lost \in {req.lost, req.lost \cup {pc}}
    BY <2>1, <2>2, CallLeaves
  <2> QED
    BY <2>3, <2>4 DEF given
<1> HIDE DEF r
<1>3. /\ req.elapsed < Hard => r.elapsed <= Hard
      /\ req.elapsed >= Hard => r.elapsed <= req.elapsed + 1
  BY <1>1, <1>2, DeadlineBounds, ResearchQueryAssumption
<1> QED
  BY <1>2, <1>3 DEF r

\* A call that fails is counted.
LEMMA MissedCounts ==
  ASSUME NEW ops, NEW reply, Missed(reply, ops), failures \in 0..MaxFailures
  PROVE  failures' \in 0..MaxFailures
  BY ResearchQueryAssumption DEF Missed

\* The elements of a sequence are its head and those of its tail.
LEMMA TailElements ==
  ASSUME NEW s, s \in Seq(Elements(s)), s # <<>>
  PROVE  /\ Tail(s) \in Seq(Elements(Tail(s))) /\ Len(Tail(s)) = Len(s) - 1
         /\ Elements(s) = {Head(s)} \cup Elements(Tail(s))
<1> DEFINE t == Tail(s)
<1>1. /\ t \in Seq(Elements(s)) /\ Len(t) = Len(s) - 1
      /\ \A i \in 1..Len(t) : t[i] = s[i + 1]
      /\ Head(s) = s[1] /\ Len(s) \in Nat \ {0}
  BY HeadTailProperties, EmptySeq, LenProperties
<1> HIDE DEF t
<1>2. t \in Seq(Elements(t))
  <2> DEFINE S == Elements(s)
  <2>1. t \in Seq(S)
    BY <1>1
  <2> HIDE DEF S
  <2> QED
    BY <2>1 DEF Elements
<1>3. Elements(s) = {Head(s)} \cup Elements(t)
  <2>1. ASSUME NEW i \in 1..Len(s) PROVE s[i] \in {Head(s)} \cup Elements(t)
    <3>1. CASE i = 1
      BY <3>1, <1>1
    <3>2. CASE i # 1
      <4>1. i - 1 \in 1..Len(t) /\ s[i] = t[i - 1]
        BY <3>2, <1>1
      <4> QED
        BY <4>1 DEF Elements
    <3> QED
      BY <3>1, <3>2
  <2>2. ASSUME NEW i \in 1..Len(t) PROVE t[i] \in Elements(s)
    <3>1. i + 1 \in 1..Len(s) /\ t[i] = s[i + 1]
      BY <1>1
    <3> QED
      BY <3>1 DEF Elements
  <2>3. Head(s) \in Elements(s)
    BY <1>1 DEF Elements
  <2> QED
    BY <2>1, <2>2, <2>3 DEF Elements
<1> QED
  BY <1>1, <1>2, <1>3 DEF t

\* What is appended is one more element.
LEMMA AppendElements ==
  ASSUME NEW s, s \in Seq(Elements(s)), NEW x
  PROVE  /\ Append(s, x) \in Seq(Elements(Append(s, x)))
         /\ Len(Append(s, x)) = Len(s) + 1
         /\ Elements(Append(s, x)) = Elements(s) \cup {x}
<1> DEFINE t == Append(s, x)
           S == Elements(s) \cup {x}
<1>1. s \in Seq(S) /\ x \in S /\ Len(s) \in Nat
  BY LenProperties
<1>2. /\ t \in Seq(S) /\ Len(t) = Len(s) + 1
      /\ \A i \in 1..Len(s) : t[i] = s[i]
      /\ t[Len(s) + 1] = x
  BY <1>1, AppendProperties
<1> HIDE DEF t, S
<1>3. t \in Seq(Elements(t))
  BY <1>2, OfItsElements
<1>4. ASSUME NEW i \in 1..Len(t) PROVE t[i] \in Elements(s) \cup {x}
  <2>1. i \in 1..Len(s) \/ i = Len(s) + 1
    BY <1>1, <1>2
  <2> QED
    BY <1>2, <2>1 DEF Elements
<1>5. Elements(s) \cup {x} \subseteq Elements(t)
  <2>1. ASSUME NEW i \in 1..Len(s) PROVE s[i] \in Elements(t)
    <3>1. i \in 1..Len(t) /\ t[i] = s[i]
      BY <1>1, <1>2
    <3> QED
      BY <3>1 DEF Elements
  <2>2. Len(s) + 1 \in 1..Len(t) /\ t[Len(s) + 1] = x
    BY <1>1, <1>2
  <2> QED
    BY <2>1, <2>2 DEF Elements
<1>6. Elements(t) = Elements(s) \cup {x}
  BY <1>4, <1>5 DEF Elements
<1> QED
  BY <1>2, <1>3, <1>6 DEF t

\* An estimate is a number.
LEMMA EstimateIsNat ==
  ASSUME NEW a \in Elements(Archives), NEW words
  PROVE  Estimate(a, words) \in Nat
<1> DEFINE found == {i \in DOMAIN Articles[a] : Elements(words) \subseteq Words(Articles[a][i])}
<1>1. Cardinality(found) \in Nat
  <2>1. Articles[a] \in Seq(Elements(Articles[a]))
    BY ResearchQueryAssumption
  <2>2. DOMAIN Articles[a] = 1..Len(Articles[a]) /\ Len(Articles[a]) \in Nat
    BY <2>1, LenProperties
  <2>3. IsFiniteSet(DOMAIN Articles[a])
    BY <2>2, FS_Interval
  <2>4. IsFiniteSet(found)
    BY <2>3, FS_Subset
  <2> QED
    BY <2>4, FS_CardinalityType
<1>2. ASSUME words[1] \in DOMAIN Count[a] PROVE Count[a][words[1]] \in Nat
  BY <1>2, ResearchQueryAssumption
<1> HIDE DEF found
<1> QED
  BY <1>1, <1>2 DEF Estimate, found

\* Counts looked up are added to the cache.
LEMMA IdfStaysTyped ==
  ASSUME Counts, NEW a, NEW added, idf' = [idf EXCEPT ![a] = Updated(@, added)],
         a \in Elements(Archives) => \A q \in DOMAIN added : added[q] \in Nat
  PROVE  /\ DOMAIN idf' = Elements(Archives)
         /\ \A b \in DOMAIN idf' : \A q \in DOMAIN idf'[b] : idf'[b][q] \in Nat
<1>1. DOMAIN idf' = DOMAIN idf
  OBVIOUS
<1>2. ASSUME NEW b \in DOMAIN idf', NEW q \in DOMAIN idf'[b] PROVE idf'[b][q] \in Nat
  <2>1. CASE b = a
    <3>1. idf'[b] = [r \in DOMAIN idf[b] \cup DOMAIN added |->
                        IF r \in DOMAIN added THEN added[r] ELSE idf[b][r]]
      BY <2>1, <1>1, <1>2 DEF Updated
    <3>2. \A r \in DOMAIN added : added[r] \in Nat
      BY <2>1, <1>1, <1>2 DEF Counts
    <3>3. \A r \in DOMAIN idf[b] : idf[b][r] \in Nat
      BY <1>1, <1>2 DEF Counts
    <3> QED
      BY <3>1, <3>2, <3>3, <1>2
  <2>2. CASE b # a
    BY <2>2, <1>1, <1>2 DEF Counts
  <2> QED
    BY <2>1, <2>2
<1> QED
  BY <1>1, <1>2 DEF Counts

\* What a step of an archive leaves of the request: the archives consulted and those
\* that wait, and a timeout; what was gathered has its tokens and its scores.
Carried(r) ==
    /\ DOMAIN r = ReqFields /\ r.elapsed \in Nat
    /\ r.question = req.question /\ r.queue = req.queue
    /\ r.primary = req.primary /\ r.consulted = req.consulted
    /\ req.timedOut => r.timedOut
    /\ Excused(r)
    /\ Gathered(r)

\* A timeout is noted, and nothing else.
LEMMA TimeoutCarries ==
  ASSUME NEW r, NEW missed,
         DOMAIN r = ReqFields, r.elapsed \in Nat, Gathered(r),
         r.question = req.question, r.queue = req.queue,
         r.primary = req.primary, r.consulted = req.consulted,
         req.timedOut => r.timedOut,
         missed \/ Excused(r)
  PROVE  /\ Carried([r EXCEPT !.timedOut = @ \/ missed])
         /\ [r EXCEPT !.timedOut = @ \/ missed].elapsed = r.elapsed
<1> DEFINE late == r.timedOut \/ missed
           t == [r EXCEPT !["timedOut"] = late]
<1>1. [r EXCEPT !.timedOut = @ \/ missed] = t
  OBVIOUS
<1>2. /\ DOMAIN t = ReqFields
      /\ \A field \in ReqFields \ {"timedOut"} : t[field] = r[field]
  BY DEF ReqFields
<1>3. t["timedOut"] <=> r.timedOut \/ missed
  BY DEF ReqFields
<1> HIDE DEF t
<1>4. /\ t.elapsed = r.elapsed /\ t.question = r.question /\ t.queue = r.queue
      /\ t.primary = r.primary /\ t.consulted = r.consulted /\ t.lost = r.lost
      /\ t.candidates = r.candidates /\ t.facts = r.facts
  BY <1>2 DEF ReqFields
<1>5. Gathered(t)
  BY <1>4 DEF Gathered
<1>6. Excused(t)
  BY <1>3, <1>4 DEF Excused
<1> QED
  BY <1>1, <1>2, <1>3, <1>4, <1>5, <1>6 DEF Carried

\* A call leaves the request as it was, but for the time and the stage that failed.
LEMMA CallKeeps ==
  ASSUME IInv, pc \in Processing, NEW ops, NEW reply \in Replies(ops)
  PROVE  /\ DOMAIN After(reply, ops) = ReqFields
         /\ After(reply, ops).elapsed \in Nat
         /\ Gathered(After(reply, ops))
         /\ After(reply, ops).question = req.question
         /\ After(reply, ops).queue = req.queue
         /\ After(reply, ops).primary = req.primary
         /\ After(reply, ops).consulted = req.consulted
         /\ req.timedOut => After(reply, ops).timedOut
         /\ reply.ok = ops \/ pc \in Unreported => Excused(After(reply, ops))
<1>1. /\ DOMAIN req = ReqFields /\ req.elapsed \in Nat /\ Excused(req)
      /\ Gathered(req)
  BY DEF IInv, Shaped, Accounted, Filled, Processing
<1>2. /\ DOMAIN After(reply, ops) = ReqFields
      /\ After(reply, ops).elapsed \in Nat
      /\ \A field \in ReqFields \ {"memo", "elapsed", "lost"} :
            After(reply, ops)[field] = req[field]
      /\ reply.ok = ops => After(reply, ops).lost = req.lost
      /\ After(reply, ops).lost \in {req.lost, req.lost \cup {pc}}
  BY <1>1, CallInTime
<1> DEFINE r == After(reply, ops)
<1> HIDE DEF r
<1>3. /\ r.question = req.question /\ r.queue = req.queue /\ r.primary = req.primary
      /\ r.consulted = req.consulted /\ r.timedOut = req.timedOut
      /\ r.candidates = req.candidates /\ r.facts = req.facts
  BY <1>2 DEF ReqFields, r
<1>4. Gathered(r)
  BY <1>1, <1>3 DEF Gathered
<1>5. reply.ok = ops \/ pc \in Unreported => Excused(r)
  BY <1>1, <1>2, <1>3 DEF Excused, r
<1> QED
  BY <1>2, <1>3, <1>4, <1>5 DEF r

\* A step of an archive that carries the request on keeps the rest of the invariant.
LEMMA ArchiveStep ==
  ASSUME IInv, pc \in Processing, Carried(req'), pc' \in Processing \cup {"consult"},
         pc' \in Processing => DOMAIN arch' = ArchFields /\ arch'.id = arch.id,
         UNCHANGED engineVars, failures' \in 0..MaxFailures,
         UNCHANGED idf \/ \E added : /\ idf' = [idf EXCEPT ![arch.id] = Updated(@, added)]
                                     /\ arch.id \in Elements(Archives) =>
                                          \A q \in DOMAIN added : added[q] \in Nat,
         LateBy'
  PROVE  IInv'
<1>1. Shaped'
  BY DEF IInv, Shaped, Carried, Processing, Stages
<1>2. Accounted'
  <2>1. /\ req.queue \in Seq(Elements(req.queue))
        /\ Elements(req.queue) \subseteq Elements(Archives)
        /\ req.consulted \in Seq(Elements(req.consulted))
        /\ req.timedOut \/ Elements(Primary(req.question)) \subseteq
              Elements(req.consulted) \cup (IF req.primary THEN Elements(req.queue) ELSE {})
    BY DEF IInv, Accounted, Processing
  <2>2. pc' # "respond"
    BY DEF Processing
  <2> QED
    BY <2>1, <2>2 DEF Accounted, Carried
<1>3. Kept' /\ Filled'
  BY DEF IInv, Kept, Given, Filled, Carried, engineVars
<1>4. Counts'
  <2>1. /\ DOMAIN idf' = Elements(Archives)
        /\ \A b \in DOMAIN idf' : \A q \in DOMAIN idf'[b] : idf'[b][q] \in Nat
    <3>1. CASE UNCHANGED idf
      BY <3>1 DEF IInv, Counts
    <3>2. ASSUME NEW added, idf' = [idf EXCEPT ![arch.id] = Updated(@, added)],
                 arch.id \in Elements(Archives) => \A q \in DOMAIN added : added[q] \in Nat
          PROVE  /\ DOMAIN idf' = Elements(Archives)
                 /\ \A b \in DOMAIN idf' : \A q \in DOMAIN idf'[b] : idf'[b][q] \in Nat
      BY <3>2, IdfStaysTyped DEF IInv
    <3> QED
      BY <3>1, <3>2
  <2> QED
    BY <2>1 DEF IInv, Counts, engineVars
<1> QED
  BY <1>1, <1>2, <1>3, <1>4 DEF IInv

\* A request carried on by a call, or by none, that began in time or is late by a tick.
InTime(r) ==
    /\ Carried(r)
    /\ req.elapsed < Hard => r.elapsed <= Hard
    /\ req.elapsed >= Hard => r.elapsed <= req.elapsed + 1

LEMMA CallIsInTime ==
  ASSUME IInv, pc \in Processing, pc \in Unreported, NEW ops, NEW reply \in Replies(ops)
  PROVE  InTime(After(reply, ops))
<1>1. DOMAIN req = ReqFields /\ req.elapsed \in Nat
  BY DEF IInv, Shaped, Processing
<1>2. /\ req.elapsed < Hard => After(reply, ops).elapsed <= Hard
      /\ req.elapsed >= Hard => After(reply, ops).elapsed <= req.elapsed + 1
  BY <1>1, CallInTime
<1> QED
  BY <1>2, CallKeeps DEF Carried, InTime

\* A search or fetch that fails is a timeout.
LEMMA SearchIsInTime ==
  ASSUME IInv, pc \in Processing, NEW ops, NEW reply \in Replies(ops)
  PROVE  InTime(AfterSearch(reply, ops))
<1>1. DOMAIN req = ReqFields /\ req.elapsed \in Nat
  BY DEF IInv, Shaped, Processing
<1> DEFINE r == After(reply, ops)
           missed == reply.ok # ops
<1>2. /\ req.elapsed < Hard => r.elapsed <= Hard
      /\ req.elapsed >= Hard => r.elapsed <= req.elapsed + 1
  BY <1>1, CallInTime
<1>3. /\ DOMAIN r = ReqFields /\ r.elapsed \in Nat /\ Gathered(r)
      /\ r.question = req.question /\ r.queue = req.queue
      /\ r.primary = req.primary /\ r.consulted = req.consulted
      /\ req.timedOut => r.timedOut
      /\ missed \/ Excused(r)
  BY CallKeeps
<1>4. AfterSearch(reply, ops) = [r EXCEPT !.timedOut = @ \/ missed]
  BY DEF AfterSearch
<1> HIDE DEF r, missed
<1>5. Carried(AfterSearch(reply, ops)) /\ AfterSearch(reply, ops).elapsed = r.elapsed
  BY <1>3, <1>4, TimeoutCarries
<1> QED
  BY <1>2, <1>5 DEF InTime

\* The fields a step of an archive may change besides.
LEMMA OtherFields ==
  ASSUME NEW r, NEW s, DOMAIN s = DOMAIN r,
         \A field \in {"question", "queue", "primary", "consulted", "timedOut", "lost",
                       "elapsed", "candidates", "facts"} : s[field] = r[field]
  PROVE  (Carried(r) => Carried(s)) /\ (InTime(r) => InTime(s))
<1>1. Gathered(r) => Gathered(s)
  BY DEF Gathered
<1> QED
  BY <1>1 DEF Carried, InTime, Excused

\* Without a call the request is carried on as it is, or with a timeout.
LEMMA NoCall ==
  ASSUME IInv, pc \in Processing
  PROVE  /\ Carried(req)
         /\ Carried([req EXCEPT !.timedOut = TRUE])
         /\ [req EXCEPT !.timedOut = TRUE].elapsed = req.elapsed
<1>1. Carried(req)
  BY DEF IInv, Shaped, Accounted, Filled, Carried, Processing
<1>2. /\ Carried([req EXCEPT !.timedOut = @ \/ TRUE])
      /\ [req EXCEPT !.timedOut = @ \/ TRUE].elapsed = req.elapsed
  BY <1>1, TimeoutCarries DEF Carried
<1> QED
  BY <1>1, <1>2

\* A prefix is a sequence, and no longer than asked.
LEMMA PrefixIsSeq ==
  ASSUME NEW S, NEW s \in Seq(S), NEW n \in Nat
  PROVE  Prefix(s, n) \in Seq(Elements(Prefix(s, n))) /\ Len(Prefix(s, n)) <= n
<1> DEFINE t == Prefix(s, n)
           m == Len(t)
<1>1. t \in Seq(S) /\ m \in 0..n
  BY PrefixIs
<1> HIDE DEF t
<1>2. t \in Seq(Elements(t))
  BY <1>1, OfItsElements
<1> HIDE DEF m
<1>3. m <= n
  BY <1>1
<1> QED
  BY <1>2, <1>3 DEF t, m

\* The tokens searched for are a sequence.
LEMMA SearchTokensIsSeq ==
  ASSUME NEW q \in Questions
  PROVE  SearchTokens(q) \in Seq(Elements(q.tokens) \cup Elements(q.hint))
<1> DEFINE S == Elements(q.tokens) \cup Elements(q.hint)
<1>1. q.tokens \in Seq(Elements(q.tokens)) /\ q.hint \in Seq(Elements(q.hint))
  BY ResearchQueryAssumption
<1>2. q.tokens \in Seq(S) /\ q.hint \in Seq(S)
  BY <1>1
<1> HIDE DEF S
<1>3. q.tokens \o q.hint \in Seq(S)
  BY <1>2, ConcatProperties
<1> QED
  BY <1>3 DEF SearchTokens, S

-----------------------------------------------------------------------------
(* The steps of an archive *)

\* The joint searches: six terms at most are left to search one by one.
LEMMA SearchJointlyIInv == ASSUME IInv, SearchJointly PROVE IInv'
<1> USE ResearchQueryAssumption
<1>1. /\ pc = "search" /\ pc' = "terms" /\ UNCHANGED <<idf, engineVars>>
      /\ DOMAIN arch = ArchFields /\ req.elapsed \in Nat /\ req.elapsed < Hard
      /\ arch.tokens = SearchTokens(req.question) /\ req.question \in Questions
      /\ failures \in 0..MaxFailures
  BY DEF SearchJointly, IInv, Shaped, LateBy, Counts, Processing
<1> DEFINE ops == Joint(arch.tokens)
           Terms == {Op(kind, <<w>>) : kind \in {"fulltext", "titles"}, w \in Elements(arch.tokens)}
           each(kind) == [i \in 1..Len(arch.tokens) |-> Op(kind, <<arch.tokens[i]>>)]
           again(kind, ok, hits) == IF ok /\ hits = <<>> THEN each(kind) ELSE <<>>
           ftOk(reply) == Op("fulltext", arch.tokens) \in reply.ok
           tiOk(reply) == Op("titles", arch.tokens) \in reply.ok
           ft(reply) == IF ftOk(reply) THEN FullText(arch.id, arch.tokens, 20) ELSE <<>>
           ti(reply) == IF tiOk(reply) THEN Titles(arch.id, arch.tokens, 10) ELSE <<>>
           left(reply) == again("fulltext", ftOk(reply), ft(reply))
                          \o again("titles", tiOk(reply), ti(reply))
<1>2. PICK reply \in Replies(ops) :
         /\ Missed(reply, ops)
         /\ req' = AfterSearch(reply, ops)
         /\ arch' = [arch EXCEPT !.ft = ft(reply), !.ti = ti(reply),
                                 !.pending = Prefix(left(reply), 6)]
  BY DEF SearchJointly
<1> HIDE DEF ftOk, tiOk, ft, ti
<1>3. left(reply) \in Seq(Terms)
  <2>1. each("fulltext") \in Seq(Terms) /\ each("titles") \in Seq(Terms)
    <3>1. Len(arch.tokens) \in Nat
      BY <1>1, SearchTokensIsSeq, LenProperties
    <3>2. \A i \in 1..Len(arch.tokens) : arch.tokens[i] \in Elements(arch.tokens)
      BY DEF Elements
    <3> QED
      BY <3>1, <3>2
  <2> HIDE DEF each
  <2>2. \A ok, hits : /\ again("fulltext", ok, hits) \in Seq(Terms)
                      /\ again("titles", ok, hits) \in Seq(Terms)
    BY <2>1
  <2> HIDE DEF again, Terms
  <2> QED
    BY <2>2, ConcatProperties
<1> HIDE DEF left, Terms
<1>4. /\ DOMAIN arch' = ArchFields /\ arch'.id = arch.id
      /\ arch'.pending \in Seq(Elements(arch'.pending)) /\ Len(arch'.pending) <= 6
  <2>1. arch'.pending = Prefix(left(reply), 6) /\ DOMAIN arch' = ArchFields /\ arch'.id = arch.id
    BY <1>1, <1>2 DEF ArchFields
  <2> QED
    BY <1>3, <2>1, PrefixIsSeq
<1>5. InTime(req')
  BY <1>1, <1>2, SearchIsInTime DEF Processing
<1>6. LateBy'
  <2>1. Len(arch'.pending) \in Nat
    BY <1>4, LenProperties
  <2> QED
    BY <1>1, <1>4, <1>5, <2>1 DEF LateBy, InTime, Carried
<1> QED
  BY <1>1, <1>2, <1>4, <1>5, <1>6, ArchiveStep, MissedCounts DEF InTime, Processing

\* One term is searched: a tick at most, and one term less.
LEMMA SearchTermIInv == ASSUME IInv, SearchTerm PROVE IInv'
<1> USE ResearchQueryAssumption
<1>1. /\ pc = "terms" /\ pc' = "terms" /\ UNCHANGED <<idf, engineVars>>
      /\ DOMAIN arch = ArchFields /\ req.elapsed \in Nat /\ arch.pending # <<>>
      /\ arch.pending \in Seq(Elements(arch.pending)) /\ failures \in 0..MaxFailures
      /\ Len(arch.pending) <= 6 /\ req.elapsed + Len(arch.pending) <= Hard + 6
  BY DEF SearchTerm, IInv, Shaped, LateBy, Counts, Processing
<1>2. PICK reply, hit :
         /\ reply \in Replies({Head(arch.pending)}) /\ Missed(reply, {Head(arch.pending)})
         /\ req' = AfterSearch(reply, {Head(arch.pending)})
         /\ arch' = [arch EXCEPT !.pending = Tail(@), !.hits = Append(@, hit)]
  BY DEF SearchTerm
<1>3. DOMAIN arch' = ArchFields /\ arch'.id = arch.id /\ arch'.pending = Tail(arch.pending)
  BY <1>1, <1>2 DEF ArchFields
<1>4. InTime(req')
  BY <1>1, <1>2, SearchIsInTime DEF Processing
<1>5. LateBy'
  <2> DEFINE n == Len(arch.pending)
             m == Len(arch'.pending)
  <2>1. arch'.pending \in Seq(Elements(arch'.pending)) /\ m = n - 1 /\ n \in Nat \ {0}
    BY <1>1, <1>3, TailElements, LenProperties, EmptySeq
  <2>2. n <= 6 /\ req.elapsed + n <= Hard + 6
    BY <1>1
  <2> HIDE DEF n, m
  <2>3. req'.elapsed \in Nat /\ (req'.elapsed <= Hard \/ req'.elapsed <= req.elapsed + 1)
    BY <1>1, <1>4 DEF InTime, Carried
  <2>4. req.elapsed \in Nat /\ Hard \in Nat
    BY <1>1
  <2>5. m <= 6 /\ req'.elapsed + m <= Hard + 6 /\ req'.elapsed <= Hard + 7
    <3> DEFINE e == req.elapsed
               late == req'.elapsed
    <3>1. /\ n \in Nat \ {0} /\ m = n - 1 /\ n <= 6 /\ e + n <= Hard + 6
          /\ e \in Nat /\ late \in Nat /\ Hard \in Nat /\ (late <= Hard \/ late <= e + 1)
      BY <2>1, <2>2, <2>3, <2>4
    <3> HIDE DEF e, late
    <3>2. m <= 6 /\ late + m <= Hard + 6 /\ late <= Hard + 7
      BY <3>1
    <3> QED
      BY <3>2 DEF late
  <2> QED
    BY <1>1, <2>1, <2>5 DEF LateBy, m
<1> QED
  BY <1>1, <1>2, <1>3, <1>4, <1>5, ArchiveStep, MissedCounts DEF InTime, Processing

\* All terms are searched.
LEMMA TermsDoneIInv == ASSUME IInv, TermsDone PROVE IInv'
<1> USE ResearchQueryAssumption
<1>1. /\ pc = "terms" /\ UNCHANGED <<req, idf, engineVars, failures>>
      /\ DOMAIN arch = ArchFields /\ req.elapsed \in Nat /\ failures \in 0..MaxFailures
      /\ req.elapsed <= Hard + 6
      /\ pc' \in {"rarity", "dense"} /\ (pc' = "rarity" => req.elapsed < Hard)
  <2>1. Len(arch.pending) = 0
    BY EmptySeq DEF TermsDone
  <2> QED
    BY <2>1 DEF TermsDone, IInv, Shaped, LateBy, Counts, Processing, Remaining
<1>2. DOMAIN arch' = ArchFields /\ arch'.id = arch.id
  BY <1>1 DEF TermsDone, ArchFields
<1>3. Carried(req')
  BY <1>1, NoCall DEF Processing
<1>4. LateBy'
  BY <1>1 DEF LateBy
<1> QED
  BY <1>1, <1>2, <1>3, <1>4, ArchiveStep DEF Processing

\* The counts looked up are kept.
LEMMA LookUpRarityIInv == ASSUME IInv, LookUpRarity PROVE IInv'
<1> USE ResearchQueryAssumption
<1>1. /\ pc = "rarity" /\ pc' = "spell" /\ UNCHANGED engineVars
      /\ DOMAIN arch = ArchFields /\ req.elapsed \in Nat /\ req.elapsed < Hard
      /\ failures \in 0..MaxFailures
  BY DEF LookUpRarity, IInv, Shaped, LateBy, Counts, Processing
<1>2. PICK words, reply, counted :
         /\ reply \in Replies(Estimates(words)) /\ Missed(reply, Estimates(words))
         /\ req' = After(reply, Estimates(words))
         /\ idf' = [idf EXCEPT ![arch.id] =
                       Updated(@, [q \in {<<w>> : w \in counted} |-> Estimate(arch.id, q)])]
  BY DEF LookUpRarity
<1>3. DOMAIN arch' = ArchFields /\ arch'.id = arch.id
  BY <1>1 DEF LookUpRarity, ArchFields
<1>4. InTime(req')
  BY <1>1, <1>2, CallIsInTime DEF Processing, Unreported
<1>5. LateBy'
  BY <1>1, <1>4 DEF LateBy, InTime, Carried
<1> DEFINE added == [q \in {<<w>> : w \in counted} |-> Estimate(arch.id, q)]
<1>6. arch.id \in Elements(Archives) => \A q \in DOMAIN added : added[q] \in Nat
  BY EstimateIsNat
<1>7. idf' = [idf EXCEPT ![arch.id] = Updated(@, added)]
  BY <1>2
<1> HIDE DEF added
<1> QED
  BY <1>1, <1>2, <1>3, <1>4, <1>5, <1>6, <1>7, ArchiveStep, MissedCounts
     DEF InTime, Processing

\* A call given as long as an earlier one.
LEMMA LateCallCarries ==
  ASSUME IInv, pc \in Processing, pc \in Unreported,
         NEW ops, NEW reply \in Replies(ops), NEW given \in Nat
  PROVE  /\ Carried(AfterCall(reply, ops, given))
         /\ AfterCall(reply, ops, given).elapsed <= req.elapsed + given
<1> DEFINE r == AfterCall(reply, ops, given)
<1>1. /\ DOMAIN req = ReqFields /\ req.elapsed \in Nat /\ Excused(req)
      /\ Gathered(req)
  BY DEF IInv, Shaped, Accounted, Filled, Processing
<1>2. /\ DOMAIN r = ReqFields /\ r.elapsed \in Nat /\ r.elapsed <= req.elapsed + given
      /\ \A field \in ReqFields \ {"memo", "elapsed", "lost"} : r[field] = req[field]
      /\ reply.ok = ops => r.lost = req.lost
      /\ r.lost \in {req.lost, req.lost \cup {pc}}
  <2> HIDE DEF r
  <2>1. r = AfterCall(reply, ops, given)
    BY DEF r
  <2>2. /\ DOMAIN r = ReqFields /\ r.elapsed \in Nat /\ r.elapsed <= req.elapsed + given
        /\ \A field \in ReqFields \ {"memo", "elapsed", "lost"} : r[field] = req[field]
    BY <1>1, <2>1, CallLeaves
  <2>3. /\ reply.ok = ops => r.lost = req.lost
        /\ r.lost \in {req.lost, req.lost \cup {pc}}
    BY <1>1, <2>1, CallLeaves
  <2> QED
    BY <2>2, <2>3
<1> HIDE DEF r
<1>3. /\ r.question = req.question /\ r.queue = req.queue /\ r.primary = req.primary
      /\ r.consulted = req.consulted /\ r.timedOut = req.timedOut
      /\ r.candidates = req.candidates /\ r.facts = req.facts
  BY <1>2 DEF ReqFields
<1>4. Gathered(r)
  BY <1>1, <1>3 DEF Gathered
<1>5. Excused(r)
  BY <1>1, <1>2, <1>3 DEF Excused
<1> QED
  BY <1>1, <1>2, <1>3, <1>4, <1>5 DEF Carried, r

\* Titles near the misspelt words.
LEMMA SuggestTitlesIInv == ASSUME IInv, SuggestTitles PROVE IInv'
<1> USE ResearchQueryAssumption
<1>1. /\ pc = "spell" /\ UNCHANGED <<idf, engineVars>>
      /\ DOMAIN arch = ArchFields /\ req.elapsed \in Nat /\ req.elapsed <= Hard
      /\ failures \in 0..MaxFailures
  BY DEF SuggestTitles, IInv, Shaped, LateBy, Counts, Processing
<1>2. CASE pc' = "split" /\ UNCHANGED <<req, arch, failures>>
  <2>1. LateBy'
    BY <1>1, <1>2 DEF LateBy
  <2> QED
    BY <1>1, <1>2, <2>1, NoCall, ArchiveStep DEF Processing
<1>3. ASSUME ~(pc' = "split" /\ UNCHANGED <<req, arch, failures>>) PROVE IInv'
  <2>1. PICK ops, reply, near :
           /\ reply \in Replies(ops) /\ Missed(reply, ops)
           /\ Remaining # 0
           /\ req' = After(reply, ops)
           /\ arch' = [arch EXCEPT !.near = near, !.given = OpDeadline]
           /\ pc' \in {"split", "correct"}
    BY <1>3 DEF SuggestTitles
  <2>2. DOMAIN arch' = ArchFields /\ arch'.id = arch.id /\ arch'.given = OpDeadline
    BY <1>1, <2>1 DEF ArchFields
  <2>3. InTime(req')
    BY <1>1, <2>1, CallIsInTime DEF Processing, Unreported
  <2>4. req.elapsed < Hard
    BY <1>1, <2>1 DEF Remaining
  <2>5. LateBy'
    <3>1. arch'.given \in 0..Cap
      BY <1>1, <2>2, <2>4, DeadlineBounds
    <3>2. req'.elapsed \in Nat /\ req'.elapsed <= Hard
      BY <1>1, <2>3, <2>4 DEF InTime, Carried
    <3>3. pc' \in {"split", "correct", "join"}
      BY <2>1
    <3> QED
      BY <3>1, <3>2, <3>3 DEF LateBy
  <2> QED
    BY <1>1, <2>1, <2>2, <2>3, <2>5, ArchiveStep, MissedCounts DEF InTime, Processing
<1> QED
  BY <1>2, <1>3

\* The second call of a correction is given as long as the first.
LEMMA CorrectSpellingIInv == ASSUME IInv, CorrectSpelling PROVE IInv'
<1> USE ResearchQueryAssumption
<1>1. /\ pc = "correct" /\ pc' = "split" /\ UNCHANGED <<idf, engineVars>>
      /\ DOMAIN arch = ArchFields /\ req.elapsed \in Nat /\ req.elapsed <= Hard
      /\ arch.given \in 0..Cap /\ failures \in 0..MaxFailures
  BY DEF CorrectSpelling, IInv, Shaped, LateBy, Counts, Processing
<1>2. PICK ops, reply, spelled :
         /\ reply \in Replies(ops) /\ Missed(reply, ops)
         /\ req' = [AfterCall(reply, ops, arch.given) EXCEPT !.corrected = Updated(@, spelled)]
  BY DEF CorrectSpelling
<1>3. DOMAIN arch' = ArchFields /\ arch'.id = arch.id
  BY <1>1 DEF CorrectSpelling, ArchFields
<1> DEFINE r == AfterCall(reply, ops, arch.given)
<1>4. Carried(r) /\ r.elapsed <= req.elapsed + arch.given
  <2>1. pc \in Processing /\ pc \in Unreported /\ arch.given \in Nat
    BY <1>1 DEF Processing, Unreported
  <2> QED
    BY <1>2, <2>1, LateCallCarries
<1> HIDE DEF r
<1>5. Carried(req') /\ req'.elapsed = r.elapsed
  <2>1. DOMAIN r = ReqFields
    BY <1>4 DEF Carried
  <2>2. req' = [r EXCEPT !.corrected = Updated(@, spelled)]
    BY <1>2 DEF r
  <2> QED
    BY <1>4, <2>1, <2>2, OtherFields DEF ReqFields
<1>6. LateBy'
  BY <1>1, <1>4, <1>5 DEF LateBy, Carried
<1> QED
  BY <1>1, <1>2, <1>3, <1>5, <1>6, ArchiveStep, MissedCounts DEF Processing

\* Words split in two.
LEMMA SplitWordsIInv == ASSUME IInv, SplitWords PROVE IInv'
<1> USE ResearchQueryAssumption
<1>1. /\ pc = "split" /\ UNCHANGED <<idf, engineVars>>
      /\ DOMAIN arch = ArchFields /\ req.elapsed \in Nat /\ req.elapsed <= Hard + Cap
      /\ failures \in 0..MaxFailures
  BY DEF SplitWords, IInv, Shaped, LateBy, Counts, Processing
<1>2. CASE pc' = "entity" /\ UNCHANGED <<req, arch, failures>>
  <2>1. LateBy'
    BY <1>1, <1>2 DEF LateBy
  <2> QED
    BY <1>1, <1>2, <2>1, NoCall, ArchiveStep DEF Processing
<1>3. ASSUME ~(pc' = "entity" /\ UNCHANGED <<req, arch, failures>>) PROVE IInv'
  <2>1. PICK ops, reply, joined, corrections, counts :
           /\ reply \in Replies(ops) /\ Missed(reply, ops)
           /\ Remaining # 0
           /\ req' = After(reply, ops)
           /\ arch' = [arch EXCEPT !.joined = joined, !.given = OpDeadline,
                                   !.corrections = corrections, !.counts = counts]
           /\ pc' = "join"
    BY <1>3 DEF SplitWords
  <2>2. DOMAIN arch' = ArchFields /\ arch'.id = arch.id /\ arch'.given = OpDeadline
    BY <1>1, <2>1 DEF ArchFields
  <2>3. InTime(req')
    BY <1>1, <2>1, CallIsInTime DEF Processing, Unreported
  <2>4. req.elapsed < Hard
    BY <1>1, <2>1 DEF Remaining
  <2>5. LateBy'
    <3>1. arch'.given \in 0..Cap
      BY <1>1, <2>2, <2>4, DeadlineBounds
    <3>2. req'.elapsed \in Nat /\ req'.elapsed <= Hard
      BY <1>1, <2>3, <2>4 DEF InTime, Carried
    <3>3. pc' \in {"split", "correct", "join"}
      BY <2>1
    <3> QED
      BY <3>1, <3>2, <3>3 DEF LateBy
  <2> QED
    BY <1>1, <2>1, <2>2, <2>3, <2>5, ArchiveStep, MissedCounts DEF InTime, Processing
<1> QED
  BY <1>2, <1>3

\* Words joined: again the second call of a correction.
LEMMA JoinWordsIInv == ASSUME IInv, JoinWords PROVE IInv'
<1> USE ResearchQueryAssumption
<1>1. /\ pc = "join" /\ pc' \in {"entity", "again"} /\ UNCHANGED <<idf, engineVars>>
      /\ DOMAIN arch = ArchFields /\ req.elapsed \in Nat /\ req.elapsed <= Hard
      /\ arch.given \in 0..Cap /\ failures \in 0..MaxFailures
  BY DEF JoinWords, IInv, Shaped, LateBy, Counts, Processing
<1> DEFINE phrases == {phrase \in DOMAIN Joined : Parts[phrase] \in Elements(Pairs)}
           ops == Estimates(phrases \cup {Joined[phrase] : phrase \in phrases})
<1>2. \E reply, joined :
         /\ reply \in Replies(ops) /\ Missed(reply, ops)
         /\ req' = [AfterCall(reply, ops, arch.given) EXCEPT !.corrected = Updated(@, joined)]
  BY DEF JoinWords
<1> HIDE DEF ops
<1>3. PICK reply, joined :
         /\ reply \in Replies(ops) /\ Missed(reply, ops)
         /\ req' = [AfterCall(reply, ops, arch.given) EXCEPT !.corrected = Updated(@, joined)]
  BY <1>2
<1>4. DOMAIN arch' = ArchFields /\ arch'.id = arch.id
  BY <1>1 DEF JoinWords, ArchFields
<1> DEFINE r == AfterCall(reply, ops, arch.given)
<1>5. Carried(r) /\ r.elapsed <= req.elapsed + arch.given
  <2>1. pc \in Processing /\ pc \in Unreported /\ arch.given \in Nat
    BY <1>1 DEF Processing, Unreported
  <2> QED
    BY <1>3, <2>1, LateCallCarries
<1> HIDE DEF r
<1>6. Carried(req') /\ req'.elapsed = r.elapsed
  <2>1. DOMAIN r = ReqFields
    BY <1>5 DEF Carried
  <2>2. req' = [r EXCEPT !.corrected = Updated(@, joined)]
    BY <1>3 DEF r
  <2> QED
    BY <1>5, <2>1, <2>2, OtherFields DEF ReqFields
<1>7. LateBy'
  BY <1>1, <1>5, <1>6 DEF LateBy, Carried
<1> QED
  BY <1>1, <1>3, <1>4, <1>6, <1>7, ArchiveStep, MissedCounts DEF Processing

\* The corrected query is searched, if time remains.
LEMMA SearchCorrectedIInv == ASSUME IInv, SearchCorrected PROVE IInv'
<1> USE ResearchQueryAssumption
<1>1. /\ pc = "again" /\ pc' = "entity" /\ UNCHANGED <<idf, engineVars>>
      /\ DOMAIN arch = ArchFields /\ req.elapsed \in Nat /\ req.elapsed <= Hard + Cap
      /\ failures \in 0..MaxFailures
  BY DEF SearchCorrected, AfterCorrection, IInv, Shaped, LateBy, Counts, Processing
<1>2. CASE UNCHANGED <<req, arch, failures>>
  <2>1. LateBy'
    BY <1>1, <1>2 DEF LateBy
  <2> QED
    BY <1>1, <1>2, <2>1, NoCall, ArchiveStep DEF Processing
<1>3. CASE ~UNCHANGED <<req, arch, failures>>
  <2>1. PICK reply \in Replies(Joint(CorrectedTokens)) :
           /\ Missed(reply, Joint(CorrectedTokens))
           /\ req' = After(reply, Joint(CorrectedTokens))
    BY <1>3 DEF SearchCorrected
  <2>2. DOMAIN arch' = ArchFields /\ arch'.id = arch.id /\ Remaining # 0
    BY <1>1, <1>3 DEF SearchCorrected, ArchFields
  <2>3. InTime(req')
    BY <1>1, <2>1, CallIsInTime DEF Processing, Unreported
  <2>4. LateBy'
    BY <1>1, <2>2, <2>3 DEF LateBy, InTime, Carried, Remaining
  <2> QED
    BY <1>1, <2>1, <2>2, <2>3, <2>4, ArchiveStep, MissedCounts DEF InTime, Processing
<1> QED
  BY <1>2, <1>3

\* The searches of the rarest words are sent whether or not time remains.
LEMMA SearchEntitiesIInv == ASSUME IInv, SearchEntities PROVE IInv'
<1> USE ResearchQueryAssumption
<1>1. /\ pc = "entity" /\ pc' = "relax" /\ UNCHANGED <<idf, engineVars>>
      /\ DOMAIN arch = ArchFields /\ req.elapsed \in Nat /\ req.elapsed <= Hard + Cap
      /\ failures \in 0..MaxFailures
  BY DEF SearchEntities, IInv, Shaped, LateBy, Counts, Processing
<1> DEFINE terms == Prefix(RarityOrder, 3)
           titles(t) == Op("titles3", <<t>>)
           snippet(t) == Op("fulltext1", <<t>>)
           ops == {titles(t) : t \in Elements(terms)} \cup {snippet(t) : t \in Elements(terms)}
           unknown == {w \in Elements(ZeroTerms) : w \notin DOMAIN arch.spelled
                                                   /\ w \notin DOMAIN arch.joined}
<1>2. PICK reply \in Replies(ops) :
         /\ Missed(reply, ops)
         /\ req' = [AfterSearch(reply, ops) EXCEPT !.unknown = Append(@, unknown)]
  BY DEF SearchEntities
<1>3. DOMAIN arch' = ArchFields /\ arch'.id = arch.id /\ arch'.relax \in {2, 4}
  BY <1>1 DEF SearchEntities, ArchFields
<1> HIDE DEF ops, unknown
<1> DEFINE r == AfterSearch(reply, ops)
<1>4. InTime(r)
  BY <1>1, <1>2, SearchIsInTime DEF Processing
<1> HIDE DEF r
<1>5. InTime(req')
  <2>1. DOMAIN r = ReqFields
    BY <1>4 DEF InTime, Carried
  <2>2. req' = [r EXCEPT !.unknown = Append(@, unknown)]
    BY <1>2 DEF r
  <2> QED
    BY <1>4, <2>1, <2>2, OtherFields DEF ReqFields
<1>6. LateBy'
  <2>1. req'.elapsed \in Nat /\ req'.elapsed <= Hard + Cap + 1
    BY <1>1, <1>5 DEF InTime, Carried
  <2> QED
    BY <1>1, <1>3, <2>1 DEF LateBy
<1> QED
  BY <1>1, <1>2, <1>3, <1>5, <1>6, ArchiveStep, MissedCounts DEF InTime, Processing

\* Nor do the searches of two and three words ask the time: a tick each.
LEMMA RelaxIInv == ASSUME IInv, Relax PROVE IInv'
<1> USE ResearchQueryAssumption
<1>1. /\ pc = "relax" /\ UNCHANGED <<idf, engineVars>>
      /\ DOMAIN arch = ArchFields /\ req.elapsed \in Nat
      /\ arch.relax \in 2..4 /\ req.elapsed + 1 <= Hard + Cap + arch.relax
      /\ failures \in 0..MaxFailures
  BY DEF Relax, IInv, Shaped, LateBy, Counts, Processing
<1>2. CASE arch.relax > 3
  <2>1. /\ pc' = IF Remaining > 0 THEN "together" ELSE "dense"
        /\ UNCHANGED <<req, failures>> /\ DOMAIN arch' = ArchFields /\ arch'.id = arch.id
    BY <1>1, <1>2 DEF Relax, ArchFields
  <2>2. LateBy'
    BY <1>1, <2>1 DEF LateBy, Remaining
  <2> QED
    BY <1>1, <2>1, <2>2, NoCall, ArchiveStep DEF Processing
<1>3. CASE ~(arch.relax > 3) /\ Len(RarityOrder) < arch.relax
  <2>1. /\ pc' = pc /\ UNCHANGED <<req, failures>>
        /\ arch' = [arch EXCEPT !.relax = @ + 1]
    BY <1>3 DEF Relax
  <2>2. DOMAIN arch' = ArchFields /\ arch'.id = arch.id /\ arch'.relax = arch.relax + 1
    BY <1>1, <2>1 DEF ArchFields
  <2>3. LateBy'
    <3> DEFINE e == req.elapsed
               k == arch.relax
    <3>1. /\ k \in 2..4 /\ ~(k > 3) /\ e \in Nat /\ e + 1 <= Hard + Cap + k
          /\ req'.elapsed = e /\ arch'.relax = k + 1
      BY <1>1, <1>3, <2>1, <2>2
    <3> HIDE DEF e, k
    <3>2. /\ arch'.relax \in 2..4 /\ req'.elapsed + 1 <= Hard + Cap + arch'.relax
          /\ req'.elapsed <= Hard + Cap + 4
      BY <3>1
    <3>3. pc' = "relax"
      BY <1>1, <2>1
    <3> QED
      BY <3>2, <3>3 DEF LateBy
  <2> QED
    BY <1>1, <2>1, <2>2, <2>3, NoCall, ArchiveStep DEF Processing
<1>4. CASE ~(arch.relax > 3) /\ ~(Len(RarityOrder) < arch.relax)
  <2>1. PICK ops, reply, found :
           /\ reply \in Replies(ops) /\ Missed(reply, ops)
           /\ req' = AfterSearch(reply, ops)
           /\ arch' = [arch EXCEPT !.relax = @ + 1, !.found = found]
    BY <1>4 DEF Relax
  <2>2. DOMAIN arch' = ArchFields /\ arch'.id = arch.id /\ arch'.relax = arch.relax + 1 /\ pc' = pc
    BY <1>1, <1>4, <2>1 DEF ArchFields, Relax
  <2>3. InTime(req')
    BY <1>1, <2>1, SearchIsInTime DEF Processing
  <2>4. LateBy'
    <3> DEFINE e == req.elapsed
               late == req'.elapsed
               k == arch.relax
    <3>1. late \in Nat /\ (late <= Hard \/ late <= e + 1)
      BY <1>1, <2>3 DEF InTime, Carried
    <3>2. /\ k \in 2..4 /\ ~(k > 3) /\ e \in Nat /\ e + 1 <= Hard + Cap + k
          /\ arch'.relax = k + 1
      BY <1>1, <1>4, <2>2
    <3> HIDE DEF e, late, k
    <3>3. arch'.relax \in 2..4 /\ late + 1 <= Hard + Cap + arch'.relax
          /\ late <= Hard + Cap + 4
      BY <3>1, <3>2
    <3>4. pc' = "relax"
      BY <1>1, <2>2
    <3> QED
      BY <3>3, <3>4 DEF LateBy, late
  <2> QED
    BY <1>1, <2>1, <2>2, <2>3, <2>4, ArchiveStep, MissedCounts DEF InTime, Processing
<1> QED
  BY <1>2, <1>3, <1>4

\* Counts that failed are kept as none.
LEMMA KeptOnFailureTyped ==
  ASSUME NEW fresh, NEW ok
  PROVE  \E added : /\ KeptOnFailure(arch.id, fresh, ok) = [idf EXCEPT ![arch.id] = Updated(@, added)]
                    /\ arch.id \in Elements(Archives) =>
                         \A q \in DOMAIN added : added[q] \in Nat
<1> DEFINE added == [q \in fresh |-> IF Op("estimate", q) \in ok THEN Estimate(arch.id, q) ELSE 0]
<1>1. arch.id \in Elements(Archives) => \A q \in DOMAIN added : added[q] \in Nat
  BY EstimateIsNat
<1>2. KeptOnFailure(arch.id, fresh, ok) = [idf EXCEPT ![arch.id] = Updated(@, added)]
  BY DEF KeptOnFailure
<1> HIDE DEF added
<1> QED
  BY <1>1, <1>2

\* The words together.
LEMMA CountTogetherIInv == ASSUME IInv, CountTogether PROVE IInv'
<1> USE ResearchQueryAssumption
<1>1. /\ pc = "together" /\ UNCHANGED <<arch, engineVars>>
      /\ DOMAIN arch = ArchFields /\ req.elapsed \in Nat /\ req.elapsed < Hard
      /\ failures \in 0..MaxFailures
  BY DEF CountTogether, IInv, Shaped, LateBy, Counts, Processing
<1>2. PICK fresh, ops, reply, weak :
         /\ reply \in Replies(ops) /\ Missed(reply, ops)
         /\ req' = After(reply, ops)
         /\ idf' = KeptOnFailure(arch.id, fresh, reply.ok)
         /\ pc' = IF weak /\ After(reply, ops).elapsed < Hard THEN "relatives" ELSE "dense"
  BY DEF CountTogether
<1>3. InTime(req')
  BY <1>1, <1>2, CallIsInTime DEF Processing, Unreported
<1>4. LateBy'
  BY <1>1, <1>2, <1>3 DEF LateBy, InTime, Carried
<1> QED
  BY <1>1, <1>2, <1>3, <1>4, KeptOnFailureTyped, ArchiveStep, MissedCounts DEF InTime, Processing

\* The relatives of words.
LEMMA ExpandVariantsIInv == ASSUME IInv, ExpandVariants PROVE IInv'
<1> USE ResearchQueryAssumption
<1>1. /\ pc = "relatives" /\ UNCHANGED engineVars
      /\ DOMAIN arch = ArchFields /\ req.elapsed \in Nat /\ req.elapsed < Hard
      /\ failures \in 0..MaxFailures
  BY DEF ExpandVariants, IInv, Shaped, LateBy, Counts, Processing
<1> DEFINE content == SelectSeq(Distinct(arch.tokens), LAMBDA t : t \notin Elements(arch.corrections))
           terms == Elements(Prefix(content, 3)) \cap DOMAIN Variants
           fresh == {<<v>> : v \in UNION {Variants[t] : t \in terms}} \ DOMAIN idf[arch.id]
           ops == {Op("estimate", q) : q \in fresh}
<1> HIDE DEF content, terms
<1>2. PICK reply, expanded :
         /\ reply \in Replies(ops)
         /\ Missed(reply, ops)
         /\ req' = [After(reply, ops) EXCEPT !.expanded = Updated(@, expanded)]
         /\ idf' = KeptOnFailure(arch.id, fresh, reply.ok)
         /\ pc' \in {"substitute", "dense"}
         /\ pc' = "substitute" => After(reply, ops).elapsed < Hard
  BY DEF ExpandVariants, content, terms
<1> HIDE DEF fresh, ops
<1>3. DOMAIN arch' = ArchFields /\ arch'.id = arch.id
  BY <1>1 DEF ExpandVariants, ArchFields
<1> DEFINE r == After(reply, ops)
<1>4. InTime(r)
  BY <1>1, <1>2, CallIsInTime DEF Processing, Unreported
<1> HIDE DEF r
<1>5. InTime(req') /\ req'.elapsed = r.elapsed
  <2>1. DOMAIN r = ReqFields
    BY <1>4 DEF InTime, Carried
  <2>2. req' = [r EXCEPT !.expanded = Updated(@, expanded)]
    BY <1>2 DEF r
  <2> QED
    BY <1>4, <2>1, <2>2, OtherFields DEF ReqFields
<1>6. LateBy'
  <2>1. /\ req'.elapsed \in Nat /\ req'.elapsed <= Hard
        /\ pc' \in {"substitute", "dense"} /\ (pc' = "substitute" => req'.elapsed < Hard)
    BY <1>1, <1>2, <1>5 DEF InTime, Carried, r
  <2> QED
    BY <2>1 DEF LateBy
<1>7. \E added : /\ idf' = [idf EXCEPT ![arch.id] = Updated(@, added)]
                 /\ arch.id \in Elements(Archives) => \A w \in DOMAIN added : added[w] \in Nat
  BY <1>2, KeptOnFailureTyped
<1>8. /\ pc \in Processing /\ pc' \in Processing \cup {"consult"} /\ Carried(req')
      /\ failures' \in 0..MaxFailures
  BY <1>1, <1>2, <1>5, MissedCounts DEF InTime, Processing
<1> QED
  BY <1>1, <1>3, <1>6, <1>7, <1>8, ArchiveStep

\* The query with its relatives.
LEMMA SubstituteVariantsIInv == ASSUME IInv, SubstituteVariants PROVE IInv'
<1> USE ResearchQueryAssumption
<1>1. /\ pc = "substitute" /\ pc' = "dense" /\ UNCHANGED <<idf, engineVars>>
      /\ DOMAIN arch = ArchFields /\ req.elapsed \in Nat /\ req.elapsed < Hard
      /\ failures \in 0..MaxFailures
  BY DEF SubstituteVariants, IInv, Shaped, LateBy, Counts, Processing
<1>2. PICK ops, reply : reply \in Replies(ops) /\ Missed(reply, ops) /\ req' = After(reply, ops)
  BY DEF SubstituteVariants
<1>3. DOMAIN arch' = ArchFields /\ arch'.id = arch.id
  BY <1>1 DEF SubstituteVariants, ArchFields
<1>4. InTime(req')
  BY <1>1, <1>2, CallIsInTime DEF Processing, Unreported
<1>5. LateBy'
  BY <1>1, <1>4 DEF LateBy, InTime, Carried
<1> QED
  BY <1>1, <1>2, <1>3, <1>4, <1>5, ArchiveStep, MissedCounts DEF InTime, Processing

\* Ranking makes no call.
LEMMA RankArticlesIInv == ASSUME IInv, RankArticles PROVE IInv'
<1> USE ResearchQueryAssumption
<1>1. /\ pc = "dense" /\ UNCHANGED <<req, idf, engineVars, failures>>
      /\ DOMAIN arch = ArchFields /\ req.elapsed \in Nat /\ failures \in 0..MaxFailures
      /\ req.elapsed <= Hard + Cap + 3 \/ req.elapsed <= Hard + 6
  BY DEF RankArticles, IInv, Shaped, LateBy, Counts, Processing
<1>2. DOMAIN arch' = ArchFields /\ arch'.id = arch.id /\ pc' \in {"consult", "hint", "fetch"}
  BY <1>1 DEF RankArticles, ArchFields
<1>3. LateBy'
  BY <1>1, <1>2 DEF LateBy
<1> QED
  BY <1>1, <1>2, <1>3, NoCall, ArchiveStep DEF Processing

\* The article of the topic hint is looked for whether or not time remains.
LEMMA SearchHintIInv == ASSUME IInv, SearchHint PROVE IInv'
<1> USE ResearchQueryAssumption
<1>1. /\ pc = "hint" /\ pc' = "fetch" /\ UNCHANGED <<idf, engineVars>>
      /\ DOMAIN arch = ArchFields /\ req.elapsed \in Nat /\ failures \in 0..MaxFailures
      /\ req.elapsed <= Hard + Cap + 3 \/ req.elapsed <= Hard + 6
  BY DEF SearchHint, IInv, Shaped, LateBy, Counts, Processing
<1>2. PICK ops, reply :
         /\ reply \in Replies(ops) /\ Missed(reply, ops)
         /\ req' = AfterSearch(reply, ops)
  BY DEF SearchHint
<1>3. DOMAIN arch' = ArchFields /\ arch'.id = arch.id
  BY <1>1 DEF SearchHint, ArchFields
<1>4. InTime(req')
  BY <1>1, <1>2, SearchIsInTime DEF Processing
<1>5. LateBy'
  BY <1>1, <1>4 DEF LateBy, InTime, Carried
<1> QED
  BY <1>1, <1>2, <1>3, <1>4, <1>5, ArchiveStep, MissedCounts DEF InTime, Processing

\* The fetch, which is not begun past the deadline.
LEMMA FetchArticlesIInv == ASSUME IInv, FetchArticles PROVE IInv'
<1> USE ResearchQueryAssumption
<1>1. /\ pc = "fetch" /\ pc' = "consult" /\ UNCHANGED <<arch, idf, engineVars>>
      /\ req.elapsed \in Nat /\ failures \in 0..MaxFailures
      /\ req.elapsed <= Hard + Cap + 4 \/ req.elapsed <= Hard + 7
  BY DEF FetchArticles, IInv, Shaped, LateBy, Counts, Processing
<1>2. CASE Remaining = 0
  <2>1. req' = [req EXCEPT !.timedOut = TRUE] /\ UNCHANGED failures
    BY <1>2 DEF FetchArticles
  <2>2. Carried(req') /\ req'.elapsed = req.elapsed
    BY <1>1, <2>1, NoCall DEF Processing
  <2>3. LateBy'
    BY <1>1, <2>2 DEF LateBy
  <2> QED
    BY <1>1, <2>1, <2>2, <2>3, ArchiveStep DEF Processing
<1>3. CASE Remaining # 0
  <2> DEFINE ops == {Op("fetch", <<path>>) : path \in Elements(arch.top)}
  <2>1. PICK reply \in Replies(ops) :
           /\ Missed(reply, ops)
           /\ req' = [AfterSearch(reply, ops) EXCEPT
                         !.candidates = @ \o ScoredPassages(Fetched(7, reply.ok)),
                         !.facts = @ \o KeyFacts(Fetched(2, reply.ok))]
    BY <1>3 DEF FetchArticles
  <2> HIDE DEF ops
  <2> DEFINE r == AfterSearch(reply, ops)
             scored == ScoredPassages(Fetched(7, reply.ok))
             facts == KeyFacts(Fetched(2, reply.ok))
  <2>2. InTime(r)
    BY <1>1, <2>1, SearchIsInTime DEF Processing
  <2>3. arch.id \in Elements(Archives) /\ req.question \in Questions
    BY <1>1 DEF IInv, Shaped, Processing
  <2>4. Passages(scored)
    <3> DEFINE paths == Fetched(7, reply.ok)
    <3>1. /\ paths \in Seq(Elements(paths))
          /\ \A k \in 1..Len(paths) : \E x \in Elements(Articles[arch.id]) : x.path = paths[k]
      BY FetchedAreThere
    <3> HIDE DEF paths
    <3>2. Passages(ScoredPassages(paths))
      BY <2>3, <3>1, ScoredAreTyped
    <3> QED
      BY <3>2 DEF paths
  <2>5. Passages(facts) /\ \A p \in Elements(facts) : p.score = FactScore
    <3> DEFINE paths == Fetched(2, reply.ok)
    <3>1. /\ paths \in Seq(Elements(paths))
          /\ \A k \in 1..Len(paths) : \E x \in Elements(Articles[arch.id]) : x.path = paths[k]
      BY FetchedAreThere
    <3> HIDE DEF paths
    <3>2. /\ Passages(KeyFacts(paths))
          /\ \A p \in Elements(KeyFacts(paths)) : p.score = FactScore
      BY <2>3, <3>1, FactsAreTyped
    <3> QED
      BY <3>2 DEF paths
  <2> HIDE DEF r, scored, facts
  <2>6. InTime(req')
    <3>1. DOMAIN r = ReqFields /\ Gathered(r)
      BY <2>2 DEF InTime, Carried
    <3>2. req' = [r EXCEPT !.candidates = @ \o scored, !.facts = @ \o facts]
      BY <2>1 DEF r, scored, facts
    <3>3. /\ DOMAIN req' = ReqFields
          /\ req'.question = r.question /\ req'.queue = r.queue /\ req'.primary = r.primary
          /\ req'.consulted = r.consulted /\ req'.timedOut = r.timedOut
          /\ req'.lost = r.lost /\ req'.elapsed = r.elapsed
          /\ req'.candidates = r.candidates \o scored /\ req'.facts = r.facts \o facts
      BY <3>1, <3>2 DEF ReqFields
    <3>4. Passages(req'.candidates)
      BY <2>4, <3>1, <3>3, GatheredTogether DEF Gathered
    <3>5. Passages(req'.facts) /\ Elements(req'.facts) \subseteq Elements(r.facts) \cup Elements(facts)
      BY <2>5, <3>1, <3>3, GatheredTogether DEF Gathered
    <3>6. Gathered(req')
      BY <2>5, <3>1, <3>4, <3>5 DEF Gathered
    <3> QED
      BY <2>2, <3>3, <3>6 DEF InTime, Carried, Excused
  <2>7. LateBy'
    BY <1>1, <1>3, <2>6 DEF LateBy, InTime, Carried, Remaining
  <2> QED
    BY <1>1, <2>1, <2>6, <2>7, ArchiveStep, MissedCounts DEF InTime, Processing
<1> QED
  BY <1>2, <1>3

-----------------------------------------------------------------------------
(* The request *)

\* "strong" means that one of the first three passages is about the question: half of
\* its words are in them, and what is asked of is in the passage with the superlative.
LEMMA StrongIsAbout ==
  ASSUME NEW q \in Questions, q.own # {}, NEW raw, NEW corrections, NEW passages,
         Level(raw, KeyTerms(q.own, {}, {}), corrections, passages) = "strong"
  PROVE  OneIsAbout(q, corrections, passages)
<1>1. /\ 2 * Cardinality(Covered(q.own, passages)) >= Cardinality(q.own)
      /\ TopicFound(raw, q.own, corrections, passages)
      /\ SuperlativeGate(q.own, passages)
  BY DEF Level, KeyTerms
<1>2. \E p \in Top(passages) : TermsOf(p) \cap q.own # {}
  <2>1. IsFiniteSet(q.own) /\ IsFiniteSet(Covered(q.own, passages))
    BY ResearchQueryAssumption, FS_Subset DEF Covered
  <2>2. Cardinality(q.own) \in Nat \ {0}
    BY <2>1, FS_CardinalityType, FS_EmptySet
  <2>3. Cardinality(Covered(q.own, passages)) # 0
    <3> DEFINE n == Cardinality(q.own)
               k == Cardinality(Covered(q.own, passages))
    <3> HIDE DEF n, k
    <3>1. n \in Nat \ {0} /\ 2 * k >= n
      BY <1>1, <2>2 DEF n, k
    <3>2. k # 0
      BY <3>1
    <3> QED
      BY <3>2 DEF k
  <2>4. Covered(q.own, passages) # {}
    BY <2>3, FS_EmptySet
  <2> QED
    BY <2>4 DEF Covered
<1>3. CASE corrections # {}
  BY <1>1, <1>3 DEF TopicFound, TopicPresent, OneIsAbout
<1>4. CASE corrections = {} /\ q.own \subseteq Superlatives
  BY <1>2, <1>4 DEF OneIsAbout
<1>5. CASE corrections = {} /\ ~(q.own \subseteq Superlatives)
  <2>1. \E p \in Top(passages) : \E w \in q.own \ Superlatives : w \in TermsOf(p)
    <3>1. CASE q.own \cap Superlatives = {}
      BY <1>2, <1>5, <3>1
    <3>2. CASE q.own \cap Superlatives # {}
      BY <1>1, <1>5, <3>2 DEF SuperlativeGate
    <3> QED
      BY <3>1, <3>2
  <2>2. \A w, p : w \in TermsOf(p) => Mentions(<<w>>, p)
    <3>1. \A w : Elements(<<w>>) = {w}
      BY DEF Elements
    <3> QED
      BY <3>1 DEF Mentions
  <2> QED
    BY <1>5, <2>1, <2>2 DEF OneIsAbout
<1> QED
  BY <1>3, <1>4, <1>5

\* Without passages the level is "empty", and only then.
LEMMA EmptyIsEmpty ==
  ASSUME NEW raw, NEW key, NEW corrections, NEW passages
  PROVE  (Level(raw, key, corrections, passages) = "empty") = (passages = <<>>)
  BY DEF Level

\* Nothing has been asked.
LEMMA InitIInv == Init => IInv
<1> SUFFICES ASSUME Init PROVE IInv
  OBVIOUS
<1> USE ResearchQueryAssumption DEF Init
<1>1. Shaped /\ Accounted /\ Filled /\ LateBy
  BY DEF Shaped, Accounted, Filled, LateBy, Stages, Processing
<1>2. Kept
  BY DEF Kept, Given, Honest, NoAnswer, Statuses, Elements
<1>3. Counts
  BY DEF Counts, Empty
<1> QED
  BY <1>1, <1>2, <1>3 DEF IInv

\* A cached response is moved to the end, as it is.
LEMMA AnswerFromCacheIInv ==
  ASSUME IInv, NEW q \in Questions, AnswerFromCache(q) PROVE IInv'
<1> USE ResearchQueryAssumption
<1>1. /\ UNCHANGED <<pc, req, arch, idf, snapshots, failures>>
      /\ requests \in 0..MaxRequests /\ requests < MaxRequests /\ requests' = requests + 1
  BY DEF AnswerFromCache, IInv, Counts
<1>2. PICK i \in 1..Len(responses) :
         /\ responses' = Append(RemoveAt(responses, i), responses[i])
         /\ answer' = responses[i].response
  BY DEF AnswerFromCache, Cached
<1>3. Shaped' /\ Accounted' /\ Filled' /\ LateBy' /\ Counts'
  <2>1. Shaped'
    BY <1>1 DEF IInv, Shaped
  <2>2. Accounted'
    BY <1>1 DEF IInv, Accounted
  <2>3. LateBy'
    BY <1>1 DEF IInv, LateBy, SearchTokens
  <2>4. Counts'
    BY <1>1 DEF IInv, Counts
  <2>5. Filled'
    BY <1>1 DEF IInv, Filled
  <2> QED
    BY <2>1, <2>2, <2>3, <2>4, <2>5
<1>4. Kept'
  <2> DEFINE S == Elements(responses)
             n == Len(responses)
  <2>1. responses \in Seq(S) /\ n \in Nat /\ n <= CacheSize
    BY LenProperties DEF IInv, Kept
  <2>2. \A k \in 1..n : Given(responses[k].response, snapshots) /\ responses[k] \in S
    BY DEF IInv, Kept, Elements
  <2>3. \A r \in S : Given(r.response, snapshots)
    BY <2>2 DEF Elements
  <2> HIDE DEF S
  <2> DEFINE before == SubSeq(responses, 1, i - 1)
             after == SubSeq(responses, i + 1, Len(responses))
  <2>4. before \in Seq(S) /\ after \in Seq(S) /\ Len(before) = i - 1 /\ Len(after) = n - i
    BY <2>1, SubSeqProperties
  <2> HIDE DEF before, after
  <2>5. before \o after \in Seq(S) /\ Len(before \o after) = n - 1
    <3>1. i \in 1..n /\ n \in Nat
      BY <2>1
    <3> HIDE DEF n
    <3>2. /\ before \o after \in Seq(S)
          /\ Len(before \o after) = Len(before) + Len(after)
      BY <2>4, ConcatProperties
    <3>3. Len(before) + Len(after) = n - 1
      BY <2>4, <3>1
    <3> QED
      BY <3>2, <3>3
  <2>6. responses' = Append(before \o after, responses[i])
    BY <1>2 DEF RemoveAt, before, after
  <2>7. responses' \in Seq(S) /\ Len(responses') = n
    BY <2>1, <2>2, <2>5, <2>6, AppendProperties
  <2>8. responses' \in Seq(Elements(responses'))
    BY <2>7, OfItsElements
  <2>9. \A k \in 1..Len(responses') : Given(responses'[k].response, snapshots)
    BY <2>3, <2>7, ElementOfSeq
  <2>10. Given(answer', snapshots)
    BY <1>2, <2>2
  <2> QED
    BY <1>1, <2>1, <2>7, <2>8, <2>9, <2>10 DEF Kept, Given
<1> QED
  BY <1>3, <1>4 DEF IInv

\* The archives of a question are a sequence of archives.
LEMMA PrimaryIsSeq ==
  ASSUME NEW q
  PROVE  /\ Primary(q) \in Seq(Elements(Primary(q)))
         /\ Fallback(q) \in Seq(Elements(Fallback(q)))
         /\ Elements(Primary(q)) \subseteq Elements(Archives)
         /\ Elements(Fallback(q)) \subseteq Elements(Archives)
<1> DEFINE first == {i \in DOMAIN Archives :
                        Tier[Archives[i]] # 2 /\ (Tier[Archives[i]] # 3 \/ q.procedural)}
           second == {i \in DOMAIN Archives : Tier[Archives[i]] = 2}
           S == Elements(Archives)
           s == Primary(q)
           t == Fallback(q)
<1>1. Archives \in Seq(S) /\ Len(Archives) \in Nat /\ DOMAIN Archives = 1..Len(Archives)
  BY ResearchQueryAssumption, LenProperties
<1>2. first \in SUBSET (1..Len(Archives)) /\ second \in SUBSET (1..Len(Archives))
  BY <1>1
<1>3. s = AtIndexes(Archives, first) /\ t = AtIndexes(Archives, second)
  BY DEF Primary, Fallback
<1> HIDE DEF first, second, S, s, t
<1>4. s \in Seq(S) /\ t \in Seq(S)
  BY <1>1, <1>2, <1>3, PickedAreElements
<1>5. s \in Seq(Elements(s)) /\ Elements(s) \subseteq S
  BY <1>4, OfItsElements
<1>6. t \in Seq(Elements(t)) /\ Elements(t) \subseteq S
  BY <1>4, OfItsElements
<1> QED
  BY <1>5, <1>6 DEF S, s, t

\* A request begins with all of its primary archives waiting.
LEMMA StartRequestIInv ==
  ASSUME IInv, NEW q \in Questions, StartRequest(q) PROVE IInv'
<1> USE ResearchQueryAssumption
<1>1. /\ pc' \in {"embed", "consult"} /\ UNCHANGED <<arch, idf, responses, snapshots, failures>>
      /\ requests \in 0..MaxRequests /\ requests < MaxRequests /\ requests' = requests + 1
      /\ answer' = NoAnswer
  BY DEF StartRequest, IInv, Counts
<1>2. /\ DOMAIN req' = ReqFields /\ req'.question = q /\ req'.elapsed = 0
      /\ req'.queue = Primary(q) /\ req'.primary = TRUE /\ req'.consulted = <<>>
      /\ req'.timedOut = FALSE /\ req'.lost = {}
      /\ req'.candidates = <<>> /\ req'.facts = <<>>
  BY DEF StartRequest, ReqFields
<1>3. Shaped'
  BY <1>1, <1>2 DEF Shaped, Stages, Processing
<1>4. Accounted'
  <2>1. Primary(q) \in Seq(Elements(Primary(q))) /\ Elements(Primary(q)) \subseteq Elements(Archives)
    BY PrimaryIsSeq
  <2>2. <<>> \in Seq(Elements(<<>>))
    BY DEF Elements
  <2> QED
    BY <1>1, <1>2, <2>1, <2>2 DEF Accounted, Excused
<1>5. LateBy'
  BY <1>1, <1>2 DEF LateBy
<1>6. Kept'
  BY <1>1 DEF IInv, Kept, Given, Honest, NoAnswer, Statuses
<1>7. Counts'
  BY <1>1 DEF IInv, Counts
<1>8. Filled'
  <2>1. Passages(<<>>) /\ Elements(<<>>) = {}
    BY DEF Passages, Elements
  <2> QED
    BY <1>2, <2>1 DEF Filled, Gathered
<1> QED
  BY <1>3, <1>4, <1>5, <1>6, <1>7, <1>8 DEF IInv

\* The query is embedded, or a tick passes.
LEMMA EmbedIInv == ASSUME IInv, Embed PROVE IInv'
<1> USE ResearchQueryAssumption
<1>1. /\ pc = "embed" /\ pc' = "consult" /\ UNCHANGED <<arch, idf, engineVars>>
      /\ DOMAIN req = ReqFields /\ req.elapsed = 0 /\ failures \in 0..MaxFailures
  BY DEF Embed, IInv, Shaped, LateBy, Counts
<1>2. /\ DOMAIN req' = ReqFields /\ req'.elapsed \in {0, 1} /\ failures' \in 0..MaxFailures
      /\ \A field \in ReqFields \ {"vec", "elapsed", "lost"} : req'[field] = req[field]
      /\ req'.lost \in {req.lost, req.lost \cup {"embed"}}
  <2>1. PICK ok \in BOOLEAN :
           req' = [req EXCEPT !["vec"] = ok,
                              !["elapsed"] = IF ok THEN req.elapsed ELSE req.elapsed + 1,
                              !["lost"] = IF ok THEN req.lost ELSE req.lost \cup {pc}]
    BY DEF Embed
  <2> DEFINE late == IF ok THEN req.elapsed ELSE req.elapsed + 1
             lost == IF ok THEN req.lost ELSE req.lost \cup {pc}
  <2>3. lost \in {req.lost, req.lost \cup {"embed"}}
    BY <1>1
  <2>2. late \in {0, 1} /\ failures' \in 0..MaxFailures
    BY <1>1, <2>1 DEF Embed
  <2> HIDE DEF lost, late
  <2>4. req' = [req EXCEPT !["vec"] = ok, !["elapsed"] = late, !["lost"] = lost]
    BY <2>1 DEF late, lost
  <2> QED
    BY <1>1, <2>4, <2>2, <2>3 DEF ReqFields
<1>3. /\ req'.question = req.question /\ req'.queue = req.queue /\ req'.primary = req.primary
      /\ req'.consulted = req.consulted /\ req'.timedOut = req.timedOut
      /\ req'.candidates = req.candidates /\ req'.facts = req.facts
  BY <1>2 DEF ReqFields
<1>4. Shaped'
  BY <1>1, <1>2, <1>3 DEF IInv, Shaped, Stages, Processing
<1>8. Excused(req) => Excused(req')
  BY <1>2, <1>3 DEF Excused, Unreported
<1>5. Accounted' /\ Filled'
  BY <1>1, <1>3, <1>8 DEF IInv, Accounted, Filled, Gathered
<1>6. LateBy'
  BY <1>1, <1>2 DEF LateBy
<1>7. Kept' /\ Counts'
  BY <1>1, <1>2 DEF IInv, Kept, Given, Counts, engineVars
<1> QED
  BY <1>4, <1>5, <1>6, <1>7 DEF IInv

\* What a step of the request outside an archive leaves alone.
LEMMA EngineStep ==
  ASSUME IInv, UNCHANGED <<idf, engineVars, failures>>
  PROVE  Kept' /\ Counts'
  BY DEF IInv, Kept, Given, Counts, engineVars

\* Past a deadline the archives that wait are given up, and that is a timeout.
LEMMA StopConsultingIInv == ASSUME IInv, StopConsulting PROVE IInv'
<1> USE ResearchQueryAssumption
<1>1. /\ pc = "consult" /\ pc' = "consult" /\ UNCHANGED <<arch, idf, engineVars, failures>>
      /\ DOMAIN req = ReqFields /\ req' = [req EXCEPT !.queue = <<>>, !.timedOut = TRUE]
  BY DEF StopConsulting, IInv, Shaped
<1>2. /\ DOMAIN req' = ReqFields /\ req'.queue = <<>> /\ req'.timedOut = TRUE
      /\ req'.question = req.question /\ req'.elapsed = req.elapsed
      /\ req'.consulted = req.consulted
      /\ req'.candidates = req.candidates /\ req'.facts = req.facts
  BY <1>1 DEF ReqFields
<1>3. Shaped'
  BY <1>1, <1>2 DEF IInv, Shaped, Stages, Processing
<1>4. Accounted' /\ Filled'
  <2>1. <<>> \in Seq(Elements(<<>>)) /\ Elements(<<>>) = {}
    BY DEF Elements
  <2> QED
    BY <1>1, <1>2, <2>1 DEF IInv, Accounted, Excused, Filled, Gathered
<1>5. LateBy'
  BY <1>1, <1>2 DEF IInv, LateBy
<1> QED
  BY <1>1, <1>3, <1>4, <1>5, EngineStep DEF IInv

\* The next archive is begun in time.
LEMMA ConsultNextIInv == ASSUME IInv, ConsultNext PROVE IInv'
<1> USE ResearchQueryAssumption
<1> DEFINE a == Head(req.queue)
<1>1. /\ pc = "consult" /\ pc' = "search" /\ UNCHANGED <<idf, engineVars, failures>>
      /\ DOMAIN req = ReqFields /\ req.queue # <<>>
      /\ req.queue \in Seq(Elements(req.queue))
      /\ req.elapsed \in Nat /\ req.elapsed < Hard
      /\ req' = [req EXCEPT !.queue = Tail(@), !.consulted = Append(@, a), !.memo = {}]
  BY DEF ConsultNext, IInv, Shaped, Accounted, Remaining
<1>2. DOMAIN arch' = ArchFields /\ arch'.tokens = SearchTokens(req.question) /\ arch'.id = a
  BY DEF ConsultNext, ArchFields
<1>3. /\ DOMAIN req' = ReqFields
      /\ req'.queue = Tail(req.queue) /\ req'.consulted = Append(req.consulted, a)
      /\ req'.question = req.question /\ req'.elapsed = req.elapsed
      /\ req'.primary = req.primary /\ req'.timedOut = req.timedOut
      /\ req'.lost = req.lost
      /\ req'.candidates = req.candidates /\ req'.facts = req.facts
  BY <1>1 DEF ReqFields
<1>4. Shaped'
  <2>1. a \in Elements(req.queue) /\ Elements(req.queue) \subseteq Elements(Archives)
    BY <1>1, TailElements DEF IInv, Accounted
  <2> HIDE DEF a
  <2> QED
    BY <1>1, <1>2, <1>3, <2>1 DEF IInv, Shaped, Stages, Processing
<1>5. Accounted' /\ Filled'
  <2>1. /\ Tail(req.queue) \in Seq(Elements(Tail(req.queue)))
        /\ Elements(req.queue) = {a} \cup Elements(Tail(req.queue))
    BY <1>1, TailElements
  <2>2. /\ Append(req.consulted, a) \in Seq(Elements(Append(req.consulted, a)))
        /\ Elements(Append(req.consulted, a)) = Elements(req.consulted) \cup {a}
    BY <1>1, AppendElements DEF IInv, Accounted
  <2>3. /\ Excused(req)
        /\ Elements(req.queue) \subseteq Elements(Archives)
        /\ req.timedOut \/ Elements(Primary(req.question)) \subseteq
              Elements(req.consulted) \cup (IF req.primary THEN Elements(req.queue) ELSE {})
    BY <1>1 DEF IInv, Accounted
  <2> HIDE DEF a
  <2>4. Accounted'
    BY <1>1, <1>3, <2>1, <2>2, <2>3 DEF Accounted, Excused
  <2>5. Filled'
    BY <1>1, <1>3 DEF IInv, Filled, Gathered
  <2> QED
    BY <2>4, <2>5
<1>6. LateBy'
  <2>1. req'.elapsed \in Nat /\ req'.elapsed < Hard
    BY <1>1, <1>3
  <2>2. arch'.tokens = SearchTokens(req'.question)
    BY <1>2, <1>3
  <2>3. pc' = "search"
    BY <1>1
  <2> QED
    BY <2>1, <2>2, <2>3 DEF LateBy, SearchTokens
<1> QED
  BY <1>1, <1>4, <1>5, <1>6, EngineStep DEF IInv

\* The second tier, or the response.
LEMMA TierDoneIInv == ASSUME IInv, TierDone PROVE IInv'
<1> USE ResearchQueryAssumption
<1>1. /\ pc = "consult" /\ UNCHANGED <<arch, idf, engineVars, failures>>
      /\ DOMAIN req = ReqFields /\ req.queue = <<>>
      /\ req.elapsed \in Nat
  BY DEF TierDone, IInv, Shaped
<1>2. Elements(req.queue) = {}
  BY <1>1 DEF Elements
<1>3. CASE pc' = "respond" /\ req' = req
  <2>1. Shaped'
    BY <1>1, <1>3 DEF IInv, Shaped, Stages, Processing
  <2>2. Accounted' /\ Filled'
    BY <1>1, <1>3 DEF IInv, Accounted, Filled
  <2>3. LateBy'
    BY <1>1, <1>3 DEF IInv, LateBy
  <2> QED
    BY <1>1, <2>1, <2>2, <2>3, EngineStep DEF IInv
<1>4. CASE pc' = pc /\ req' = [req EXCEPT !.queue = Fallback(req.question), !.primary = FALSE]
  <2>1. /\ DOMAIN req' = ReqFields
        /\ req'.queue = Fallback(req.question) /\ req'.primary = FALSE
        /\ req'.consulted = req.consulted
        /\ req'.question = req.question /\ req'.elapsed = req.elapsed
        /\ req'.timedOut = req.timedOut /\ req'.lost = req.lost
        /\ req'.candidates = req.candidates /\ req'.facts = req.facts
    BY <1>1, <1>4 DEF ReqFields
  <2>2. Shaped'
    BY <1>1, <1>4, <2>1 DEF IInv, Shaped, Stages, Processing
  <2>3. Accounted' /\ Filled'
    <3>1. /\ Fallback(req.question) \in Seq(Elements(Fallback(req.question)))
          /\ Elements(Fallback(req.question)) \subseteq Elements(Archives)
      BY PrimaryIsSeq
    <3>2. Accounted'
      BY <1>1, <1>2, <1>4, <2>1, <3>1 DEF IInv, Accounted, Excused
    <3>3. Filled'
      BY <1>1, <1>4, <2>1 DEF IInv, Filled, Gathered
    <3> QED
      BY <3>2, <3>3
  <2>4. LateBy'
    BY <1>1, <1>4, <2>1 DEF IInv, LateBy
  <2> QED
    BY <1>1, <2>2, <2>3, <2>4, EngineStep DEF IInv
<1> QED
  BY <1>3, <1>4 DEF TierDone

\* The response says what happened, and its passages are stored before it is given.
LEMMA RespondIInv == ASSUME IInv, Respond PROVE IInv'
<1> USE ResearchQueryAssumption
<1> DEFINE q == req.question
           packed == Packed
           weak == BestCoverage(packed, TermsToCover(req), Elements(q.hint),
                                Cardinality(q.own), VariantsOf(req)).weak
           given == IF ~weak \/ q.rewritten THEN packed ELSE <<>>
           status == IF req.timedOut THEN "partial" ELSE IF weak THEN "empty" ELSE "ok"
           response == [status |-> status, passages |-> given, level |-> Assessed(given),
                        question |-> q.name, rewritten |-> q.rewritten,
                        corrections |-> Corrections,
                        consulted |-> req.consulted, lost |-> req.lost,
                        unknown |-> MergeUnknown(req.unknown)]
           entry == [key |-> req.key, response |-> response]
<1>1. /\ pc = "respond" /\ pc' = "idle" /\ req' = NoReq /\ arch' = NoArch
      /\ UNCHANGED <<idf, requests, failures>>
      /\ answer' = response /\ snapshots' = Put(given, status)
      /\ responses' = Evict(Append(responses, entry))
  BY DEF Respond
<1>2. /\ q \in Questions
      /\ Excused(req)
      /\ req.timedOut \/ Elements(Primary(q)) \subseteq Elements(req.consulted)
  <2>1. /\ q \in Questions /\ req.queue = <<>>
        /\ Excused(req)
        /\ req.timedOut \/ Elements(Primary(q)) \subseteq
              Elements(req.consulted) \cup (IF req.primary THEN Elements(req.queue) ELSE {})
    BY <1>1 DEF IInv, Shaped, Accounted
  <2>2. Elements(req.queue) = {}
    BY <2>1 DEF Elements
  <2> QED
    BY <2>1, <2>2
<1>3. Shaped' /\ Accounted' /\ Filled' /\ LateBy'
  BY <1>1 DEF Shaped, Accounted, Filled, LateBy, Stages, Processing
<1>4. Counts'
  BY <1>1 DEF IInv, Counts
<1>5. snapshots \subseteq snapshots' /\ {p.id : p \in Elements(given)} \subseteq snapshots'
  BY <1>1 DEF Put
<1>6. /\ response.status = status /\ response.passages = given
      /\ response.level = Assessed(given) /\ response.question = q.name
      /\ response.rewritten = q.rewritten /\ response.corrections = Corrections
      /\ response.consulted = req.consulted /\ response.lost = req.lost
  OBVIOUS
<1>7. (CHOOSE other \in Questions : other.name = q.name) = q
  BY <1>2
<1>8. /\ status = "ok" => ~req.timedOut /\ ~weak
      /\ status = "empty" => ~req.timedOut /\ weak
      /\ status \in Statuses
  BY DEF Statuses
<1>9. ~weak => packed # <<>> /\ given = packed
  BY DEF BestCoverage, NoCoverage
<1>10. weak /\ given # <<>> => q.rewritten
  OBVIOUS
<1> HIDE DEF weak
<1>19. Bounded(given)
  <2>1. Bounded(packed)
    BY <1>1, PackedFits DEF IInv, Filled
  <2> HIDE DEF packed
  <2> QED
    BY <2>1, NothingIsBounded
<1> HIDE DEF response, status, given, weak, packed
<1>11. /\ (Assessed(given) = "empty") = (given = <<>>)
       /\ Assessed(given) = "strong" /\ q.own # {} => OneIsAbout(q, Corrections, given)
  <2>1. Assessed(given) = Level(q.raw, KeyTerms(q.own, {}, {}), Corrections, given)
    BY DEF Assessed
  <2>2. (Assessed(given) = "empty") = (given = <<>>)
    BY <2>1, EmptyIsEmpty
  <2>3. Assessed(given) = "strong" /\ q.own # {} => OneIsAbout(q, Corrections, given)
    BY <1>2, <2>1, StrongIsAbout
  <2> QED
    BY <2>2, <2>3
<1>12. Honest(response)
  BY <1>2, <1>6, <1>7, <1>8, <1>9, <1>10, <1>11 DEF Honest, Excused
<1> DEFINE S == Elements(responses) \cup {entry}
           kept == Append(responses, entry)
<1>13. kept \in Seq(S) /\ Len(kept) = Len(responses) + 1 /\ Len(responses) \in Nat
  <2>1. responses \in Seq(S)
    BY DEF IInv, Kept
  <2> HIDE DEF S, entry
  <2>2. entry \in S
    BY DEF S
  <2> QED
    BY <2>1, <2>2, AppendProperties, LenProperties
<1>14. responses' \in Seq(S) /\ Len(responses') <= CacheSize
  <2>1. responses' = IF Len(kept) > CacheSize THEN Tail(kept) ELSE kept
    BY <1>1 DEF Evict
  <2>2. Len(kept) <= CacheSize + 1
    BY <1>13 DEF IInv, Kept
  <2>3. kept # <<>>
    BY <1>13, EmptySeq
  <2> HIDE DEF kept, S
  <2>4. Tail(kept) \in Seq(S) /\ Len(Tail(kept)) = Len(kept) - 1
    BY <1>13, <2>3, HeadTailProperties
  <2> QED
    BY <1>13, <2>1, <2>2, <2>4
<1>15. \A r \in S : r.response = response \/ Given(r.response, snapshots)
  BY DEF IInv, Kept, Elements
<1> HIDE DEF S
<1>16. \A k \in 1..Len(responses') : responses'[k] \in S
  BY <1>14, ElementOfSeq
<1>17. responses' \in Seq(Elements(responses'))
  BY <1>14, OfItsElements
<1>18. Kept'
  <2>1. Given(response, snapshots')
    BY <1>5, <1>6, <1>8, <1>12, <1>19 DEF Given
  <2>2. \A r : Given(r, snapshots) => Given(r, snapshots')
    BY <1>5 DEF Given
  <2>3. \A k \in 1..Len(responses') : Given(responses'[k].response, snapshots')
    BY <1>15, <1>16, <2>1, <2>2
  <2> QED
    BY <1>1, <1>14, <1>17, <2>1, <2>3 DEF Kept
<1> QED
  BY <1>3, <1>4, <1>18 DEF IInv

\* A step of an archive.
LEMMA ProcessArchiveIInv == ASSUME IInv, ProcessArchive PROVE IInv'
  BY SearchJointlyIInv, SearchTermIInv, TermsDoneIInv, LookUpRarityIInv, SuggestTitlesIInv,
     CorrectSpellingIInv, SplitWordsIInv, JoinWordsIInv, SearchCorrectedIInv,
     SearchEntitiesIInv, RelaxIInv, CountTogetherIInv, ExpandVariantsIInv,
     SubstituteVariantsIInv, RankArticlesIInv, SearchHintIInv, FetchArticlesIInv
  DEF ProcessArchive

\* Every step preserves the invariant.
LEMMA NextIInv == IInv /\ [Next]_vars => IInv'
<1> SUFFICES ASSUME IInv, [Next]_vars PROVE IInv'
  OBVIOUS
<1>1. ASSUME NEW q \in Questions, AnswerFromCache(q) \/ StartRequest(q) PROVE IInv'
  BY <1>1, AnswerFromCacheIInv, StartRequestIInv
<1>2. CASE Research
  BY <1>2, EmbedIInv, StopConsultingIInv, ConsultNextIInv, TierDoneIInv,
     ProcessArchiveIInv, RespondIInv DEF Research
<1>3. CASE UNCHANGED vars
  <2>1. Shaped'
    BY <1>3 DEF vars, IInv, Shaped
  <2>2. Accounted' /\ Filled'
    BY <1>3 DEF vars, IInv, Accounted, Filled
  <2>3. LateBy'
    BY <1>3 DEF vars, IInv, LateBy, SearchTokens
  <2>4. Kept' /\ Counts'
    BY <1>3 DEF vars, IInv, Kept, Counts
  <2> QED
    BY <2>1, <2>2, <2>3, <2>4 DEF IInv
<1> QED
  BY <1>1, <1>2, <1>3 DEF Next, Rest

\* The invariant holds throughout.
LEMMA SpecIInv == Spec => []IInv
  BY InitIInv, NextIInv, PTL DEF Spec

-----------------------------------------------------------------------------
(* The theorems *)

\* The caches are keyed by the archives and bounded, counts are numbers, and a request is
\* under way exactly while its local variables are held.
THEOREM TypeCorrect == Spec => []TypeOK
<1>1. IInv => TypeOK
  <2> SUFFICES ASSUME IInv PROVE TypeOK
    OBVIOUS
  <2>1. (pc = "idle") <=> (req = NoReq)
    <3>1. ASSUME pc # "idle" PROVE req # NoReq
      <4>1. "elapsed" \in DOMAIN req
        BY <3>1 DEF IInv, Shaped, ReqFields
      <4>2. "elapsed" \notin DOMAIN NoReq
        BY DEF NoReq
      <4> QED
        BY <4>1, <4>2
    <3> QED
      BY <3>1 DEF IInv, Shaped
  <2>2. (pc = "idle") = (req = NoReq)
    BY <2>1
  <2> QED
    BY <2>2 DEF IInv, Kept, Given, Counts, TypeOK
<1> QED
  BY <1>1, SpecIInv, PTL

\* The status and the level of a response say what happened, whatever calls failed or ran
\* late, and again when it comes from the cache.
THEOREM StatusHonestHolds == Spec => []StatusHonest
<1>1. IInv => StatusHonest
  BY DEF IInv, Kept, Given, Honest, StatusHonest
<1> QED
  BY <1>1, SpecIInv, PTL

\* A request overruns the hard deadline by a few ticks at most, however many archives are
\* consulted and however many calls run late.
THEOREM OvertimeBoundedHolds == Spec => []OvertimeBounded
<1>1. IInv => OvertimeBounded
  BY ResearchQueryAssumption DEF IInv, Shaped, LateBy, OvertimeBounded
<1> QED
  BY <1>1, SpecIInv, PTL

\* What a response hands out, at once or later from the cache, is stored.
THEOREM CitableHolds == Spec => []Citable
<1>1. IInv => Citable
  BY DEF IInv, Kept, Given, Citable
<1> QED
  BY <1>1, SpecIInv, PTL

\* A response fits its budget and is two key facts and six passages at most, two of an
\* article, whatever was gathered, and again when it comes from the cache.
THEOREM ResponseBoundedHolds == Spec => []ResponseBounded
<1>1. IInv => ResponseBounded
  BY DEF IInv, Kept, Given, Bounded, Costs, ResponseBounded
<1> QED
  BY <1>1, SpecIInv, PTL

=============================================================================
