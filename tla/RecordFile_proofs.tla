------------------------- MODULE RecordFile_proofs --------------------------
(* Facts about the operators of RecordFile, for files of any length. *)
EXTENDS RecordFile, SequenceTheorems, FiniteSetTheorems, TLAPS

\* The first match exists, matches, and comes before every other match: what
\* the search loop of sdb_get_record (SimpleDB.c:298-363) returns.
LEMMA FirstOfProperties ==
    ASSUME NEW S, S \subseteq Nat, S # {}
    PROVE  /\ FirstOf(S) \in S
           /\ \A j \in S : FirstOf(S) <= j
<1>1. \E i \in S : \A j \in S : <<j, i>> \notin OpToRel(<, Nat)
  <2>1. IsWellFoundedOn(OpToRel(<, Nat), Nat)
    BY NatLessThanWellFounded
  <2> QED
    BY <2>1, WFMin
<1>2. PICK i \in S : \A j \in S : <<j, i>> \notin OpToRel(<, Nat)
  BY <1>1
<1>3. \A j \in S : ~(j < i)
  BY <1>2 DEF OpToRel
<1>4. \A j \in S : i <= j
  BY <1>3
<1> QED
  BY <1>4 DEF FirstOf, Min

\* Appending a record leaves the lines before it where they are.
LEMMA AddRecordProperties ==
    ASSUME NEW R, NEW f \in Seq(R), NEW r \in R
    PROVE  /\ AddRecord(f, r) \in Seq(R)
           /\ DOMAIN AddRecord(f, r) = 1..(Len(f) + 1)
           /\ \A i \in 1..Len(f) : AddRecord(f, r)[i] = f[i]
           /\ AddRecord(f, r)[Len(f) + 1] = r
BY AppendProperties DEF AddRecord

\* Removing line n shifts the lines after it up by one.
LEMMA RemoveAtProperties ==
    ASSUME NEW R, NEW f \in Seq(R), NEW n \in 1..Len(f)
    PROVE  /\ RemoveAt(f, n) \in Seq(R)
           /\ DOMAIN RemoveAt(f, n) = 1..(Len(f) - 1)
           /\ \A i \in 1..(Len(f) - 1) :
                RemoveAt(f, n)[i] = IF i < n THEN f[i] ELSE f[i + 1]
<1> DEFINE s == SubSeq(f, 1, n - 1)
           t == SubSeq(f, n + 1, Len(f))
<1>1. /\ s \in Seq(R)
      /\ Len(s) = n - 1
      /\ \A i \in 1..(n - 1) : s[i] = f[i]
  BY SubSeqProperties
<1>2. /\ t \in Seq(R)
      /\ Len(t) = Len(f) - n
      /\ \A i \in 1..(Len(f) - n) : t[i] = f[n + i]
  BY SubSeqProperties
<1> HIDE DEF s, t
<1>3. /\ s \o t \in Seq(R)
      /\ Len(s \o t) = Len(f) - 1
      /\ \A i \in 1..(Len(f) - 1) : (s \o t)[i] = IF i <= n - 1 THEN s[i] ELSE t[i - (n - 1)]
  <2>1. /\ s \o t \in Seq(R)
        /\ Len(s \o t) = Len(s) + Len(t)
        /\ \A i \in 1..(Len(s) + Len(t)) :
              (s \o t)[i] = IF i <= Len(s) THEN s[i] ELSE t[i - Len(s)]
    BY <1>1, <1>2, ConcatProperties
  <2>2. Len(f) \in Nat /\ Len(s) + Len(t) = Len(f) - 1
    BY <1>1, <1>2, LenProperties
  <2> QED
    BY <1>1, <2>1, <2>2
<1>4. ASSUME NEW i \in 1..(Len(f) - 1)
      PROVE  (s \o t)[i] = IF i < n THEN f[i] ELSE f[i + 1]
  <2>1. CASE i < n
    BY <1>1, <1>3, <2>1
  <2>2. CASE ~(i < n)
    <3>1. i - (n - 1) \in 1..(Len(f) - n)
      BY <2>2
    <3>2. (s \o t)[i] = t[i - (n - 1)]
      BY <1>3, <2>2
    <3>3. t[i - (n - 1)] = f[n + (i - (n - 1))]
      BY <1>2, <3>1
    <3>4. n + (i - (n - 1)) = i + 1
      OBVIOUS
    <3> QED
      BY <2>2, <3>2, <3>3, <3>4
  <2> QED
    BY <2>1, <2>2
<1>5. RemoveAt(f, n) = s \o t
  BY DEF RemoveAt, s, t
<1> QED
  BY <1>3, <1>4, <1>5

\* Deleting the first match leaves every other line, in order.
LEMMA DeleteRecordProperties ==
    ASSUME NEW R, NEW f \in Seq(R), NEW S, S \subseteq DOMAIN f
    PROVE  /\ DeleteRecord(f, S) \in Seq(R)
           /\ S = {} => DeleteRecord(f, S) = f
           /\ S # {} =>
                /\ FirstOf(S) \in S
                /\ FirstOf(S) \in 1..Len(f)
                /\ f[FirstOf(S)] \in R
                /\ DOMAIN DeleteRecord(f, S) = 1..(Len(f) - 1)
                /\ \A i \in 1..(Len(f) - 1) :
                     DeleteRecord(f, S)[i] = IF i < FirstOf(S) THEN f[i] ELSE f[i + 1]
<1>1. CASE S = {}
  BY <1>1 DEF DeleteRecord
<1>2. CASE S # {}
  <2>1. S \subseteq Nat /\ DOMAIN f = 1..Len(f)
    BY LenProperties
  <2>2. FirstOf(S) \in S
    BY <1>2, <2>1, FirstOfProperties
  <2>3. FirstOf(S) \in 1..Len(f)
    BY <2>1, <2>2
  <2>4. f[FirstOf(S)] \in R
    BY <2>3, ElementOfSeq
  <2>5. DeleteRecord(f, S) = RemoveAt(f, FirstOf(S))
    BY <1>2 DEF DeleteRecord
  <2> QED
    BY <1>2, <2>2, <2>3, <2>4, <2>5, RemoveAtProperties
<1> QED
  BY <1>1, <1>2

\* Each line that is left was a line of the file, each but the deleted one is
\* left, and no line is left twice.
LEMMA DeleteRecordLines ==
    ASSUME NEW R, NEW f \in Seq(R), NEW S, S \subseteq DOMAIN f, S # {}
    PROVE  \E from \in [DOMAIN DeleteRecord(f, S) -> DOMAIN f] :
             /\ \A i \in DOMAIN DeleteRecord(f, S) :
                  DeleteRecord(f, S)[i] = f[from[i]] /\ from[i] # FirstOf(S)
             /\ \A i, j \in DOMAIN DeleteRecord(f, S) : from[i] = from[j] => i = j
             /\ \A k \in DOMAIN f :
                  k # FirstOf(S) => \E i \in DOMAIN DeleteRecord(f, S) : from[i] = k
<1> DEFINE g == DeleteRecord(f, S)
           n == FirstOf(S)
           from == [i \in DOMAIN g |-> IF i < n THEN i ELSE i + 1]
<1>1. /\ n \in 1..Len(f)
      /\ DOMAIN g = 1..(Len(f) - 1)
      /\ \A i \in 1..(Len(f) - 1) : g[i] = IF i < n THEN f[i] ELSE f[i + 1]
  BY DeleteRecordProperties
<1>2. DOMAIN f = 1..Len(f) /\ Len(f) \in Nat
  BY LenProperties
<1> HIDE DEF g, n
<1>3. from \in [DOMAIN g -> DOMAIN f]
  BY <1>1, <1>2
<1>4. \A i \in DOMAIN g : g[i] = f[from[i]] /\ from[i] # n
  BY <1>1, <1>2
<1>5. \A i, j \in DOMAIN g : from[i] = from[j] => i = j
  BY <1>1, <1>2
<1>6. ASSUME NEW k \in DOMAIN f, k # n
      PROVE  \E i \in DOMAIN g : from[i] = k
  <2>1. CASE k < n
    <3>1. k \in DOMAIN g /\ from[k] = k
      BY <1>1, <1>2, <2>1
    <3> QED
      BY <3>1
  <2>2. CASE k > n
    <3>1. k - 1 \in DOMAIN g /\ from[k - 1] = k
      BY <1>1, <1>2, <2>2
    <3> QED
      BY <3>1
  <2> QED
    BY <1>1, <1>2, <1>6, <2>1, <2>2
<1> QED
  BY <1>3, <1>4, <1>5, <1>6 DEF g, n

-----------------------------------------------------------------------------
(* Selections: what a reader that passes over lines returns. *)

\* How many indices of a set are not after i.
RankIn(S, i) == Cardinality({j \in S : j <= i})

\* Ranks of a set of line numbers: the smallest has 1, and they grow with the
\* index up to the size of the set.
LEMMA RankProperties ==
    ASSUME NEW n \in Nat, NEW S \in SUBSET (1..n)
    PROVE  /\ IsFiniteSet(S) /\ Cardinality(S) \in 0..n
           /\ \A i \in S : RankIn(S, i) \in 1..Cardinality(S)
           /\ \A i, j \in S : i < j => RankIn(S, i) < RankIn(S, j)
<1>1. IsFiniteSet(1..n) /\ Cardinality(1..n) = n
  BY FS_Interval
<1>2. IsFiniteSet(S) /\ Cardinality(S) <= n
  BY <1>1, FS_Subset
<1>3. Cardinality(S) \in Nat
  BY <1>2, FS_CardinalityType
<1>4. ASSUME NEW T \in SUBSET S
      PROVE  IsFiniteSet(T) /\ Cardinality(T) \in 0..Cardinality(S)
  <2>1. IsFiniteSet(T) /\ Cardinality(T) <= Cardinality(S)
    BY <1>2, FS_Subset
  <2>2. Cardinality(T) \in Nat
    BY <2>1, FS_CardinalityType
  <2> QED
    BY <1>3, <2>1, <2>2
<1>5. ASSUME NEW i \in S
      PROVE  RankIn(S, i) \in 1..Cardinality(S)
  <2> DEFINE T == {j \in S : j <= i}
  <2>1. T \in SUBSET S /\ T # {}
    BY <1>5
  <2> HIDE DEF T
  <2>2. IsFiniteSet(T) /\ Cardinality(T) \in 0..Cardinality(S)
    BY <1>4, <2>1
  <2>3. Cardinality(T) # 0
    BY <2>1, <2>2, FS_EmptySet
  <2>4. Cardinality(T) \in 1..Cardinality(S)
    BY <1>3, <2>2, <2>3
  <2> QED
    BY <2>4 DEF RankIn, T
<1>6. ASSUME NEW i \in S, NEW j \in S, i < j
      PROVE  RankIn(S, i) < RankIn(S, j)
  <2> DEFINE T == {k \in S : k <= i}
             U == {k \in S : k <= j}
  <2>1. i \in 1..n /\ j \in 1..n
    BY <1>6
  <2>2. T \in SUBSET U /\ U \in SUBSET S /\ T \in SUBSET S
    <3>1. \A k \in S : k \in Nat /\ (k <= i => k <= j)
      BY <1>6, <2>1
    <3> QED
      BY <3>1
  <2>3. j \in U /\ j \notin T
    BY <1>6, <2>1
  <2> HIDE DEF T, U
  <2>4. IsFiniteSet(U) /\ Cardinality(U) \in Nat /\ Cardinality(T) \in Nat
    BY <1>3, <1>4, <2>2
  <2>5. Cardinality(T) <= Cardinality(U) /\ (Cardinality(U) = Cardinality(T) => U = T)
    BY <2>2, <2>4, FS_Subset
  <2>6. Cardinality(T) < Cardinality(U)
    BY <2>3, <2>4, <2>5
  <2> QED
    BY <2>6 DEF RankIn, T, U
<1> QED
  BY <1>2, <1>3, <1>5, <1>6

\* A set of line numbers has a last one.
LEMMA LastIndex ==
    ASSUME NEW n \in Nat, NEW S \in SUBSET (1..n), S # {}
    PROVE  \E l \in S : \A j \in S : j <= l
<1> DEFINE L == {i \in 1..n : \A j \in S : j <= i}
           l == FirstOf(L)
<1>1. n \in L /\ L \subseteq Nat
  <2>1. PICK i \in S : TRUE
    OBVIOUS
  <2>2. n \in 1..n
    BY <2>1
  <2>3. \A j \in S : j <= n
    OBVIOUS
  <2> QED
    BY <2>2, <2>3
<1> HIDE DEF L
<1>2. l \in L /\ \A j \in L : l <= j
  BY <1>1, FirstOfProperties
<1> HIDE DEF l
<1>3. l \in 1..n /\ \A j \in S : j <= l
  BY <1>2 DEF L
<1>4. l \in S
  <2> SUFFICES ASSUME l \notin S
               PROVE  FALSE
    OBVIOUS
  <2>1. \A j \in S : j \in 1..n /\ j # l
    OBVIOUS
  <2>2. \A j \in S : j <= l - 1
    BY <1>3, <2>1
  <2>3. PICK j \in S : TRUE
    OBVIOUS
  <2>4. l - 1 \in 1..n
    BY <1>3, <2>1, <2>2, <2>3
  <2>5. l - 1 \in L
    BY <2>2, <2>4 DEF L
  <2> QED
    BY <1>2, <1>3, <2>5
<1> QED
  BY <1>3, <1>4

\* There is a line with each rank.
LEMMA NthOfProperties ==
    ASSUME NEW n \in Nat, NEW S \in SUBSET (1..n), NEW k \in 1..Cardinality(S)
    PROVE  NthOf(S, k) \in S /\ RankIn(S, NthOf(S, k)) = k
<1> DEFINE T == {i \in S : RankIn(S, i) >= k}
           m == FirstOf(T)
<1>1. /\ IsFiniteSet(S) /\ Cardinality(S) \in Nat
      /\ \A i \in S : RankIn(S, i) \in Nat /\ RankIn(S, i) >= 1
  BY RankProperties
<1>2. S \subseteq Nat
  OBVIOUS
<1>3. T # {} /\ T \subseteq Nat
  <2>1. S # {}
    BY <1>1, FS_EmptySet
  <2>2. PICK l \in S : \A j \in S : j <= l
    BY <2>1, LastIndex
  <2>3. {j \in S : j <= l} = S
    BY <2>2
  <2>4. RankIn(S, l) = Cardinality(S)
    BY <2>3 DEF RankIn
  <2>5. Cardinality(S) >= k
    BY <1>1
  <2>6. l \in T
    BY <2>2, <2>4, <2>5
  <2> QED
    BY <1>2, <2>6
<1> HIDE DEF T
<1>4. m \in T /\ \A j \in T : m <= j
  BY <1>3, FirstOfProperties
<1> HIDE DEF m
<1>5. m \in S /\ m \in Nat /\ RankIn(S, m) >= k
  BY <1>2, <1>4 DEF T
<1>6. \A j \in S : j < m => RankIn(S, j) < k
  BY <1>1, <1>2, <1>4, <1>5 DEF T
<1> DEFINE U == {j \in S : j <= m} \ {m}
<1>7. IsFiniteSet({j \in S : j <= m}) /\ m \in {j \in S : j <= m}
  BY <1>1, <1>5, FS_Subset
<1>8. Cardinality(U) = RankIn(S, m) - 1
  BY <1>7, FS_RemoveElement DEF RankIn
<1>9. \A j : j \in U <=> j \in S /\ j < m
  <2> TAKE j
  <2>1. j \in U <=> j \in S /\ j <= m /\ j # m
    OBVIOUS
  <2>2. j \in S => (j <= m /\ j # m <=> j < m)
    BY <1>2, <1>5
  <2> QED
    BY <2>1, <2>2
<1>10. U \in SUBSET (1..n)
  BY <1>9
<1> HIDE DEF U
<1>11. Cardinality(U) < k
  <2>1. CASE U = {}
    BY <2>1, FS_EmptySet
  <2>2. CASE U # {}
    <3>1. PICK p \in U : \A j \in U : j <= p
      BY <1>10, <2>2, LastIndex
    <3>2. p \in S /\ p < m /\ p \in Nat
      BY <1>2, <1>9, <3>1
    <3>3. \A j : j \in {i \in S : i <= p} <=> j \in U
      <4> TAKE j
      <4>1. CASE j \in U
        BY <1>9, <3>1, <4>1
      <4>2. CASE j \in S /\ j <= p
        <5>1. j \in Nat /\ j < m
          BY <1>2, <1>5, <3>2, <4>2
        <5> QED
          BY <1>9, <4>2, <5>1
      <4> QED
        BY <4>1, <4>2
    <3>4. {i \in S : i <= p} = U
      BY <3>3
    <3>5. Cardinality(U) = RankIn(S, p)
      BY <3>4 DEF RankIn
    <3> QED
      BY <1>6, <3>2, <3>5
  <2> QED
    BY <2>1, <2>2
<1>12. RankIn(S, m) = k
  BY <1>1, <1>5, <1>8, <1>11
<1>13. \E i \in S : Cardinality({j \in S : j <= i}) = k
  BY <1>5, <1>12 DEF RankIn
<1> QED
  BY <1>13 DEF NthOf, RankIn

\* A selection has as many lines as were selected, each one of the file.
LEMMA SelectedProperties ==
    ASSUME NEW R, NEW f \in Seq(R), NEW S, S \subseteq DOMAIN f
    PROVE  /\ Selected(f, S) \in Seq(R)
           /\ Len(Selected(f, S)) = Cardinality(S)
           /\ Len(Selected(f, S)) <= Len(f)
           /\ \A k \in DOMAIN Selected(f, S) :
                NthOf(S, k) \in S /\ Selected(f, S)[k] = f[NthOf(S, k)]
<1>1. Len(f) \in Nat /\ DOMAIN f = 1..Len(f) /\ S \in SUBSET (1..Len(f))
  BY LenProperties
<1>2. Cardinality(S) \in Nat /\ Cardinality(S) <= Len(f)
  BY <1>1, RankProperties
<1>3. \A k \in 1..Cardinality(S) : NthOf(S, k) \in S
  BY <1>1, NthOfProperties
<1>4. \A k \in 1..Cardinality(S) : f[NthOf(S, k)] \in R
  BY <1>1, <1>3, ElementOfSeq
<1>5. Selected(f, S) = [k \in 1..Cardinality(S) |-> f[NthOf(S, k)]]
  BY DEF Selected
<1>6. Selected(f, S) \in Seq(R) /\ Len(Selected(f, S)) = Cardinality(S)
  BY <1>2, <1>4, <1>5, IsASeq
<1>7. DOMAIN Selected(f, S) = 1..Cardinality(S)
  BY <1>5
<1> QED
  BY <1>2, <1>3, <1>5, <1>6, <1>7

\* Lines that move without overtaking each other, while others come only after
\* them, are selected in the same order.
LEMMA SelectedMoved ==
    ASSUME NEW R, NEW f \in Seq(R), NEW S, S \subseteq DOMAIN f,
           NEW g \in Seq(R), NEW T, T \subseteq DOMAIN g,
           NEW to \in [S -> T],
           \A i, j \in S : i < j => to[i] < to[j],
           \A i \in S : g[to[i]] = f[i],
           \A t \in T : (\E i \in S : to[i] = t) \/ (\A i \in S : to[i] < t)
    PROVE  IsPrefix(Selected(f, S), Selected(g, T))
<1> DEFINE s == Selected(f, S)
           t == Selected(g, T)
<1>1. /\ Len(f) \in Nat /\ DOMAIN f = 1..Len(f) /\ S \in SUBSET (1..Len(f))
      /\ Len(g) \in Nat /\ DOMAIN g = 1..Len(g) /\ T \in SUBSET (1..Len(g))
  BY LenProperties
<1>2. S \subseteq Nat /\ T \subseteq Nat
  BY <1>1
<1>3. \A i, j \in S : to[i] = to[j] => i = j
  <2>1. SUFFICES ASSUME NEW i \in S, NEW j \in S, to[i] = to[j], i # j
                 PROVE  FALSE
    OBVIOUS
  <2>2. to[i] \in Nat /\ to[j] \in Nat
    BY <1>2
  <2>3. i < j \/ j < i
    BY <1>2, <2>1
  <2> QED
    BY <2>1, <2>2, <2>3
<1>4. Cardinality(S) \in Nat /\ Cardinality(T) \in Nat /\ Cardinality(S) <= Cardinality(T)
  <2>1. IsFiniteSet(S) /\ IsFiniteSet(T)
    BY <1>1, RankProperties
  <2>2. to \in Injection(S, T)
    BY <1>3 DEF Injection, IsInjective
  <2>3. Cardinality(S) <= Cardinality(T)
    BY <2>1, <2>2, FS_Injection
  <2> QED
    BY <2>1, <2>3, FS_CardinalityType
<1>5. ASSUME NEW i \in S
      PROVE  RankIn(T, to[i]) = RankIn(S, i)
  <2> DEFINE A == {j \in S : j <= i}
             B == {j \in T : j <= to[i]}
             h == [j \in A |-> to[j]]
  <2>1. IsFiniteSet(A)
    BY <1>1, RankProperties, FS_Subset
  <2>2. h \in [A -> B]
    <3> SUFFICES ASSUME NEW j \in A
                 PROVE  to[j] \in B
      OBVIOUS
    <3>1. to[i] \in Nat /\ to[j] \in T /\ i \in Nat /\ j \in Nat
      BY <1>2
    <3>2. j = i \/ j < i
      BY <3>1
    <3> QED
      BY <3>1, <3>2
  <2>3. ASSUME NEW b \in B
        PROVE  \E a \in A : h[a] = b
    <3>1. b \in T /\ b <= to[i] /\ b \in Nat /\ to[i] \in Nat
      BY <1>2, <2>3
    <3>2. PICK a \in S : to[a] = b
      BY <3>1
    <3>3. ~(i < a)
      BY <3>1, <3>2
    <3>4. a \in A
      BY <1>2, <3>3
    <3> QED
      BY <3>2, <3>4
  <2>4. \A a, b \in A : h[a] = h[b] => a = b
    BY <1>3
  <2> HIDE DEF A, B, h
  <2>5. h \in Bijection(A, B)
    BY <2>2, <2>3, <2>4 DEF Bijection, Injection, IsInjective, Surjection
  <2>6. ExistsBijection(A, B)
    BY <2>5 DEF ExistsBijection
  <2>7. Cardinality(B) = Cardinality(A)
    BY <2>1, <2>6, FS_Bijection
  <2> QED
    BY <2>7 DEF RankIn, A, B
<1>6. ASSUME NEW k \in 1..Cardinality(S)
      PROVE  t[k] = s[k]
  <2>1. NthOf(S, k) \in S /\ RankIn(S, NthOf(S, k)) = k
    BY <1>1, NthOfProperties
  <2>2. k \in 1..Cardinality(T)
    BY <1>4
  <2>3. NthOf(T, k) \in T /\ RankIn(T, NthOf(T, k)) = k
    BY <1>1, <2>2, NthOfProperties
  <2> DEFINE x == to[NthOf(S, k)]
             y == NthOf(T, k)
  <2>4. x \in T /\ y \in T /\ RankIn(T, x) = RankIn(T, y)
    BY <1>5, <2>1, <2>3
  <2>5. g[x] = f[NthOf(S, k)]
    BY <2>1
  <2> HIDE DEF x, y
  <2>6. x = y
    <3>1. /\ \A i \in T : RankIn(T, i) \in 1..Cardinality(T)
          /\ \A i, j \in T : i < j => RankIn(T, i) < RankIn(T, j)
      BY <1>1, RankProperties
    <3>2. ~(x < y) /\ ~(y < x)
      BY <1>4, <2>4, <3>1
    <3> QED
      BY <1>2, <2>4, <3>2
  <2> QED
    BY <2>2, <2>5, <2>6 DEF Selected, y
<1>7. s \in Seq(R) /\ Len(s) = Cardinality(S) /\ t \in Seq(R) /\ Len(t) = Cardinality(T)
  BY SelectedProperties
<1> HIDE DEF s, t
<1>8. SubSeq(s, 1, Len(s)) = SubSeq(t, 1, Len(s))
  <2> DEFINE u == SubSeq(s, 1, Len(s))
             v == SubSeq(t, 1, Len(s))
  <2>1. u \in Seq(R) /\ Len(u) = Len(s) /\ \A k \in 1..Len(s) : u[k] = s[k]
    <3>1. \A k \in 1..Len(s) : s[k] \in R
      BY <1>7, ElementOfSeq
    <3> QED
      BY <1>4, <1>7, <3>1, SubSeqProperties
  <2>2. v \in Seq(R) /\ Len(v) = Len(s) /\ \A k \in 1..Len(s) : v[k] = t[k]
    <3>1. \A k \in 1..Len(s) : t[k] \in R
      BY <1>4, <1>7, ElementOfSeq
    <3> QED
      BY <1>4, <1>7, <3>1, SubSeqProperties
  <2> HIDE DEF u, v
  <2>3. \A k \in 1..Len(u) : u[k] = v[k]
    BY <1>6, <1>7, <2>1, <2>2
  <2>4. u = v
    BY <2>1, <2>2, <2>3, SeqEqual
  <2> QED
    BY <2>4 DEF u, v
<1> QED
  BY <1>4, <1>7, <1>8 DEF IsPrefix, s, t
=============================================================================
