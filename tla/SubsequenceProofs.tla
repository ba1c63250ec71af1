------------------------- MODULE SubsequenceProofs -------------------------
(***************************************************************************)
(* Facts about arrays from which elements are taken out: where the         *)
(* elements that stay are found afterwards, and that their number goes     *)
(* down by the number of those taken out.                                  *)
(***************************************************************************)
EXTENDS Subsequences, SequencesExt, FiniteSetTheorems, WellFoundedInduction, TLAPS

(* Numbers *)

\* A set of numbers that is not empty has a least element.
LEMMA LeastNat ==
    \A T \in SUBSET Nat : T # {} => \E x \in T : \A y \in T : x <= y
<1> SUFFICES ASSUME NEW T \in SUBSET Nat, T # {}
             PROVE  \E x \in T : \A y \in T : x <= y
  OBVIOUS
<1> DEFINE R == OpToRel(<, Nat)
<1>1. \E x \in T : \A y \in T : ~(<<y, x>> \in R)
  BY NatLessThanWellFounded, WFMin
<1>2. \A x, y \in Nat : <<y, x>> \in R <=> y < x
  BY DEF OpToRel
<1> HIDE DEF R
<1>3. PICK x \in T : \A y \in T : ~(<<y, x>> \in R)
  BY <1>1
<1>4. \A y \in T : x <= y
  <2> TAKE y \in T
  <2>1. x \in Nat /\ y \in Nat
    OBVIOUS
  <2>2. ~(y < x)
    BY <2>1, <1>2, <1>3
  <2> QED
    BY <2>1, <2>2
<1> QED
  BY <1>4

\* Min of a set of numbers.
LEMMA MinNat ==
    ASSUME NEW T \in SUBSET Nat, T # {}
    PROVE  Min(T) \in T /\ \A y \in T : Min(T) <= y
<1>1. \E x \in T : \A y \in T : x <= y
  BY LeastNat
<1> QED
  BY <1>1 DEF Min

-----------------------------------------------------------------------------
(* How many places of I come up to i *)

UpTo(I, i) == Cardinality(I \cap 1 .. i)

\* The count starts at 0, ends at the size of I, and goes up by one at every
\* place of I.
Counts(I, n) ==
    /\ Cardinality(I) \in Nat
    /\ UpTo(I, 0) = 0
    /\ UpTo(I, n) = Cardinality(I)
    /\ \A i \in Nat : UpTo(I, i) \in Nat
    /\ \A i \in Nat : i + 1 \in I => UpTo(I, i + 1) = UpTo(I, i) + 1
    /\ \A i \in Nat : i + 1 \notin I => UpTo(I, i + 1) = UpTo(I, i)
    /\ \A i, j \in Nat : i <= j => UpTo(I, i) <= UpTo(I, j)
    /\ \A i, j \in Nat : i < j /\ j \in I => UpTo(I, i) < UpTo(I, j)

\* The number of elements up to a place goes up by one at an element, and
\* nowhere else.
LEMMA CountsHolds ==
    ASSUME NEW n \in Nat, NEW I \in SUBSET (1 .. n)
    PROVE  Counts(I, n)
<1>1. IsFiniteSet(I) /\ Cardinality(I) \in Nat
  <2>1. IsFiniteSet(1 .. n)
    BY FS_Interval
  <2> QED
    BY <2>1, FS_Subset, FS_CardinalityType
<1>2. \A i : IsFiniteSet(I \cap 1 .. i) /\ UpTo(I, i) \in Nat
  <2> TAKE i
  <2>1. I \cap 1 .. i \subseteq I
    OBVIOUS
  <2> QED
    BY <1>1, <2>1, FS_Subset, FS_CardinalityType DEF UpTo
<1>3. UpTo(I, 0) = 0 /\ UpTo(I, n) = Cardinality(I)
  <2>1. I \cap 1 .. 0 = {}
    OBVIOUS
  <2>2. I \cap 1 .. n = I
    OBVIOUS
  <2> QED
    BY <2>1, <2>2, FS_EmptySet DEF UpTo
<1>4. \A i \in Nat : i + 1 \in I => UpTo(I, i + 1) = UpTo(I, i) + 1
  <2> SUFFICES ASSUME NEW i \in Nat, i + 1 \in I
               PROVE  UpTo(I, i + 1) = UpTo(I, i) + 1
    OBVIOUS
  <2>1. I \cap 1 .. (i + 1) = (I \cap 1 .. i) \cup {i + 1} /\ i + 1 \notin I \cap 1 .. i
    OBVIOUS
  <2> QED
    BY <1>2, <2>1, FS_AddElement DEF UpTo
<1>5. \A i \in Nat : i + 1 \notin I => UpTo(I, i + 1) = UpTo(I, i)
  <2> SUFFICES ASSUME NEW i \in Nat, i + 1 \notin I
               PROVE  I \cap 1 .. (i + 1) = I \cap 1 .. i
    BY DEF UpTo
  <2> QED
    OBVIOUS
<1>6. \A i, j \in Nat : i <= j => UpTo(I, i) <= UpTo(I, j)
  <2> SUFFICES ASSUME NEW i \in Nat, NEW j \in Nat, i <= j
               PROVE  UpTo(I, i) <= UpTo(I, j)
    OBVIOUS
  <2>1. I \cap 1 .. i \subseteq I \cap 1 .. j
    OBVIOUS
  <2> QED
    BY <1>2, <2>1, FS_Subset DEF UpTo
<1>7. \A i, j \in Nat : i < j /\ j \in I => UpTo(I, i) < UpTo(I, j)
  <2> SUFFICES ASSUME NEW i \in Nat, NEW j \in Nat, i < j, j \in I
               PROVE  UpTo(I, i) < UpTo(I, j)
    OBVIOUS
  <2>1. j - 1 \in Nat /\ i <= j - 1 /\ j = (j - 1) + 1
    OBVIOUS
  <2>2. UpTo(I, j) = UpTo(I, j - 1) + 1
    BY <1>4, <2>1
  <2>3. UpTo(I, i) <= UpTo(I, j - 1)
    BY <1>6, <2>1
  <2>4. UpTo(I, i) \in Nat /\ UpTo(I, j) \in Nat /\ UpTo(I, j - 1) \in Nat
    BY <1>2
  <2> QED
    BY <2>2, <2>3, <2>4
<1> QED
  BY <1>1, <1>2, <1>3, <1>4, <1>5, <1>6, <1>7 DEF Counts

\* There is exactly one place of I up to which there are m places.
LEMMA NthPlace ==
    ASSUME NEW n \in Nat, NEW I \in SUBSET (1 .. n), NEW m \in 1 .. Cardinality(I)
    PROVE  \E i \in I : /\ UpTo(I, i) = m
                        /\ \A j \in I : UpTo(I, j) = m => j = i
<1>0. Counts(I, n)
  BY CountsHolds
<1> DEFINE T == {i \in Nat : m <= UpTo(I, i)}
<1>1. T \in SUBSET Nat /\ T # {}
  BY <1>0 DEF Counts
<1>2. PICK x \in T : \A y \in T : x <= y
  <2> HIDE DEF T
  <2> QED
    BY <1>1, LeastNat
<1>3. x # 0
  BY <1>0 DEF Counts
<1>4. x - 1 \in Nat /\ x - 1 \notin T /\ x = (x - 1) + 1
  BY <1>2, <1>3
<1>5. UpTo(I, x - 1) \in Nat /\ UpTo(I, x) \in Nat /\ UpTo(I, x - 1) < m /\ m <= UpTo(I, x)
  BY <1>0, <1>4 DEF Counts
<1>6. x \in I /\ UpTo(I, x) = UpTo(I, x - 1) + 1
  BY <1>0, <1>4, <1>5 DEF Counts
<1>7. UpTo(I, x) = m
  BY <1>5, <1>6
<1>8. \A j \in I : UpTo(I, j) = m => j = x
  <2> SUFFICES ASSUME NEW j \in I, UpTo(I, j) = m, j # x
               PROVE  FALSE
    OBVIOUS
  <2>1. j \in Nat /\ x \in Nat /\ (j < x \/ x < j)
    BY <1>6
  <2> QED
    BY <1>0, <1>6, <1>7, <2>1 DEF Counts
<1> QED
  BY <1>6, <1>7, <1>8

-----------------------------------------------------------------------------
(* What is kept *)

\* The array t has the elements that s has at the places I and no others, in
\* their order: f[n] is where its n-th element was.
KeptFrom(f, t, s, I) ==
    /\ f \in [DOMAIN t -> I]
    /\ \A n \in DOMAIN t : t[n] = s[f[n]]
    /\ \A n, m \in DOMAIN t : n < m => f[n] < f[m]
    /\ \A n, m \in DOMAIN t : f[n] = f[m] => n = m
    /\ \A i \in I : \E n \in DOMAIN t : f[n] = i

Keeps(t, s, I) == \E f : KeptFrom(f, t, s, I)

\* A sequence keeps all of itself.
LEMMA KeepsAll ==
    ASSUME NEW S, NEW s \in Seq(S)
    PROVE  Keeps(s, s, DOMAIN s)
<1> DEFINE f == [n \in DOMAIN s |-> n]
<1>1. KeptFrom(f, s, s, DOMAIN s)
  BY DEF KeptFrom
<1> QED
  BY <1>1 DEF Keeps

\* A subsequence is a sequence of the elements at the places of I, each once
\* and in their order.
LEMMA SubsequenceKeeps ==
    ASSUME NEW S, NEW s \in Seq(S), NEW I \in SUBSET DOMAIN s
    PROVE  /\ Subsequence(s, I) \in Seq(S)
           /\ Len(Subsequence(s, I)) = Cardinality(I)
           /\ Keeps(Subsequence(s, I), s, I)
<1> DEFINE n == Len(s)
           C(i) == UpTo(I, i)
           f == [m \in 1 .. Cardinality(I) |-> CHOOSE i \in I : C(i) = m]
           t == Subsequence(s, I)
<1>1. n \in Nat /\ I \in SUBSET (1 .. n)
  OBVIOUS
<1>2. Counts(I, n) /\ Cardinality(I) \in Nat
  BY <1>1, CountsHolds DEF Counts
<1>3. \A m \in 1 .. Cardinality(I) :
        f[m] \in I /\ C(f[m]) = m /\ \A j \in I : C(j) = m => j = f[m]
  <2> TAKE m \in 1 .. Cardinality(I)
  <2>1. PICK i \in I : C(i) = m /\ \A j \in I : C(j) = m => j = i
    BY <1>1, NthPlace
  <2>2. f[m] = CHOOSE k \in I : C(k) = m
    OBVIOUS
  <2> HIDE DEF f, C
  <2> QED
    BY <2>1, <2>2
<1>4. \A m \in 1 .. Cardinality(I) : t[m] = s[f[m]]
  BY DEF Subsequence, UpTo
<1>5. DOMAIN t = 1 .. Cardinality(I)
  BY DEF Subsequence, UpTo
<1>6. t \in Seq(S) /\ Len(t) = Cardinality(I)
  <2>1. t = [m \in 1 .. Cardinality(I) |-> s[f[m]]]
    BY DEF Subsequence, UpTo
  <2>2. \A i \in I : s[i] \in S
    OBVIOUS
  <2> HIDE DEF f, t
  <2> QED
    BY <2>1, <2>2, <1>2, <1>3
<1>7. \A a, b \in 1 .. Cardinality(I) : a < b => f[a] < f[b]
  <2> HIDE DEF f
  <2> SUFFICES ASSUME NEW a \in 1 .. Cardinality(I), NEW b \in 1 .. Cardinality(I), a < b,
                      ~(f[a] < f[b])
               PROVE  FALSE
    OBVIOUS
  <2>1. f[a] \in Nat /\ f[b] \in Nat /\ f[b] <= f[a]
    BY <1>1, <1>3
  <2>2. C(f[b]) <= C(f[a])
    BY <1>2, <2>1, <1>1 DEF Counts
  <2> QED
    BY <1>2, <1>3, <2>2
<1>8. \A i \in I : \E m \in 1 .. Cardinality(I) : f[m] = i
  <2> TAKE i \in I
  <2>1. i \in Nat /\ 0 < i /\ i <= n
    BY <1>1
  <2>2. C(i) \in Nat /\ C(0) < C(i) /\ C(i) <= C(n)
    BY <1>2, <1>1, <2>1 DEF Counts
  <2>3. C(0) = 0 /\ C(n) = Cardinality(I)
    BY <1>2 DEF Counts
  <2>4. C(i) \in 1 .. Cardinality(I)
    BY <1>2, <2>2, <2>3
  <2> HIDE DEF f, C
  <2> QED
    BY <1>3, <2>4
<1>9. f \in [DOMAIN t -> I]
  BY <1>3, <1>5
<1> QED
  <2> HIDE DEF f, t
  <2>1. Keeps(t, s, I)
    <3>1. \A m \in DOMAIN t : t[m] = s[f[m]]
      BY <1>4, <1>5
    <3>2. \A a, b \in DOMAIN t : a < b => f[a] < f[b]
      BY <1>5, <1>7
    <3>3. \A i \in I : \E m \in DOMAIN t : f[m] = i
      BY <1>5, <1>8
    <3>4. \A a, b \in DOMAIN t : f[a] = f[b] => a = b
      BY <1>3, <1>5
    <3>5. KeptFrom(f, t, s, I)
      BY <1>9, <3>1, <3>2, <3>3, <3>4, Zenon DEF KeptFrom
    <3> QED
      BY <3>5 DEF Keeps
  <2> QED
    BY <2>1, <1>6 DEF t

\* Taking out one element.
LEMMA RemoveAtKeeps ==
    ASSUME NEW S, NEW s \in Seq(S), NEW k \in DOMAIN s
    PROVE  /\ RemoveAt(s, k) \in Seq(S)
           /\ Len(RemoveAt(s, k)) = Len(s) - 1
           /\ Keeps(RemoveAt(s, k), s, DOMAIN s \ {k})
<1> DEFINE t == RemoveAt(s, k)
           f == [n \in 1 .. Len(s) - 1 |-> IF n < k THEN n ELSE n + 1]
<1>1. t \in Seq(S) /\ Len(t) = Len(s) - 1
  BY DEF RemoveAt
<1>2. \A n \in 1 .. Len(s) - 1 : t[n] = s[IF n < k THEN n ELSE n + 1]
  <2> SUFFICES ASSUME NEW n \in 1 .. Len(s) - 1
               PROVE  t[n] = s[IF n < k THEN n ELSE n + 1]
    OBVIOUS
  <2> DEFINE a == SubSeq(s, 1, k - 1)
             b == SubSeq(s, k + 1, Len(s))
  <2>1. /\ a \in Seq(S) /\ Len(a) = k - 1
        /\ \A i \in 1 .. k - 1 : a[i] = s[i]
    OBVIOUS
  <2>2. /\ b \in Seq(S) /\ Len(b) = Len(s) - k
        /\ \A i \in 1 .. Len(s) - k : b[i] = s[i + k]
    OBVIOUS
  <2>3. t = a \o b
    BY DEF RemoveAt
  <2> HIDE DEF a, b, t
  <2>4. CASE n < k
    BY <2>1, <2>2, <2>3, <2>4
  <2>5. CASE ~(n < k)
    <3>1. t[n] = b[n - (k - 1)]
      BY <2>1, <2>2, <2>3, <2>5
    <3>2. n - (k - 1) \in 1 .. Len(s) - k /\ n - (k - 1) + k = n + 1
      BY <2>5
    <3> QED
      BY <2>2, <2>5, <3>1, <3>2
  <2> QED
    BY <2>4, <2>5
<1>3. DOMAIN t = 1 .. Len(s) - 1
  BY <1>1
<1> HIDE DEF t
<1>4. f \in [DOMAIN t -> DOMAIN s \ {k}]
  BY <1>3
<1>5. \A i \in DOMAIN s \ {k} : \E n \in DOMAIN t : f[n] = i
  <2> TAKE i \in DOMAIN s \ {k}
  <2> DEFINE n == IF i < k THEN i ELSE i - 1
  <2>1. n \in DOMAIN t /\ f[n] = i
    BY <1>3
  <2> QED
    BY <2>1
<1>6. \A n, m \in DOMAIN t : n < m => f[n] < f[m]
  BY <1>3
<1>7. \A n \in DOMAIN t : t[n] = s[f[n]]
  BY <1>2, <1>3
<1>8. \A n, m \in DOMAIN t : f[n] = f[m] => n = m
  BY <1>3
<1> HIDE DEF f
<1>9. KeptFrom(f, t, s, DOMAIN s \ {k})
  BY <1>4, <1>5, <1>6, <1>7, <1>8, Zenon DEF KeptFrom
<1> QED
  BY <1>1, <1>9 DEF t, Keeps

\* The places of I at which s has an element of X.
Among(s, I, X) == {i \in I : s[i] \in X}

\* How many of the kept elements are in a set X.
LEMMA KeepsCount ==
    ASSUME NEW S, NEW s \in Seq(S), NEW t \in Seq(S), NEW I \in SUBSET DOMAIN s,
           Keeps(t, s, I), NEW X
    PROVE  Cardinality(Among(t, DOMAIN t, X)) = Cardinality(Among(s, I, X))
<1> DEFINE A == {n \in DOMAIN t : t[n] \in X}
           B == {i \in I : s[i] \in X}
<1>1. PICK f : KeptFrom(f, t, s, I)
  BY DEF Keeps
<1> USE DEF KeptFrom
<1> DEFINE g == [n \in A |-> f[n]]
<1>2. g \in [A -> B]
  BY <1>1
<1>3. \A n, m \in A : g[n] = g[m] => n = m
  BY <1>1
<1>4. \A i \in B : \E n \in A : g[n] = i
  BY <1>1
<1>5. IsFiniteSet(A)
  BY FS_Interval, FS_Subset
<1>6. g \in Bijection(A, B)
  <2> HIDE DEF A, B, g, KeptFrom
  <2> QED
    BY <1>2, <1>3, <1>4, Zenon DEF Bijection, Injection, Surjection, IsInjective
<1>7. ExistsBijection(A, B)
  BY <1>6 DEF ExistsBijection
<1>8. Cardinality(A) = Cardinality(B)
  <2> HIDE DEF A, B
  <2> QED
    BY <1>5, <1>7, FS_Bijection
<1> QED
  BY <1>8 DEF Among

\* The places of a sequence with one more element.
LEMMA AppendPlaces ==
    ASSUME NEW S, NEW s \in Seq(S), NEW e \in S
    PROVE  LET t == Append(s, e)
           IN  /\ t \in Seq(S) /\ DOMAIN t = DOMAIN s \cup {Len(s) + 1}
               /\ Len(s) + 1 \notin DOMAIN s /\ t[Len(s) + 1] = e
               /\ \A x \in DOMAIN s : t[x] = s[x]
OBVIOUS

\* The places of a value that a sequence has once.
LEMMA OnePlace ==
    ASSUME NEW D, NEW x \in D, NEW X \in SUBSET D, x \in X, \A y \in X : y = x
    PROVE  Cardinality(X) = 1
<1>1. X = {x}
  OBVIOUS
<1> QED
  BY <1>1, FS_Singleton
=============================================================================
