------------------------------ MODULE DataLemmas ------------------------------
(****************************************************************************)
(* Facts about data that the proofs of several components need: sequences and   *)
(* what adding and taking elements does to them, and induction over the natural *)
(* numbers in the form of the least element of a set of numbers.                *)
(****************************************************************************)
EXTENDS Naturals, SequencesExt, SequenceTheorems, FiniteSetTheorems, WellFoundedInduction,
        TLAPS

-------------------------------------------------------------------------------
\* Induction: what some number violates, a least number violates.
LEMMA Least ==
  ASSUME NEW S \in SUBSET Nat, S # {}
  PROVE \E n \in S : \A m \in S : n <= m
<1> DEFINE R == {p \in Nat \X Nat : p[1] < p[2]}
<1>1. IsWellFoundedOn(R, Nat)
  <2>1. OpToRel(<, Nat) = R
    BY DEF OpToRel
  <2> QED BY <2>1, NatLessThanWellFounded
<1>2. PICK x \in S : \A y \in S : ~ (<<y, x>> \in R)
  <2> HIDE DEF R
  <2> QED BY <1>1, WFMin
<1>3. ASSUME NEW m \in S PROVE x <= m
  <2>1. m \in Nat /\ x \in Nat
    OBVIOUS
  <2>2. <<m, x>> \in R <=> m < x
    BY <2>1
  <2> QED BY <2>1, <2>2, <1>2
<1> QED BY <1>3

-------------------------------------------------------------------------------
\* Sequences.

LEMMA NothingIn == ASSUME NEW q, q = <<>> PROVE DOMAIN q = {}
<1>1. q \in Seq({}) /\ Len(q) = 0
  BY EmptySeq
<1> QED BY <1>1

LEMMA Added ==
  ASSUME NEW S, NEW q \in Seq(S), NEW e \in S
  PROVE  /\ Append(q, e) \in Seq(S) /\ Append(q, e) # <<>>
         /\ DOMAIN Append(q, e) = DOMAIN q \cup {Len(q) + 1} /\ Len(q) + 1 \notin DOMAIN q
         /\ \A i \in DOMAIN q : Append(q, e)[i] = q[i]
         /\ Append(q, e)[Len(q) + 1] = e
         /\ \A i \in DOMAIN q : i < Len(q) + 1
         /\ q # <<>> => Head(Append(q, e)) = Head(q)
         /\ q = <<>> => Head(Append(q, e)) = e
<1>1. /\ Append(q, e) \in Seq(S) /\ Len(Append(q, e)) = Len(q) + 1 /\ Len(q) \in Nat
      /\ \A i \in 1..Len(q) : Append(q, e)[i] = q[i]
      /\ Append(q, e)[Len(q) + 1] = e
  OBVIOUS
<1>2. DOMAIN q = 1..Len(q) /\ DOMAIN Append(q, e) = 1..Len(q) + 1
  BY <1>1
<1>3. Append(q, e) # <<>>
  BY <1>1, EmptySeq
<1>4. /\ q # <<>> => Head(Append(q, e)) = Head(q)
      /\ q = <<>> => Head(Append(q, e)) = e
  BY <1>1, <1>3, EmptySeq
<1> QED BY <1>1, <1>2, <1>3, <1>4

LEMMA Taken ==
  ASSUME NEW S, NEW q \in Seq(S), q # <<>>
  PROVE  /\ Tail(q) \in Seq(S) /\ Head(q) \in S /\ Head(q) = q[1] /\ 1 \in DOMAIN q
         /\ \A i \in DOMAIN Tail(q) : i + 1 \in DOMAIN q /\ Tail(q)[i] = q[i + 1] /\ i + 1 # 1
                                      /\ i \in Nat
         /\ \A i \in DOMAIN q : i # 1 => i - 1 \in DOMAIN Tail(q) /\ Tail(q)[i - 1] = q[i] /\ i \in Nat
<1>1. Len(q) \in Nat /\ Len(q) > 0 /\ DOMAIN q = 1..Len(q)
  BY EmptySeq
<1>2. /\ Tail(q) \in Seq(S) /\ Len(Tail(q)) = Len(q) - 1
      /\ \A i \in 1..Len(q) - 1 : Tail(q)[i] = q[i + 1]
  BY <1>1, HeadTailProperties
<1>3. DOMAIN Tail(q) = 1..Len(q) - 1
  BY <1>1, <1>2
<1>4. Head(q) = q[1] /\ q[1] \in S
  BY <1>1
<1> QED BY <1>1, <1>2, <1>3, <1>4

\* A sequence without its first element is its tail.
LEMMA FirstRemoved ==
  ASSUME NEW S, NEW q \in Seq(S), q # <<>>
  PROVE  RemoveAt(q, 1) = Tail(q)
<1>1. SubSeq(q, 1, 0) = <<>> /\ SubSeq(q, 2, Len(q)) = Tail(q)
  BY SubSeqEmpty, TailIsSubSeq
<1>2. Tail(q) \in Seq(S)
  BY HeadTailProperties
<1> QED BY <1>1, <1>2, ConcatEmptySeq DEF RemoveAt
-------------------------------------------------------------------------------
\* What a function says of the elements of a sequence, taken one after the other from
\* a first value on.  A recursive function over the positions of a sequence is that.

Follows(S, b, g, q, h) ==
  h[0] = b /\ \A k \in 1..Len(q) : h[k - 1] \in S => h[k] = g[<<h[k - 1], q[k]>>]

Iterable(S, E, b, g, q) == b \in S /\ g \in [S \X E -> S] /\ q \in Seq(E)

\* Such a function exists.
LEMMA Iterates ==
  ASSUME NEW S, NEW E, NEW b, NEW g, NEW q, Iterable(S, E, b, g, q)
  PROVE  \E f \in [0..Len(q) -> S] :
           f[0] = b /\ \A k \in 1..Len(q) : f[k] = g[<<f[k - 1], q[k]>>]
<1> DEFINE Good(n) == \E f \in [0..n -> S] :
                        f[0] = b /\ \A k \in 1..n : f[k] = g[<<f[k - 1], q[k]>>]
           Bad == {n \in Nat : n <= Len(q) /\ ~Good(n)}
<1>0. b \in S /\ g \in [S \X E -> S] /\ q \in Seq(E)
  BY DEF Iterable
<1>1. Len(q) \in Nat /\ \A k \in 1..Len(q) : q[k] \in E
  BY <1>0
<1>2. ASSUME Bad # {} PROVE FALSE
  <2>1. PICK n \in Bad : \A m \in Bad : n <= m
    <3>1. Bad \in SUBSET Nat
      OBVIOUS
    <3> HIDE DEF Bad
    <3> QED BY <1>2, <3>1, Least
  <2>2. CASE n = 0
    <3>1. [k \in 0..0 |-> b] \in [0..0 -> S] /\ [k \in 0..0 |-> b][0] = b
      BY <1>0
    <3>2. \A k \in 1..0 : FALSE
      OBVIOUS
    <3>3. Good(0)
      BY <3>1, <3>2
    <3> QED BY <2>2, <3>3
  <2>3. CASE n # 0
    <3>1. n \in Nat /\ n - 1 \in Nat /\ n <= Len(q) /\ n \in 1..Len(q) /\ ~(n <= n - 1)
      <4> HIDE DEF Good
      <4> QED BY <1>1, <2>1, <2>3
    <3>2. Good(n - 1)
      <4> HIDE DEF Good
      <4> QED BY <1>1, <2>1, <3>1
    <3>3. PICK f \in [0..n - 1 -> S] :
            f[0] = b /\ \A k \in 1..n - 1 : f[k] = g[<<f[k - 1], q[k]>>]
      BY <3>2
    <3>4. PICK v : v = g[<<f[n - 1], q[n]>>]
      OBVIOUS
    <3>5. v \in S
      <4>1. f[n - 1] \in S /\ q[n] \in E
        BY <1>1, <3>1
      <4> QED BY <1>0, <3>4, <4>1
    <3>6. PICK h : h = [k \in 0..n |-> IF k = n THEN v ELSE f[k]]
      OBVIOUS
    <3>7. \A k \in 0..n : k = n \/ k \in 0..n - 1
      BY <3>1
    <3>8. h \in [0..n -> S] /\ h[n] = v /\ \A k \in 0..n - 1 : h[k] = f[k]
      BY <3>1, <3>5, <3>6, <3>7
    <3>9. h[0] = b
      BY <3>1, <3>3, <3>8
    <3>10. ASSUME NEW k \in 1..n PROVE h[k] = g[<<h[k - 1], q[k]>>]
      <4>1. k - 1 \in 0..n - 1 /\ h[k - 1] = f[k - 1]
        BY <3>1, <3>8
      <4>2. CASE k = n
        BY <3>4, <3>8, <4>1, <4>2
      <4>3. CASE k # n
        <5>1. k \in 1..n - 1 /\ k \in 0..n - 1
          BY <3>1, <4>3
        <5> QED BY <3>3, <3>8, <4>1, <5>1
      <4> QED BY <4>2, <4>3
    <3>11. Good(n)
      BY <3>8, <3>9, <3>10
    <3> QED BY <2>1, <3>11
  <2> QED BY <2>2, <2>3
<1>3. Good(Len(q))
  BY <1>1, <1>2
<1> QED BY <1>3

\* Its values are of the kind the function gives.
LEMMA Iterated ==
  ASSUME NEW S, NEW E, NEW b, NEW g, NEW q, Iterable(S, E, b, g, q),
         NEW h, Follows(S, b, g, q, h)
  PROVE  \A k \in 0..Len(q) : h[k] \in S
<1> DEFINE Bad == {n \in Nat : n <= Len(q) /\ h[n] \notin S}
<1>0. b \in S /\ g \in [S \X E -> S] /\ q \in Seq(E)
  BY DEF Iterable
<1>1. Len(q) \in Nat /\ \A k \in 1..Len(q) : q[k] \in E
  BY <1>0
<1>2. ASSUME Bad # {} PROVE FALSE
  <2>1. PICK n \in Bad : \A m \in Bad : n <= m
    <3>1. Bad \in SUBSET Nat
      OBVIOUS
    <3> HIDE DEF Bad
    <3> QED BY <1>2, <3>1, Least
  <2>2. n # 0 /\ n \in Nat /\ n <= Len(q)
    BY <1>0, <2>1 DEF Follows
  <2>3. n - 1 \in Nat /\ n - 1 <= Len(q) /\ n \in 1..Len(q) /\ n - 1 \notin Bad
    BY <1>1, <2>1, <2>2
  <2>4. h[n - 1] \in S /\ q[n] \in E
    BY <1>1, <2>3
  <2>5. h[n] \in S
    BY <1>0, <2>3, <2>4 DEF Follows
  <2> QED BY <2>1, <2>5
<1> QED BY <1>1, <1>2

\* Sequences that begin alike are taken alike.
LEMMA IterationsAgree ==
  ASSUME NEW S, NEW E, NEW b, NEW g, NEW q, Iterable(S, E, b, g, q), NEW r, Iterable(S, E, b, g, r),
         NEW h, Follows(S, b, g, q, h), NEW f, Follows(S, b, g, r, f),
         NEW n \in Nat, n <= Len(q), n <= Len(r), \A k \in 1..n : q[k] = r[k]
  PROVE  \A k \in 0..n : h[k] = f[k]
<1> DEFINE Bad == {m \in Nat : m <= n /\ h[m] # f[m]}
<1>0. q \in Seq(E) /\ r \in Seq(E)
  BY DEF Iterable
<1>1. Len(q) \in Nat /\ Len(r) \in Nat
  BY <1>0
<1>2. /\ \A k \in 0..Len(q) : h[k] \in S
      /\ \A k \in 0..Len(r) : f[k] \in S
  <2>1. \A k \in 0..Len(q) : h[k] \in S
    BY Iterated
  <2>2. \A k \in 0..Len(r) : f[k] \in S
    BY Iterated
  <2> QED BY <2>1, <2>2
<1>3. ASSUME Bad # {} PROVE FALSE
  <2>1. PICK m \in Bad : \A k \in Bad : m <= k
    <3>1. Bad \in SUBSET Nat
      OBVIOUS
    <3> HIDE DEF Bad
    <3> QED BY <1>3, <3>1, Least
  <2>2. m # 0 /\ m \in Nat /\ m <= n
    BY <2>1 DEF Follows
  <2>3. m - 1 \in Nat /\ m - 1 <= n /\ m \in 1..n /\ m - 1 \notin Bad
    BY <2>1, <2>2
  <2>4. m \in 1..Len(q) /\ m \in 1..Len(r) /\ m - 1 \in 0..Len(q) /\ m - 1 \in 0..Len(r)
    BY <1>1, <2>3
  <2>5. h[m] = g[<<h[m - 1], q[m]>>] /\ f[m] = g[<<f[m - 1], r[m]>>]
    BY <1>2, <2>4 DEF Follows
  <2>6. h[m - 1] = f[m - 1]
    BY <2>3
  <2> QED BY <2>1, <2>3, <2>5, <2>6
<1> QED BY <1>3

-------------------------------------------------------------------------------
\* A finite set of numbers can be listed in order.
Ascends(s) == \A i, j \in DOMAIN s : i < j => s[i] < s[j]

LEMMA Listed ==
  ASSUME NEW S \in SUBSET Nat, IsFiniteSet(S)
  PROVE  \E s \in [1..Cardinality(S) -> S] : Ascends(s)
<1> DEFINE Lists(T) == \E s \in [1..Cardinality(T) -> T] : Ascends(s)
           Bad == {n \in Nat : \E T \in SUBSET Nat : IsFiniteSet(T) /\ Cardinality(T) = n /\ ~Lists(T)}
<1>1. ASSUME Bad # {} PROVE FALSE
  <2>1. PICK n \in Bad : \A m \in Bad : n <= m
    <3>1. Bad \in SUBSET Nat
      OBVIOUS
    <3> HIDE DEF Bad
    <3> QED BY <1>1, <3>1, Least
  <2>2. PICK T \in SUBSET Nat : IsFiniteSet(T) /\ Cardinality(T) = n /\ ~Lists(T)
    <3> HIDE DEF Lists
    <3> QED BY <2>1
  <2>3. n \in Nat
    BY <2>1
  <2>4. CASE T = {}
    <3>1. Cardinality(T) = 0
      BY <2>4, FS_EmptySet
    <3>2. 1..0 = {}
      OBVIOUS
    <3>3. PICK s : s = [i \in {} |-> 0]
      OBVIOUS
    <3>4. s \in [{} -> T] /\ DOMAIN s = {}
      BY <3>3
    <3>5. Ascends(s)
      BY <3>4 DEF Ascends
    <3> QED BY <2>2, <3>1, <3>2, <3>4, <3>5
  <2>5. CASE T # {}
    <3>1. PICK x \in T : \A y \in T : x <= y
      BY <2>5, Least
    <3>2. /\ IsFiniteSet(T \ {x}) /\ Cardinality(T \ {x}) = n - 1 /\ n - 1 \in Nat
      <4>1. IsFiniteSet(T \ {x}) /\ Cardinality(T \ {x}) = n - 1
        <5> HIDE DEF Lists
        <5> QED BY <2>2, FS_RemoveElement
      <4>2. Cardinality(T \ {x}) \in Nat
        BY <4>1, FS_CardinalityType
      <4> QED BY <4>1, <4>2
    <3>3. Lists(T \ {x})
      <4>1. n - 1 \notin Bad
        <5>1. ~(n <= n - 1)
          BY <2>3
        <5> HIDE DEF Bad
        <5> QED BY <2>1, <5>1
      <4>2. T \ {x} \in SUBSET Nat
        OBVIOUS
      <4> HIDE DEF Lists
      <4> QED BY <3>2, <4>1, <4>2
    <3>4. PICK s \in [1..n - 1 -> T \ {x}] : Ascends(s)
      BY <3>2, <3>3
    <3>5. PICK r : r = [i \in 1..n |-> IF i = 1 THEN x ELSE s[i - 1]]
      OBVIOUS
    <3>6. \A i \in 1..n : i = 1 \/ i - 1 \in 1..n - 1
      BY <2>3
    <3>7. r \in [1..n -> T]
      BY <3>4, <3>5, <3>6
    <3>8. Ascends(r)
      <4> SUFFICES ASSUME NEW i \in 1..n, NEW j \in 1..n, i < j PROVE r[i] < r[j]
        BY <3>7 DEF Ascends
      <4>1. j # 1 /\ j - 1 \in 1..n - 1 /\ r[j] = s[j - 1] /\ s[j - 1] \in T \ {x}
        BY <2>3, <3>4, <3>5
      <4>2. CASE i = 1
        <5>1. r[i] = x /\ x \in Nat /\ s[j - 1] \in Nat /\ x <= s[j - 1] /\ x # s[j - 1]
          BY <3>1, <3>5, <4>1, <4>2
        <5> QED BY <4>1, <5>1
      <4>3. CASE i # 1
        <5>1. i - 1 \in 1..n - 1 /\ r[i] = s[i - 1] /\ i - 1 < j - 1
          BY <2>3, <3>5, <4>3
        <5> QED BY <3>4, <4>1, <5>1 DEF Ascends
      <4> QED BY <4>2, <4>3
    <3> QED BY <2>2, <3>7, <3>8
  <2> QED BY <2>4, <2>5
<1>2. Cardinality(S) \in Nat
  BY FS_CardinalityType
<1>3. Lists(S)
  <2> HIDE DEF Lists
  <2> QED BY <1>1, <1>2
<1> QED BY <1>3

\* A number that a finite set of numbers does not hold.
LEMMA Unheld ==
  ASSUME NEW S, IsFiniteSet(S)
  PROVE  \E x \in 1..Cardinality(S) + 1 : x \notin S
<1>1. PICK n \in Nat : n = Cardinality(S)
  BY FS_CardinalityType
<1>2. ASSUME 1..n + 1 \subseteq S PROVE FALSE
  <2>1. Cardinality(1..n + 1) = n + 1
    BY FS_Interval
  <2>2. Cardinality(1..n + 1) <= Cardinality(S)
    BY <1>2, FS_Subset
  <2> QED BY <1>1, <2>1, <2>2
<1> QED BY <1>1, <1>2

\* The elements of a sequence are finitely many.
LEMMA FinitelyMany ==
  ASSUME NEW E, NEW q \in Seq(E)
  PROVE  IsFiniteSet({q[i] : i \in DOMAIN q})
<1> DEFINE R == {q[i] : i \in DOMAIN q}
<1>1. Len(q) \in Nat /\ DOMAIN q = 1..Len(q)
  OBVIOUS
<1>2. IsFiniteSet(1..Len(q))
  BY <1>1, FS_Interval
<1>3. q \in Surjection(1..Len(q), R)
  <2>1. q \in [1..Len(q) -> R]
    <3>1. q = [i \in 1..Len(q) |-> q[i]]
      BY <1>1
    <3>2. \A i \in 1..Len(q) : q[i] \in R
      BY <1>1
    <3> QED BY <3>1, <3>2
  <2>2. \A t \in R : \E s \in 1..Len(q) : q[s] = t
    BY <1>1
  <2> QED BY <2>1, <2>2 DEF Surjection
<1> HIDE DEF R
<1>4. IsFiniteSet(R)
  BY <1>2, <1>3, FS_Surjection
<1> QED BY <1>4 DEF R

\* A set of numbers below a bound has a greatest.
LEMMA Greatest ==
  ASSUME NEW n \in Nat, NEW S \in SUBSET (0..n), S # {}
  PROVE  \E x \in S : \A y \in S : y <= x
<1> DEFINE T == {d \in Nat : \E x \in S : d = n - x}
<1>1. T # {}
  <2>1. PICK x \in S : TRUE
    OBVIOUS
  <2>2. n - x \in T
    BY <2>1
  <2> QED BY <2>2
<1>2. PICK d \in T : \A e \in T : d <= e
  <2>1. T \in SUBSET Nat
    OBVIOUS
  <2> HIDE DEF T
  <2> QED BY <1>1, <2>1, Least
<1>3. PICK x \in S : d = n - x
  OBVIOUS
<1>4. ASSUME NEW y \in S PROVE y <= x
  <2>1. n - y \in T
    OBVIOUS
  <2>2. d <= n - y
    BY <1>2, <2>1
  <2> QED BY <1>3, <2>2
<1> QED BY <1>4

\* The first elements of a sequence.
LEMMA FirstOnes ==
  ASSUME NEW E, NEW q \in Seq(E), NEW k \in 0..Len(q)
  PROVE  /\ SubSeq(q, 1, k) \in Seq(E) /\ Len(SubSeq(q, 1, k)) = k
         /\ \A i \in 1..k : SubSeq(q, 1, k)[i] = q[i]
<1>1. k \in Nat /\ Len(q) \in Nat
  OBVIOUS
<1> QED BY <1>1

LEMMA FirstOnesMore ==
  ASSUME NEW E, NEW q \in Seq(E), NEW k \in Nat, k + 1 \in DOMAIN q
  PROVE  /\ Append(SubSeq(q, 1, k), q[k + 1]) = SubSeq(q, 1, k + 1)
         /\ SubSeq(q, 1, k) \o <<q[k + 1]>> = SubSeq(q, 1, k + 1)
<1>1. DOMAIN q = 1..Len(q) /\ Len(q) \in Nat /\ k \in 0..Len(q) /\ k + 1 \in 0..Len(q) /\ q[k + 1] \in E
  OBVIOUS
<1>2. PICK a : a = SubSeq(q, 1, k)
  OBVIOUS
<1>3. PICK b : b = SubSeq(q, 1, k + 1)
  OBVIOUS
<1>4. a \in Seq(E) /\ Len(a) = k /\ \A i \in 1..k : a[i] = q[i]
  BY <1>1, <1>2, FirstOnes
<1>5. b \in Seq(E) /\ Len(b) = k + 1 /\ \A i \in 1..k + 1 : b[i] = q[i]
  BY <1>1, <1>3, FirstOnes
<1>6. PICK e \in E : e = q[k + 1]
  BY <1>1
<1>7. Append(a, e) = b
  BY <1>4, <1>5, <1>6
<1>8. a \o <<e>> = b
  BY <1>4, <1>5, <1>6
<1> QED BY <1>2, <1>3, <1>6, <1>7, <1>8
=============================================================================
