--------------------------- MODULE SequenceLemmas ---------------------------
(* What the operations on sequences do to sequences without repetitions:     *)
(* their elements, their lengths and the order of their elements.            *)
EXTENDS SequencesExt, SequenceTheorems, FiniteSetTheorems, TLAPS

(* The least and the greatest of a set of numbers *)

LEMMA LeastExists ==
  ASSUME NEW T \in SUBSET Nat, T # {}
  PROVE  \E x \in T : \A y \in T : x <= y
<1>1. PICK m \in T : TRUE
  OBVIOUS
<1> DEFINE Upto == {0..x : x \in {y \in T : y <= m}}
<1>2. IsFiniteSet(0..m) /\ Upto \subseteq FiniteSubsetsOf(0..m) /\ Upto # {}
  <2>1. m \in Nat
    OBVIOUS
  <2>2. IsFiniteSet(0..m)
    BY <2>1, FS_Interval
  <2>3. \A x \in {y \in T : y <= m} : 0..x \in SUBSET (0..m)
    BY <2>1
  <2>4. \A S \in SUBSET (0..m) : IsFiniteSet(S)
    BY <2>2, FS_Subset
  <2>5. m \in {y \in T : y <= m}
    BY <2>1
  <2> QED
    BY <2>2, <2>3, <2>4, <2>5 DEF FiniteSubsetsOf
<1>3. IsWellFoundedOn(StrictSubsetOrdering(0..m), FiniteSubsetsOf(0..m))
  BY FS_StrictSubsetOrderingWellFounded
<1>4. PICK low \in Upto : \A U \in Upto : ~(<<U, low>> \in StrictSubsetOrdering(0..m))
  <2> HIDE DEF Upto
  <2> QED
    BY <1>2, <1>3, WFMin
<1>5. PICK x \in T : x <= m /\ low = 0..x
  OBVIOUS
<1>6. \A y \in T : x <= y
  <2> SUFFICES ASSUME NEW y \in T, y < x PROVE FALSE
    BY <1>5
  <2>1. 0..y \in Upto
    BY <1>5
  <2>2. 0..y \in SUBSET (0..m) /\ 0..x \in SUBSET (0..m)
    BY <1>5
  <2>3. 0..y \subseteq 0..x /\ x \in 0..x /\ x \notin 0..y
    OBVIOUS
  <2> QED
    BY <1>4, <1>5, <2>1, <2>2, <2>3 DEF StrictSubsetOrdering
<1> QED
  BY <1>6

LEMMA MinIs ==
  ASSUME NEW T \in SUBSET Nat, T # {}
  PROVE  Min(T) \in T /\ \A y \in T : Min(T) <= y
BY LeastExists DEF Min

LEMMA MaxIs ==
  ASSUME NEW b \in Nat, NEW T \in SUBSET (1..b), T # {}
  PROVE  Max(T) \in T /\ \A y \in T : Max(T) >= y
<1> DEFINE Above == {b - x : x \in T}
<1>1. Above \in SUBSET Nat /\ Above # {}
  <2>1. \A x \in T : x \in Int /\ b - x \in Nat
    OBVIOUS
  <2>2. \E x \in T : b - x \in Above
    OBVIOUS
  <2> QED
    BY <2>1, <2>2
<1>2. PICK z \in Above : \A y \in Above : z <= y
  BY <1>1, LeastExists
<1>3. PICK x \in T : z = b - x
  OBVIOUS
<1>4. \A y \in T : x >= y
  <2> SUFFICES ASSUME NEW y \in T PROVE x >= y
    OBVIOUS
  <2>1. b - x <= b - y
    BY <1>2, <1>3
  <2> QED
    BY <2>1
<1> QED
  BY <1>4 DEF Max

(* Removing and inserting an element of a sequence without repetitions. *)

LEMMA RemoveAtElements ==
  ASSUME NEW S, NEW q \in Seq(S), NEW i \in 1 .. Len(q)
  PROVE  /\ RemoveAt(q, i) \in Seq(S)
         /\ Len(RemoveAt(q, i)) = Len(q) - 1
         /\ \A j \in 1 .. Len(q) - 1 :
              RemoveAt(q, i)[j] = IF j < i THEN q[j] ELSE q[j + 1]
<1> DEFINE r == RemoveAt(q, i)
           a == SubSeq(q, 1, i - 1)
           b == SubSeq(q, i + 1, Len(q))
<1>1. a \in Seq(S) /\ Len(a) = i - 1 /\ \A j \in 1 .. i - 1 : a[j] = q[j]
  BY SubSeqProperties
<1>2. /\ b \in Seq(S) /\ Len(b) = Len(q) - i
      /\ \A j \in 1 .. Len(q) - i : b[j] = q[i + j]
  BY SubSeqProperties
<1>3. r = a \o b
  BY DEF RemoveAt
<1> HIDE DEF r, a, b
<1>4. /\ r \in Seq(S) /\ Len(r) = Len(a) + Len(b)
      /\ \A j \in 1 .. Len(a) + Len(b) :
           r[j] = IF j <= Len(a) THEN a[j] ELSE b[j - Len(a)]
  BY <1>1, <1>2, <1>3, ConcatProperties
<1>5. Len(q) \in Nat /\ i \in Int /\ 1 <= i /\ i <= Len(q)
  OBVIOUS
<1>6. /\ Len(a) + Len(b) = Len(q) - 1
      /\ \A j \in 1 .. Len(q) - 1 :
           r[j] = IF j <= i - 1 THEN a[j] ELSE b[j - (i - 1)]
  BY <1>1, <1>2, <1>4, <1>5
<1>7. ASSUME NEW j \in 1 .. Len(q) - 1
      PROVE  r[j] = IF j < i THEN q[j] ELSE q[j + 1]
  <2>1. CASE j < i
    <3>1. j \in 1 .. i - 1 /\ j <= i - 1
      BY <2>1, <1>5
    <3> QED BY <3>1, <2>1, <1>1, <1>6
  <2>2. CASE j >= i
    <3>1. /\ ~(j <= i - 1) /\ j - (i - 1) \in 1 .. Len(q) - i
          /\ i + (j - (i - 1)) = j + 1
      BY <2>2, <1>5
    <3>2. b[j - (i - 1)] = q[j + 1]
      BY <3>1, <1>2
    <3> QED BY <3>1, <3>2, <2>2, <1>5, <1>6
  <2> QED BY <2>1, <2>2, <1>5
<1> QED BY <1>4, <1>6, <1>7 DEF r

LEMMA RemoveAtProperties ==
  ASSUME NEW S, NEW q \in Seq(S), IsInjective(q), NEW i \in 1 .. Len(q)
  PROVE  /\ RemoveAt(q, i) \in Seq(S)
         /\ Len(RemoveAt(q, i)) = Len(q) - 1
         /\ \A j \in 1 .. Len(q) - 1 :
              RemoveAt(q, i)[j] = IF j < i THEN q[j] ELSE q[j + 1]
         /\ Range(RemoveAt(q, i)) = Range(q) \ {q[i]}
         /\ IsInjective(RemoveAt(q, i))
<1> DEFINE r == RemoveAt(q, i)
<1>1. /\ r \in Seq(S)
      /\ Len(r) = Len(q) - 1
      /\ \A j \in 1 .. Len(q) - 1 : r[j] = IF j < i THEN q[j] ELSE q[j + 1]
  BY RemoveAtElements
<1> HIDE DEF r
<1>2. DOMAIN r = 1 .. Len(q) - 1 /\ DOMAIN q = 1 .. Len(q)
  BY <1>1
<1>3. IsInjective(r)
  <2>1. \A g, h \in 1 .. Len(q) : q[g] = q[h] => g = h
    BY <1>2 DEF IsInjective
  <2>2. ASSUME NEW j \in 1 .. Len(q) - 1, NEW k \in 1 .. Len(q) - 1, r[j] = r[k]
        PROVE  j = k
    <3> PICK g, h : g = (IF j < i THEN j ELSE j + 1) /\ h = IF k < i THEN k ELSE k + 1
      OBVIOUS
    <3>1. g \in 1 .. Len(q) /\ h \in 1 .. Len(q) /\ (g = h => j = k)
      OBVIOUS
    <3>2. r[j] = q[g] /\ r[k] = q[h]
      BY <1>1
    <3>3. g = h
      BY <2>1, <2>2, <3>1, <3>2
    <3> QED BY <3>1, <3>3
  <2> QED BY <1>2, <2>2 DEF IsInjective
<1>4. ASSUME NEW x \in Range(r) PROVE x \in Range(q) \ {q[i]}
  <2>1. PICK j \in 1 .. Len(q) - 1 : r[j] = x
    BY <1>2 DEF Range
  <2>2. PICK k \in 1 .. Len(q) : k # i /\ q[k] = x
    BY <2>1, <1>1
  <2> QED BY <2>2, <1>2 DEF Range, IsInjective
<1>5. ASSUME NEW x \in Range(q) \ {q[i]} PROVE x \in Range(r)
  <2>1. PICK k \in 1 .. Len(q) : q[k] = x /\ k # i
    BY <1>2 DEF Range
  <2>2. CASE k < i
    <3>1. k \in 1 .. Len(q) - 1 /\ r[k] = q[k]
      BY <2>1, <2>2, <1>1
    <3> QED BY <3>1, <2>1, <1>2 DEF Range
  <2>3. CASE k > i
    <3>1. k - 1 \in 1 .. Len(q) - 1 /\ r[k - 1] = q[k]
      BY <2>1, <2>3, <1>1
    <3> QED BY <3>1, <2>1, <1>2 DEF Range
  <2> QED BY <2>1, <2>2, <2>3
<1> QED BY <1>1, <1>3, <1>4, <1>5 DEF r

LEMMA InsertAtProperties ==
  ASSUME NEW S, NEW q \in Seq(S), IsInjective(q), NEW i \in 1 .. Len(q) + 1,
         NEW n \in S, n \notin Range(q)
  PROVE  /\ InsertAt(q, i, n) \in Seq(S)
         /\ Len(InsertAt(q, i, n)) = Len(q) + 1
         /\ \A j \in 1 .. Len(q) + 1 :
              InsertAt(q, i, n)[j] = IF j < i THEN q[j]
                                     ELSE IF j = i THEN n ELSE q[j - 1]
         /\ Range(InsertAt(q, i, n)) = Range(q) \cup {n}
         /\ IsInjective(InsertAt(q, i, n))
<1> DEFINE r == InsertAt(q, i, n)
<1>1. /\ r \in Seq(S)
      /\ Len(r) = Len(q) + 1
      /\ \A j \in 1 .. Len(q) + 1 :
           r[j] = IF j < i THEN q[j] ELSE IF j = i THEN n ELSE q[j - 1]
  <2> DEFINE a == SubSeq(q, 1, i - 1)
             b == SubSeq(q, i, Len(q))
             c == a \o <<n>>
  <2>1. a \in Seq(S) /\ Len(a) = i - 1 /\ \A j \in 1 .. i - 1 : a[j] = q[j]
    BY SubSeqProperties
  <2>2. /\ b \in Seq(S) /\ Len(b) = Len(q) - i + 1
        /\ \A j \in 1 .. Len(q) - i + 1 : b[j] = q[i + j - 1]
    BY SubSeqProperties
  <2>3. r = c \o b
    BY DEF InsertAt
  <2>4. <<n>> \in Seq(S) /\ Len(<<n>>) = 1 /\ <<n>>[1] = n
    OBVIOUS
  <2>5. /\ c \in Seq(S) /\ Len(c) = i
        /\ \A j \in 1 .. i : c[j] = IF j < i THEN q[j] ELSE n
    <3> HIDE DEF a, b, r
    <3> QED BY <2>1, <2>4, ConcatProperties
  <2> HIDE DEF r, a, b, c
  <2>6. /\ r \in Seq(S) /\ Len(r) = Len(c) + Len(b)
        /\ \A j \in 1 .. Len(c) + Len(b) :
             r[j] = IF j <= Len(c) THEN c[j] ELSE b[j - Len(c)]
    BY <2>2, <2>3, <2>5, ConcatProperties
  <2>7. Len(r) = Len(q) + 1
    BY <2>2, <2>5, <2>6
  <2>8. ASSUME NEW j \in 1 .. Len(q) + 1
        PROVE  r[j] = IF j < i THEN q[j] ELSE IF j = i THEN n ELSE q[j - 1]
    <3>1. CASE j <= i
      BY <3>1, <2>2, <2>5, <2>6
    <3>2. CASE j > i
      <4>1. r[j] = b[j - Len(c)]
        BY <3>2, <2>2, <2>5, <2>6
      <4>2. j - Len(c) \in 1 .. Len(q) - i + 1 /\ i + (j - Len(c)) - 1 = j - 1
        BY <3>2, <2>5
      <4> QED BY <3>2, <4>1, <4>2, <2>2
    <3> QED BY <3>1, <3>2
  <2> QED BY <2>6, <2>7, <2>8
<1>2. DOMAIN r = 1 .. Len(q) + 1 /\ DOMAIN q = 1 .. Len(q)
  BY <1>1
<1>3. IsInjective(r)
  <2>1. \A k \in 1 .. Len(q) : q[k] # n
    BY <1>2 DEF Range
  <2>2. /\ Len(q) \in Nat /\ i \in Int /\ 1 <= i /\ i <= Len(q) + 1
        /\ \A j, k \in 1 .. Len(q) : q[j] = q[k] => j = k
    BY <1>2 DEF IsInjective
  <2>3. ASSUME NEW j \in 1 .. Len(q) + 1, NEW k \in 1 .. Len(q) + 1,
               j < k, r[j] = r[k]
        PROVE  FALSE
    <3> DEFINE before(x) == x \in 1 .. Len(q) /\ r[x] = q[x]
               after(x) == x - 1 \in 1 .. Len(q) /\ r[x] = q[x - 1]
    <3>0. ASSUME NEW x \in 1 .. Len(q) + 1
          PROVE  (x < i => before(x)) /\ (x = i => r[x] = n) /\ (x > i => after(x))
      BY <2>2, <1>1
    <3> HIDE DEF before, after
    <3>1. CASE k < i
      <4>1. before(j) /\ before(k)
        BY <3>0, <3>1, <2>2, <2>3
      <4>2. q[j] = q[k] /\ j \in 1 .. Len(q) /\ k \in 1 .. Len(q)
        BY <4>1, <2>3 DEF before
      <4>3. j = k
        BY <4>2, <2>2
      <4> QED BY <4>3, <2>3
    <3>2. CASE k = i
      <4>1. before(j) /\ r[k] = n
        BY <3>0, <3>2, <2>2, <2>3
      <4> QED BY <4>1, <2>1, <2>3 DEF before
    <3>3. CASE k > i
      <4>1. after(k)
        BY <3>0, <3>3
      <4>2. CASE j < i
        <5>1. before(j) /\ j # k - 1
          BY <3>0, <3>3, <4>2, <2>2
        <5> QED BY <5>1, <4>1, <2>2, <2>3 DEF before, after
      <4>3. CASE j = i
        BY <3>0, <4>1, <4>3, <2>1, <2>3 DEF after
      <4>4. CASE j > i
        <5>1. after(j) /\ j - 1 # k - 1
          BY <3>0, <4>4, <2>2, <2>3
        <5> QED BY <5>1, <4>1, <2>2, <2>3 DEF after
      <4> QED BY <4>2, <4>3, <4>4, <2>2
    <3> QED BY <3>1, <3>2, <3>3, <2>2
  <2> QED BY <1>2, <2>2, <2>3 DEF IsInjective
<1> HIDE DEF r
<1>4. ASSUME NEW x \in Range(r) PROVE x \in Range(q) \cup {n}
  <2>1. PICK j \in 1 .. Len(q) + 1 : r[j] = x
    BY <1>2 DEF Range
  <2>2. x = n \/ \E k \in 1 .. Len(q) : q[k] = x
    BY <2>1, <1>1
  <2> QED BY <2>2, <1>2 DEF Range
<1>5. ASSUME NEW x \in Range(q) \cup {n} PROVE x \in Range(r)
  <2>1. CASE x = n
    BY <2>1, <1>1, <1>2 DEF Range
  <2>2. CASE x \in Range(q)
    <3>1. PICK k \in 1 .. Len(q) : q[k] = x
      BY <2>2, <1>2 DEF Range
    <3>2. CASE k < i
      <4>1. k \in 1 .. Len(q) + 1 /\ r[k] = q[k]
        BY <3>1, <3>2, <1>1
      <4> QED BY <4>1, <3>1, <1>2 DEF Range
    <3>3. CASE k >= i
      <4>1. k + 1 \in 1 .. Len(q) + 1 /\ r[k + 1] = q[k]
        BY <3>1, <3>3, <1>1
      <4> QED BY <4>1, <3>1, <1>2 DEF Range
    <3> QED BY <3>1, <3>2, <3>3
  <2> QED BY <2>1, <2>2
<1> QED BY <1>1, <1>3, <1>4, <1>5 DEF r

-----------------------------------------------------------------------------
(* The order of the elements that stay *)

\* Any two entries of r are entries of q in the same order.
InOrderOf(r, q) ==
  \A j, k \in DOMAIN r :
    j < k => \E a, b \in DOMAIN q : a < b /\ r[j] = q[a] /\ r[k] = q[b]

LEMMA RemoveFirstProperties ==
  ASSUME NEW S, NEW q \in Seq(S), IsInjective(q), NEW e \in ToSet(q)
  PROVE  /\ RemoveFirst(q, e) \in Seq(S)
         /\ IsInjective(RemoveFirst(q, e))
         /\ ToSet(RemoveFirst(q, e)) = ToSet(q) \ {e}
         /\ InOrderOf(RemoveFirst(q, e), q)
<1>1. PICK i \in 1..Len(q) : q[i] = e
  BY DEF ToSet
<1>2. {k \in 1..Len(q) : q[k] = e} = {i}
  BY <1>1 DEF IsInjective
<1>3. Min({i}) = i
  <2>1. \A y \in {i} : i <= y
    OBVIOUS
  <2>2. \A x \in {i} : x = i
    OBVIOUS
  <2> QED BY <2>1, <2>2 DEF Min
<1>4. RemoveFirst(q, e) = RemoveAt(q, i)
  <2>1. SelectInSeq(q, LAMBDA v : v = e) = i
    BY <1>2, <1>3 DEF SelectInSeq
  <2> QED BY <1>1, <2>1 DEF RemoveFirst
<1> DEFINE r == RemoveAt(q, i)
<1>5. /\ r \in Seq(S) /\ Len(r) = Len(q) - 1
      /\ \A j \in 1..Len(q) - 1 : r[j] = IF j < i THEN q[j] ELSE q[j + 1]
      /\ Range(r) = Range(q) \ {q[i]} /\ IsInjective(r)
      /\ DOMAIN r = 1..Len(q) - 1 /\ DOMAIN q = 1..Len(q) /\ Len(q) \in Nat
  BY RemoveAtProperties, LenProperties
<1> HIDE DEF r
<1>6. InOrderOf(r, q)
  <2>1. ASSUME NEW j \in 1..Len(q) - 1, NEW k \in 1..Len(q) - 1, j < k
        PROVE  \E a, b \in 1..Len(q) : a < b /\ r[j] = q[a] /\ r[k] = q[b]
    <3> DEFINE a == IF j < i THEN j ELSE j + 1
               b == IF k < i THEN k ELSE k + 1
    <3>1. a \in 1..Len(q) /\ b \in 1..Len(q) /\ a < b
      BY <1>5, <2>1
    <3>2. r[j] = q[a] /\ r[k] = q[b]
      BY <1>5
    <3> QED BY <3>1, <3>2
  <2>2. DOMAIN r = 1..Len(q) - 1 /\ DOMAIN q = 1..Len(q)
    BY <1>5
  <2>3. ASSUME NEW j \in DOMAIN r, NEW k \in DOMAIN r, j < k
        PROVE  \E a, b \in DOMAIN q : a < b /\ r[j] = q[a] /\ r[k] = q[b]
    <3>1. j \in 1..Len(q) - 1 /\ k \in 1..Len(q) - 1
      BY <2>2
    <3>2. PICK a, b \in 1..Len(q) : a < b /\ r[j] = q[a] /\ r[k] = q[b]
      BY <2>1, <2>3, <3>1
    <3> QED BY <2>2, <3>2
  <2> QED BY <2>3 DEF InOrderOf
<1>7. ToSet(r) = ToSet(q) \ {e}
  BY <1>1, <1>5 DEF ToSet, Range
<1> QED BY <1>4, <1>5, <1>6, <1>7 DEF r

LEMMA TailOf ==
  ASSUME NEW S, NEW q \in Seq(S), IsInjective(q), q # << >>
  PROVE  /\ Tail(q) \in Seq(S) /\ q[1] \in S /\ q[1] \in ToSet(q)
         /\ IsInjective(Tail(q))
         /\ ToSet(Tail(q)) = ToSet(q) \ {q[1]}
         /\ InOrderOf(Tail(q), q)
<1>1. /\ Len(q) \in Nat \ {0} /\ DOMAIN q = 1..Len(q)
      /\ Tail(q) \in Seq(S) /\ DOMAIN Tail(q) = 1..Len(q) - 1
      /\ \A i \in 1..Len(q) - 1 : Tail(q)[i] = q[i + 1]
  BY EmptySeq, LenProperties, HeadTailProperties
<1>2. q[1] \in S /\ q[1] \in ToSet(q)
  BY <1>1 DEF ToSet
<1>3. IsInjective(Tail(q))
  BY <1>1 DEF IsInjective
<1>4. ASSUME NEW x PROVE x \in ToSet(Tail(q)) <=> x \in ToSet(q) \ {q[1]}
  <2>1. ASSUME x \in ToSet(Tail(q)) PROVE x \in ToSet(q) \ {q[1]}
    <3>1. PICK j \in 1..Len(q) - 1 : x = q[j + 1]
      BY <1>1, <2>1 DEF ToSet
    <3>2. j + 1 \in 1..Len(q) /\ j + 1 # 1 /\ 1 \in 1..Len(q)
      BY <1>1
    <3> QED BY <1>1, <3>1, <3>2 DEF ToSet, IsInjective
  <2>2. ASSUME x \in ToSet(q) \ {q[1]} PROVE x \in ToSet(Tail(q))
    <3>1. PICK j \in 1..Len(q) : x = q[j] /\ j # 1
      BY <1>1, <2>2 DEF ToSet
    <3>2. j - 1 \in 1..Len(q) - 1 /\ (j - 1) + 1 = j
      BY <1>1, <3>1
    <3>3. Tail(q)[j - 1] = x
      BY <1>1, <3>1, <3>2
    <3> QED BY <1>1, <3>2, <3>3 DEF ToSet
  <2> QED BY <2>1, <2>2
<1>5. InOrderOf(Tail(q), q)
  <2> SUFFICES ASSUME NEW j \in 1..Len(q) - 1, NEW k \in 1..Len(q) - 1, j < k
               PROVE  \E a, b \in 1..Len(q) :
                        a < b /\ Tail(q)[j] = q[a] /\ Tail(q)[k] = q[b]
    BY <1>1 DEF InOrderOf
  <2>1. j + 1 \in 1..Len(q) /\ k + 1 \in 1..Len(q) /\ j + 1 < k + 1
    BY <1>1
  <2> QED BY <1>1, <2>1
<1> QED BY <1>1, <1>2, <1>3, <1>4, <1>5

LEMMA AppendTo ==
  ASSUME NEW S, NEW q \in Seq(S), IsInjective(q), NEW e \in S, e \notin ToSet(q)
  PROVE  /\ Append(q, e) \in Seq(S)
         /\ IsInjective(Append(q, e))
         /\ ToSet(Append(q, e)) = ToSet(q) \cup {e}
<1>1. /\ Append(q, e) \in Seq(S) /\ Len(q) \in Nat
      /\ DOMAIN q = 1..Len(q) /\ DOMAIN Append(q, e) = 1..(Len(q) + 1)
      /\ \A j \in 1..Len(q) : Append(q, e)[j] = q[j]
      /\ Append(q, e)[Len(q) + 1] = e
  OBVIOUS
<1>2. \A j \in 1..(Len(q) + 1) : j \in 1..Len(q) \/ j = Len(q) + 1
  BY <1>1
<1>3. Len(q) + 1 \in 1..(Len(q) + 1) /\ 1..Len(q) \subseteq 1..(Len(q) + 1)
  BY <1>1
<1>4. \A j \in 1..Len(q) : q[j] # e
  BY <1>1 DEF ToSet
<1>5. IsInjective(Append(q, e))
  <2> SUFFICES ASSUME NEW j \in 1..(Len(q) + 1), NEW k \in 1..(Len(q) + 1),
                      Append(q, e)[j] = Append(q, e)[k]
               PROVE  j = k
    BY <1>1 DEF IsInjective
  <2> QED BY <1>1, <1>2, <1>4 DEF IsInjective
<1>6. ASSUME NEW x PROVE x \in ToSet(Append(q, e)) <=> x \in ToSet(q) \cup {e}
  BY <1>1, <1>2, <1>3 DEF ToSet
<1> QED BY <1>1, <1>5, <1>6

LEMMA ConcatOf ==
  ASSUME NEW S, NEW q \in Seq(S), NEW r \in Seq(S), IsInjective(q), IsInjective(r),
         ToSet(q) \cap ToSet(r) = {}
  PROVE  /\ q \o r \in Seq(S)
         /\ IsInjective(q \o r)
         /\ ToSet(q \o r) = ToSet(q) \cup ToSet(r)
<1> DEFINE c == q \o r
           m == Len(q)
           n == Len(r)
<1>1. /\ c \in Seq(S) /\ m \in Nat /\ n \in Nat
      /\ DOMAIN q = 1..m /\ DOMAIN r = 1..n /\ DOMAIN c = 1..(m + n)
      /\ \A i \in 1..(m + n) : c[i] = IF i <= m THEN q[i] ELSE r[i - m]
  BY ConcatProperties, LenProperties
<1> HIDE DEF c, m, n
<1>2. ASSUME NEW i \in 1..(m + n)
      PROVE  \/ i \in 1..m /\ c[i] = q[i] /\ q[i] \in ToSet(q)
             \/ i - m \in 1..n /\ c[i] = r[i - m] /\ r[i - m] \in ToSet(r)
  <2>1. CASE i <= m
    BY <1>1, <2>1 DEF ToSet
  <2>2. CASE i > m
    <3>1. i - m \in 1..n
      BY <1>1, <2>2
    <3>2. c[i] = r[i - m]
      BY <1>1, <2>2
    <3>3. r[i - m] \in ToSet(r)
      BY <1>1, <3>1 DEF ToSet
    <3> QED BY <3>1, <3>2, <3>3
  <2> QED BY <1>1, <2>1, <2>2
<1>3. IsInjective(c)
  <2> SUFFICES ASSUME NEW i \in 1..(m + n), NEW j \in 1..(m + n), c[i] = c[j]
               PROVE  i = j
    BY <1>1 DEF IsInjective
  <2>1. CASE i \in 1..m /\ j \in 1..m /\ c[i] = q[i] /\ c[j] = q[j]
    BY <1>1, <2>1 DEF IsInjective
  <2>2. CASE i - m \in 1..n /\ j - m \in 1..n /\ c[i] = r[i - m] /\ c[j] = r[j - m]
    <3>1. i - m = j - m
      BY <1>1, <2>2 DEF IsInjective
    <3> QED BY <1>1, <3>1
  <2> QED BY <1>2, <2>1, <2>2
<1>4. ASSUME NEW x PROVE x \in ToSet(c) <=> x \in ToSet(q) \cup ToSet(r)
  <2>1. ASSUME x \in ToSet(c) PROVE x \in ToSet(q) \cup ToSet(r)
    <3>1. PICK i \in 1..(m + n) : x = c[i]
      BY <1>1, <2>1 DEF ToSet
    <3> QED BY <1>2, <3>1
  <2>2. ASSUME x \in ToSet(q) PROVE x \in ToSet(c)
    <3>1. PICK i \in 1..m : x = q[i]
      BY <1>1, <2>2 DEF ToSet
    <3>2. i \in 1..(m + n) /\ c[i] = x
      BY <1>1, <3>1
    <3> QED BY <1>1, <3>2 DEF ToSet
  <2>3. ASSUME x \in ToSet(r) PROVE x \in ToSet(c)
    <3>1. PICK i \in 1..n : x = r[i]
      BY <1>1, <2>3 DEF ToSet
    <3>2. i + m \in 1..(m + n) /\ ~(i + m <= m) /\ (i + m) - m = i
      BY <1>1
    <3>3. c[i + m] = x
      BY <1>1, <3>1, <3>2
    <3> QED BY <1>1, <3>2, <3>3 DEF ToSet
  <2> QED BY <2>1, <2>2, <2>3
<1> QED BY <1>1, <1>3, <1>4 DEF c

LEMMA InjectiveLength ==
  ASSUME NEW S, NEW q \in Seq(S), IsInjective(q)
  PROVE  IsFiniteSet(ToSet(q)) /\ Cardinality(ToSet(q)) = Len(q)
<1>1. Len(q) \in Nat /\ DOMAIN q = 1..Len(q) /\ q \in [1..Len(q) -> ToSet(q)]
  BY LenProperties DEF ToSet
<1>2. q \in Bijection(1..Len(q), ToSet(q))
  BY <1>1 DEF Bijection, Injection, Surjection, IsInjective, ToSet
<1>3. IsFiniteSet(1..Len(q)) /\ Cardinality(1..Len(q)) = Len(q)
  BY <1>1, FS_Interval
<1>4. ExistsBijection(1..Len(q), ToSet(q))
  BY <1>2 DEF ExistsBijection
<1> QED BY <1>3, <1>4, FS_Bijection
=============================================================================
