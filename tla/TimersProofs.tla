---------------------------- MODULE TimersProofs -----------------------------
(***************************************************************************)
(* Proofs about Timers, for any threads, block sizes, intervals and numbers *)
(* of calls: the lists agree with the states of the timers, the OS timer is *)
(* armed in time, and timers expire on the beat of their interval.  After   *)
(* them NativeTimers, the timers of QNX and Windows: each is at one place;  *)
(* and DebugLevels, a file with several writers and crashes.                *)
(***************************************************************************)
EXTENDS Timers, SequenceLemmas

-----------------------------------------------------------------------------
(* The part of a list that Those takes *)

\* The places in P by their ranks.
LEMMA Ranks ==
  ASSUME NEW n \in Nat, NEW P \in SUBSET (1..n)
  PROVE  LET rank(k) == Cardinality({j \in P : j <= k})
         IN  /\ Cardinality(P) \in Nat
             /\ \A k \in P : rank(k) \in 1..Cardinality(P)
             /\ \A k, l \in P : k < l => rank(k) < rank(l)
             /\ \A m \in 1..Cardinality(P) : \E k \in P : rank(k) = m
<1> DEFINE upto(k) == {j \in P : j <= k}
           rank(k) == Cardinality(upto(k))
           N == Cardinality(P)
<1>0. \A k \in P : k \in 1..n
  OBVIOUS
<1>1. IsFiniteSet(P) /\ N \in Nat
  <2>1. IsFiniteSet(1..n)
    BY FS_Interval
  <2> QED BY <2>1, FS_Subset, FS_CardinalityType
<1>2. ASSUME NEW k \in P
      PROVE  IsFiniteSet(upto(k)) /\ upto(k) \subseteq P /\ rank(k) \in Nat /\ rank(k) <= N
  <2>1. upto(k) \in SUBSET P
    OBVIOUS
  <2> HIDE DEF upto
  <2> QED BY <1>1, <2>1, FS_Subset, FS_CardinalityType
<1>3. \A k, l \in P : k < l => rank(k) < rank(l)
  <2> SUFFICES ASSUME NEW k \in P, NEW l \in P, k < l PROVE rank(k) < rank(l)
    OBVIOUS
  <2>1. l \notin upto(k) /\ upto(k) \cup {l} \in SUBSET upto(l)
    <3>1. k \in 1..n /\ l \in 1..n
      BY <1>0
    <3>2. ~(l <= k)
      BY <3>1
    <3>3. \A j \in P : j <= k => j <= l
      <4> SUFFICES ASSUME NEW j \in P, j <= k PROVE j <= l
        OBVIOUS
      <4> QED BY <1>0, <3>1
    <3>4. l <= l
      BY <3>1
    <3> QED BY <3>2, <3>3, <3>4
  <2> HIDE DEF upto
  <2>2. IsFiniteSet(upto(k)) /\ IsFiniteSet(upto(l)) /\ rank(k) \in Nat /\ rank(l) \in Nat
    BY <1>2
  <2>3. Cardinality(upto(k) \cup {l}) = rank(k) + 1
    BY <2>1, <2>2, FS_AddElement
  <2>4. Cardinality(upto(k) \cup {l}) <= rank(l)
    BY <2>1, <2>2, FS_Subset
  <2> HIDE DEF rank
  <2> QED BY <2>2, <2>3, <2>4
<1>4. \A k \in P : rank(k) \in 1..N
  <2> SUFFICES ASSUME NEW k \in P PROVE rank(k) \in 1..N
    OBVIOUS
  <2>1. k \in upto(k)
    OBVIOUS
  <2> HIDE DEF upto
  <2>2. rank(k) # 0
    BY <1>2, <2>1, FS_EmptySet
  <2> HIDE DEF rank, N
  <2> QED BY <1>1, <1>2, <2>2
<1> DEFINE f == [k \in P |-> rank(k)]
<1> HIDE DEF upto, rank, N
<1>5. f \in Injection(P, 1..N)
  <2>1. f \in [P -> 1..N]
    BY <1>4
  <2>2. \A k, l \in P : rank(k) = rank(l) => k = l
    <3> SUFFICES ASSUME NEW k \in P, NEW l \in P, rank(k) = rank(l), k # l PROVE FALSE
      OBVIOUS
    <3>1. k < l \/ l < k
      OBVIOUS
    <3>2. rank(k) < rank(l) \/ rank(l) < rank(k)
      BY <1>3, <3>1
    <3> QED BY <1>1, <1>4, <3>2
  <2>3. DOMAIN f = P /\ \A k \in P : f[k] = rank(k)
    OBVIOUS
  <2> HIDE DEF f
  <2> QED BY <2>1, <2>2, <2>3 DEF Injection, IsInjective
<1>6. f \in Surjection(P, 1..N)
  <2> HIDE DEF f
  <2>1. IsFiniteSet(1..N) /\ Cardinality(1..N) = N
    BY <1>1, FS_Interval
  <2>2. Cardinality(P) = Cardinality(1..N)
    BY <2>1 DEF N
  <2> QED BY <1>5, <2>1, <2>2, FS_Injection
<1>7. \A m \in 1..N : \E k \in P : rank(k) = m
  BY <1>6 DEF Surjection
<1> QED BY <1>1, <1>3, <1>4, <1>7 DEF rank, upto, N

LEMMA ThoseProperties ==
  ASSUME NEW A, NEW q \in Seq(A), IsInjective(q), NEW S
  PROVE  /\ Those(q, S) \in Seq(A)
         /\ IsInjective(Those(q, S))
         /\ ToSet(Those(q, S)) = ToSet(q) \cap S
         /\ InOrderOf(Those(q, S), q)
<1> DEFINE P == {k \in DOMAIN q : q[k] \in S}
           rank(k) == Cardinality({j \in P : j <= k})
           place(n) == CHOOSE k \in P : rank(k) = n
           N == Cardinality(P)
           r == [n \in 1..N |-> q[place(n)]]
<1>1. Len(q) \in Nat /\ DOMAIN q = 1..Len(q) /\ q \in [1..Len(q) -> A]
  BY LenProperties
<1>2. P \in SUBSET (1..Len(q))
  BY <1>1
<1>3. r = Those(q, S)
  BY DEF Those
<1>4. /\ N \in Nat
      /\ \A k \in P : rank(k) \in 1..N
      /\ \A k, l \in P : k < l => rank(k) < rank(l)
      /\ \A m \in 1..N : \E k \in P : rank(k) = m
  <2> HIDE DEF P
  <2> QED BY <1>1, <1>2, Ranks
<1>5. \A k \in P : k \in 1..Len(q) /\ q[k] \in S /\ q[k] \in A
  BY <1>1
<1>6. \A k \in 1..Len(q) : q[k] \in S => k \in P
  BY <1>1
<1> HIDE DEF P, rank, N
<1>7. \A n \in 1..N : place(n) \in P /\ rank(place(n)) = n
  BY <1>4
<1> HIDE DEF place
<1>8. /\ DOMAIN r = 1..N /\ \A n \in 1..N : r[n] = q[place(n)]
      /\ r \in Seq(A)
  <2>1. \A n \in 1..N : q[place(n)] \in A
    BY <1>5, <1>7
  <2>2. r \in [1..N -> A]
    BY <2>1
  <2> QED BY <1>4, <2>2
<1> HIDE DEF r
<1>9. \A m, n \in 1..N : m < n => place(m) < place(n)
  <2> SUFFICES ASSUME NEW m \in 1..N, NEW n \in 1..N, m < n, ~(place(m) < place(n))
               PROVE  FALSE
    OBVIOUS
  <2>1. place(m) \in 1..Len(q) /\ place(n) \in 1..Len(q)
    BY <1>5, <1>7
  <2>2. place(n) < place(m) \/ place(n) = place(m)
    BY <2>1
  <2>3. rank(place(n)) < rank(place(m)) \/ rank(place(n)) = rank(place(m))
    BY <1>4, <1>7, <2>2
  <2> QED BY <1>7, <2>3
<1>10. InOrderOf(r, q)
  <2>1. ASSUME NEW j \in DOMAIN r, NEW k \in DOMAIN r, j < k
        PROVE  \E a, b \in DOMAIN q : a < b /\ r[j] = q[a] /\ r[k] = q[b]
    <3>1. j \in 1..N /\ k \in 1..N
      BY <1>8
    <3>2. place(j) < place(k) /\ place(j) \in 1..Len(q) /\ place(k) \in 1..Len(q)
      BY <1>5, <1>7, <1>9, <2>1, <3>1
    <3> QED BY <1>1, <1>8, <3>1, <3>2
  <2> QED BY <2>1 DEF InOrderOf
<1>11. IsInjective(r)
  <2>1. ASSUME NEW j \in DOMAIN r, NEW k \in DOMAIN r, r[j] = r[k]
        PROVE  j = k
    <3>1. j \in 1..N /\ k \in 1..N
      BY <1>8
    <3>2. place(j) \in 1..Len(q) /\ place(k) \in 1..Len(q) /\ q[place(j)] = q[place(k)]
      BY <1>5, <1>7, <1>8, <2>1, <3>1
    <3>3. place(j) = place(k)
      BY <1>1, <3>2 DEF IsInjective
    <3> QED BY <1>7, <3>1, <3>3
  <2> QED BY <2>1 DEF IsInjective
<1>12. ASSUME NEW x PROVE x \in ToSet(r) <=> x \in ToSet(q) \cap S
  <2>1. ASSUME x \in ToSet(r) PROVE x \in ToSet(q) \cap S
    <3>1. PICK n \in 1..N : x = q[place(n)]
      BY <1>8, <2>1 DEF ToSet
    <3> QED BY <1>1, <1>5, <1>7, <3>1 DEF ToSet
  <2>2. ASSUME x \in ToSet(q) \cap S PROVE x \in ToSet(r)
    <3>1. PICK k \in 1..Len(q) : x = q[k]
      BY <1>1, <2>2 DEF ToSet
    <3>2. k \in P /\ rank(k) \in 1..N
      BY <1>4, <1>6, <2>2, <3>1
    <3>3. place(rank(k)) = k
      <4>1. place(rank(k)) \in P /\ rank(place(rank(k))) = rank(k)
        BY <1>7, <3>2
      <4>2. place(rank(k)) \in 1..Len(q) /\ k \in 1..Len(q)
        BY <1>5, <4>1
      <4>3. ~(place(rank(k)) < k) /\ ~(k < place(rank(k)))
        <5>1. \A l \in P : l < k \/ k < l => rank(l) # rank(k)
          <6> SUFFICES ASSUME NEW l \in P, l < k \/ k < l PROVE rank(l) # rank(k)
            OBVIOUS
          <6>1. rank(l) < rank(k) \/ rank(k) < rank(l)
            BY <1>4, <3>2
          <6>2. rank(l) \in 1..N /\ rank(k) \in 1..N
            BY <1>4, <3>2
          <6> QED BY <1>4, <6>1, <6>2
        <5> QED BY <4>1, <5>1
      <4> QED BY <4>2, <4>3
    <3> QED BY <1>8, <3>1, <3>2, <3>3 DEF ToSet
  <2> QED BY <2>1, <2>2
<1> QED BY <1>3, <1>8, <1>10, <1>11, <1>12

-----------------------------------------------------------------------------
(* Time *)

LEMMA Division ==
  ASSUME NEW m \in Nat
  PROVE  /\ m \div SecondLength \in Nat /\ m % SecondLength \in 0..(SecondLength - 1)
         /\ m = (m \div SecondLength) * SecondLength + (m % SecondLength)
<1>1. SecondLength \in Nat /\ SecondLength > 0
  BY TimersAssumption
<1> QED BY <1>1

LEMMA Products ==
  ASSUME NEW a \in Nat, NEW b \in Nat
  PROVE  /\ a * SecondLength \in Nat /\ (a + b) * SecondLength = a * SecondLength + b * SecondLength
         /\ (a + 1) * SecondLength = a * SecondLength + SecondLength
         /\ a < b => a * SecondLength + SecondLength <= b * SecondLength
<1>1. SecondLength \in Nat /\ SecondLength > 0
  BY TimersAssumption
<1>2. a * SecondLength \in Nat /\ b * SecondLength \in Nat /\ 1 * SecondLength = SecondLength
  BY <1>1
<1>3. \A x \in Nat : (a + x) * SecondLength = a * SecondLength + x * SecondLength
  BY <1>1
<1>4. ASSUME a < b PROVE a * SecondLength + SecondLength <= b * SecondLength
  <2> DEFINE d == b - (a + 1)
  <2>1. d \in Nat /\ b = a + (1 + d)
    BY <1>4
  <2>2. (1 + d) * SecondLength = SecondLength + d * SecondLength /\ d * SecondLength \in Nat
    BY <1>1, <2>1
  <2>3. b * SecondLength = a * SecondLength + (1 + d) * SecondLength
    <3>1. 1 + d \in Nat
      BY <2>1
    <3> HIDE DEF d
    <3> QED BY <1>3, <2>1, <3>1
  <2> HIDE DEF d
  <2> QED BY <1>1, <1>2, <2>2, <2>3
<1> QED BY <1>2, <1>3, <1>4

LEMMA TimeFields ==
  ASSUME NEW t \in Times
  PROVE  /\ t.sec \in Nat /\ t.msec \in Nat /\ t.msec < SecondLength
         /\ Value(t) \in Nat /\ Value(t) = t.sec * SecondLength + t.msec /\ t # Never
<1>1. SecondLength \in Nat /\ t.sec \in Nat /\ t.msec \in 0..(SecondLength - 1)
  BY TimersAssumption DEF Times
<1>2. t.sec * SecondLength \in Nat
  BY <1>1, Products
<1> QED BY <1>1, <1>2 DEF Value, Never

LEMMA TimeAdd ==
  ASSUME NEW t \in Times, NEW m \in Nat
  PROVE  /\ Update_Expiration_Time(t, m) \in Times
         /\ Value(Update_Expiration_Time(t, m)) = Value(t) + m
<1> DEFINE q == m \div SecondLength
           r == m % SecondLength
           u == Update_Expiration_Time(t, m)
<1>1. /\ t.sec \in Nat /\ t.msec \in Nat /\ t.msec < SecondLength
      /\ Value(t) = t.sec * SecondLength + t.msec
  BY TimeFields
<1>2. q \in Nat /\ r \in 0..(SecondLength - 1) /\ m = q * SecondLength + r
  BY Division
<1>3. SecondLength \in Nat /\ SecondLength > 0
  BY TimersAssumption
<1>4. u = IF t.msec + r >= SecondLength
          THEN [sec |-> t.sec + q + 1, msec |-> (t.msec + r) - SecondLength]
          ELSE [sec |-> t.sec + q, msec |-> t.msec + r]
  BY DEF Update_Expiration_Time
<1> HIDE DEF q, r, u
<1>5. /\ (t.sec + q) * SecondLength = t.sec * SecondLength + q * SecondLength
      /\ (t.sec + q + 1) * SecondLength = (t.sec + q) * SecondLength + SecondLength
      /\ t.sec * SecondLength \in Nat /\ q * SecondLength \in Nat
  <2>1. t.sec + q \in Nat
    BY <1>1, <1>2
  <2> QED BY <1>1, <1>2, <2>1, Products
<1>6. CASE t.msec + r >= SecondLength
  <2>1. u.sec = t.sec + q + 1 /\ u.msec = (t.msec + r) - SecondLength
    BY <1>4, <1>6
  <2>2. u.sec \in Nat /\ u.msec \in 0..(SecondLength - 1)
    BY <1>1, <1>2, <1>3, <1>6, <2>1
  <2>3. u \in Times
    BY <1>4, <1>6, <2>1, <2>2 DEF Times
  <2>4. Value(u) = (t.sec + q + 1) * SecondLength + ((t.msec + r) - SecondLength)
    BY <2>1 DEF Value
  <2> QED BY <1>1, <1>2, <1>3, <1>5, <2>3, <2>4 DEF u
<1>7. CASE ~(t.msec + r >= SecondLength)
  <2>1. u.sec = t.sec + q /\ u.msec = t.msec + r
    BY <1>4, <1>7
  <2>2. u.sec \in Nat /\ u.msec \in 0..(SecondLength - 1)
    BY <1>1, <1>2, <1>3, <1>7, <2>1
  <2>3. u \in Times
    BY <1>4, <1>7, <2>1, <2>2 DEF Times
  <2>4. Value(u) = (t.sec + q) * SecondLength + (t.msec + r)
    BY <2>1 DEF Value
  <2> QED BY <1>1, <1>2, <1>3, <1>5, <2>3, <2>4 DEF u
<1> QED BY <1>6, <1>7

LEMMA EarlierIs ==
  ASSUME NEW t \in Times, NEW u \in Times
  PROVE  /\ Earlier(t, u) <=> Value(t) < Value(u)
         /\ NotLater(t, u) <=> Value(t) <= Value(u)
<1>1. /\ t.sec \in Nat /\ t.msec \in Nat /\ t.msec < SecondLength
      /\ Value(t) = t.sec * SecondLength + t.msec
      /\ u.sec \in Nat /\ u.msec \in Nat /\ u.msec < SecondLength
      /\ Value(u) = u.sec * SecondLength + u.msec
      /\ Value(t) \in Nat /\ Value(u) \in Nat /\ SecondLength \in Nat
  BY TimeFields, TimersAssumption
<1>2. /\ t.sec * SecondLength \in Nat /\ u.sec * SecondLength \in Nat
      /\ t.sec < u.sec => t.sec * SecondLength + SecondLength <= u.sec * SecondLength
      /\ u.sec < t.sec => u.sec * SecondLength + SecondLength <= t.sec * SecondLength
  BY <1>1, Products
<1>3. t.sec < u.sec => Value(t) < Value(u)
  BY <1>1, <1>2
<1>4. u.sec < t.sec => Value(u) < Value(t)
  BY <1>1, <1>2
<1>5. t.sec = u.sec => (Value(t) < Value(u) <=> t.msec < u.msec)
                       /\ (Value(u) < Value(t) <=> u.msec < t.msec)
  BY <1>1, <1>2
<1> QED BY <1>1, <1>3, <1>4, <1>5 DEF Earlier, NotLater

LEMMA ClockIs ==
  ASSUME now \in Nat
  PROVE  Clock \in Times /\ Value(Clock) = now
<1>1. now \div SecondLength \in Nat /\ now % SecondLength \in 0..(SecondLength - 1)
  BY Division
<1>2. now = (now \div SecondLength) * SecondLength + (now % SecondLength)
  BY Division
<1> QED BY <1>1, <1>2 DEF Clock, Times, Value

-----------------------------------------------------------------------------
(* The invariant *)

\* The times of the entries of s do not fall.
Sorted(t, s) ==
  \A j, k \in DOMAIN s : j < k => NotLater(t[s[j]].time, t[s[k]].time)

\* The list s holds each timer of B in one of the states once, and no other.
Holds(t, s, B, state) == IsInjective(s) /\ ToSet(s) = {i \in B : t[i].state = state}

\* The lists hold the timers of B by their states, the running ones by their times.
Split(L, B) ==
  /\ Holds(L.t, L.unused, B, "TIMER_UNUSED")
  /\ Holds(L.t, L.stopped, B, "TIMER_STOPPED")
  /\ Holds(L.t, L.running, B, "TIMER_RUNNING")
  /\ Sorted(L.t, L.running)
  /\ \A i \in ToSet(L.running) : L.t[i].time \in Times

Allocated_Timers == 1..(blocks * TIMER_NUM_ALLOCATED)

\* A timer of a block not yet allocated was never touched.
SplitInv ==
  /\ module # "off" => Split(Lists, Allocated_Timers)
  /\ module = "off" =>
       Unused_Timers = << >> /\ Stopped_Timers = << >> /\ Running_Timers = << >>
  /\ \A i \in Ids \ Allocated_Timers : timers[i].state = "TIMER_UNUSED"

\* The checks before the lock still hold when the lock is held: only the thread
\* itself destroys its timers.
CallInv ==
  \A th \in Threads :
    /\ op[th] # Idle => th \notin ended
    /\ op[th].name \in {"start", "stop", "destroy"} => op[th].timer \in Own(th)
    /\ op[th].name = "start" => (op[th].periodic => op[th].interval > 0)

\* The timer thread does not look ahead of the clock.
ClockInv == handler.at = "expired" => Value(handler.now) <= now

\* A running timer has not expired when it is not periodic; a periodic one expires on
\* the beat of its interval.
InTime(i) ==
  /\ timers[i].period = 0 => fired[i] = 0
  /\ fired[i] > 0 => now > since[i] + fired[i] * timers[i].period
  /\ timers[i].period > 0 =>
       Value(timers[i].time) = since[i] + 1 + (fired[i] + 1) * timers[i].period
TimeInv == \A i \in ToSet(Running_Timers) : InTime(i)

IInv ==
  /\ TypeOK /\ SplitInv /\ CallInv /\ ClockInv /\ ArmedInTime /\ EndedHasNone
  /\ TimeInv

-----------------------------------------------------------------------------
(* The lists *)

LEMMA EntryFields ==
  ASSUME NEW e \in Entries
  PROVE  /\ e.state \in {"TIMER_UNUSED", "TIMER_STOPPED", "TIMER_RUNNING"}
         /\ e.thread \in Threads \cup {Nobody} /\ e.time \in Times \cup {Never}
         /\ e.period \in Intervals \cup {0} /\ e.period \in Nat
         /\ \A x \in {"TIMER_UNUSED", "TIMER_STOPPED", "TIMER_RUNNING"} :
              /\ [e EXCEPT !.state = x] \in Entries /\ [e EXCEPT !.state = x].state = x
              /\ [e EXCEPT !.state = x].thread = e.thread
              /\ [e EXCEPT !.state = x].time = e.time
              /\ [e EXCEPT !.state = x].period = e.period
<1>1. Intervals \subseteq Nat
  BY TimersAssumption
<1> QED BY <1>1 DEF Entries

LEMMA ListFields ==
  ASSUME NEW L \in ListRecords
  PROVE  /\ L.t \in [Ids -> Entries] /\ L.unused \in Seq(Ids) /\ L.stopped \in Seq(Ids)
         /\ L.running \in Seq(Ids)
         /\ L = [t |-> L.t, unused |-> L.unused, stopped |-> L.stopped, running |-> L.running]
BY DEF ListRecords

\* The lists hold the same timers when none of theirs changed.
LEMMA SameSplit ==
  ASSUME NEW L, NEW M, NEW B, Split(L, B), \A i \in B : M.t[i] = L.t[i],
         M.unused = L.unused, M.stopped = L.stopped, M.running = L.running
  PROVE  Split(M, B)
<1>1. \A x : {i \in B : M.t[i].state = x} = {i \in B : L.t[i].state = x}
  OBVIOUS
<1>2. \A s, x : Holds(L.t, s, B, x) => Holds(M.t, s, B, x)
  BY <1>1 DEF Holds
<1>3. ToSet(L.running) \subseteq B
  BY DEF Split, Holds
<1>4. \A i \in ToSet(L.running) : M.t[i] = L.t[i]
  BY <1>3
<1>5. \A k \in DOMAIN L.running : M.t[L.running[k]] = L.t[L.running[k]]
  BY <1>4 DEF ToSet
<1>6. Sorted(M.t, L.running)
  BY <1>5 DEF Split, Sorted
<1> QED BY <1>2, <1>4, <1>6 DEF Split

\* A list without one of its timers.
LEMMA HoldsFewer ==
  ASSUME NEW t, NEW s \in Seq(Ids), NEW r, NEW B, NEW x, NEW i, Holds(t, s, B, x),
         IsInjective(r), ToSet(r) = ToSet(s) \ {i}
  PROVE  Holds(t, r, B \ {i}, x)
BY DEF Holds

LEMMA SortedPart ==
  ASSUME NEW t, NEW s, NEW r, Sorted(t, s), InOrderOf(r, s)
  PROVE  Sorted(t, r)
<1> SUFFICES ASSUME NEW j \in DOMAIN r, NEW k \in DOMAIN r, j < k
             PROVE  NotLater(t[r[j]].time, t[r[k]].time)
  BY DEF Sorted
<1>1. PICK a, b \in DOMAIN s : a < b /\ r[j] = s[a] /\ r[k] = s[b]
  BY DEF InOrderOf
<1> QED BY <1>1 DEF Sorted

\* The timers of B but i are in the lists of M, those of i's list but i as in L.
LEMMA Removed ==
  ASSUME NEW L \in ListRecords, NEW B \in SUBSET Ids, Split(L, B), NEW i \in B,
         L.t[i].state \in {"TIMER_RUNNING", "TIMER_STOPPED"}
  PROVE  LET M == Timer_Remove(L, i)
         IN  /\ M \in ListRecords /\ M.t = L.t /\ M.unused = L.unused
             /\ ToSet(M.running) \subseteq ToSet(L.running) \ {i}
             /\ ToSet(M.stopped) \subseteq ToSet(L.stopped) \ {i}
             /\ Split(M, B \ {i})
<1> DEFINE M == Timer_Remove(L, i)
<1>1. /\ L.t \in [Ids -> Entries] /\ L.unused \in Seq(Ids) /\ L.stopped \in Seq(Ids)
      /\ L.running \in Seq(Ids)
  BY ListFields
<1>2. /\ IsInjective(L.unused) /\ IsInjective(L.stopped) /\ IsInjective(L.running)
      /\ ToSet(L.unused) = {j \in B : L.t[j].state = "TIMER_UNUSED"}
      /\ ToSet(L.stopped) = {j \in B : L.t[j].state = "TIMER_STOPPED"}
      /\ ToSet(L.running) = {j \in B : L.t[j].state = "TIMER_RUNNING"}
      /\ Sorted(L.t, L.running) /\ \A j \in ToSet(L.running) : L.t[j].time \in Times
  BY DEF Split, Holds
<1>3. CASE L.t[i].state = "TIMER_RUNNING"
  <2> DEFINE r == RemoveFirst(L.running, i)
  <2>1. i \in ToSet(L.running) /\ i \notin ToSet(L.unused) /\ i \notin ToSet(L.stopped)
    BY <1>2, <1>3
  <2>2. /\ r \in Seq(Ids) /\ IsInjective(r) /\ ToSet(r) = ToSet(L.running) \ {i}
        /\ InOrderOf(r, L.running)
    BY <1>1, <1>2, <2>1, RemoveFirstProperties
  <2>3. M = [t |-> L.t, unused |-> L.unused, stopped |-> L.stopped, running |-> r]
    BY <1>3 DEF Timer_Remove, ListRecords
  <2> HIDE DEF r, M
  <2>4. M.t = L.t /\ M.unused = L.unused /\ M.stopped = L.stopped /\ M.running = r
    BY <2>3
  <2>5. M \in ListRecords
    BY <1>1, <2>2, <2>3 DEF ListRecords
  <2>6. Holds(L.t, r, B \ {i}, "TIMER_RUNNING")
    BY <1>2, <2>2 DEF Holds
  <2>7. /\ Holds(L.t, L.unused, B \ {i}, "TIMER_UNUSED")
        /\ Holds(L.t, L.stopped, B \ {i}, "TIMER_STOPPED")
    BY <1>2, <2>1 DEF Holds
  <2>8. Sorted(L.t, r)
    BY <1>2, <2>2, SortedPart
  <2>9. Split(M, B \ {i})
    BY <1>2, <2>2, <2>4, <2>6, <2>7, <2>8 DEF Split
  <2> QED BY <2>1, <2>2, <2>4, <2>5, <2>9 DEF M
<1>4. CASE L.t[i].state = "TIMER_STOPPED"
  <2> DEFINE r == RemoveFirst(L.stopped, i)
  <2>1. i \in ToSet(L.stopped) /\ i \notin ToSet(L.unused) /\ i \notin ToSet(L.running)
    BY <1>2, <1>4
  <2>2. /\ r \in Seq(Ids) /\ IsInjective(r) /\ ToSet(r) = ToSet(L.stopped) \ {i}
    BY <1>1, <1>2, <2>1, RemoveFirstProperties
  <2>3. M = [t |-> L.t, unused |-> L.unused, stopped |-> r, running |-> L.running]
    BY <1>4 DEF Timer_Remove, ListRecords
  <2> HIDE DEF r, M
  <2>4. M.t = L.t /\ M.unused = L.unused /\ M.stopped = r /\ M.running = L.running
    BY <2>3
  <2>5. M \in ListRecords
    BY <1>1, <2>2, <2>3 DEF ListRecords
  <2>6. Holds(L.t, r, B \ {i}, "TIMER_STOPPED")
    BY <1>2, <2>2 DEF Holds
  <2>7. /\ Holds(L.t, L.unused, B \ {i}, "TIMER_UNUSED")
        /\ Holds(L.t, L.running, B \ {i}, "TIMER_RUNNING")
    BY <1>2, <2>1 DEF Holds
  <2>8. Split(M, B \ {i})
    BY <1>2, <2>4, <2>6, <2>7 DEF Split
  <2> QED BY <2>1, <2>2, <2>4, <2>5, <2>8 DEF M
<1> QED BY <1>3, <1>4

\* What is known of a timer apart from the lists.
LEMMA Apart ==
  ASSUME NEW L \in ListRecords, NEW B \in SUBSET Ids, NEW i \in B, Split(L, B \ {i})
  PROVE  i \notin ToSet(L.unused) /\ i \notin ToSet(L.stopped) /\ i \notin ToSet(L.running)
BY DEF Split, Holds

LEMMA InsertedProperties ==
  ASSUME NEW t, NEW s \in Seq(Ids), IsInjective(s), NEW i \in Ids, i \notin ToSet(s),
         Sorted(t, s), \A j \in ToSet(s) \cup {i} : t[j].time \in Times
  PROVE  /\ Inserted(t, s, i) \in Seq(Ids)
         /\ IsInjective(Inserted(t, s, i))
         /\ ToSet(Inserted(t, s, i)) = ToSet(s) \cup {i}
         /\ Sorted(t, Inserted(t, s, i))
<1> DEFINE before == {k \in DOMAIN s : Earlier(t[s[k]].time, t[i].time)}
           first == CHOOSE k \in DOMAIN s : k \notin before /\ \A j \in 1..(k-1) : j \in before
           n == IF \E k \in DOMAIN s : k \notin before THEN first ELSE Len(s) + 1
           r == InsertAt(s, n, i)
           v(j) == Value(t[s[j]].time)
           w == Value(t[i].time)
<1>1. Len(s) \in Nat /\ DOMAIN s = 1..Len(s)
  BY LenProperties
<1>2. r = Inserted(t, s, i)
  BY DEF Inserted
<1>3. \A j \in 1..Len(s) : t[s[j]].time \in Times /\ v(j) \in Nat
  <2>1. \A j \in 1..Len(s) : s[j] \in ToSet(s)
    BY <1>1 DEF ToSet
  <2>2. \A j \in 1..Len(s) : t[s[j]].time \in Times
    BY <2>1
  <2> QED BY <2>2, TimeFields
<1>4. t[i].time \in Times /\ w \in Nat
  BY TimeFields
<1>5. \A j \in 1..Len(s) : j \in before <=> v(j) < w
  BY <1>1, <1>3, <1>4, EarlierIs
<1>6. \A j, k \in 1..Len(s) : j < k => v(j) <= v(k)
  <2> SUFFICES ASSUME NEW j \in 1..Len(s), NEW k \in 1..Len(s), j < k PROVE v(j) <= v(k)
    OBVIOUS
  <2>1. NotLater(t[s[j]].time, t[s[k]].time)
    BY <1>1 DEF Sorted
  <2> QED BY <1>3, <2>1, EarlierIs
<1>7. /\ n \in 1..Len(s) + 1
      /\ \A j \in 1..Len(s) : j < n => v(j) < w
      /\ \A j \in 1..Len(s) : j >= n => w <= v(j)
  <2>1. CASE \E k \in DOMAIN s : k \notin before
    <3> DEFINE out == {k \in DOMAIN s : k \notin before}
    <3>1. out \in SUBSET Nat /\ out # {}
      BY <1>1, <2>1
    <3>2. PICK k \in out : \A j \in out : k <= j
      BY <3>1, LeastExists
    <3>3. k \in DOMAIN s /\ k \notin before /\ \A j \in 1..(k-1) : j \in before
      <4> SUFFICES ASSUME NEW j \in 1..(k-1) PROVE j \in before
        BY <3>2
      <4>1. j \in DOMAIN s /\ ~(k <= j)
        BY <1>1, <3>2
      <4> QED BY <3>2, <4>1
    <3>4. first \in DOMAIN s /\ first \notin before /\ \A j \in 1..(first-1) : j \in before
      <4> HIDE DEF before
      <4> QED BY <3>3
    <3>5. n = first
      BY <2>1
    <3> HIDE DEF first, before, n
    <3>6. n \in 1..Len(s) /\ n \notin before /\ \A j \in 1..(n-1) : j \in before
      BY <1>1, <3>4, <3>5
    <3> HIDE DEF v, w, out
    <3>7. ~(v(n) < w)
      BY <1>5, <3>6
    <3>8. \A j \in 1..Len(s) : j < n => v(j) < w
      <4> SUFFICES ASSUME NEW j \in 1..Len(s), j < n PROVE v(j) < w
        OBVIOUS
      <4>1. j \in 1..(n-1)
        BY <3>6
      <4> QED BY <1>5, <3>6, <4>1
    <3>9. \A j \in 1..Len(s) : j >= n => w <= v(j)
      <4> SUFFICES ASSUME NEW j \in 1..Len(s), j >= n PROVE w <= v(j)
        OBVIOUS
      <4>1. v(n) <= v(j)
        <5>1. CASE j = n
          BY <1>3, <5>1 DEF v
        <5>2. CASE n < j
          BY <1>6, <3>6, <5>2
        <5> QED BY <3>6, <5>1, <5>2
      <4>2. v(n) \in Nat /\ v(j) \in Nat
        BY <1>3, <3>6
      <4> QED BY <1>4, <3>7, <4>1, <4>2
    <3> QED BY <1>1, <3>6, <3>8, <3>9
  <2>2. CASE ~\E k \in DOMAIN s : k \notin before
    <3>1. n = Len(s) + 1
      BY <2>2
    <3>2. \A j \in 1..Len(s) : j \in before
      BY <1>1, <2>2
    <3> HIDE DEF n, before, v, w
    <3>3. \A j \in 1..Len(s) : v(j) < w
      BY <1>5, <3>2
    <3> QED BY <1>1, <3>1, <3>3
  <2> QED BY <2>1, <2>2
<1> HIDE DEF n, before, first
<1>8. /\ r \in Seq(Ids) /\ Len(r) = Len(s) + 1 /\ IsInjective(r)
      /\ \A j \in 1..Len(s) + 1 : r[j] = IF j < n THEN s[j] ELSE IF j = n THEN i ELSE s[j - 1]
      /\ Range(r) = Range(s) \cup {i}
  <2>1. i \notin Range(s)
    BY DEF ToSet, Range
  <2> QED BY <1>7, <2>1, InsertAtProperties
<1> HIDE DEF r
<1>9. ToSet(r) = ToSet(s) \cup {i}
  BY <1>8 DEF ToSet, Range
<1> DEFINE x(j) == Value(t[r[j]].time)
<1>10. ASSUME NEW j \in 1..Len(s) + 1
       PROVE  /\ j < n => j \in 1..Len(s) /\ r[j] = s[j]
              /\ j = n => r[j] = i
              /\ j > n => j - 1 \in 1..Len(s) /\ j - 1 >= n /\ r[j] = s[j - 1]
  BY <1>1, <1>7, <1>8
<1>11. ASSUME NEW j \in 1..Len(s) + 1
       PROVE  /\ r[j] = i \/ \E k \in 1..Len(s) : r[j] = s[k]
              /\ t[r[j]].time \in Times
  <2>1. r[j] = i \/ \E k \in 1..Len(s) : r[j] = s[k]
    BY <1>1, <1>7, <1>10
  <2> QED BY <1>3, <1>4, <2>1
<1>12. ASSUME NEW j \in 1..Len(s) + 1, NEW k \in 1..Len(s) + 1, j < k PROVE x(j) <= x(k)
  <2>0. n \in Int /\ j \in Int /\ k \in Int /\ w \in Nat
    BY <1>1, <1>4, <1>7
  <2>1. CASE k < n
    <3>1. j \in 1..Len(s) /\ k \in 1..Len(s) /\ r[j] = s[j] /\ r[k] = s[k]
      BY <1>10, <1>12, <2>0, <2>1
    <3>2. x(j) = v(j) /\ x(k) = v(k)
      BY <3>1
    <3> QED BY <1>6, <1>12, <3>1, <3>2
  <2>2. CASE k = n
    <3>1. j \in 1..Len(s) /\ r[j] = s[j] /\ r[k] = i /\ j < n
      BY <1>10, <1>12, <2>0, <2>2
    <3>2. x(j) = v(j) /\ x(k) = w
      BY <3>1
    <3>3. v(j) < w /\ v(j) \in Nat
      BY <1>3, <1>7, <3>1
    <3> HIDE DEF v, w, x
    <3> QED BY <2>0, <3>2, <3>3
  <2>3. CASE k > n /\ j < n
    <3>1. j \in 1..Len(s) /\ r[j] = s[j] /\ k - 1 \in 1..Len(s) /\ r[k] = s[k - 1] /\ j < k - 1
      BY <1>10, <2>0, <2>3
    <3>2. x(j) = v(j) /\ x(k) = v(k - 1)
      BY <3>1
    <3> QED BY <1>6, <3>1, <3>2
  <2>4. CASE k > n /\ j = n
    <3>1. r[j] = i /\ k - 1 \in 1..Len(s) /\ r[k] = s[k - 1] /\ k - 1 >= n
      BY <1>10, <2>0, <2>4
    <3>2. x(j) = w /\ x(k) = v(k - 1)
      BY <3>1
    <3> QED BY <1>7, <3>1, <3>2
  <2>5. CASE k > n /\ j > n
    <3>1. /\ j - 1 \in 1..Len(s) /\ r[j] = s[j - 1] /\ k - 1 \in 1..Len(s) /\ r[k] = s[k - 1]
          /\ j - 1 < k - 1
      BY <1>10, <1>12, <2>0, <2>5
    <3>2. x(j) = v(j - 1) /\ x(k) = v(k - 1)
      BY <3>1
    <3> QED BY <1>6, <3>1, <3>2
  <2> QED BY <2>0, <2>1, <2>2, <2>3, <2>4, <2>5
<1>13. Sorted(t, r)
  <2>1. DOMAIN r = 1..Len(s) + 1
    BY <1>8, LenProperties
  <2>2. ASSUME NEW j \in 1..Len(s) + 1, NEW k \in 1..Len(s) + 1, j < k
        PROVE  NotLater(t[r[j]].time, t[r[k]].time)
    <3>1. t[r[j]].time \in Times /\ t[r[k]].time \in Times
      BY <1>11
    <3>2. Value(t[r[j]].time) <= Value(t[r[k]].time)
      BY <1>12, <2>2
    <3> QED BY <3>1, <3>2, EarlierIs
  <2>3. ASSUME NEW j \in DOMAIN r, NEW k \in DOMAIN r, j < k
        PROVE  NotLater(t[r[j]].time, t[r[k]].time)
    <3>1. j \in 1..Len(s) + 1 /\ k \in 1..Len(s) + 1
      BY <2>1
    <3> QED BY <2>2, <2>3, <3>1
  <2> QED BY <2>3 DEF Sorted
<1> QED BY <1>2, <1>8, <1>9, <1>13

\* The timer i, which is in no list of L, is in that of its state in M.
PutsBack(L, M, B, i) ==
  LET x == M.t[i].state
  IN  /\ \A j \in B \ {i} : M.t[j] = L.t[j]
      /\ x \in {"TIMER_UNUSED", "TIMER_STOPPED", "TIMER_RUNNING"}
      /\ x = "TIMER_RUNNING" => M.t[i].time \in Times
      /\ M.unused = IF x = "TIMER_UNUSED" THEN Append(L.unused, i) ELSE L.unused
      /\ M.stopped = IF x = "TIMER_STOPPED" THEN Append(L.stopped, i) ELSE L.stopped
      /\ M.running = IF x = "TIMER_RUNNING" THEN Inserted(M.t, L.running, i) ELSE L.running

LEMMA PutBack ==
  ASSUME NEW L \in ListRecords, NEW M, NEW B \in SUBSET Ids, NEW i \in B, Split(L, B \ {i}),
         PutsBack(L, M, B, i)
  PROVE  /\ M.unused \in Seq(Ids) /\ M.stopped \in Seq(Ids) /\ M.running \in Seq(Ids)
         /\ ToSet(M.stopped) \subseteq ToSet(L.stopped) \cup {i}
         /\ ToSet(M.running) \subseteq ToSet(L.running) \cup {i}
         /\ Split(M, B)
<1> DEFINE x == M.t[i].state
<1>0. /\ \A j \in B \ {i} : M.t[j] = L.t[j]
      /\ x \in {"TIMER_UNUSED", "TIMER_STOPPED", "TIMER_RUNNING"} /\ M.t[i].state = x
      /\ x = "TIMER_RUNNING" => M.t[i].time \in Times
      /\ M.unused = IF x = "TIMER_UNUSED" THEN Append(L.unused, i) ELSE L.unused
      /\ M.stopped = IF x = "TIMER_STOPPED" THEN Append(L.stopped, i) ELSE L.stopped
      /\ M.running = IF x = "TIMER_RUNNING" THEN Inserted(M.t, L.running, i) ELSE L.running
  BY DEF PutsBack
<1> HIDE DEF x
<1>1. /\ L.t \in [Ids -> Entries] /\ L.unused \in Seq(Ids) /\ L.stopped \in Seq(Ids)
      /\ L.running \in Seq(Ids) /\ i \in Ids
  BY ListFields
<1>2. i \notin ToSet(L.unused) /\ i \notin ToSet(L.stopped) /\ i \notin ToSet(L.running)
  BY Apart
<1> DEFINE N == [t |-> M.t, unused |-> L.unused, stopped |-> L.stopped, running |-> L.running]
<1>3. Split(N, B \ {i})
  BY <1>0, SameSplit
<1>4. /\ Holds(M.t, L.unused, B \ {i}, "TIMER_UNUSED")
      /\ Holds(M.t, L.stopped, B \ {i}, "TIMER_STOPPED")
      /\ Holds(M.t, L.running, B \ {i}, "TIMER_RUNNING")
      /\ Sorted(M.t, L.running) /\ \A j \in ToSet(L.running) : M.t[j].time \in Times
  BY <1>3 DEF Split
<1>5. ASSUME NEW s \in Seq(Ids), NEW y, Holds(M.t, s, B \ {i}, y), y # x
      PROVE  Holds(M.t, s, B, y)
  BY <1>0, <1>5 DEF Holds
<1>6. ASSUME NEW s \in Seq(Ids), NEW r, Holds(M.t, s, B \ {i}, x), IsInjective(r),
             ToSet(r) = ToSet(s) \cup {i}
      PROVE  Holds(M.t, r, B, x)
  BY <1>0, <1>6 DEF Holds
<1>7. IsInjective(L.unused) /\ IsInjective(L.stopped) /\ IsInjective(L.running)
  BY <1>4 DEF Holds
<1>8. CASE x = "TIMER_UNUSED"
  <2> DEFINE r == Append(L.unused, i)
  <2>1. r \in Seq(Ids) /\ IsInjective(r) /\ ToSet(r) = ToSet(L.unused) \cup {i}
    BY <1>1, <1>2, <1>7, AppendTo
  <2> HIDE DEF r
  <2>2. M.unused = r /\ M.stopped = L.stopped /\ M.running = L.running
    BY <1>0, <1>8 DEF r
  <2>3. Holds(M.t, r, B, "TIMER_UNUSED")
    BY <1>1, <1>4, <1>6, <1>8, <2>1
  <2>4. Holds(M.t, L.stopped, B, "TIMER_STOPPED") /\ Holds(M.t, L.running, B, "TIMER_RUNNING")
    BY <1>1, <1>4, <1>5, <1>8
  <2>5. Split(M, B)
    BY <1>4, <2>2, <2>3, <2>4 DEF Split
  <2> QED BY <1>1, <2>1, <2>2, <2>5
<1>9. CASE x = "TIMER_STOPPED"
  <2> DEFINE r == Append(L.stopped, i)
  <2>1. r \in Seq(Ids) /\ IsInjective(r) /\ ToSet(r) = ToSet(L.stopped) \cup {i}
    BY <1>1, <1>2, <1>7, AppendTo
  <2> HIDE DEF r
  <2>2. M.unused = L.unused /\ M.stopped = r /\ M.running = L.running
    BY <1>0, <1>9 DEF r
  <2>3. Holds(M.t, r, B, "TIMER_STOPPED")
    BY <1>1, <1>4, <1>6, <1>9, <2>1
  <2>4. Holds(M.t, L.unused, B, "TIMER_UNUSED") /\ Holds(M.t, L.running, B, "TIMER_RUNNING")
    BY <1>1, <1>4, <1>5, <1>9
  <2>5. Split(M, B)
    BY <1>4, <2>2, <2>3, <2>4 DEF Split
  <2> QED BY <1>1, <2>1, <2>2, <2>5
<1>10. CASE x = "TIMER_RUNNING"
  <2> DEFINE r == Inserted(M.t, L.running, i)
  <2>1. /\ r \in Seq(Ids) /\ IsInjective(r) /\ ToSet(r) = ToSet(L.running) \cup {i}
        /\ Sorted(M.t, r)
    <3>1. \A j \in ToSet(L.running) \cup {i} : M.t[j].time \in Times
      BY <1>0, <1>4, <1>10
    <3> DEFINE s == L.running
               t == M.t
    <3>2. /\ s \in Seq(Ids) /\ IsInjective(s) /\ i \in Ids /\ i \notin ToSet(s) /\ Sorted(t, s)
          /\ \A j \in ToSet(s) \cup {i} : t[j].time \in Times
      BY <1>1, <1>2, <1>4, <1>7, <3>1
    <3> HIDE DEF s, t
    <3> QED BY <3>2, InsertedProperties DEF s, t
  <2> HIDE DEF r
  <2>2. M.unused = L.unused /\ M.stopped = L.stopped /\ M.running = r
    BY <1>0, <1>10 DEF r
  <2>3. Holds(M.t, r, B, "TIMER_RUNNING")
    BY <1>1, <1>4, <1>6, <1>10, <2>1
  <2>4. Holds(M.t, L.unused, B, "TIMER_UNUSED") /\ Holds(M.t, L.stopped, B, "TIMER_STOPPED")
    BY <1>1, <1>4, <1>5, <1>10
  <2>5. \A j \in ToSet(r) : M.t[j].time \in Times
    BY <1>0, <1>4, <1>10, <2>1
  <2>6. Split(M, B)
    BY <2>1, <2>2, <2>3, <2>4, <2>5 DEF Split
  <2> QED BY <1>1, <2>1, <2>2, <2>6
<1> QED BY <1>0, <1>8, <1>9, <1>10

LEMMA ListUpdates ==
  ASSUME NEW L \in ListRecords, NEW t \in [Ids -> Entries], NEW s \in Seq(Ids)
  PROVE  /\ [L EXCEPT !.t = t, !.unused = s] \in ListRecords
         /\ [L EXCEPT !.t = t, !.stopped = s] \in ListRecords
         /\ [L EXCEPT !.t = t, !.running = s] \in ListRecords
BY DEF ListRecords

LEMMA StateSet ==
  ASSUME NEW t \in [Ids -> Entries], NEW i \in Ids,
         NEW x \in {"TIMER_UNUSED", "TIMER_STOPPED", "TIMER_RUNNING"}
  PROVE  LET u == [t EXCEPT ![i].state = x]
         IN  /\ u \in [Ids -> Entries] /\ u[i].state = x /\ u[i].thread = t[i].thread
             /\ u[i].time = t[i].time /\ u[i].period = t[i].period
             /\ \A j \in Ids \ {i} : u[j] = t[j]
BY DEF Entries

LEMMA AddedUnused ==
  ASSUME NEW L \in ListRecords, NEW B \in SUBSET Ids, NEW i \in B, Split(L, B \ {i})
  PROVE  LET M == Timer_Add_Unused(L, i)
         IN  /\ M \in ListRecords /\ M.t = [L.t EXCEPT ![i].state = "TIMER_UNUSED"]
             /\ M.running = L.running /\ M.stopped = L.stopped
             /\ Split(M, B)
<1> DEFINE M == Timer_Add_Unused(L, i)
           t == [L.t EXCEPT ![i].state = "TIMER_UNUSED"]
<1>1. L.t \in [Ids -> Entries] /\ i \in Ids
  BY ListFields
<1>2. t \in [Ids -> Entries] /\ t[i].state = "TIMER_UNUSED" /\ \A j \in Ids \ {i} : t[j] = L.t[j]
  BY <1>1, StateSet
<1>3. M = [L EXCEPT !.t = t, !.unused = Append(L.unused, i)]
  BY DEF Timer_Add_Unused, ListRecords
<1>4. /\ M.t = t /\ M.unused = Append(L.unused, i) /\ M.stopped = L.stopped
      /\ M.running = L.running
  BY DEF Timer_Add_Unused, ListRecords
<1> HIDE DEF M, t
<1>5. Split(M, B) /\ M.unused \in Seq(Ids)
  <2>1. PutsBack(L, M, B, i)
    BY <1>2, <1>4 DEF PutsBack
  <2> QED BY <2>1, PutBack
<1>6. M \in ListRecords
  BY <1>2, <1>3, <1>4, <1>5, ListUpdates
<1> QED BY <1>4, <1>5, <1>6 DEF M, t

LEMMA AddedStop ==
  ASSUME NEW L \in ListRecords, NEW B \in SUBSET Ids, NEW i \in B, Split(L, B \ {i})
  PROVE  LET M == Timer_Add_Stop(L, i)
         IN  /\ M \in ListRecords /\ M.t = [L.t EXCEPT ![i].state = "TIMER_STOPPED"]
             /\ M.running = L.running /\ ToSet(M.stopped) \subseteq ToSet(L.stopped) \cup {i}
             /\ Split(M, B)
<1> DEFINE M == Timer_Add_Stop(L, i)
           t == [L.t EXCEPT ![i].state = "TIMER_STOPPED"]
<1>1. L.t \in [Ids -> Entries] /\ i \in Ids
  BY ListFields
<1>2. t \in [Ids -> Entries] /\ t[i].state = "TIMER_STOPPED" /\ \A j \in Ids \ {i} : t[j] = L.t[j]
  BY <1>1, StateSet
<1>3. M = [L EXCEPT !.t = t, !.stopped = Append(L.stopped, i)]
  BY DEF Timer_Add_Stop, ListRecords
<1>4. /\ M.t = t /\ M.stopped = Append(L.stopped, i) /\ M.unused = L.unused
      /\ M.running = L.running
  BY DEF Timer_Add_Stop, ListRecords
<1> HIDE DEF M, t
<1>5. /\ Split(M, B) /\ M.stopped \in Seq(Ids)
      /\ ToSet(M.stopped) \subseteq ToSet(L.stopped) \cup {i}
  <2>1. PutsBack(L, M, B, i)
    BY <1>2, <1>4 DEF PutsBack
  <2> QED BY <2>1, PutBack
<1>6. M \in ListRecords
  BY <1>2, <1>3, <1>4, <1>5, ListUpdates
<1> QED BY <1>4, <1>5, <1>6 DEF M, t

\* What a timer is after Timer_Add_Running.
Ran(e, delay) == [e EXCEPT !.state = "TIMER_RUNNING", !.time = Update_Expiration_Time(e.time, delay)]

LEMMA RanProperties ==
  ASSUME NEW e \in Entries, e.time \in Times, NEW delay \in Nat
  PROVE  /\ Ran(e, delay) \in Entries /\ Ran(e, delay).state = "TIMER_RUNNING"
         /\ Ran(e, delay).time \in Times /\ Value(Ran(e, delay).time) = Value(e.time) + delay
         /\ Ran(e, delay).thread = e.thread /\ Ran(e, delay).period = e.period
<1>1. /\ Update_Expiration_Time(e.time, delay) \in Times
      /\ Value(Update_Expiration_Time(e.time, delay)) = Value(e.time) + delay
  BY TimeAdd
<1> DEFINE u == Update_Expiration_Time(e.time, delay)
<1> HIDE DEF u
<1>2. [e EXCEPT !.state = "TIMER_RUNNING", !.time = u] \in Entries
  BY <1>1 DEF Entries, u
<1>3. LET f == [e EXCEPT !.state = "TIMER_RUNNING", !.time = u]
      IN  /\ f.state = "TIMER_RUNNING" /\ f.time = u /\ f.thread = e.thread /\ f.period = e.period
  BY DEF Entries
<1> QED BY <1>1, <1>2, <1>3 DEF Ran, u

LEMMA AddedRunning ==
  ASSUME NEW L \in ListRecords, NEW B \in SUBSET Ids, NEW i \in B, Split(L, B \ {i}),
         L.t[i].time \in Times, NEW delay \in Nat
  PROVE  LET M == Timer_Add_Running(L, i, delay)
         IN  /\ M \in ListRecords /\ M.t = [L.t EXCEPT ![i] = Ran(L.t[i], delay)]
             /\ M.stopped = L.stopped /\ ToSet(M.running) \subseteq ToSet(L.running) \cup {i}
             /\ Split(M, B)
<1> DEFINE M == Timer_Add_Running(L, i, delay)
           t == [L.t EXCEPT ![i] = Ran(L.t[i], delay)]
<1>1. L.t \in [Ids -> Entries] /\ i \in Ids /\ L.t[i] \in Entries
  BY ListFields
<1>2. Ran(L.t[i], delay) \in Entries
  BY <1>1, RanProperties
<1>3. t \in [Ids -> Entries] /\ t[i] = Ran(L.t[i], delay) /\ \A j \in Ids \ {i} : t[j] = L.t[j]
  BY <1>1, <1>2
<1>4. [L.t EXCEPT ![i].state = "TIMER_RUNNING", ![i].time = Update_Expiration_Time(@, delay)] = t
  <2> DEFINE u == [L.t EXCEPT ![i].state = "TIMER_RUNNING",
                              ![i].time = Update_Expiration_Time(@, delay)]
  <2>1. u[i] = [[L.t[i] EXCEPT !.state = "TIMER_RUNNING"]
                  EXCEPT !.time = Update_Expiration_Time(L.t[i].time, delay)]
    BY <1>1 DEF Entries
  <2>2. u[i] = Ran(L.t[i], delay)
    BY <1>1, <2>1 DEF Ran, Entries
  <2>3. DOMAIN u = Ids /\ \A j \in Ids \ {i} : u[j] = L.t[j]
    BY <1>1
  <2>4. u = [j \in Ids |-> u[j]]
    BY <1>1
  <2>5. t = [j \in Ids |-> t[j]]
    BY <1>3
  <2> HIDE DEF u, t
  <2>6. \A j \in Ids : u[j] = t[j]
    BY <1>3, <2>2, <2>3
  <2> QED BY <2>4, <2>5, <2>6 DEF u
<1>5. M = [L EXCEPT !.t = t, !.running = Inserted(t, L.running, i)]
  <2>1. M = [L EXCEPT !.t = [L.t EXCEPT ![i].state = "TIMER_RUNNING",
                                        ![i].time = Update_Expiration_Time(@, delay)],
                      !.running = Inserted([L.t EXCEPT ![i].state = "TIMER_RUNNING",
                                        ![i].time = Update_Expiration_Time(@, delay)], L.running, i)]
    BY DEF Timer_Add_Running, ListRecords
  <2> HIDE DEF t, M
  <2> QED BY <1>4, <2>1
<1> HIDE DEF M, t
<1>6. /\ M.t = t /\ M.running = Inserted(t, L.running, i) /\ M.unused = L.unused
      /\ M.stopped = L.stopped
  BY <1>5 DEF ListRecords
<1>7. t[i].state = "TIMER_RUNNING" /\ t[i].time \in Times
  BY <1>1, <1>3, RanProperties
<1>8. /\ Split(M, B) /\ M.running \in Seq(Ids)
      /\ ToSet(M.running) \subseteq ToSet(L.running) \cup {i}
  <2>1. PutsBack(L, M, B, i)
    BY <1>3, <1>6, <1>7 DEF PutsBack
  <2> QED BY <2>1, PutBack
<1>9. M \in ListRecords
  BY <1>3, <1>5, <1>6, <1>8, ListUpdates
<1> QED BY <1>6, <1>8, <1>9 DEF M, t

LEMMA FirstTaken ==
  ASSUME NEW L \in ListRecords, NEW B \in SUBSET Ids, Split(L, B), L.unused # << >>,
         NEW th \in Threads
  PROVE  LET i == L.unused[1]
             M == [L EXCEPT !.t[i].thread = th, !.unused = Tail(@)]
         IN  /\ i \in B /\ L.t[i].state = "TIMER_UNUSED"
             /\ M \in ListRecords /\ M.running = L.running /\ M.stopped = L.stopped
             /\ M.t[i].thread = th /\ \A j \in Ids \ {i} : M.t[j] = L.t[j]
             /\ Split(M, B \ {i})
<1> DEFINE i == L.unused[1]
           M == [L EXCEPT !.t[i].thread = th, !.unused = Tail(@)]
           t == [L.t EXCEPT ![i].thread = th]
           s == Tail(L.unused)
<1>1. L.t \in [Ids -> Entries] /\ L.unused \in Seq(Ids)
  BY ListFields
<1>2. /\ IsInjective(L.unused)
      /\ ToSet(L.unused) = {j \in B : L.t[j].state = "TIMER_UNUSED"}
      /\ ToSet(L.stopped) = {j \in B : L.t[j].state = "TIMER_STOPPED"}
      /\ ToSet(L.running) = {j \in B : L.t[j].state = "TIMER_RUNNING"}
      /\ IsInjective(L.stopped) /\ IsInjective(L.running)
  BY DEF Split, Holds
<1>3. /\ s \in Seq(Ids) /\ i \in Ids /\ i \in ToSet(L.unused)
      /\ IsInjective(s) /\ ToSet(s) = ToSet(L.unused) \ {i}
  BY <1>1, <1>2, TailOf
<1>4. i \in B /\ L.t[i].state = "TIMER_UNUSED"
  BY <1>2, <1>3
<1>5. t \in [Ids -> Entries] /\ t[i].thread = th /\ \A j \in Ids \ {i} : t[j] = L.t[j]
  <2> HIDE DEF i
  <2>1. L.t[i] \in Entries
    BY <1>1, <1>3
  <2>2. [L.t[i] EXCEPT !.thread = th] \in Entries /\ [L.t[i] EXCEPT !.thread = th].thread = th
    BY <2>1 DEF Entries
  <2>3. t = [L.t EXCEPT ![i] = [L.t[i] EXCEPT !.thread = th]]
    OBVIOUS
  <2> QED BY <1>1, <1>3, <2>2, <2>3
<1>6. M = [L EXCEPT !.t = t, !.unused = s]
  BY DEF ListRecords
<1> HIDE DEF M, t, s, i
<1>7. M \in ListRecords
  BY <1>3, <1>5, <1>6, ListUpdates
<1>8. M.t = t /\ M.unused = s /\ M.stopped = L.stopped /\ M.running = L.running
  BY <1>6 DEF ListRecords
<1>9. Holds(L.t, s, B \ {i}, "TIMER_UNUSED")
  BY <1>2, <1>3 DEF Holds
<1>10. /\ Holds(L.t, L.stopped, B \ {i}, "TIMER_STOPPED")
       /\ Holds(L.t, L.running, B \ {i}, "TIMER_RUNNING")
  BY <1>2, <1>4 DEF Holds
<1> DEFINE N == [t |-> L.t, unused |-> s, stopped |-> L.stopped, running |-> L.running]
<1>11. Split(N, B \ {i})
  BY <1>9, <1>10 DEF Split
<1>12. Split(M, B \ {i})
  BY <1>5, <1>8, <1>11, SameSplit
<1> QED BY <1>4, <1>5, <1>7, <1>8, <1>12 DEF M, i

LEMMA FirstRunning ==
  ASSUME NEW L \in ListRecords, NEW B \in SUBSET Ids, Split(L, B), L.running # << >>
  PROVE  LET i == L.running[1]
             M == [L EXCEPT !.running = Tail(@)]
         IN  /\ i \in B /\ i \in ToSet(L.running) /\ L.t[i].state = "TIMER_RUNNING"
             /\ M \in ListRecords /\ M.t = L.t /\ M.stopped = L.stopped
             /\ ToSet(M.running) = ToSet(L.running) \ {i}
             /\ Split(M, B \ {i})
<1> DEFINE i == L.running[1]
           M == [L EXCEPT !.running = Tail(@)]
           s == Tail(L.running)
<1>1. L.t \in [Ids -> Entries] /\ L.running \in Seq(Ids)
  BY ListFields
<1>2. /\ IsInjective(L.unused)
      /\ ToSet(L.unused) = {j \in B : L.t[j].state = "TIMER_UNUSED"}
      /\ ToSet(L.stopped) = {j \in B : L.t[j].state = "TIMER_STOPPED"}
      /\ ToSet(L.running) = {j \in B : L.t[j].state = "TIMER_RUNNING"}
      /\ IsInjective(L.stopped) /\ IsInjective(L.running)
      /\ Sorted(L.t, L.running) /\ \A j \in ToSet(L.running) : L.t[j].time \in Times
  BY DEF Split, Holds
<1>3. /\ s \in Seq(Ids) /\ i \in Ids /\ i \in ToSet(L.running)
      /\ IsInjective(s) /\ ToSet(s) = ToSet(L.running) \ {i} /\ InOrderOf(s, L.running)
  BY <1>1, <1>2, TailOf
<1>4. i \in B /\ L.t[i].state = "TIMER_RUNNING"
  BY <1>2, <1>3
<1> HIDE DEF s, i
<1>5. M \in ListRecords
  BY <1>3 DEF ListRecords, s
<1>6. M.t = L.t /\ M.unused = L.unused /\ M.stopped = L.stopped /\ M.running = s
  BY DEF ListRecords, s
<1> HIDE DEF M
<1>7. Holds(L.t, s, B \ {i}, "TIMER_RUNNING")
  BY <1>2, <1>3 DEF Holds
<1>8. /\ Holds(L.t, L.stopped, B \ {i}, "TIMER_STOPPED")
      /\ Holds(L.t, L.unused, B \ {i}, "TIMER_UNUSED")
  BY <1>2, <1>4 DEF Holds
<1>9. Sorted(L.t, s)
  BY <1>2, <1>3, SortedPart
<1>10. Split(M, B \ {i})
  BY <1>2, <1>3, <1>6, <1>7, <1>8, <1>9 DEF Split
<1> QED BY <1>3, <1>4, <1>5, <1>6, <1>10 DEF M, i

LEMMA BlockFacts ==
  ASSUME NEW b \in Nat, b < MaxBlocks
  PROVE  LET n == b * TIMER_NUM_ALLOCATED
         IN  /\ n \in Nat /\ (b + 1) * TIMER_NUM_ALLOCATED = n + TIMER_NUM_ALLOCATED
             /\ n + TIMER_NUM_ALLOCATED <= MaxBlocks * TIMER_NUM_ALLOCATED
             /\ 1..(n + TIMER_NUM_ALLOCATED) \subseteq Ids
<1>1. TIMER_NUM_ALLOCATED \in Nat /\ TIMER_NUM_ALLOCATED > 0 /\ MaxBlocks \in Nat
  BY TimersAssumption
<1> DEFINE T == TIMER_NUM_ALLOCATED
           d == MaxBlocks - (b + 1)
<1>2. d \in Nat /\ MaxBlocks = (b + 1) + d
  BY <1>1
<1>3. b * T \in Nat /\ (b + 1) * T = b * T + T
  BY <1>1
<1>4. ((b + 1) + d) * T = (b + 1) * T + d * T /\ d * T \in Nat
  <2>1. b + 1 \in Nat
    OBVIOUS
  <2> HIDE DEF d
  <2> QED BY <1>1, <1>2, <2>1
<1> HIDE DEF d
<1>5. b * T + T <= MaxBlocks * T
  BY <1>1, <1>2, <1>3, <1>4
<1>6. 1..(b * T + T) \subseteq Ids
  <2>1. MaxBlocks * T \in Nat
    BY <1>1
  <2> QED BY <1>1, <1>3, <1>5, <2>1 DEF Ids
<1> QED BY <1>3, <1>5, <1>6

LEMMA BlocksWithin ==
  ASSUME NEW b \in 0..MaxBlocks
  PROVE  b * TIMER_NUM_ALLOCATED \in Nat /\ 1..(b * TIMER_NUM_ALLOCATED) \subseteq Ids
<1>1. TIMER_NUM_ALLOCATED \in Nat /\ MaxBlocks \in Nat
  BY TimersAssumption
<1>2. CASE b = MaxBlocks
  BY <1>1, <1>2 DEF Ids
<1>3. CASE b < MaxBlocks
  <2>1. b \in Nat
    BY <1>1
  <2>2. /\ b * TIMER_NUM_ALLOCATED \in Nat
        /\ 1..(b * TIMER_NUM_ALLOCATED + TIMER_NUM_ALLOCATED) \subseteq Ids
    BY <1>3, <2>1, BlockFacts
  <2>3. 1..(b * TIMER_NUM_ALLOCATED) \subseteq 1..(b * TIMER_NUM_ALLOCATED + TIMER_NUM_ALLOCATED)
    BY <1>1, <2>2
  <2> QED BY <2>2, <2>3
<1> QED BY <1>1, <1>2, <1>3

LEMMA BlockAdded ==
  ASSUME NEW L \in ListRecords, NEW b \in Nat, b < MaxBlocks,
         Split(L, 1..(b * TIMER_NUM_ALLOCATED)),
         \A i \in Ids \ (1..(b * TIMER_NUM_ALLOCATED)) : L.t[i].state = "TIMER_UNUSED"
  PROVE  LET M == [L EXCEPT !.unused =
                     @ \o [k \in 1..TIMER_NUM_ALLOCATED |-> b * TIMER_NUM_ALLOCATED + k]]
         IN  /\ M \in ListRecords /\ M.t = L.t /\ M.stopped = L.stopped
             /\ M.running = L.running /\ M.unused # << >>
             /\ Split(M, 1..((b + 1) * TIMER_NUM_ALLOCATED))
<1> DEFINE n == b * TIMER_NUM_ALLOCATED
           new == [k \in 1..TIMER_NUM_ALLOCATED |-> n + k]
           r == L.unused \o new
           M == [L EXCEPT !.unused = @ \o new]
           B == 1..n
           C == 1..((b + 1) * TIMER_NUM_ALLOCATED)
           T == TIMER_NUM_ALLOCATED
<1>1. /\ n \in Nat /\ (b + 1) * T = n + T /\ C \subseteq Ids /\ T \in Nat /\ T > 0
      /\ B \subseteq C
  <2>1. n \in Nat /\ (b + 1) * T = n + T /\ 1..(n + T) \subseteq Ids
    BY BlockFacts
  <2>2. T \in Nat /\ T > 0
    BY TimersAssumption
  <2> HIDE DEF n
  <2> QED BY <2>1, <2>2
<1>2. L.t \in [Ids -> Entries] /\ L.unused \in Seq(Ids)
  BY ListFields
<1>3. /\ IsInjective(L.unused)
      /\ ToSet(L.unused) = {j \in B : L.t[j].state = "TIMER_UNUSED"}
      /\ ToSet(L.stopped) = {j \in B : L.t[j].state = "TIMER_STOPPED"}
      /\ ToSet(L.running) = {j \in B : L.t[j].state = "TIMER_RUNNING"}
      /\ IsInjective(L.stopped) /\ IsInjective(L.running)
      /\ Sorted(L.t, L.running) /\ \A j \in ToSet(L.running) : L.t[j].time \in Times
  BY DEF Split, Holds
<1> HIDE DEF n, C
<1>4. new \in Seq(Ids) /\ Len(new) = T /\ IsInjective(new) /\ ToSet(new) = C \ B
  <2>1. \A k \in 1..T : n + k \in C /\ n + k \in Ids /\ n + k \notin B
    BY <1>1 DEF C
  <2>2. new \in [1..T -> Ids] /\ DOMAIN new = 1..T /\ \A k \in 1..T : new[k] = n + k
    BY <2>1
  <2> HIDE DEF new
  <2>3. new \in Seq(Ids) /\ Len(new) = T
    BY <1>1, <2>2
  <2>4. IsInjective(new)
    BY <1>1, <2>2 DEF IsInjective
  <2>5. \A x \in C \ B : x - n \in 1..T /\ n + (x - n) = x
    BY <1>1 DEF C
  <2>6. ASSUME NEW x PROVE x \in ToSet(new) <=> x \in C \ B
    <3>1. ASSUME x \in ToSet(new) PROVE x \in C \ B
      BY <2>1, <2>2, <3>1 DEF ToSet
    <3>2. ASSUME x \in C \ B PROVE x \in ToSet(new)
      <4>1. x - n \in 1..T /\ new[x - n] = x
        BY <2>2, <2>5, <3>2
      <4> QED BY <2>2, <4>1 DEF ToSet
    <3> QED BY <3>1, <3>2
  <2> QED BY <2>3, <2>4, <2>6
<1> HIDE DEF new
<1>5. r \in Seq(Ids) /\ IsInjective(r) /\ ToSet(r) = ToSet(L.unused) \cup (C \ B)
  <2>1. ToSet(L.unused) \cap ToSet(new) = {}
    BY <1>3, <1>4
  <2> QED BY <1>2, <1>3, <1>4, <2>1, ConcatOf
<1>6. r # << >>
  <2>1. Len(r) = Len(L.unused) + T /\ Len(L.unused) \in Nat
    BY <1>2, <1>4, ConcatProperties, LenProperties
  <2> QED BY <1>1, <2>1
<1>7. M \in ListRecords /\ M.t = L.t /\ M.unused = r /\ M.stopped = L.stopped /\ M.running = L.running
  BY <1>5 DEF ListRecords
<1> HIDE DEF r, M, B
<1>8. \A i \in C \ B : L.t[i].state = "TIMER_UNUSED"
  BY <1>1 DEF B, n
<1>9. Holds(L.t, r, C, "TIMER_UNUSED")
  BY <1>1, <1>3, <1>5, <1>8 DEF Holds
<1>10. Holds(L.t, L.stopped, C, "TIMER_STOPPED") /\ Holds(L.t, L.running, C, "TIMER_RUNNING")
  BY <1>1, <1>3, <1>8 DEF Holds
<1>11. Split(M, C)
  BY <1>3, <1>7, <1>9, <1>10 DEF Split
<1> QED BY <1>6, <1>7, <1>11 DEF M, C, n, new

LEMMA AllDestroyed ==
  ASSUME NEW L \in ListRecords, NEW B \in SUBSET Ids, Split(L, B), NEW th
  PROVE  LET M == Destroyed(L, th)
         IN  /\ M \in ListRecords /\ Split(M, B)
             /\ ToSet(M.stopped) \subseteq ToSet(L.stopped)
             /\ ToSet(M.running) \subseteq ToSet(L.running)
             /\ \A i \in ToSet(M.stopped) \cup ToSet(M.running) : L.t[i].thread # th
             /\ \A i \in Ids :
                  /\ M.t[i].thread = L.t[i].thread /\ M.t[i].time = L.t[i].time
                  /\ M.t[i].period = L.t[i].period
                  /\ L.t[i].thread # th => M.t[i] = L.t[i]
                  /\ L.t[i].state = "TIMER_UNUSED" => M.t[i].state = "TIMER_UNUSED"
<1> DEFINE mine == {i \in Ids : L.t[i].thread = th}
           a == Those(L.running, mine)
           b == Those(L.stopped, mine)
           c == Those(L.stopped, Ids \ mine)
           d == Those(L.running, Ids \ mine)
           gone == a \o b
           r == L.unused \o gone
           t == [i \in Ids |-> IF i \in ToSet(gone)
                               THEN [L.t[i] EXCEPT !.state = "TIMER_UNUSED"] ELSE L.t[i]]
           M == Destroyed(L, th)
<1>1. /\ L.t \in [Ids -> Entries] /\ L.unused \in Seq(Ids) /\ L.stopped \in Seq(Ids)
      /\ L.running \in Seq(Ids)
  BY ListFields
<1>2. /\ IsInjective(L.unused)
      /\ ToSet(L.unused) = {j \in B : L.t[j].state = "TIMER_UNUSED"}
      /\ ToSet(L.stopped) = {j \in B : L.t[j].state = "TIMER_STOPPED"}
      /\ ToSet(L.running) = {j \in B : L.t[j].state = "TIMER_RUNNING"}
      /\ IsInjective(L.stopped) /\ IsInjective(L.running)
      /\ Sorted(L.t, L.running) /\ \A j \in ToSet(L.running) : L.t[j].time \in Times
  BY DEF Split, Holds
<1>3. M = [t |-> t, unused |-> r, stopped |-> c, running |-> d]
  BY DEF Destroyed
<1> HIDE DEF M
<1>4. M.t = t /\ M.unused = r /\ M.stopped = c /\ M.running = d
  BY <1>3
<1> HIDE DEF mine
<1>5. /\ a \in Seq(Ids) /\ IsInjective(a) /\ ToSet(a) = ToSet(L.running) \cap mine
      /\ b \in Seq(Ids) /\ IsInjective(b) /\ ToSet(b) = ToSet(L.stopped) \cap mine
      /\ c \in Seq(Ids) /\ IsInjective(c) /\ ToSet(c) = ToSet(L.stopped) \cap (Ids \ mine)
      /\ d \in Seq(Ids) /\ IsInjective(d) /\ ToSet(d) = ToSet(L.running) \cap (Ids \ mine)
      /\ InOrderOf(d, L.running)
  BY <1>1, <1>2, ThoseProperties
<1> HIDE DEF a, b, c, d
<1>6. gone \in Seq(Ids) /\ IsInjective(gone) /\ ToSet(gone) = ToSet(a) \cup ToSet(b)
  <2>1. ToSet(a) \cap ToSet(b) = {}
    BY <1>2, <1>5
  <2> QED BY <1>5, <2>1, ConcatOf
<1> HIDE DEF gone
<1>7. r \in Seq(Ids) /\ IsInjective(r) /\ ToSet(r) = ToSet(L.unused) \cup ToSet(gone)
  <2>1. ToSet(L.unused) \cap ToSet(gone) = {}
    BY <1>2, <1>5, <1>6
  <2> QED BY <1>1, <1>2, <1>6, <2>1, ConcatOf
<1> HIDE DEF r
<1>8. \A i \in Ids : i \in mine <=> L.t[i].thread = th
  BY DEF mine
<1>9. /\ \A i \in Ids : t[i] = IF i \in ToSet(gone) THEN [L.t[i] EXCEPT !.state = "TIMER_UNUSED"]
                               ELSE L.t[i]
      /\ DOMAIN t = Ids
  OBVIOUS
<1>10. \A i \in Ids : /\ t[i] \in Entries /\ t[i].thread = L.t[i].thread
                      /\ t[i].time = L.t[i].time /\ t[i].period = L.t[i].period
                      /\ i \in ToSet(gone) => t[i].state = "TIMER_UNUSED"
                      /\ i \notin ToSet(gone) => t[i] = L.t[i]
  <2> SUFFICES ASSUME NEW i \in Ids
               PROVE  /\ t[i] \in Entries /\ t[i].thread = L.t[i].thread
                      /\ t[i].time = L.t[i].time /\ t[i].period = L.t[i].period
                      /\ i \in ToSet(gone) => t[i].state = "TIMER_UNUSED"
                      /\ i \notin ToSet(gone) => t[i] = L.t[i]
    OBVIOUS
  <2>1. L.t[i] \in Entries
    BY <1>1
  <2>2. CASE i \in ToSet(gone)
    <3>1. t[i] = [L.t[i] EXCEPT !.state = "TIMER_UNUSED"]
      BY <1>9, <2>2
    <3> DEFINE e == L.t[i]
               f == [e EXCEPT !.state = "TIMER_UNUSED"]
    <3>2. f \in Entries /\ f.state = "TIMER_UNUSED" /\ f.thread = e.thread /\ f.time = e.time /\ f.period = e.period
      <4> HIDE DEF e
      <4>1. e \in Entries
        BY <2>1 DEF e
      <4> QED BY <4>1, EntryFields, ZenonT(40)
    <3>3. t[i] = f
      BY <3>1
    <3> HIDE DEF t, f
    <3> QED BY <2>2, <3>2, <3>3
  <2>3. CASE i \notin ToSet(gone)
    <3>1. t[i] = L.t[i]
      BY <1>9, <2>3
    <3> HIDE DEF t
    <3> QED BY <2>1, <2>3, <3>1
  <2> QED BY <2>2, <2>3
<1>11. t \in [Ids -> Entries]
  BY <1>10
<1> HIDE DEF t
<1>12. M \in ListRecords
  BY <1>3, <1>5, <1>7, <1>11 DEF ListRecords
<1>13. Holds(t, r, B, "TIMER_UNUSED")
  <2>1. ASSUME NEW i PROVE i \in ToSet(r) <=> i \in B /\ t[i].state = "TIMER_UNUSED"
    BY <1>2, <1>5, <1>6, <1>7, <1>10
  <2> QED BY <1>7, <2>1 DEF Holds
<1>14. Holds(t, c, B, "TIMER_STOPPED")
  <2>1. ASSUME NEW i PROVE i \in ToSet(c) <=> i \in B /\ t[i].state = "TIMER_STOPPED"
    BY <1>2, <1>5, <1>6, <1>10
  <2> QED BY <1>5, <2>1 DEF Holds
<1>15. Holds(t, d, B, "TIMER_RUNNING")
  <2>1. ASSUME NEW i PROVE i \in ToSet(d) <=> i \in B /\ t[i].state = "TIMER_RUNNING"
    BY <1>2, <1>5, <1>6, <1>10
  <2> QED BY <1>5, <2>1 DEF Holds
<1>16. Sorted(t, d)
  <2>1. Sorted(L.t, d)
    BY <1>2, <1>5, SortedPart
  <2>2. \A k \in DOMAIN d : d[k] \in ToSet(d) /\ d[k] \in Ids
    BY <1>5 DEF ToSet
  <2>3. \A k \in DOMAIN d : t[d[k]].time = L.t[d[k]].time
    BY <1>10, <2>2
  <2> QED BY <2>1, <2>3 DEF Sorted
<1>17. \A i \in ToSet(d) : t[i].time \in Times
  BY <1>2, <1>5, <1>10
<1>18. Split(M, B)
  BY <1>4, <1>13, <1>14, <1>15, <1>16, <1>17 DEF Split
<1>19. \A i \in ToSet(M.stopped) \cup ToSet(M.running) : L.t[i].thread # th
  BY <1>4, <1>5, <1>8
<1>20. \A i \in Ids : L.t[i].thread # th => i \notin ToSet(gone)
  BY <1>5, <1>6, <1>8
<1> QED
  <2>1. \A i \in Ids :
          /\ M.t[i].thread = L.t[i].thread /\ M.t[i].time = L.t[i].time
          /\ M.t[i].period = L.t[i].period
          /\ L.t[i].thread # th => M.t[i] = L.t[i]
          /\ L.t[i].state = "TIMER_UNUSED" => M.t[i].state = "TIMER_UNUSED"
    BY <1>4, <1>10, <1>20
  <2> QED BY <1>4, <1>5, <1>12, <1>18, <1>19, <2>1 DEF M

-----------------------------------------------------------------------------
(* States *)

LEMMA ListsAre ==
  /\ Lists.t = timers /\ Lists.unused = Unused_Timers /\ Lists.stopped = Stopped_Timers
  /\ Lists.running = Running_Timers
BY DEF Lists

LEMMA ListsSet ==
  ASSUME NEW M \in ListRecords, SetLists(M)
  PROVE  /\ Lists' = M
         /\ timers' = M.t /\ Unused_Timers' = M.unused /\ Stopped_Timers' = M.stopped
         /\ Running_Timers' = M.running
BY DEF ListRecords, SetLists, Lists

LEMMA ListsKept ==
  ASSUME UNCHANGED <<timers, Unused_Timers, Stopped_Timers, Running_Timers>>
  PROVE  Lists' = Lists
BY DEF Lists

LEMMA Typed ==
  ASSUME TypeOK
  PROVE  /\ Lists \in ListRecords /\ timers \in [Ids -> Entries]
         /\ Unused_Timers \in Seq(Ids) /\ Stopped_Timers \in Seq(Ids)
         /\ Running_Timers \in Seq(Ids)
         /\ blocks \in Nat /\ Allocated_Timers \in SUBSET Ids
         /\ now \in Nat /\ Clock \in Times /\ Value(Clock) = now
         /\ fired \in [Ids -> Nat] /\ since \in [Ids -> Nat] /\ ended \subseteq Threads
<1>1. Lists \in ListRecords /\ blocks \in 0..MaxBlocks /\ now \in 0..MaxTime
  BY DEF TypeOK
<1>2. MaxBlocks \in Nat /\ MaxTime \in Nat
  BY TimersAssumption
<1>3. /\ timers \in [Ids -> Entries] /\ Unused_Timers \in Seq(Ids)
      /\ Stopped_Timers \in Seq(Ids) /\ Running_Timers \in Seq(Ids)
  BY <1>1, ListFields, ListsAre
<1>4. Allocated_Timers \in SUBSET Ids
  BY <1>1, BlocksWithin DEF Allocated_Timers
<1>5. blocks \in Nat /\ now \in Nat
  BY <1>1, <1>2
<1> QED BY <1>1, <1>3, <1>4, <1>5, ClockIs DEF TypeOK

\* While the module is on or stopping, the lists are those of the invariant.
LEMMA SplitFacts ==
  ASSUME TypeOK, SplitInv, module # "off"
  PROVE  /\ Split(Lists, Allocated_Timers)
         /\ ToSet(Unused_Timers) = {i \in Allocated_Timers : timers[i].state = "TIMER_UNUSED"}
         /\ ToSet(Stopped_Timers) = {i \in Allocated_Timers : timers[i].state = "TIMER_STOPPED"}
         /\ ToSet(Running_Timers) = {i \in Allocated_Timers : timers[i].state = "TIMER_RUNNING"}
         /\ \A i \in ToSet(Running_Timers) : i \in Ids /\ timers[i].time \in Times
         /\ \A i \in Ids : Valid(i) => i \in Allocated_Timers
<1>1. Split(Lists, Allocated_Timers) /\ Allocated_Timers \in SUBSET Ids
  BY Typed DEF SplitInv
<1>2. /\ ToSet(Unused_Timers) = {i \in Allocated_Timers : timers[i].state = "TIMER_UNUSED"}
      /\ ToSet(Stopped_Timers) = {i \in Allocated_Timers : timers[i].state = "TIMER_STOPPED"}
      /\ ToSet(Running_Timers) = {i \in Allocated_Timers : timers[i].state = "TIMER_RUNNING"}
      /\ \A i \in ToSet(Running_Timers) : timers[i].time \in Times
  BY <1>1, ListsAre DEF Split, Holds
<1>3. \A i \in Ids : Valid(i) => i \in Allocated_Timers
  <2>1. \A i \in Ids \ Allocated_Timers : timers[i].state = "TIMER_UNUSED"
    BY DEF SplitInv
  <2> QED BY <2>1 DEF Valid
<1> QED BY <1>1, <1>2, <1>3

LEMMA NoRunning ==
  ASSUME TypeOK, SplitInv, module = "off"
  PROVE  ToSet(Running_Timers) = {} /\ ToSet(Stopped_Timers) = {}
BY DEF SplitInv, ToSet

\* The first of the running list has the earliest time.
LEMMA RestartedProperties ==
  ASSUME NEW M \in ListRecords, NEW B \in SUBSET Ids, Split(M, B), armed \in Times \cup {Never}
  PROVE  /\ Restarted(M) \in Times \cup {Never}
         /\ \A i \in ToSet(M.running) :
              Restarted(M) # Never /\ Value(Restarted(M)) <= Value(M.t[i].time)
<1>1. CASE M.running = << >>
  BY <1>1 DEF Restarted, ToSet
<1>2. CASE M.running # << >>
  <2> DEFINE s == M.running
  <2>1. s \in Seq(Ids) /\ Len(s) \in Nat \ {0} /\ DOMAIN s = 1..Len(s)
    BY <1>2, ListFields, EmptySeq, LenProperties
  <2>2. Sorted(M.t, s) /\ \A i \in ToSet(s) : M.t[i].time \in Times
    BY DEF Split
  <2>3. \A k \in 1..Len(s) : s[k] \in ToSet(s)
    BY <2>1 DEF ToSet
  <2>4. 1 \in 1..Len(s)
    BY <2>1
  <2>5. Restarted(M) = M.t[s[1]].time
    BY <1>2 DEF Restarted
  <2> HIDE DEF s
  <2>6. M.t[s[1]].time \in Times
    BY <2>2, <2>3, <2>4
  <2>7. Restarted(M) \in Times /\ Restarted(M) # Never
    BY <2>5, <2>6, TimeFields
  <2>8. ASSUME NEW i \in ToSet(s) PROVE Value(Restarted(M)) <= Value(M.t[i].time)
    <3>1. PICK k \in 1..Len(s) : i = s[k]
      BY <2>1 DEF ToSet
    <3>2. M.t[i].time \in Times
      BY <2>2
    <3>3. CASE k = 1
      <4>1. Value(M.t[i].time) \in Nat
        BY <3>2, TimeFields
      <4>2. Restarted(M) = M.t[i].time
        BY <2>5, <3>1, <3>3
      <4> QED BY <4>1, <4>2
    <3>4. CASE k # 1
      <4>1. 1 < k
        BY <2>1, <3>1, <3>4
      <4>2. NotLater(M.t[s[1]].time, M.t[s[k]].time)
        BY <2>1, <2>2, <2>4, <3>1, <4>1 DEF Sorted
      <4> QED BY <2>5, <2>6, <3>1, <3>2, <4>2, EarlierIs
    <3> QED BY <3>3, <3>4
  <2> QED BY <2>7, <2>8 DEF s
<1> QED BY <1>1, <1>2

LEMMA TimeKept ==
  ASSUME NEW i \in Ids, TypeOK, InTime(i), timers'[i] = timers[i], fired'[i] = fired[i],
         since'[i] = since[i], now' \in Nat, now <= now'
  PROVE  InTime(i)'
<1>1. /\ now \in Nat /\ fired[i] \in Nat /\ since[i] \in Nat /\ timers[i] \in Entries
      /\ timers[i].period \in Nat
  <2>1. /\ now \in Nat /\ fired \in [Ids -> Nat] /\ since \in [Ids -> Nat]
        /\ timers \in [Ids -> Entries]
    BY Typed
  <2>2. timers[i] \in Entries
    BY <2>1
  <2>3. timers[i].period \in Nat
    BY <2>2, EntryFields
  <2> QED BY <2>1, <2>2, <2>3
<1> DEFINE p == timers[i].period
           x == fired[i] * p
           y == (fired[i] + 1) * p
<1>2. x \in Nat
  BY <1>1
<1>3. /\ p = 0 => fired[i] = 0
      /\ fired[i] > 0 => now > since[i] + x
      /\ p > 0 => Value(timers[i].time) = since[i] + 1 + y
  BY DEF InTime
<1>4. /\ timers'[i].period = p /\ fired'[i] * timers'[i].period = x
      /\ (fired'[i] + 1) * timers'[i].period = y /\ timers'[i].time = timers[i].time
  OBVIOUS
<1> HIDE DEF p, x, y
<1>5. fired[i] > 0 => now' > since[i] + x
  BY <1>1, <1>2, <1>3
<1>6. \A z : Value(z)' = Value(z)
  BY DEF Value
<1> QED BY <1>3, <1>4, <1>5 DEF InTime, Value

\* The checks of the other calls hold while their timers stay.
LEMMA CallsKept ==
  ASSUME CallInv, ended' = ended, \A th \in Threads : op'[th] = op[th] \/ op'[th] = Idle,
         \A th \in Threads : op'[th] # Idle => \A i \in Own(th) : i \in Own(th)'
  PROVE  CallInv'
<1> SUFFICES ASSUME NEW th \in Threads
             PROVE  /\ op'[th] # Idle => th \notin ended'
                    /\ op'[th].name \in {"start", "stop", "destroy"} => op'[th].timer \in Own(th)'
                    /\ op'[th].name = "start" => (op'[th].periodic => op'[th].interval > 0)
  BY DEF CallInv
<1>1. CASE op'[th] = Idle
  BY <1>1 DEF Idle
<1>2. CASE op'[th] # Idle
  BY <1>2 DEF CallInv
<1> QED BY <1>1, <1>2

LEMMA InitInv == Init => IInv
<1> SUFFICES ASSUME Init PROVE IInv
  OBVIOUS
<1>1. /\ MaxBlocks \in Nat /\ MaxCalls \in Nat /\ MaxTime \in Nat /\ SecondLength \in Nat
      /\ TIMER_NUM_ALLOCATED \in Nat
  BY TimersAssumption
<1>2. NewTimer \in Entries
  BY DEF NewTimer, Entries
<1>3. Lists \in ListRecords
  BY <1>2 DEF Init, Lists, ListRecords
<1>4. handler \in Handlers /\ op \in [Threads -> Calls]
  BY DEF Init, Handlers, Calls, Idle
<1>5. TypeOK
  <2>1. blocks \in 0..MaxBlocks /\ calls \in 0..MaxCalls /\ now \in 0..MaxTime
    BY <1>1 DEF Init
  <2>2. /\ module \in {"on", "stopping", "off"} /\ ended \subseteq Threads
        /\ armed \in Times \cup {Never} /\ signal \in BOOLEAN /\ used_freed \in BOOLEAN
    BY DEF Init
  <2>3. fired \in [Ids -> Nat] /\ since \in [Ids -> Nat]
    BY DEF Init
  <2> QED BY <1>3, <1>4, <2>1, <2>2, <2>3 DEF TypeOK
<1>6. Allocated_Timers = {}
  <2>1. blocks * TIMER_NUM_ALLOCATED = 0
    BY <1>1 DEF Init
  <2> QED BY <2>1 DEF Allocated_Timers
<1>7. ToSet(<< >>) = {} /\ IsInjective(<< >>)
  BY DEF ToSet, IsInjective
<1>8. SplitInv
  <2>1. Split(Lists, Allocated_Timers)
    BY <1>6, <1>7 DEF Init, Lists, Split, Holds, Sorted
  <2>2. \A i \in Ids : timers[i].state = "TIMER_UNUSED"
    BY DEF Init, NewTimer
  <2> QED BY <2>1, <2>2 DEF SplitInv, Init
<1>9. CallInv
  BY DEF Init, CallInv, Idle
<1>10. ClockInv
  BY DEF Init, ClockInv
<1>11. ToSet(Running_Timers) = {} /\ ToSet(Stopped_Timers) = {}
  BY <1>7 DEF Init
<1>12. ArmedInTime /\ EndedHasNone /\ TimeInv
  <2>1. ToSet(Stopped_Timers \o Running_Timers) = {}
    BY <1>7 DEF Init
  <2> QED BY <1>11, <2>1 DEF ArmedInTime, EndedHasNone, TimeInv
<1> QED BY <1>5, <1>8, <1>9, <1>10, <1>12 DEF IInv

-----------------------------------------------------------------------------
(* Steps that leave the lists alone *)

\* A step that leaves the lists and the histories alone.
LEMMA QuietStep ==
  ASSUME IInv, UNCHANGED <<lists, fired, since, ended>>, now' \in Nat, now <= now',
         (module = "off") = (module' = "off")
  PROVE  /\ SplitInv' /\ EndedHasNone' /\ TimeInv'
         /\ Lists' = Lists /\ \A th \in Threads : Own(th)' = Own(th)
<1>1. TypeOK /\ SplitInv /\ EndedHasNone /\ TimeInv
  BY DEF IInv
<1>2. Lists' = Lists
  BY DEF lists, Lists
<1>3. SplitInv'
  <2>1. Allocated_Timers' = Allocated_Timers
    BY DEF lists, Allocated_Timers
  <2>2. \A L, B : Split(L, B)' <=> Split(L, B)
    BY DEF Split, Holds, Sorted, NotLater, Earlier, Times
  <2> QED BY <1>1, <1>2, <2>1 DEF SplitInv, lists, Split, Holds, Sorted, NotLater, Earlier
<1>4. EndedHasNone'
  BY <1>1 DEF lists, EndedHasNone
<1>5. TimeInv'
  <2>1. \A i \in ToSet(Running_Timers) : i \in Ids
    BY <1>1, Typed DEF ToSet
  <2> SUFFICES ASSUME NEW i \in ToSet(Running_Timers) PROVE InTime(i)'
    BY DEF TimeInv, lists
  <2>2. /\ timers'[i] = timers[i] /\ fired'[i] = fired[i] /\ since'[i] = since[i]
    BY DEF lists
  <2> QED BY <1>1, <2>1, <2>2, TimeKept DEF TimeInv
<1>6. \A th \in Threads : Own(th)' = Own(th)
  BY DEF Own, Valid, lists
<1> QED BY <1>2, <1>3, <1>4, <1>5, <1>6

LEMMA CallStep ==
  ASSUME IInv, NEW th \in Threads, NEW o \in Calls, Call(th, o),
         o.name \in {"start", "stop", "destroy"} => o.timer \in Own(th),
         o.name = "start" => (o.periodic => o.interval > 0)
  PROVE  IInv'
<1>1. /\ TypeOK /\ CallInv /\ ClockInv /\ ArmedInTime
      /\ th \notin ended /\ op[th] = Idle /\ module # "off"
      /\ op' = [op EXCEPT ![th] = o] /\ calls < MaxCalls /\ calls' = calls + 1
      /\ UNCHANGED <<lists, system, history, ended, used_freed>>
  BY DEF IInv, Call
<1>2. now' = now /\ now \in Nat /\ module' = module
  BY <1>1, Typed DEF system
<1>3. /\ SplitInv' /\ EndedHasNone' /\ TimeInv'
      /\ Lists' = Lists /\ \A k \in Threads : Own(k)' = Own(k)
  <2>1. UNCHANGED <<lists, fired, since, ended>> /\ now' \in Nat /\ now <= now'
    BY <1>1, <1>2 DEF history
  <2> QED BY <1>2, <2>1, QuietStep
<1>4. op \in [Threads -> Calls] /\ op' \in [Threads -> Calls]
  BY <1>1 DEF TypeOK
<1>5. calls' \in 0..MaxCalls
  BY <1>1, TimersAssumption DEF TypeOK
<1>6. TypeOK'
  BY <1>1, <1>3, <1>4, <1>5 DEF TypeOK, lists, system, history
<1>7. CallInv'
  <2> SUFFICES ASSUME NEW k \in Threads
               PROVE  /\ op'[k] # Idle => k \notin ended'
                      /\ op'[k].name \in {"start", "stop", "destroy"} => op'[k].timer \in Own(k)'
                      /\ op'[k].name = "start" => (op'[k].periodic => op'[k].interval > 0)
    BY DEF CallInv
  <2>1. ended' = ended /\ Own(k)' = Own(k)
    BY <1>1, <1>3
  <2>2. CASE k = th
    <3>1. op'[k] = o
      BY <1>1, <1>4, <2>2
    <3> QED BY <1>1, <2>1, <2>2, <3>1
  <2>3. CASE k # th
    <3>1. op'[k] = op[k]
      BY <1>1, <1>4, <2>3
    <3> QED BY <1>1, <2>1, <3>1 DEF CallInv
  <2> QED BY <2>2, <2>3
<1>8. ClockInv' /\ ArmedInTime'
  BY <1>1 DEF ClockInv, ArmedInTime, system, lists, Value
<1> QED BY <1>3, <1>6, <1>7, <1>8 DEF IInv

LEMMA CallsStep ==
  ASSUME IInv, NEW th \in Threads
  PROVE  /\ SAL_Create_Timer(th) => IInv'
         /\ \A i \in Ids : SAL_Stop_Timer(th, i) \/ SAL_Destroy_Timer(th, i) => IInv'
         /\ \A i \in Ids, interval \in Intervals, periodic \in BOOLEAN :
              SAL_Start_Timer(th, i, interval, periodic) => IInv'
<1>1. ASSUME SAL_Create_Timer(th) PROVE IInv'
  <2> DEFINE o == [name |-> "create"]
  <2>1. /\ o \in Calls /\ o.name = "create"
    BY DEF Calls
  <2>2. Call(th, o)
    BY <1>1 DEF SAL_Create_Timer
  <2> HIDE DEF o
  <2> QED BY <2>1, <2>2, CallStep
<1>2. ASSUME NEW i \in Ids, SAL_Stop_Timer(th, i) PROVE IInv'
  <2> DEFINE o == [name |-> "stop", timer |-> i]
  <2>1. /\ o \in Calls /\ o.name = "stop" /\ o.timer = i
    BY DEF Calls
  <2>2. Call(th, o) /\ i \in Own(th)
    BY <1>2 DEF SAL_Stop_Timer
  <2> HIDE DEF o
  <2> QED BY <2>1, <2>2, CallStep
<1>3. ASSUME NEW i \in Ids, SAL_Destroy_Timer(th, i) PROVE IInv'
  <2> DEFINE o == [name |-> "destroy", timer |-> i]
  <2>1. /\ o \in Calls /\ o.name = "destroy" /\ o.timer = i
    BY DEF Calls
  <2>2. Call(th, o) /\ i \in Own(th)
    BY <1>3 DEF SAL_Destroy_Timer
  <2> HIDE DEF o
  <2> QED BY <2>1, <2>2, CallStep
<1>4. ASSUME NEW i \in Ids, NEW interval \in Intervals, NEW periodic \in BOOLEAN,
             SAL_Start_Timer(th, i, interval, periodic)
      PROVE  IInv'
  <2> DEFINE o == [name |-> "start", timer |-> i, interval |-> interval, periodic |-> periodic]
  <2>1. /\ o \in Calls /\ o.name = "start" /\ o.timer = i /\ o.interval = interval
        /\ o.periodic = periodic
    BY DEF Calls
  <2>2. Call(th, o) /\ i \in Own(th) /\ (periodic => interval > 0)
    BY <1>4 DEF SAL_Start_Timer
  <2> HIDE DEF o
  <2> QED BY <2>1, <2>2, CallStep
<1> QED BY <1>1, <1>2, <1>3, <1>4

\* Steps of the OS, of the clock and of the timer thread that leave the lists alone.
LEMMA QuietSystem ==
  ASSUME IInv, UNCHANGED <<lists, history, op, calls, ended, used_freed>>,
         now' \in 0..MaxTime, now <= now', (module = "off") = (module' = "off"),
         module' \in {"on", "stopping", "off"}, armed' \in Times \cup {Never},
         signal' \in BOOLEAN, handler' \in Handlers, ClockInv', ArmedInTime'
  PROVE  IInv'
<1>1. TypeOK /\ CallInv
  BY DEF IInv
<1>2. now' \in Nat
  BY TimersAssumption
<1>3. /\ SplitInv' /\ EndedHasNone' /\ TimeInv'
      /\ Lists' = Lists /\ \A k \in Threads : Own(k)' = Own(k)
  <2>1. UNCHANGED <<lists, fired, since, ended>>
    BY DEF history
  <2> QED BY <1>2, <2>1, QuietStep
<1>4. TypeOK'
  BY <1>1, <1>3 DEF TypeOK, lists, history
<1>5. CallInv'
  BY <1>1, <1>3 DEF CallInv
<1> QED BY <1>3, <1>4, <1>5 DEF IInv

LEMMA HandlersAre ==
  /\ \A x \in {"sigwait", "clock", "ending", "ended"} :
       [at |-> x] \in Handlers /\ [at |-> x].at = x
  /\ \A t \in Times : [at |-> "expired", now |-> t] \in Handlers
  /\ \A i \in Ids, th \in Threads \cup {Nobody} :
       [at |-> "send", timer |-> i, creator |-> th] \in Handlers
BY DEF Handlers

LEMMA TickStep == IInv /\ Tick => IInv'
<1> SUFFICES ASSUME IInv, Tick PROVE IInv'
  OBVIOUS
<1>1. TypeOK /\ ClockInv /\ ArmedInTime
  BY DEF IInv
<1>2. /\ now < MaxTime /\ now' = now + 1
      /\ UNCHANGED <<lists, module, armed, signal, handler, history, op, calls, ended, used_freed>>
  BY DEF Tick
<1>3. now' \in 0..MaxTime /\ now <= now'
  BY <1>1, <1>2, TimersAssumption DEF TypeOK
<1>4. ArmedInTime'
  BY <1>1, <1>2 DEF ArmedInTime, lists, Value
<1>5. ClockInv'
  <2> SUFFICES ASSUME handler.at = "expired" PROVE Value(handler.now) <= now'
    BY <1>2 DEF ClockInv, Value
  <2>1. handler.now \in Times /\ Value(handler.now) <= now
    BY <1>1 DEF TypeOK, Handlers, ClockInv
  <2>2. Value(handler.now) \in Nat /\ now \in Nat
    BY <1>1, <2>1, Typed, TimeFields
  <2> QED BY <1>2, <2>1, <2>2
<1>6. /\ module' \in {"on", "stopping", "off"} /\ armed' \in Times \cup {Never}
      /\ signal' \in BOOLEAN /\ handler' \in Handlers
  BY <1>1, <1>2 DEF TypeOK
<1> QED BY <1>2, <1>3, <1>4, <1>5, <1>6, QuietSystem

LEMMA ExpireStep == IInv /\ Expire => IInv'
<1> SUFFICES ASSUME IInv, Expire PROVE IInv'
  OBVIOUS
<1>1. TypeOK /\ ClockInv /\ now \in 0..MaxTime /\ now \in Nat
  BY Typed DEF IInv, TypeOK
<1>2. /\ armed' = Never /\ signal' = TRUE
      /\ UNCHANGED <<lists, module, now, handler, history, op, calls, ended, used_freed>>
  BY DEF Expire
<1>3. ArmedInTime' /\ ClockInv'
  BY <1>1, <1>2 DEF ArmedInTime, ClockInv, Value
<1>4. /\ module' \in {"on", "stopping", "off"} /\ armed' \in Times \cup {Never}
      /\ signal' \in BOOLEAN /\ handler' \in Handlers
  BY <1>1, <1>2 DEF TypeOK
<1> QED BY <1>1, <1>2, <1>3, <1>4, QuietSystem

LEMMA SigwaitStep == IInv /\ Sigwait => IInv'
<1> SUFFICES ASSUME IInv, Sigwait PROVE IInv'
  OBVIOUS
<1>1. TypeOK /\ now \in 0..MaxTime /\ now \in Nat
  BY Typed DEF IInv, TypeOK
<1>2. /\ signal' = FALSE /\ handler' = [at |-> "clock"]
      /\ UNCHANGED <<lists, armed, history, module, now, op, calls, ended, used_freed>>
  BY DEF Sigwait, Goto, Handler
<1>3. handler' \in Handlers /\ handler'.at = "clock"
  BY <1>2, HandlersAre
<1>4. ArmedInTime' /\ ClockInv'
  BY <1>3 DEF ArmedInTime, ClockInv
<1>5. /\ module' \in {"on", "stopping", "off"} /\ armed' \in Times \cup {Never}
      /\ signal' \in BOOLEAN
  BY <1>1, <1>2 DEF TypeOK
<1> QED BY <1>1, <1>2, <1>3, <1>4, <1>5, QuietSystem

LEMMA ReadClockStep == IInv /\ ReadClock => IInv'
<1> SUFFICES ASSUME IInv, ReadClock PROVE IInv'
  OBVIOUS
<1>1. TypeOK /\ now \in 0..MaxTime /\ now \in Nat /\ Clock \in Times /\ Value(Clock) = now
  BY Typed DEF IInv, TypeOK
<1>2. /\ handler' = [at |-> "expired", now |-> Clock]
      /\ UNCHANGED <<lists, armed, signal, history, module, now, op, calls, ended, used_freed>>
  BY DEF ReadClock, Goto, Handler
<1>3. handler' \in Handlers /\ handler'.at = "expired" /\ handler'.now = Clock
  BY <1>1, <1>2, HandlersAre
<1>4. ArmedInTime'
  BY <1>3 DEF ArmedInTime
<1>5. ClockInv'
  <2>1. Value(handler'.now) <= now'
    BY <1>1, <1>2, <1>3
  <2> QED BY <2>1 DEF ClockInv, Value
<1>6. /\ module' \in {"on", "stopping", "off"} /\ armed' \in Times \cup {Never}
      /\ signal' \in BOOLEAN
  BY <1>1, <1>2 DEF TypeOK
<1> QED BY <1>1, <1>2, <1>3, <1>4, <1>5, <1>6, QuietSystem

LEMMA SendEventStep == IInv /\ SendEvent => IInv'
<1> SUFFICES ASSUME IInv, SendEvent PROVE IInv'
  OBVIOUS
<1>1. TypeOK /\ now \in 0..MaxTime /\ now \in Nat
  BY Typed DEF IInv, TypeOK
<1>2. /\ handler' = [at |-> "clock"]
      /\ UNCHANGED <<lists, armed, signal, history, module, now, op, calls, ended, used_freed>>
  BY DEF SendEvent, Goto, Handler
<1>3. handler' \in Handlers /\ handler'.at = "clock"
  BY <1>2, HandlersAre
<1>4. ArmedInTime' /\ ClockInv'
  BY <1>3 DEF ArmedInTime, ClockInv
<1>5. /\ module' \in {"on", "stopping", "off"} /\ armed' \in Times \cup {Never}
      /\ signal' \in BOOLEAN
  BY <1>1, <1>2 DEF TypeOK
<1> QED BY <1>1, <1>2, <1>3, <1>4, <1>5, QuietSystem

LEMMA RearmStep == IInv /\ Rearm => IInv'
<1> SUFFICES ASSUME IInv, Rearm PROVE IInv'
  OBVIOUS
<1>1. TypeOK /\ now \in 0..MaxTime /\ now \in Nat /\ SplitInv
  BY Typed DEF IInv, TypeOK
<1>2. /\ armed' = Restarted(Lists)
      /\ handler' = [at |-> IF module = "on" THEN "sigwait" ELSE "ending"]
      /\ UNCHANGED <<lists, signal, history, module, now, op, calls, ended, used_freed>>
  BY DEF Rearm, Goto, Handler, Restart_Timer
<1>3. handler' \in Handlers /\ handler'.at \in {"sigwait", "ending"}
  BY <1>2, HandlersAre
<1>4. /\ armed' \in Times \cup {Never}
      /\ \A i \in ToSet(Running_Timers) :
           armed' # Never /\ Value(armed') <= Value(timers[i].time)
  <2>1. CASE module # "off"
    <3>1. Split(Lists, Allocated_Timers)
      BY <1>1, <2>1 DEF SplitInv
    <3>2. /\ Lists \in ListRecords /\ Allocated_Timers \in SUBSET Ids
          /\ armed \in Times \cup {Never}
      BY <1>1, Typed DEF TypeOK
    <3> QED BY <1>2, <3>1, <3>2, RestartedProperties, ListsAre
  <2>2. CASE module = "off"
    <3>1. Running_Timers = << >> /\ ToSet(Running_Timers) = {}
      BY <1>1, <2>2, NoRunning DEF SplitInv
    <3>2. Restarted(Lists) = armed
      BY <3>1, ListsAre DEF Restarted
    <3> QED BY <1>1, <1>2, <3>1, <3>2 DEF TypeOK
  <2> QED BY <2>1, <2>2
<1>5. ArmedInTime'
  BY <1>2, <1>4 DEF ArmedInTime, lists, Value
<1>6. ClockInv'
  BY <1>3 DEF ClockInv
<1>7. /\ module' \in {"on", "stopping", "off"} /\ signal' \in BOOLEAN
  BY <1>1, <1>2 DEF TypeOK
<1> QED BY <1>1, <1>2, <1>3, <1>4, <1>5, <1>6, <1>7, QuietSystem

LEMMA StopModuleStep == IInv /\ SAL_I_Stop_Timer_Module => IInv'
<1> SUFFICES ASSUME IInv, SAL_I_Stop_Timer_Module PROVE IInv'
  OBVIOUS
<1>1. TypeOK /\ now \in 0..MaxTime /\ now \in Nat /\ ClockInv
  BY Typed DEF IInv, TypeOK
<1>2. /\ module = "on" /\ module' = "stopping" /\ signal' = TRUE
      /\ UNCHANGED <<lists, now, armed, handler, history, op, calls, ended, used_freed>>
  BY DEF SAL_I_Stop_Timer_Module
<1>3. ArmedInTime' /\ ClockInv'
  BY <1>1, <1>2 DEF ArmedInTime, ClockInv, Value
<1>4. /\ module' \in {"on", "stopping", "off"} /\ armed' \in Times \cup {Never}
      /\ signal' \in BOOLEAN /\ handler' \in Handlers
  BY <1>1, <1>2 DEF TypeOK
<1>5. (module = "off") = (module' = "off")
  BY <1>2
<1> QED BY <1>1, <1>2, <1>3, <1>4, <1>5, QuietSystem

\* Returns that change no list.
LEMMA QuietReturn ==
  ASSUME IInv, NEW th \in Threads, NEW o \in Calls, o.name \in {"idle", "allocate"},
         o.name = "allocate" => op[th] # Idle, o.name = "idle" => o = Idle,
         op' = [op EXCEPT ![th] = o], used_freed' \in BOOLEAN,
         UNCHANGED <<lists, system, history, calls, ended>>
  PROVE  IInv'
<1>1. TypeOK /\ CallInv /\ ClockInv /\ ArmedInTime /\ now \in Nat
  BY Typed DEF IInv
<1>2. /\ SplitInv' /\ EndedHasNone' /\ TimeInv'
      /\ Lists' = Lists /\ \A k \in Threads : Own(k)' = Own(k)
  <2>1. UNCHANGED <<lists, fired, since, ended>> /\ now' \in Nat /\ now <= now' /\ module' = module
    BY <1>1 DEF history, system
  <2> QED BY <2>1, QuietStep
<1>3. op \in [Threads -> Calls] /\ op' \in [Threads -> Calls]
  BY <1>1 DEF TypeOK
<1>4. TypeOK'
  BY <1>1, <1>2, <1>3 DEF TypeOK, lists, system, history
<1>5. CallInv'
  <2> SUFFICES ASSUME NEW k \in Threads
               PROVE  /\ op'[k] # Idle => k \notin ended'
                      /\ op'[k].name \in {"start", "stop", "destroy"} => op'[k].timer \in Own(k)'
                      /\ op'[k].name = "start" => (op'[k].periodic => op'[k].interval > 0)
    BY DEF CallInv
  <2>1. CASE k = th
    <3>1. op'[k] = o
      BY <1>3, <2>1
    <3>2. op'[k].name \notin {"start", "stop", "destroy"}
      BY <3>1
    <3>3. op'[k] # Idle => k \notin ended'
      BY <1>1, <2>1, <3>1 DEF CallInv
    <3> QED BY <3>2, <3>3
  <2>2. CASE k # th
    <3>1. op'[k] = op[k]
      BY <1>3, <2>2
    <3> QED BY <1>1, <1>2, <3>1 DEF CallInv
  <2> QED BY <2>1, <2>2
<1>6. ClockInv' /\ ArmedInTime'
  BY <1>1 DEF ClockInv, ArmedInTime, system, lists, Value
<1> QED BY <1>2, <1>4, <1>5, <1>6 DEF IInv

LEMMA AllocateStep ==
  ASSUME IInv, NEW th \in Threads, Timers_Allocate_Block(th)
  PROVE  IInv'
<1> DEFINE o == [name |-> "allocate"]
<1>1. o \in Calls /\ o.name = "allocate"
  BY DEF Calls
<1>2. op[th] # Idle
  BY DEF Timers_Allocate_Block, On, Idle
<1>3. op' = [op EXCEPT ![th] = o] /\ UNCHANGED <<lists, system, history, calls, ended, used_freed>>
  BY DEF Timers_Allocate_Block
<1>4. used_freed' \in BOOLEAN
  BY <1>3 DEF IInv, TypeOK
<1> HIDE DEF o
<1> QED BY <1>1, <1>2, <1>3, <1>4, QuietReturn

LEMMA AfterFreeStep ==
  ASSUME IInv, NEW th \in Threads, AfterFree(th)
  PROVE  IInv'
<1>1. Idle \in Calls /\ Idle.name = "idle"
  BY DEF Calls, Idle
<1>2. op' = [op EXCEPT ![th] = Idle] /\ UNCHANGED <<lists, system, history, calls, ended>>
  BY DEF AfterFree, Return
<1>3. used_freed' \in BOOLEAN
  BY DEF AfterFree
<1> QED BY <1>1, <1>2, <1>3, QuietReturn

-----------------------------------------------------------------------------
(* Steps that move one timer *)

\* EndedHasNone, without the concatenation.
EndedInv ==
  \A i \in ToSet(Stopped_Timers) \cup ToSet(Running_Timers) : timers[i].thread \notin ended
ListTypes == Lists \in ListRecords

LEMMA EndedMeans == ListTypes => (EndedHasNone <=> EndedInv)
<1> SUFFICES ASSUME ListTypes PROVE EndedHasNone <=> EndedInv
  OBVIOUS
<1> DEFINE s == Stopped_Timers
           r == Running_Timers
           c == s \o r
<1>1. s \in Seq(Ids) /\ r \in Seq(Ids)
  BY ListFields, ListsAre DEF ListTypes
<1>2. /\ Len(s) \in Nat /\ Len(r) \in Nat /\ DOMAIN s = 1..Len(s) /\ DOMAIN r = 1..Len(r)
      /\ DOMAIN c = 1..Len(s) + Len(r)
      /\ \A k \in 1..Len(s) + Len(r) : c[k] = IF k <= Len(s) THEN s[k] ELSE r[k - Len(s)]
  BY <1>1, ConcatProperties, LenProperties
<1> HIDE DEF s, r, c
<1>3. ASSUME NEW x PROVE x \in ToSet(c) <=> x \in ToSet(s) \cup ToSet(r)
  <2>1. ASSUME x \in ToSet(c) PROVE x \in ToSet(s) \cup ToSet(r)
    <3>1. PICK k \in 1..Len(s) + Len(r) : x = c[k]
      BY <1>2, <2>1 DEF ToSet
    <3>2. CASE k <= Len(s)
      BY <1>2, <3>1, <3>2 DEF ToSet
    <3>3. CASE k > Len(s)
      <4>1. k - Len(s) \in 1..Len(r) /\ x = r[k - Len(s)]
        BY <1>2, <3>1, <3>3
      <4> QED BY <1>2, <4>1 DEF ToSet
    <3> QED BY <1>2, <3>2, <3>3
  <2>2. ASSUME x \in ToSet(s) PROVE x \in ToSet(c)
    <3>1. PICK k \in 1..Len(s) : x = s[k]
      BY <1>2, <2>2 DEF ToSet
    <3>2. k \in 1..Len(s) + Len(r) /\ c[k] = x
      BY <1>2, <3>1
    <3> QED BY <1>2, <3>2 DEF ToSet
  <2>3. ASSUME x \in ToSet(r) PROVE x \in ToSet(c)
    <3>1. PICK k \in 1..Len(r) : x = r[k]
      BY <1>2, <2>3 DEF ToSet
    <3>2. k + Len(s) \in 1..Len(s) + Len(r) /\ ~(k + Len(s) <= Len(s)) /\ (k + Len(s)) - Len(s) = k
      BY <1>2
    <3>3. c[k + Len(s)] = x
      BY <1>2, <3>1, <3>2
    <3> QED BY <1>2, <3>2, <3>3 DEF ToSet
  <2> QED BY <2>1, <2>2, <2>3
<1> QED BY <1>3 DEF EndedHasNone, EndedInv, s, r, c

LEMMA EndedMeansNext == ASSUME ListTypes' PROVE EndedHasNone' <=> EndedInv'
BY EndedMeans, PTL

\* What holds of the lists after a step that moves the timer i between them.
LEMMA OneTimer ==
  ASSUME IInv, module # "off", module' = module, now' = now, ended' = ended,
         NEW M \in ListRecords, SetLists(M), Split(M, Allocated_Timers'),
         Allocated_Timers \subseteq Allocated_Timers',
         NEW i \in Allocated_Timers', i \in Ids,
         \A j \in Ids \ {i} : M.t[j] = timers[j] /\ fired'[j] = fired[j] /\ since'[j] = since[j],
         ToSet(M.running) \subseteq ToSet(Running_Timers) \cup {i},
         ToSet(M.stopped) \subseteq ToSet(Stopped_Timers) \cup {i},
         i \in ToSet(M.running) \cup ToSet(M.stopped) => M.t[i].thread \notin ended,
         i \in ToSet(M.running) => InTime(i)'
  PROVE  SplitInv' /\ EndedHasNone' /\ TimeInv' /\ Lists' = M
<1>1. TypeOK /\ SplitInv /\ EndedHasNone /\ TimeInv
  BY DEF IInv
<1>2. /\ Lists' = M /\ timers' = M.t /\ Unused_Timers' = M.unused /\ Stopped_Timers' = M.stopped
      /\ Running_Timers' = M.running
  BY ListsSet
<1>3. SplitInv'
  <2>1. Split(Lists, Allocated_Timers)'
    <3>1. Split(Lists', Allocated_Timers')
      BY <1>2
    <3> QED BY <3>1 DEF Split, Holds, Sorted, NotLater, Earlier
  <2>2. \A j \in Ids \ Allocated_Timers' : timers'[j].state = "TIMER_UNUSED"
    <3> SUFFICES ASSUME NEW j \in Ids \ Allocated_Timers' PROVE M.t[j].state = "TIMER_UNUSED"
      BY <1>2
    <3>1. j \in Ids \ Allocated_Timers /\ j \in Ids \ {i}
      OBVIOUS
    <3> QED BY <1>1, <3>1 DEF SplitInv
  <2> QED BY <2>1, <2>2 DEF SplitInv
<1>4. EndedHasNone'
  <2>1. ListTypes /\ ListTypes'
    BY <1>1, <1>2, Typed DEF ListTypes
  <2>2. EndedInv
    BY <1>1, <2>1, EndedMeans
  <2>3. ASSUME NEW j \in ToSet(M.stopped) \cup ToSet(M.running) PROVE M.t[j].thread \notin ended
    <3>1. CASE j = i
      BY <2>3, <3>1
    <3>2. CASE j # i
      <4>1. j \in ToSet(Stopped_Timers) \cup ToSet(Running_Timers)
        BY <2>3, <3>2
      <4>2. j \in Ids
        BY <1>1, <4>1, Typed DEF ToSet
      <4> QED BY <2>2, <3>2, <4>1, <4>2 DEF EndedInv
    <3> QED BY <3>1, <3>2
  <2>4. EndedInv'
    BY <1>2, <2>3 DEF EndedInv
  <2> QED BY <2>1, <2>4, EndedMeansNext
<1>5. TimeInv'
  <2> SUFFICES ASSUME NEW j \in ToSet(M.running) PROVE InTime(j)'
    BY <1>2 DEF TimeInv
  <2>1. CASE j = i
    BY <2>1
  <2>2. CASE j # i
    <3>1. j \in ToSet(Running_Timers) /\ j \in Ids
      <4>1. j \in ToSet(Running_Timers)
        BY <2>2
      <4> QED BY <1>1, <4>1, Typed DEF ToSet
    <3>2. timers'[j] = timers[j] /\ fired'[j] = fired[j] /\ since'[j] = since[j]
      BY <1>2, <2>2, <3>1
    <3>3. InTime(j) /\ now \in Nat /\ now' \in Nat /\ now <= now'
      BY <1>1, <3>1, Typed DEF TimeInv
    <3> QED BY <1>1, <3>1, <3>2, <3>3, TimeKept
  <2> QED BY <2>1, <2>2
<1> QED BY <1>2, <1>3, <1>4, <1>5

\* The timer thread is not late for the lists M.
LEMMA ArmedAgain ==
  ASSUME NEW M \in ListRecords, NEW B \in SUBSET Ids, Split(M, B), armed \in Times \cup {Never},
         SetLists(M), armed' = Restarted(M)
  PROVE  armed' \in Times \cup {Never} /\ ArmedInTime'
<1>1. /\ Restarted(M) \in Times \cup {Never}
      /\ \A i \in ToSet(M.running) :
           Restarted(M) # Never /\ Value(Restarted(M)) <= Value(M.t[i].time)
  BY RestartedProperties
<1>2. timers' = M.t /\ Running_Timers' = M.running
  BY ListsSet
<1>3. \A i \in ToSet(Running_Timers') : armed' # Never /\ Value(armed') <= Value(timers'[i].time)
  BY <1>1, <1>2
<1> QED BY <1>1, <1>3 DEF ArmedInTime, Value

\* It is not late for fewer timers.
LEMMA ArmedStill ==
  ASSUME ArmedInTime, armed' = armed, handler' = handler, signal' = signal,
         ToSet(Running_Timers') \subseteq ToSet(Running_Timers),
         \A i \in ToSet(Running_Timers') : timers'[i].time = timers[i].time
  PROVE  ArmedInTime'
BY DEF ArmedInTime, Value

LEMMA TakeProperties ==
  ASSUME NEW L \in ListRecords, NEW B \in SUBSET Ids, Split(L, B), L.unused # << >>,
         NEW th \in Threads
  PROVE  LET i == L.unused[1]
             M == Timer_Add_Stop([L EXCEPT !.t[i].thread = th, !.unused = Tail(@)], i)
         IN  /\ i \in B /\ i \in Ids /\ L.t[i].state = "TIMER_UNUSED"
             /\ M \in ListRecords /\ Split(M, B) /\ M.running = L.running
             /\ ToSet(M.stopped) \subseteq ToSet(L.stopped) \cup {i}
             /\ M.t[i].thread = th /\ \A j \in Ids \ {i} : M.t[j] = L.t[j]
             /\ i \notin ToSet(M.running)
<1> DEFINE i == L.unused[1]
           N == [L EXCEPT !.t[i].thread = th, !.unused = Tail(@)]
           M == Timer_Add_Stop(N, i)
<1>1. /\ i \in B /\ L.t[i].state = "TIMER_UNUSED"
      /\ N \in ListRecords /\ N.running = L.running /\ N.stopped = L.stopped
      /\ N.t[i].thread = th /\ \A j \in Ids \ {i} : N.t[j] = L.t[j]
      /\ Split(N, B \ {i})
  BY FirstTaken
<1> HIDE DEF N, i
<1>2. /\ M \in ListRecords /\ M.t = [N.t EXCEPT ![i].state = "TIMER_STOPPED"]
      /\ M.running = N.running /\ ToSet(M.stopped) \subseteq ToSet(N.stopped) \cup {i}
      /\ Split(M, B)
  BY <1>1, AddedStop
<1> HIDE DEF M
<1>3. N.t \in [Ids -> Entries] /\ i \in Ids
  BY <1>1, ListFields
<1>4. M.t[i].thread = th /\ \A j \in Ids \ {i} : M.t[j] = N.t[j]
  BY <1>1, <1>2, <1>3, StateSet
<1>5. i \notin ToSet(M.running)
  BY <1>1, <1>2, <1>3, Apart
<1> QED BY <1>1, <1>2, <1>3, <1>4, <1>5 DEF M, N, i

\* Create and Allocated: the thread takes the first unused timer of L.
LEMMA TakenStep ==
  ASSUME IInv, NEW th \in Threads, op[th] # Idle, module # "off",
         NEW L \in ListRecords, L.t = timers, L.running = Running_Timers,
         L.stopped = Stopped_Timers, L.unused # << >>, Split(L, Allocated_Timers'),
         Allocated_Timers \subseteq Allocated_Timers', blocks' \in 0..MaxBlocks,
         Take(th, L), Return(th), UNCHANGED <<system, history, calls, ended, used_freed>>
  PROVE  IInv'
<1>1. TypeOK /\ SplitInv /\ CallInv /\ ClockInv /\ ArmedInTime /\ EndedHasNone /\ TimeInv
  BY DEF IInv
<1> DEFINE i == L.unused[1]
           M == Timer_Add_Stop([L EXCEPT !.t[i].thread = th, !.unused = Tail(@)], i)
<1>2. SetLists(M)
  BY DEF Take
<1>3. Allocated_Timers' \in SUBSET Ids
  BY BlocksWithin DEF Allocated_Timers
<1>4. /\ i \in Allocated_Timers' /\ i \in Ids /\ L.t[i].state = "TIMER_UNUSED"
      /\ M \in ListRecords /\ Split(M, Allocated_Timers') /\ M.running = L.running
      /\ ToSet(M.stopped) \subseteq ToSet(L.stopped) \cup {i}
      /\ M.t[i].thread = th /\ \A j \in Ids \ {i} : M.t[j] = L.t[j]
      /\ i \notin ToSet(M.running)
  BY <1>3, TakeProperties
<1> HIDE DEF M, i
<1>5. th \notin ended
  BY <1>1 DEF CallInv
<1>6. /\ module' = module /\ now' = now /\ ended' = ended /\ armed' = armed /\ signal' = signal
      /\ handler' = handler /\ fired' = fired /\ since' = since /\ calls' = calls
      /\ used_freed' = used_freed /\ op' = [op EXCEPT ![th] = Idle]
  BY DEF system, history, Return
<1>7. SplitInv' /\ EndedHasNone' /\ TimeInv' /\ Lists' = M
  BY <1>2, <1>4, <1>5, <1>6, OneTimer
<1>8. timers' = M.t /\ Running_Timers' = M.running
  BY <1>2, <1>4, ListsSet
<1>9. op \in [Threads -> Calls] /\ op' \in [Threads -> Calls]
  BY <1>1, <1>6 DEF TypeOK, Calls, Idle
<1>10. TypeOK'
  BY <1>1, <1>4, <1>6, <1>7, <1>9 DEF TypeOK
<1>11. CallInv'
  <2>1. \A k \in Threads : op'[k] = op[k] \/ op'[k] = Idle
    BY <1>6, <1>9
  <2>2. ASSUME NEW k \in Threads, NEW j \in Own(k) PROVE j \in Own(k)'
    <3>1. j \in Ids /\ timers[j].thread = k /\ timers[j].state \in {"TIMER_RUNNING", "TIMER_STOPPED"}
      BY <2>2 DEF Own, Valid
    <3>2. j # i
      BY <1>4, <3>1
    <3>3. timers'[j] = timers[j]
      BY <1>4, <1>8, <3>1, <3>2
    <3> QED BY <3>1, <3>3 DEF Own, Valid
  <2> QED BY <1>1, <1>6, <2>1, <2>2, CallsKept
<1>12. ClockInv'
  BY <1>1, <1>6 DEF ClockInv, Value
<1>13. ArmedInTime'
  <2>1. \A j \in ToSet(Running_Timers') : j \in ToSet(Running_Timers) /\ j # i /\ j \in Ids
    BY <1>1, <1>4, <1>8, Typed DEF ToSet
  <2>2. \A j \in ToSet(Running_Timers') : timers'[j].time = timers[j].time
    BY <1>4, <1>8, <2>1
  <2> QED BY <1>1, <1>6, <2>1, <2>2, ArmedStill
<1> QED BY <1>7, <1>10, <1>11, <1>12, <1>13 DEF IInv

LEMMA CreateStep ==
  ASSUME IInv, NEW th \in Threads, Create(th)
  PROVE  IInv'
<1>1. TypeOK /\ SplitInv
  BY DEF IInv
<1>2. /\ op[th] # Idle /\ module # "off" /\ Unused_Timers # << >> /\ Take(th, Lists) /\ Return(th)
      /\ UNCHANGED <<blocks, system, history, calls, ended, used_freed>>
  BY DEF Create, On, Idle
<1>3. Lists \in ListRecords /\ Split(Lists, Allocated_Timers)
  BY <1>1, <1>2, Typed DEF SplitInv
<1>4. Allocated_Timers' = Allocated_Timers /\ blocks' \in 0..MaxBlocks
  BY <1>1, <1>2 DEF Allocated_Timers, TypeOK
<1>5. Split(Lists, Allocated_Timers')
  BY <1>3, <1>4
<1> QED BY <1>2, <1>3, <1>4, <1>5, TakenStep, ListsAre

LEMMA AllocatedStep ==
  ASSUME IInv, NEW th \in Threads, Allocated(th)
  PROVE  IInv'
<1>1. TypeOK /\ SplitInv
  BY DEF IInv
<1> DEFINE L == [Lists EXCEPT !.unused =
                   @ \o [k \in 1..TIMER_NUM_ALLOCATED |-> blocks * TIMER_NUM_ALLOCATED + k]]
<1>2. /\ op[th] # Idle /\ module # "off" /\ blocks < MaxBlocks /\ blocks' = blocks + 1
      /\ Take(th, L) /\ Return(th)
      /\ UNCHANGED <<system, history, calls, ended, used_freed>>
  BY DEF Allocated, On, Idle
<1>3. Lists \in ListRecords /\ Split(Lists, Allocated_Timers) /\ blocks \in Nat
  BY <1>1, <1>2, Typed DEF SplitInv
<1>4. /\ L \in ListRecords /\ L.t = timers /\ L.stopped = Stopped_Timers
      /\ L.running = Running_Timers /\ L.unused # << >>
      /\ Split(L, Allocated_Timers')
  <2>1. Split(Lists, 1..(blocks * TIMER_NUM_ALLOCATED))
    BY <1>3 DEF Allocated_Timers
  <2>2. \A i \in Ids \ (1..(blocks * TIMER_NUM_ALLOCATED)) : Lists.t[i].state = "TIMER_UNUSED"
    BY <1>1, ListsAre DEF SplitInv, Allocated_Timers
  <2>3. /\ L \in ListRecords /\ L.t = Lists.t /\ L.stopped = Lists.stopped
        /\ L.running = Lists.running /\ L.unused # << >>
        /\ Split(L, 1..((blocks + 1) * TIMER_NUM_ALLOCATED))
    BY <1>2, <1>3, <2>1, <2>2, BlockAdded
  <2>4. Allocated_Timers' = 1..((blocks + 1) * TIMER_NUM_ALLOCATED)
    BY <1>2 DEF Allocated_Timers
  <2> QED BY <2>3, <2>4, ListsAre
<1>5. Allocated_Timers \subseteq Allocated_Timers'
  <2>1. /\ blocks * TIMER_NUM_ALLOCATED \in Nat
        /\ (blocks + 1) * TIMER_NUM_ALLOCATED = blocks * TIMER_NUM_ALLOCATED + TIMER_NUM_ALLOCATED
    BY <1>2, <1>3, BlockFacts
  <2>2. TIMER_NUM_ALLOCATED \in Nat
    BY TimersAssumption
  <2>3. Allocated_Timers' = 1..(blocks * TIMER_NUM_ALLOCATED + TIMER_NUM_ALLOCATED)
    BY <1>2, <2>1 DEF Allocated_Timers
  <2> DEFINE n == blocks * TIMER_NUM_ALLOCATED
  <2>4. Allocated_Timers = 1..n /\ Allocated_Timers' = 1..(n + TIMER_NUM_ALLOCATED) /\ n \in Nat
    BY <2>1, <2>3 DEF Allocated_Timers
  <2> HIDE DEF n
  <2> QED BY <2>2, <2>4
<1>6. blocks' \in 0..MaxBlocks
  BY <1>2, <1>3, TimersAssumption
<1> HIDE DEF L
<1> QED BY <1>2, <1>4, <1>5, <1>6, TakenStep

\* The timer of a call.
LEMMA CallTimer ==
  ASSUME IInv, NEW th \in Threads, op[th].name \in {"start", "stop", "destroy"}, module # "off"
  PROVE  LET i == op[th].timer
         IN  /\ i \in Allocated_Timers /\ i \in Ids /\ timers[i].thread = th /\ th \notin ended
             /\ timers[i].state \in {"TIMER_RUNNING", "TIMER_STOPPED"}
<1>1. TypeOK /\ SplitInv /\ CallInv
  BY DEF IInv
<1>2. op[th].timer \in Own(th)
  BY <1>1 DEF CallInv
<1>3. /\ op[th].timer \in Ids /\ timers[op[th].timer].thread = th /\ Valid(op[th].timer)
      /\ timers[op[th].timer].state \in {"TIMER_RUNNING", "TIMER_STOPPED"}
  BY <1>2 DEF Own, Valid
<1>4. th \notin ended
  BY <1>1 DEF CallInv, Idle
<1> QED BY <1>1, <1>3, <1>4, SplitFacts

\* The other threads keep their timers.
LEMMA OthersKept ==
  ASSUME TypeOK, CallInv, NEW th \in Threads, NEW i \in Ids, timers[i].thread = th,
         op' = [op EXCEPT ![th] = Idle], ended' = ended,
         \A j \in Ids \ {i} : timers'[j] = timers[j]
  PROVE  CallInv' /\ op' \in [Threads -> Calls]
<1>1. op \in [Threads -> Calls] /\ op' \in [Threads -> Calls]
  BY DEF TypeOK, Calls, Idle
<1>2. \A k \in Threads : op'[k] = op[k] \/ op'[k] = Idle
  BY <1>1
<1>3. ASSUME NEW k \in Threads, op'[k] # Idle, NEW j \in Own(k) PROVE j \in Own(k)'
  <2>1. k # th
    BY <1>1, <1>3
  <2>2. j \in Ids /\ timers[j].thread = k
    BY DEF Own
  <2>3. timers'[j] = timers[j]
    BY <2>1, <2>2
  <2> QED BY <2>3 DEF Own, Valid
<1>4. \A k \in Threads : op'[k] # Idle => \A j \in Own(k) : j \in Own(k)'
  BY <1>3
<1> QED BY <1>1, <1>2, <1>4, CallsKept

LEMMA DestroyStep ==
  ASSUME IInv, NEW th \in Threads, Destroy(th)
  PROVE  IInv'
<1>1. TypeOK /\ SplitInv /\ CallInv /\ ClockInv /\ ArmedInTime
  BY DEF IInv
<1> DEFINE i == op[th].timer
           N == Timer_Remove(Lists, i)
           M == Timer_Add_Unused(N, i)
<1>2. /\ op[th].name = "destroy" /\ module # "off" /\ SetLists(M)
      /\ op' = [op EXCEPT ![th] = Idle] /\ blocks' = blocks /\ module' = module /\ now' = now
      /\ armed' = armed /\ signal' = signal /\ handler' = handler /\ fired' = fired
      /\ since' = since /\ calls' = calls /\ ended' = ended /\ used_freed' = used_freed
  BY DEF Destroy, On, Return, system, history
<1>3. /\ i \in Allocated_Timers /\ i \in Ids /\ timers[i].thread = th
      /\ timers[i].state \in {"TIMER_RUNNING", "TIMER_STOPPED"}
  BY <1>2, CallTimer
<1> HIDE DEF i
<1>4. /\ Lists \in ListRecords /\ Allocated_Timers \in SUBSET Ids /\ Split(Lists, Allocated_Timers)
      /\ timers \in [Ids -> Entries] /\ Allocated_Timers' = Allocated_Timers
  BY <1>1, <1>2, Typed DEF SplitInv, Allocated_Timers
<1>5. /\ N \in ListRecords /\ N.t = timers
      /\ ToSet(N.running) \subseteq ToSet(Running_Timers) \ {i}
      /\ ToSet(N.stopped) \subseteq ToSet(Stopped_Timers) \ {i}
      /\ Split(N, Allocated_Timers \ {i})
  BY <1>3, <1>4, Removed, ListsAre
<1> HIDE DEF N
<1>6. /\ M \in ListRecords /\ M.t = [timers EXCEPT ![i].state = "TIMER_UNUSED"]
      /\ M.running = N.running /\ M.stopped = N.stopped /\ Split(M, Allocated_Timers)
  <2>1. /\ M \in ListRecords /\ M.t = [N.t EXCEPT ![i].state = "TIMER_UNUSED"]
        /\ M.running = N.running /\ M.stopped = N.stopped /\ Split(M, Allocated_Timers)
    <3> USE <1>3, <1>4, <1>5
    <3> QED BY AddedUnused
  <2> QED BY <1>5, <2>1
<1> HIDE DEF M
<1>7. \A j \in Ids \ {i} : M.t[j] = timers[j]
  BY <1>3, <1>4, <1>6, StateSet
<1>8. timers' = M.t /\ Running_Timers' = M.running
  BY <1>2, <1>6, ListsSet
<1>9. SplitInv' /\ EndedHasNone' /\ TimeInv' /\ Lists' = M
  <2>1. i \notin ToSet(M.running) \cup ToSet(M.stopped)
    BY <1>5, <1>6
  <2>2. Split(M, Allocated_Timers') /\ Allocated_Timers \subseteq Allocated_Timers'
        /\ i \in Allocated_Timers'
    BY <1>3, <1>4, <1>6
  <2>3. /\ ToSet(M.running) \subseteq ToSet(Running_Timers) \cup {i}
        /\ ToSet(M.stopped) \subseteq ToSet(Stopped_Timers) \cup {i}
    BY <1>5, <1>6
  <2> QED BY <1>2, <1>3, <1>6, <1>7, <2>1, <2>2, <2>3, OneTimer
<1>10. CallInv' /\ op' \in [Threads -> Calls]
  BY <1>1, <1>2, <1>3, <1>7, <1>8, OthersKept
<1>11. TypeOK'
  BY <1>1, <1>2, <1>6, <1>9, <1>10 DEF TypeOK
<1>12. ClockInv'
  BY <1>1, <1>2 DEF ClockInv, Value
<1>13. ArmedInTime'
  <2>0. Running_Timers \in Seq(Ids)
    BY <1>1, Typed
  <2>1. \A j \in ToSet(Running_Timers') : j \in ToSet(Running_Timers) /\ j # i /\ j \in Ids
    <3>1. ToSet(Running_Timers') \subseteq ToSet(Running_Timers) \ {i}
      BY <1>5, <1>6, <1>8
    <3>2. ToSet(Running_Timers) \subseteq Ids
      BY <2>0 DEF ToSet
    <3> QED BY <3>1, <3>2
  <2>2. \A j \in ToSet(Running_Timers') : timers'[j].time = timers[j].time
    BY <1>7, <1>8, <2>1
  <2> QED BY <1>1, <1>2, <2>1, <2>2, ArmedStill
<1> QED BY <1>9, <1>10, <1>11, <1>12, <1>13 DEF IInv

LEMMA StopStep ==
  ASSUME IInv, NEW th \in Threads, Stop(th)
  PROVE  IInv'
<1>1. TypeOK /\ SplitInv /\ CallInv /\ ClockInv /\ ArmedInTime
  BY DEF IInv
<1> DEFINE i == op[th].timer
           N == Timer_Remove(Lists, i)
           M == Timer_Add_Stop(N, i)
<1>2. /\ op[th].name = "stop" /\ module # "off"
      /\ op' = [op EXCEPT ![th] = Idle] /\ module' = module /\ now' = now
      /\ signal' = signal /\ handler' = handler /\ fired' = fired
      /\ since' = since /\ calls' = calls /\ ended' = ended /\ used_freed' = used_freed
  BY DEF Stop, On, Return, history
<1>3. /\ i \in Allocated_Timers /\ i \in Ids /\ timers[i].thread = th /\ th \notin ended
      /\ timers[i].state \in {"TIMER_RUNNING", "TIMER_STOPPED"}
  BY <1>2, CallTimer
<1>4. CASE timers[i].state # "TIMER_RUNNING"
  <2>1. UNCHANGED <<lists, armed>>
    BY <1>4 DEF Stop
  <2>2. Idle \in Calls /\ Idle.name = "idle"
    BY DEF Calls, Idle
  <2>3. UNCHANGED <<lists, system, history, calls, ended>> /\ used_freed' \in BOOLEAN
    BY <1>1, <1>2, <2>1 DEF system, history, TypeOK
  <2> QED BY <1>2, <2>2, <2>3, QuietReturn
<1>5. CASE timers[i].state = "TIMER_RUNNING"
  <2>1. SetLists(M) /\ armed' = Restarted(M) /\ blocks' = blocks
    BY <1>5 DEF Stop, Restart_Timer
  <2> HIDE DEF i
  <2>2. /\ Lists \in ListRecords /\ Allocated_Timers \in SUBSET Ids
        /\ Split(Lists, Allocated_Timers)
        /\ timers \in [Ids -> Entries] /\ Allocated_Timers' = Allocated_Timers
    BY <1>1, <1>2, <2>1, Typed DEF SplitInv, Allocated_Timers
  <2>3. /\ N \in ListRecords /\ N.t = timers
        /\ ToSet(N.running) \subseteq ToSet(Running_Timers) \ {i}
        /\ ToSet(N.stopped) \subseteq ToSet(Stopped_Timers) \ {i}
        /\ Split(N, Allocated_Timers \ {i})
    BY <1>3, <2>2, Removed, ListsAre
  <2> HIDE DEF N
  <2>4. /\ M \in ListRecords /\ M.t = [timers EXCEPT ![i].state = "TIMER_STOPPED"]
        /\ M.running = N.running /\ ToSet(M.stopped) \subseteq ToSet(N.stopped) \cup {i}
        /\ Split(M, Allocated_Timers)
    BY <1>3, <2>2, <2>3, AddedStop
  <2> HIDE DEF M
  <2>5. M.t[i].thread = th /\ \A j \in Ids \ {i} : M.t[j] = timers[j]
    BY <1>3, <2>2, <2>4, StateSet
  <2>6. timers' = M.t /\ Running_Timers' = M.running
    BY <2>1, <2>4, ListsSet
  <2>7. SplitInv' /\ EndedHasNone' /\ TimeInv' /\ Lists' = M
    <3>1. i \notin ToSet(M.running) /\ M.t[i].thread \notin ended
      BY <1>3, <2>3, <2>4, <2>5
    <3>2. Split(M, Allocated_Timers') /\ Allocated_Timers \subseteq Allocated_Timers'
          /\ i \in Allocated_Timers'
      BY <1>3, <2>2, <2>4
    <3>3. /\ ToSet(M.running) \subseteq ToSet(Running_Timers) \cup {i}
          /\ ToSet(M.stopped) \subseteq ToSet(Stopped_Timers) \cup {i}
      BY <2>3, <2>4
    <3> QED BY <1>2, <1>3, <2>1, <2>4, <2>5, <3>1, <3>2, <3>3, OneTimer
  <2>8. CallInv' /\ op' \in [Threads -> Calls]
    BY <1>1, <1>2, <1>3, <2>5, <2>6, OthersKept DEF i
  <2>9. armed' \in Times \cup {Never} /\ ArmedInTime'
    BY <1>1, <2>1, <2>2, <2>4, ArmedAgain DEF TypeOK
  <2>10. TypeOK'
    BY <1>1, <1>2, <2>1, <2>4, <2>7, <2>8, <2>9 DEF TypeOK
  <2>11. ClockInv'
    BY <1>1, <1>2 DEF ClockInv, Value
  <2> QED BY <2>7, <2>8, <2>9, <2>10, <2>11 DEF IInv
<1> QED BY <1>4, <1>5

\* The period and the time of a timer are set.
WithTimes(L, i, p, time) == [L EXCEPT !.t[i].period = p, !.t[i].time = time]

LEMMA Prepared ==
  ASSUME NEW L \in ListRecords, NEW i \in Ids, NEW p \in Intervals \cup {0}, NEW time \in Times
  PROVE  LET P == WithTimes(L, i, p, time)
         IN  /\ P \in ListRecords /\ P.unused = L.unused /\ P.stopped = L.stopped
             /\ P.running = L.running /\ \A j \in Ids \ {i} : P.t[j] = L.t[j]
             /\ P.t[i].period = p /\ P.t[i].time = time /\ P.t[i].thread = L.t[i].thread
<1> DEFINE P == [L EXCEPT !.t[i].period = p, !.t[i].time = time]
           e == [L.t[i] EXCEPT !.period = p, !.time = time]
           t == [L.t EXCEPT ![i] = e]
<1>1. L.t \in [Ids -> Entries] /\ L.unused \in Seq(Ids)
  BY ListFields
<1>2. L.t[i] \in Entries
  BY <1>1
<1>3. e \in Entries /\ e.period = p /\ e.time = time /\ e.thread = L.t[i].thread
  BY <1>2 DEF Entries
<1>4. P = [L EXCEPT !.t = t, !.unused = L.unused]
  <2>1. P.t = [[L.t EXCEPT ![i].period = p] EXCEPT ![i].time = time]
    BY DEF ListRecords
  <2>2. P = [L EXCEPT !.t = [[L.t EXCEPT ![i].period = p] EXCEPT ![i].time = time],
                      !.unused = L.unused]
    BY DEF ListRecords
  <2>3. [[L.t EXCEPT ![i].period = p] EXCEPT ![i].time = time] = t
    <3> DEFINE a == [L.t EXCEPT ![i].period = p]
               u == [a EXCEPT ![i].time = time]
    <3>1. a[i] = [L.t[i] EXCEPT !.period = p] /\ DOMAIN a = Ids
      BY <1>1
    <3>2. u[i] = [a[i] EXCEPT !.time = time] /\ DOMAIN u = Ids
          /\ \A j \in Ids \ {i} : u[j] = L.t[j]
      BY <1>1
    <3>3. u[i] = e
      BY <1>2, <3>1, <3>2 DEF Entries
    <3>4. u = [j \in Ids |-> u[j]] /\ t = [j \in Ids |-> t[j]]
      BY <1>1
    <3>5. t[i] = e /\ \A j \in Ids \ {i} : t[j] = L.t[j]
      BY <1>1
    <3> HIDE DEF u, t, e, a
    <3>6. \A j \in Ids : u[j] = t[j]
      BY <3>2, <3>3, <3>5
    <3> QED BY <3>4, <3>6 DEF u, a
  <2> HIDE DEF t, P
  <2> QED BY <2>2, <2>3
<1> HIDE DEF P, e
<1>5. t \in [Ids -> Entries] /\ t[i] = e /\ \A j \in Ids \ {i} : t[j] = L.t[j]
  BY <1>1, <1>3
<1> HIDE DEF t
<1>6. P \in ListRecords
  BY <1>1, <1>4, <1>5, ListUpdates
<1>7. P.t = t /\ P.unused = L.unused /\ P.stopped = L.stopped /\ P.running = L.running
  BY <1>4 DEF ListRecords
<1> QED BY <1>3, <1>5, <1>6, <1>7 DEF P, WithTimes

LEMMA StartStep ==
  ASSUME IInv, NEW th \in Threads, Start_Timer(th)
  PROVE  IInv'
<1>1. TypeOK /\ SplitInv /\ CallInv /\ ClockInv /\ ArmedInTime
  BY DEF IInv
<1> DEFINE o == op[th]
<1>0. PICK i : i = o.timer
  OBVIOUS
<1> DEFINE p == IF o.periodic THEN o.interval ELSE 0
           N == Timer_Remove(Lists, i)
           P == [N EXCEPT !.t[i].period = p, !.t[i].time = RoundedUp(Clock)]
           M == Timer_Add_Running(P, i, o.interval)
<1>2. /\ o.name = "start" /\ module # "off" /\ SetLists(M) /\ armed' = Restarted(M)
      /\ fired' = [fired EXCEPT ![i] = 0] /\ since' = [since EXCEPT ![i] = now]
      /\ op' = [op EXCEPT ![th] = Idle] /\ blocks' = blocks /\ module' = module /\ now' = now
      /\ signal' = signal /\ handler' = handler /\ calls' = calls /\ ended' = ended
      /\ used_freed' = used_freed
  BY <1>0 DEF Start_Timer, On, Return, Restart_Timer
<1>3. /\ i \in Allocated_Timers /\ i \in Ids /\ timers[i].thread = th /\ th \notin ended
      /\ timers[i].state \in {"TIMER_RUNNING", "TIMER_STOPPED"}
  BY <1>0, <1>2, CallTimer
<1>4. /\ o.interval \in Intervals /\ o.interval \in Nat /\ o.periodic \in BOOLEAN
      /\ o.periodic => o.interval > 0
  <2>1. o \in Calls /\ Intervals \subseteq Nat
    BY <1>1, TimersAssumption DEF TypeOK
  <2>2. o.interval \in Intervals /\ o.periodic \in BOOLEAN
    BY <1>2, <2>1 DEF Calls
  <2> QED BY <1>1, <1>2, <2>1, <2>2 DEF CallInv
<1>5. RoundedUp(Clock) \in Times /\ Value(RoundedUp(Clock)) = now + 1 /\ now \in Nat
  <2>1. Clock \in Times /\ Value(Clock) = now /\ now \in Nat
    BY <1>1, Typed
  <2> QED BY <2>1, TimeAdd DEF RoundedUp
<1>6. p \in Intervals \cup {0} /\ p \in Nat /\ (p > 0 => p = o.interval)
  BY <1>4
<1> HIDE DEF p
<1>7. /\ Lists \in ListRecords /\ Allocated_Timers \in SUBSET Ids /\ Split(Lists, Allocated_Timers)
      /\ timers \in [Ids -> Entries] /\ Allocated_Timers' = Allocated_Timers
      /\ fired \in [Ids -> Nat] /\ since \in [Ids -> Nat] /\ armed \in Times \cup {Never}
  BY <1>1, <1>2, Typed DEF SplitInv, Allocated_Timers, TypeOK
<1>8. /\ N \in ListRecords /\ N.t = timers
      /\ ToSet(N.running) \subseteq ToSet(Running_Timers) \ {i}
      /\ ToSet(N.stopped) \subseteq ToSet(Stopped_Timers) \ {i}
      /\ Split(N, Allocated_Timers \ {i})
  BY <1>3, <1>7, Removed, ListsAre
<1> HIDE DEF N
<1>9. /\ P \in ListRecords /\ P.unused = N.unused /\ P.stopped = N.stopped
      /\ P.running = N.running /\ \A j \in Ids \ {i} : P.t[j] = timers[j]
      /\ P.t[i].period = p /\ P.t[i].time = RoundedUp(Clock) /\ P.t[i].thread = th
  <2> DEFINE time == RoundedUp(Clock)
  <2>0. time \in Times /\ i \in Ids /\ p \in Intervals \cup {0} /\ N \in ListRecords
    BY <1>3, <1>5, <1>6, <1>8
  <2> HIDE DEF time
  <2>1. LET Q == WithTimes(N, i, p, time)
        IN  /\ Q \in ListRecords /\ Q.unused = N.unused /\ Q.stopped = N.stopped
            /\ Q.running = N.running /\ \A j \in Ids \ {i} : Q.t[j] = N.t[j]
            /\ Q.t[i].period = p /\ Q.t[i].time = time /\ Q.t[i].thread = N.t[i].thread
    BY <2>0, Prepared
  <2>2. P = WithTimes(N, i, p, time)
    BY DEF time, WithTimes
  <2> HIDE DEF P
  <2>3. N.t = timers /\ timers[i].thread = th
    BY <1>3, <1>8
  <2> QED BY <2>1, <2>2, <2>3 DEF time
<1> HIDE DEF P
<1>10. Split(P, Allocated_Timers \ {i})
  <2>1. \A j \in Allocated_Timers \ {i} : P.t[j] = N.t[j]
    BY <1>7, <1>8, <1>9
  <2> QED BY <1>8, <1>9, <2>1, SameSplit
<1> DEFINE t == [P.t EXCEPT ![i] = Ran(P.t[i], o.interval)]
<1>11. /\ M \in ListRecords /\ M.t = t
       /\ M.stopped = P.stopped /\ ToSet(M.running) \subseteq ToSet(P.running) \cup {i}
       /\ Split(M, Allocated_Timers)
  <2>1. P.t[i].time \in Times
    BY <1>5, <1>9
  <2> USE <1>3, <1>4, <1>7, <1>9, <1>10, <2>1
  <2> QED BY AddedRunning
<1> HIDE DEF M
<1>12. P.t \in [Ids -> Entries] /\ P.t[i] \in Entries
  BY <1>3, <1>9, ListFields
<1>13. /\ t[i] = Ran(P.t[i], o.interval) /\ \A j \in Ids \ {i} : t[j] = timers[j]
  BY <1>3, <1>9, <1>12
<1> HIDE DEF t
<1>14. /\ t[i].thread = th /\ t[i].period = p /\ Value(t[i].time) = now + 1 + o.interval
  <2>1. P.t[i].time \in Times
    BY <1>5, <1>9
  <2>2. /\ Value(Ran(P.t[i], o.interval).time) = Value(P.t[i].time) + o.interval
        /\ Ran(P.t[i], o.interval).thread = P.t[i].thread
        /\ Ran(P.t[i], o.interval).period = P.t[i].period
    BY <1>4, <1>12, <2>1, RanProperties
  <2> QED BY <1>5, <1>9, <1>13, <2>2
<1>15. timers' = t /\ Running_Timers' = M.running
  BY <1>2, <1>11, ListsSet
<1>16. /\ fired'[i] = 0 /\ since'[i] = now /\ fired' \in [Ids -> Nat] /\ since' \in [Ids -> Nat]
       /\ \A j \in Ids \ {i} : fired'[j] = fired[j] /\ since'[j] = since[j]
  BY <1>2, <1>3, <1>5, <1>7
<1>17. InTime(i)'
  <2>1. (fired'[i] + 1) * p = p
    BY <1>6, <1>16
  <2>2. p > 0 => Value(t[i].time) = now + 1 + p
    BY <1>6, <1>14
  <2>3. p > 0 => Value(t[i].time) = since'[i] + 1 + (fired'[i] + 1) * p
    BY <1>16, <2>1, <2>2
  <2>4. timers'[i].period = p /\ timers'[i].time = t[i].time
    BY <1>14, <1>15
  <2>5. Value(t[i].time) = Value(timers[i].time)'
    BY <2>4 DEF Value
  <2>6. ~(fired'[i] > 0)
    BY <1>16
  <2> HIDE DEF o
  <2> QED BY <1>16, <2>3, <2>4, <2>5, <2>6 DEF InTime
<1>18. SplitInv' /\ EndedHasNone' /\ TimeInv' /\ Lists' = M
  <2>1. Split(M, Allocated_Timers') /\ Allocated_Timers \subseteq Allocated_Timers'
        /\ i \in Allocated_Timers' /\ M.t[i].thread \notin ended
    BY <1>3, <1>7, <1>11, <1>14
  <2>2. /\ ToSet(M.running) \subseteq ToSet(Running_Timers) \cup {i}
        /\ ToSet(M.stopped) \subseteq ToSet(Stopped_Timers) \cup {i}
    BY <1>8, <1>9, <1>11
  <2>3. \A j \in Ids \ {i} : M.t[j] = timers[j] /\ fired'[j] = fired[j] /\ since'[j] = since[j]
    BY <1>11, <1>13, <1>16
  <2>4. /\ module # "off" /\ module' = module /\ now' = now /\ ended' = ended /\ SetLists(M)
        /\ M \in ListRecords /\ i \in Ids
    BY <1>2, <1>3, <1>11
  <2> HIDE DEF o
  <2> QED BY <1>17, <2>1, <2>2, <2>3, <2>4, OneTimer
<1>19. CallInv' /\ op' \in [Threads -> Calls]
  BY <1>1, <1>2, <1>3, <1>13, <1>15, OthersKept
<1>20. armed' \in Times \cup {Never} /\ ArmedInTime'
  BY <1>2, <1>7, <1>11, ArmedAgain
<1>21. TypeOK'
  BY <1>1, <1>2, <1>11, <1>16, <1>18, <1>19, <1>20 DEF TypeOK
<1>22. ClockInv'
  BY <1>1, <1>2 DEF ClockInv, Value
<1> QED BY <1>18, <1>19, <1>20, <1>21, <1>22 DEF IInv

\* The timer i of the lists M expired in those of the state.
ExpiredTo(i, M) ==
  /\ M \in ListRecords /\ Split(M, Allocated_Timers)
  /\ ToSet(M.running) \subseteq ToSet(Running_Timers) \cup {i}
  /\ ToSet(M.stopped) \subseteq ToSet(Stopped_Timers) \cup {i}
  /\ \A j \in Ids \ {i} : M.t[j] = timers[j]
  /\ M.t[i].thread = timers[i].thread /\ M.t[i].period = timers[i].period
  /\ M.t[i].state \in {"TIMER_RUNNING", "TIMER_STOPPED"}
  /\ timers[i].period # 0 =>
       Value(M.t[i].time) = Value(timers[i].time) + timers[i].period
  /\ timers[i].period = 0 => i \notin ToSet(M.running)

LEMMA ExpiredLists ==
  ASSUME TypeOK, SplitInv, module # "off", Running_Timers # << >>
  PROVE  LET i == Running_Timers[1]
             L == [Lists EXCEPT !.running = Tail(@)]
         IN  /\ i \in Ids /\ i \in Allocated_Timers /\ i \in ToSet(Running_Timers)
             /\ ExpiredTo(i, IF timers[i].period # 0 THEN RunAgain(L, i) ELSE Timer_Add_Stop(L, i))
<1> DEFINE i == Running_Timers[1]
           L == [Lists EXCEPT !.running = Tail(@)]
           B == Allocated_Timers
           R == Timer_Add_Running(L, i, timers[i].period)
           S == Timer_Add_Stop(L, i)
<1>1. /\ Lists \in ListRecords /\ B \in SUBSET Ids /\ Split(Lists, B)
      /\ timers \in [Ids -> Entries] /\ Lists.running # << >>
      /\ \A j \in ToSet(Running_Timers) : timers[j].time \in Times
  BY Typed, SplitFacts, ListsAre
<1>2. /\ i \in B /\ i \in ToSet(Running_Timers)
      /\ L \in ListRecords /\ L.t = timers /\ L.stopped = Stopped_Timers
      /\ ToSet(L.running) = ToSet(Running_Timers) \ {i} /\ Split(L, B \ {i})
  BY <1>1, FirstRunning, ListsAre
<1> HIDE DEF L, i, B
<1>3. i \in Ids /\ timers[i] \in Entries /\ timers[i].time \in Times /\ timers[i].period \in Nat
  <2>1. i \in Ids /\ timers[i] \in Entries /\ timers[i].time \in Times
    BY <1>1, <1>2
  <2> QED BY <2>1, EntryFields
<1>4. ASSUME timers[i].period # 0 PROVE ExpiredTo(i, R)
  <2> DEFINE d == timers[i].period
             e == Ran(L.t[i], d)
  <2>1. /\ L.t[i].time \in Times /\ d \in Nat
    BY <1>2, <1>3
  <2> HIDE DEF d
  <2>2. LET M == Timer_Add_Running(L, i, d)
        IN  /\ M \in ListRecords /\ M.t = [L.t EXCEPT ![i] = e]
            /\ M.stopped = L.stopped /\ ToSet(M.running) \subseteq ToSet(L.running) \cup {i}
            /\ Split(M, B)
    BY <1>1, <1>2, <2>1, AddedRunning
  <2>3. R = Timer_Add_Running(L, i, d)
    BY DEF d
  <2>4. /\ R \in ListRecords /\ R.t = [L.t EXCEPT ![i] = e]
        /\ R.stopped = L.stopped /\ ToSet(R.running) \subseteq ToSet(L.running) \cup {i}
        /\ Split(R, B)
    BY <2>2, <2>3
  <2> HIDE DEF R
  <2>5. /\ e.state = "TIMER_RUNNING" /\ Value(e.time) = Value(timers[i].time) + d
        /\ e.thread = timers[i].thread /\ e.period = timers[i].period
    BY <1>2, <1>3, <2>1, RanProperties
  <2> HIDE DEF e
  <2>6. R.t[i] = e /\ \A j \in Ids \ {i} : R.t[j] = timers[j]
    BY <1>1, <1>2, <1>3, <2>4
  <2>7. ToSet(R.running) \subseteq ToSet(Running_Timers) \cup {i}
        /\ ToSet(R.stopped) \subseteq ToSet(Stopped_Timers) \cup {i}
    BY <1>2, <2>4
  <2> QED BY <1>4, <2>4, <2>5, <2>6, <2>7 DEF ExpiredTo, B, d
<1>5. ASSUME timers[i].period = 0 PROVE ExpiredTo(i, S)
  <2>1. /\ S \in ListRecords /\ S.t = [timers EXCEPT ![i].state = "TIMER_STOPPED"]
        /\ S.running = L.running /\ ToSet(S.stopped) \subseteq ToSet(L.stopped) \cup {i}
        /\ Split(S, B)
    BY <1>1, <1>2, AddedStop
  <2> HIDE DEF S
  <2>2. /\ S.t[i].state = "TIMER_STOPPED" /\ S.t[i].thread = timers[i].thread
        /\ S.t[i].period = timers[i].period /\ \A j \in Ids \ {i} : S.t[j] = timers[j]
    BY <1>1, <1>3, <2>1, StateSet
  <2>3. /\ ToSet(S.running) \subseteq ToSet(Running_Timers) \cup {i}
        /\ ToSet(S.stopped) \subseteq ToSet(Stopped_Timers) \cup {i}
        /\ i \notin ToSet(S.running)
    BY <1>2, <2>1
  <2> QED BY <1>5, <2>1, <2>2, <2>3 DEF ExpiredTo, B
<1>6. RunAgain(L, i) = R
  <2>1. L.t = timers
    BY <1>2
  <2> QED BY <2>1 DEF RunAgain
<1> HIDE DEF R, S
<1>7. ExpiredTo(i, IF timers[i].period # 0 THEN RunAgain(L, i) ELSE S)
  BY <1>4, <1>5, <1>6
<1> QED BY <1>2, <1>3, <1>7 DEF i, L, S, B

LEMMA ExpiredStep == IInv /\ Expired => IInv'
<1> SUFFICES ASSUME IInv, Expired PROVE IInv'
  OBVIOUS
<1>1. TypeOK /\ SplitInv /\ CallInv /\ ClockInv /\ ArmedInTime /\ EndedHasNone /\ TimeInv
  BY DEF IInv
<1>2. PICK i : i = Running_Timers[1]
  OBVIOUS
<1> DEFINE L == [Lists EXCEPT !.running = Tail(@)]
           M == IF timers[i].period # 0 THEN RunAgain(L, i) ELSE Timer_Add_Stop(L, i)
<1>3. /\ handler.at = "expired" /\ Running_Timers # << >>
      /\ NotLater(timers[i].time, handler.now) /\ SetLists(M)
      /\ fired' = [fired EXCEPT ![i] = @ + 1]
      /\ handler' = [at |-> "send", timer |-> i, creator |-> timers[i].thread]
      /\ UNCHANGED <<blocks, armed, signal, since, module, now, op, calls, ended, used_freed>>
  BY <1>2 DEF Expired, Due, Goto, Handler
<1>4. module # "off"
  BY <1>1, <1>3 DEF SplitInv
<1>5. i \in Ids /\ i \in Allocated_Timers /\ i \in ToSet(Running_Timers) /\ ExpiredTo(i, M)
  BY <1>1, <1>2, <1>3, <1>4, ExpiredLists
<1> HIDE DEF M
<1>6. /\ M \in ListRecords /\ Split(M, Allocated_Timers)
      /\ ToSet(M.running) \subseteq ToSet(Running_Timers) \cup {i}
      /\ ToSet(M.stopped) \subseteq ToSet(Stopped_Timers) \cup {i}
      /\ \A j \in Ids \ {i} : M.t[j] = timers[j]
      /\ M.t[i].thread = timers[i].thread /\ M.t[i].period = timers[i].period
      /\ M.t[i].state \in {"TIMER_RUNNING", "TIMER_STOPPED"}
      /\ timers[i].period # 0 =>
           Value(M.t[i].time) = Value(timers[i].time) + timers[i].period
      /\ timers[i].period = 0 => i \notin ToSet(M.running)
  BY <1>5 DEF ExpiredTo
<1>7. /\ timers' = M.t /\ Running_Timers' = M.running
  BY <1>3, <1>6, ListsSet
<1>8. /\ now \in Nat /\ fired \in [Ids -> Nat] /\ since \in [Ids -> Nat]
      /\ timers \in [Ids -> Entries] /\ timers[i].time \in Times
      /\ Allocated_Timers' = Allocated_Timers
  BY <1>1, <1>3, <1>4, <1>5, Typed, SplitFacts DEF Allocated_Timers
<1>9. /\ timers[i] \in Entries /\ timers[i].period \in Nat
      /\ timers[i].thread \in Threads \cup {Nobody}
  <2>1. timers[i] \in Entries
    BY <1>5, <1>8
  <2> QED BY <2>1, EntryFields
<1>10. /\ fired'[i] = fired[i] + 1 /\ fired' \in [Ids -> Nat] /\ since' = since
       /\ fired[i] \in Nat /\ since[i] \in Nat
       /\ \A j \in Ids \ {i} : fired'[j] = fired[j] /\ since'[j] = since[j]
  BY <1>3, <1>5, <1>8
<1>11. Value(timers[i].time) \in Nat /\ Value(timers[i].time) <= now
  <2>1. handler.now \in Times /\ Value(handler.now) <= now
    BY <1>1, <1>3 DEF TypeOK, Handlers, ClockInv
  <2>2. Value(handler.now) \in Nat /\ Value(timers[i].time) \in Nat
    BY <1>8, <2>1, TimeFields
  <2>3. Value(timers[i].time) <= Value(handler.now)
    BY <1>3, <1>8, <2>1, EarlierIs
  <2> QED BY <1>8, <2>1, <2>2, <2>3
<1>12. timers[i].thread \notin ended
  <2>1. EndedInv
    BY <1>1, Typed, EndedMeans DEF ListTypes
  <2> QED BY <1>5, <2>1 DEF EndedInv
<1>13. ASSUME i \in ToSet(M.running) PROVE InTime(i)'
  <2> DEFINE p == timers[i].period
             f == fired[i]
             x == (f + 1) * p
             y == (f + 1 + 1) * p
  <2>1. p \in Nat /\ p > 0
    BY <1>6, <1>9, <1>13
  <2>2. x \in Nat /\ y = x + p
    <3>1. f \in Nat
      BY <1>10
    <3> HIDE DEF f, p
    <3> QED BY <2>1, <3>1
  <2>3. Value(timers[i].time) = since[i] + 1 + x
    BY <1>1, <1>5, <2>1 DEF TimeInv, InTime
  <2>4. /\ timers'[i].period = p /\ fired'[i] = f + 1 /\ since'[i] = since[i] /\ now' = now
        /\ Value(timers'[i].time) = Value(timers[i].time) + p
    BY <1>3, <1>6, <1>7, <1>10, <2>1
  <2>5. fired'[i] * timers'[i].period = x /\ (fired'[i] + 1) * timers'[i].period = y
    BY <2>4
  <2> HIDE DEF p, f, x, y
  <2>6. now' > since'[i] + x
    BY <1>8, <1>10, <1>11, <2>2, <2>3, <2>4
  <2>7. Value(timers'[i].time) = since'[i] + 1 + y
    BY <1>10, <2>1, <2>2, <2>3, <2>4
  <2>8. Value(timers'[i].time) = Value(timers[i].time)'
    BY DEF Value
  <2>9. timers'[i].period # 0
    BY <2>1, <2>4
  <2> QED BY <2>5, <2>6, <2>7, <2>8, <2>9 DEF InTime
<1>14. SplitInv' /\ EndedHasNone' /\ TimeInv' /\ Lists' = M
  <2>1. Split(M, Allocated_Timers') /\ Allocated_Timers \subseteq Allocated_Timers'
        /\ i \in Allocated_Timers' /\ M.t[i].thread \notin ended
    BY <1>5, <1>6, <1>8, <1>12
  <2>2. \A j \in Ids \ {i} : M.t[j] = timers[j] /\ fired'[j] = fired[j] /\ since'[j] = since[j]
    BY <1>6, <1>10
  <2>3. /\ module' = module /\ now' = now /\ ended' = ended
    BY <1>3
  <2> QED BY <1>3, <1>4, <1>5, <1>6, <1>13, <2>1, <2>2, <2>3, OneTimer
<1>15. CallInv'
  <2>1. ASSUME NEW k \in Threads, NEW j \in Own(k) PROVE j \in Own(k)'
    <3>1. j \in Ids /\ timers[j].thread = k /\ timers[j].state \in {"TIMER_RUNNING", "TIMER_STOPPED"}
      BY <2>1 DEF Own, Valid
    <3>2. CASE j = i
      BY <1>6, <1>7, <3>1, <3>2 DEF Own, Valid
    <3>3. CASE j # i
      BY <1>6, <1>7, <3>1, <3>3 DEF Own, Valid
    <3> QED BY <3>2, <3>3
  <2>2. op' = op /\ ended' = ended
    BY <1>3
  <2> QED BY <1>1, <2>1, <2>2, CallsKept
<1>16. handler' \in Handlers /\ handler'.at = "send"
  BY <1>3, <1>5, <1>9, HandlersAre
<1>17. TypeOK'
  BY <1>1, <1>3, <1>6, <1>8, <1>10, <1>14, <1>16 DEF TypeOK
<1>18. ClockInv' /\ ArmedInTime'
  BY <1>16 DEF ClockInv, ArmedInTime
<1> QED BY <1>14, <1>15, <1>17, <1>18 DEF IInv

-----------------------------------------------------------------------------
(* The end of a thread and of the module *)

\* The other threads are in their calls with their timers still.
LEMMA CallsAfterEnd ==
  ASSUME CallInv, NEW th \in Threads, op[th] = Idle, ended' = ended \cup {th}, op' = op,
         \A j \in Ids : timers[j].thread # th => timers'[j] = timers[j]
  PROVE  CallInv'
<1> SUFFICES ASSUME NEW k \in Threads
             PROVE  /\ op[k] # Idle => k \notin ended'
                    /\ op[k].name \in {"start", "stop", "destroy"} => op[k].timer \in Own(k)'
                    /\ op[k].name = "start" => (op[k].periodic => op[k].interval > 0)
  BY DEF CallInv
<1>1. CASE op[k] = Idle
  BY <1>1 DEF Idle
<1>2. CASE op[k] # Idle
  <2>1. k # th
    BY <1>2
  <2>2. k \notin ended'
    BY <1>2, <2>1 DEF CallInv
  <2>3. ASSUME NEW j \in Own(k) PROVE j \in Own(k)'
    <3>1. j \in Ids /\ timers[j].thread = k
      BY DEF Own
    <3>2. timers'[j] = timers[j]
      BY <2>1, <3>1
    <3> QED BY <3>2 DEF Own, Valid
  <2> QED BY <2>2, <2>3 DEF CallInv
<1> QED BY <1>1, <1>2

LEMMA EndStep ==
  ASSUME IInv, NEW th \in Threads, SAL_I_Destroy_And_Unbind_Timers_From_Thread(th)
  PROVE  IInv'
<1>1. TypeOK /\ SplitInv /\ CallInv /\ ClockInv /\ ArmedInTime /\ EndedHasNone /\ TimeInv
  BY DEF IInv
<1>2. /\ op[th] = Idle /\ ended' = ended \cup {th}
      /\ UNCHANGED <<blocks, module, now, signal, handler, history, op, calls, used_freed>>
      /\ fired' = fired /\ since' = since
  BY DEF SAL_I_Destroy_And_Unbind_Timers_From_Thread, history
<1>3. ClockInv' /\ Allocated_Timers' = Allocated_Timers
  BY <1>1, <1>2 DEF ClockInv, Value, Allocated_Timers
<1>4. CASE module = "off"
  <2>1. UNCHANGED <<timers, Unused_Timers, Stopped_Timers, Running_Timers, armed>>
    BY <1>4 DEF SAL_I_Destroy_And_Unbind_Timers_From_Thread
  <2>2. Lists' = Lists
    BY <2>1, ListsKept
  <2>3. Unused_Timers = << >> /\ Stopped_Timers = << >> /\ Running_Timers = << >>
    BY <1>1, <1>4 DEF SplitInv
  <2>4. SplitInv'
    BY <1>1, <1>2, <1>3, <1>4, <2>1 DEF SplitInv
  <2>5. CallInv'
    BY <1>1, <1>2, <2>1, CallsAfterEnd
  <2>6. EndedHasNone' /\ TimeInv'
    <3>1. ToSet(<< >> \o << >>) = {} /\ ToSet(<< >>) = {}
      BY DEF ToSet
    <3> QED BY <2>1, <2>3, <3>1 DEF EndedHasNone, TimeInv
  <2>7. ArmedInTime'
    BY <1>1, <1>2, <2>1 DEF ArmedInTime, Value
  <2>8. TypeOK'
    BY <1>1, <1>2, <2>1, <2>2 DEF TypeOK
  <2> QED BY <1>3, <2>4, <2>5, <2>6, <2>7, <2>8 DEF IInv
<1>5. CASE module # "off"
  <2> DEFINE M == Destroyed(Lists, th)
  <2>1. SetLists(M) /\ armed' = Restarted(M)
    BY <1>5 DEF SAL_I_Destroy_And_Unbind_Timers_From_Thread, Restart_Timer
  <2>2. /\ Lists \in ListRecords /\ Allocated_Timers \in SUBSET Ids
        /\ Split(Lists, Allocated_Timers) /\ armed \in Times \cup {Never}
        /\ timers \in [Ids -> Entries] /\ now \in Nat
    BY <1>1, <1>5, Typed, SplitFacts DEF TypeOK
  <2>3. /\ M \in ListRecords /\ Split(M, Allocated_Timers)
        /\ ToSet(M.stopped) \subseteq ToSet(Stopped_Timers)
        /\ ToSet(M.running) \subseteq ToSet(Running_Timers)
        /\ \A i \in ToSet(M.stopped) \cup ToSet(M.running) : timers[i].thread # th
        /\ \A i \in Ids :
             /\ M.t[i].thread = timers[i].thread
             /\ timers[i].thread # th => M.t[i] = timers[i]
             /\ timers[i].state = "TIMER_UNUSED" => M.t[i].state = "TIMER_UNUSED"
    <3> DEFINE L == Lists
               B == Allocated_Timers
    <3>1. L \in ListRecords /\ B \in SUBSET Ids /\ Split(L, B)
      BY <2>2
    <3> HIDE DEF L, B
    <3>2. LET D == Destroyed(L, th)
          IN  /\ D \in ListRecords /\ Split(D, B)
              /\ ToSet(D.stopped) \subseteq ToSet(L.stopped)
              /\ ToSet(D.running) \subseteq ToSet(L.running)
              /\ \A i \in ToSet(D.stopped) \cup ToSet(D.running) : L.t[i].thread # th
              /\ \A i \in Ids :
                   /\ D.t[i].thread = L.t[i].thread /\ D.t[i].time = L.t[i].time
                   /\ D.t[i].period = L.t[i].period
                   /\ L.t[i].thread # th => D.t[i] = L.t[i]
                   /\ L.t[i].state = "TIMER_UNUSED" => D.t[i].state = "TIMER_UNUSED"
      BY <3>1, AllDestroyed
    <3>3. M = Destroyed(L, th)
      BY DEF L
    <3> HIDE DEF M
    <3>4. /\ L.t = timers /\ L.stopped = Stopped_Timers /\ L.running = Running_Timers
      BY ListsAre DEF L
    <3> QED BY <3>2, <3>3, <3>4 DEF B
  <2> HIDE DEF M
  <2>4. /\ Lists' = M /\ timers' = M.t /\ Running_Timers' = M.running
        /\ Stopped_Timers' = M.stopped
    BY <2>1, <2>3, ListsSet
  <2>5. SplitInv'
    <3>1. Split(Lists, Allocated_Timers)'
      <4>1. Split(Lists', Allocated_Timers')
        BY <1>3, <2>3, <2>4
      <4> QED BY <4>1 DEF Split, Holds, Sorted, NotLater, Earlier
    <3>2. \A j \in Ids \ Allocated_Timers' : timers'[j].state = "TIMER_UNUSED"
      BY <1>1, <1>3, <2>3, <2>4 DEF SplitInv
    <3> QED BY <1>2, <1>5, <3>1, <3>2 DEF SplitInv
  <2>6. CallInv'
    BY <1>1, <1>2, <2>3, <2>4, CallsAfterEnd
  <2>7. armed' \in Times \cup {Never} /\ ArmedInTime'
    BY <2>1, <2>2, <2>3, ArmedAgain
  <2>8. TypeOK'
    BY <1>1, <1>2, <2>3, <2>4, <2>7 DEF TypeOK
  <2>9. ToSet(Running_Timers) \cup ToSet(Stopped_Timers) \subseteq Ids
    BY <1>1, Typed DEF ToSet
  <2>10. EndedHasNone'
    <3>1. ListTypes /\ ListTypes'
      BY <2>2, <2>3, <2>4 DEF ListTypes
    <3>2. EndedInv
      BY <1>1, <3>1, EndedMeans
    <3>3. ASSUME NEW i \in ToSet(M.stopped) \cup ToSet(M.running)
          PROVE  M.t[i].thread \notin ended'
      <4>1. i \in ToSet(Stopped_Timers) \cup ToSet(Running_Timers) /\ i \in Ids
        BY <2>3, <2>9, <3>3
      <4>2. M.t[i].thread = timers[i].thread /\ timers[i].thread # th
        BY <2>3, <3>3, <4>1
      <4> QED BY <1>2, <3>2, <4>1, <4>2 DEF EndedInv
    <3>4. EndedInv'
      BY <2>4, <3>3 DEF EndedInv
    <3> QED BY <3>1, <3>4, EndedMeansNext
  <2>11. TimeInv'
    <3> SUFFICES ASSUME NEW i \in ToSet(M.running) PROVE InTime(i)'
      BY <2>4 DEF TimeInv
    <3>1. i \in ToSet(Running_Timers) /\ i \in Ids
      BY <2>3, <2>9
    <3>2. timers'[i] = timers[i]
      BY <2>3, <2>4, <3>1
    <3> QED BY <1>1, <1>2, <2>2, <3>1, <3>2, TimeKept DEF TimeInv
  <2> QED BY <1>3, <2>5, <2>6, <2>7, <2>8, <2>10, <2>11 DEF IInv
<1> QED BY <1>4, <1>5

LEMMA DestroyListsStep == IInv /\ DestroyLists => IInv'
<1> SUFFICES ASSUME IInv, DestroyLists PROVE IInv'
  OBVIOUS
<1>1. TypeOK /\ SplitInv /\ CallInv
  BY DEF IInv
<1>2. /\ handler' = [at |-> "ended"] /\ module' = "off" /\ armed' = Never /\ signal' = FALSE
      /\ Unused_Timers' = << >> /\ Stopped_Timers' = << >> /\ Running_Timers' = << >>
      /\ UNCHANGED <<timers, blocks, now, history, op, calls, ended, used_freed>>
  BY DEF DestroyLists, Goto
<1>3. Lists' \in ListRecords
  <2>1. timers \in [Ids -> Entries] /\ << >> \in Seq(Ids)
    BY <1>1, Typed
  <2> QED BY <1>2, <2>1 DEF Lists, ListRecords
<1>4. handler' \in Handlers /\ handler'.at = "ended"
  BY <1>2, HandlersAre
<1>5. TypeOK'
  BY <1>1, <1>2, <1>3, <1>4 DEF TypeOK, history
<1>6. SplitInv'
  BY <1>1, <1>2 DEF SplitInv, Allocated_Timers
<1>7. CallInv'
  BY <1>1, <1>2 DEF CallInv, Own, Valid
<1>8. ClockInv' /\ ArmedInTime'
  BY <1>4 DEF ClockInv, ArmedInTime
<1>9. EndedHasNone' /\ TimeInv'
  <2>1. ToSet(<< >> \o << >>) = {} /\ ToSet(<< >>) = {}
    BY DEF ToSet
  <2> QED BY <1>2, <2>1 DEF EndedHasNone, TimeInv
<1> QED BY <1>5, <1>6, <1>7, <1>8, <1>9 DEF IInv

LEMMA StutterStep == IInv /\ UNCHANGED vars => IInv'
<1> SUFFICES ASSUME IInv, UNCHANGED vars PROVE IInv'
  OBVIOUS
<1>1. /\ TypeOK /\ ClockInv /\ ArmedInTime /\ now \in 0..MaxTime /\ now \in Nat
      /\ UNCHANGED <<lists, system, history, op, calls, ended, used_freed>>
  BY Typed DEF IInv, TypeOK, vars
<1>2. /\ module' = module /\ now' = now /\ armed' = armed /\ signal' = signal
      /\ handler' = handler
  BY <1>1 DEF system
<1>3. ClockInv' /\ ArmedInTime'
  BY <1>1, <1>2 DEF ClockInv, ArmedInTime, lists, Value
<1>4. /\ module' \in {"on", "stopping", "off"} /\ armed' \in Times \cup {Never}
      /\ signal' \in BOOLEAN /\ handler' \in Handlers
  BY <1>1, <1>2 DEF TypeOK
<1> QED BY <1>1, <1>2, <1>3, <1>4, QuietSystem

-----------------------------------------------------------------------------
(* All steps *)

LEMMA NextStep == IInv /\ [Next]_vars => IInv'
<1> SUFFICES ASSUME IInv, [Next]_vars PROVE IInv'
  OBVIOUS
<1>1. CASE UNCHANGED vars
  BY <1>1, StutterStep
<1>2. ASSUME NEW th \in Threads, SAL_Create_Timer(th) PROVE IInv'
  BY <1>2, CallsStep
<1>3. ASSUME NEW th \in Threads, NEW i \in Ids,
             SAL_Stop_Timer(th, i) \/ SAL_Destroy_Timer(th, i)
      PROVE  IInv'
  BY <1>3, CallsStep
<1>4. ASSUME NEW th \in Threads, NEW i \in Ids, NEW interval \in Intervals,
             NEW periodic \in BOOLEAN, SAL_Start_Timer(th, i, interval, periodic)
      PROVE  IInv'
  BY <1>4, CallsStep
<1>5. ASSUME NEW th \in Threads, Finish(th) PROVE IInv'
  BY <1>5, CreateStep, AllocateStep, AllocatedStep, DestroyStep, StartStep, StopStep,
     AfterFreeStep DEF Finish
<1>6. ASSUME NEW th \in Threads, SAL_I_Destroy_And_Unbind_Timers_From_Thread(th) PROVE IInv'
  BY <1>6, EndStep
<1>7. CASE Timer_Thread
  BY <1>7, SigwaitStep, ReadClockStep, ExpiredStep, SendEventStep, RearmStep,
     DestroyListsStep DEF Timer_Thread
<1>8. CASE Expire \/ Tick \/ SAL_I_Stop_Timer_Module
  BY <1>8, ExpireStep, TickStep, StopModuleStep
<1> QED BY <1>1, <1>2, <1>3, <1>4, <1>5, <1>6, <1>7, <1>8 DEF Next

LEMMA Invariance == Spec => []IInv
<1>1. Init => IInv
  BY InitInv
<1> QED BY <1>1, NextStep, PTL DEF Spec

LEMMA InvImpliesLists == IInv => ListsAgree
<1> SUFFICES ASSUME IInv, module # "off"
             PROVE  LET all == Unused_Timers \o Stopped_Timers \o Running_Timers
                    IN  /\ Len(all) = blocks * TIMER_NUM_ALLOCATED
                        /\ ToSet(all) = 1..(blocks * TIMER_NUM_ALLOCATED)
                        /\ \A i \in ToSet(all) : timers[i].state =
                             IF i \in ToSet(Unused_Timers) THEN "TIMER_UNUSED"
                             ELSE IF i \in ToSet(Stopped_Timers) THEN "TIMER_STOPPED"
                             ELSE "TIMER_RUNNING"
  BY DEF ListsAgree
<1> DEFINE u == Unused_Timers
           s == Stopped_Timers
           r == Running_Timers
           n == blocks * TIMER_NUM_ALLOCATED
<1>1. /\ TypeOK /\ SplitInv /\ Split(Lists, Allocated_Timers) /\ Allocated_Timers = 1..n
      /\ n \in Nat /\ Allocated_Timers \in SUBSET Ids
  BY SplitFacts, Typed, BlocksWithin DEF IInv, Allocated_Timers, TypeOK
<1>2. /\ u \in Seq(Ids) /\ s \in Seq(Ids) /\ r \in Seq(Ids)
      /\ timers \in [Ids -> Entries]
  BY <1>1, Typed
<1>3. /\ IsInjective(u) /\ IsInjective(s) /\ IsInjective(r)
      /\ ToSet(u) = {i \in Allocated_Timers : timers[i].state = "TIMER_UNUSED"}
      /\ ToSet(s) = {i \in Allocated_Timers : timers[i].state = "TIMER_STOPPED"}
      /\ ToSet(r) = {i \in Allocated_Timers : timers[i].state = "TIMER_RUNNING"}
  BY <1>1, ListsAre DEF Split, Holds
<1>4. \A i \in Allocated_Timers :
        timers[i].state \in {"TIMER_UNUSED", "TIMER_STOPPED", "TIMER_RUNNING"}
  BY <1>1, <1>2, EntryFields
<1> HIDE DEF u, s, r, n
<1>5. u \o s \in Seq(Ids) /\ IsInjective(u \o s) /\ ToSet(u \o s) = ToSet(u) \cup ToSet(s)
  <2>1. ToSet(u) \cap ToSet(s) = {}
    BY <1>3
  <2> QED BY <1>2, <1>3, <2>1, ConcatOf
<1> DEFINE a == u \o s
           all == a \o r
<1> HIDE DEF a
<1>6. all \in Seq(Ids) /\ IsInjective(all) /\ ToSet(all) = ToSet(u) \cup ToSet(s) \cup ToSet(r)
  <2>1. a \in Seq(Ids) /\ IsInjective(a) /\ ToSet(a) = ToSet(u) \cup ToSet(s)
    BY <1>5 DEF a
  <2>2. ToSet(a) \cap ToSet(r) = {}
    BY <1>3, <2>1
  <2>3. /\ all \in Seq(Ids) /\ IsInjective(all) /\ ToSet(all) = ToSet(a) \cup ToSet(r)
    BY <1>2, <1>3, <2>1, <2>2, ConcatOf
  <2> QED BY <2>1, <2>3
<1> HIDE DEF all
<1>7. ToSet(all) = 1..n
  BY <1>1, <1>3, <1>4, <1>6
<1>8. Len(all) = n
  <2>1. Cardinality(ToSet(all)) = Len(all)
    BY <1>6, InjectiveLength
  <2>2. Cardinality(1..n) = n
    BY <1>1, FS_Interval
  <2> QED BY <1>7, <2>1, <2>2
<1>9. \A i \in ToSet(all) : timers[i].state =
         IF i \in ToSet(u) THEN "TIMER_UNUSED"
         ELSE IF i \in ToSet(s) THEN "TIMER_STOPPED" ELSE "TIMER_RUNNING"
  BY <1>3, <1>6
<1> QED BY <1>7, <1>8, <1>9 DEF all, a, u, s, r, n

LEMMA InvImpliesOnTime == IInv => OnTime
BY DEF IInv, TimeInv, InTime, OnTime

(* TimersCorrect: every variable keeps its type, each timer of a block is in  *)
(* exactly the list its state says, the OS timer is armed in time while the   *)
(* timer thread waits, and a thread that ended has no timer, whatever the     *)
(* threads call and however late the timer thread is (xsal_timer_linux.c).    *)
THEOREM TimersCorrect == Spec => []TimersInv
<1>1. IInv => TimersInv
  BY InvImpliesLists DEF IInv, TimersInv
<1> QED BY <1>1, Invariance, PTL

(* TimersOnTime: a timer expires no earlier than its interval after the       *)
(* start, and a periodic one stays on the beat of its interval                *)
(* (SAL_Start_Timer and Timer_Handler of xsal_timer_linux.c).      *)
THEOREM TimersOnTime == Spec => []OnTime
BY InvImpliesOnTime, Invariance, PTL

-----------------------------------------------------------------------------
(* The timers of QNX and Windows *)

CONSTANTS Platforms, Timers, Events, None
VARIABLE nt

NT == INSTANCE NativeTimers

NtAssumption == IsFiniteSet(Timers) /\ None \notin Timers

TimerRecords ==
  [event : Events \cup {None}, thread : Threads \cup {None}, periodic : BOOLEAN,
   os : BOOLEAN, armed : BOOLEAN]
Expirations ==
  [timer : Timers, thread : Threads \cup {None}, event : Events \cup {None}]
NtCalls == [pc : {"idle", "bind", "destroy", "return"}, timer : Timers \cup {None}]

NtStates ==
  [platform : Platforms, free : Seq(Timers), timer : [Timers -> TimerRecords],
   list : [Threads -> Seq(Timers)], call : [Threads -> NtCalls],
   expired : SUBSET Expirations, handled : Expirations \cup {None}, failed : BOOLEAN]

NtFree == ToSet(nt.free)
NtList(t) == ToSet(nt.list[t])

\* The timer a call has in hand.
InHand(t) == nt.call[t].timer

\* A timer is at one place.
AtOnePlace ==
  /\ IsInjective(nt.free)
  /\ \A t \in Threads : /\ IsInjective(nt.list[t]) /\ NtList(t) \cap NtFree = {}
                        /\ InHand(t) \notin NtFree
  /\ \A t \in Threads, u \in Threads :
       /\ t # u => NtList(t) \cap NtList(u) = {}
       /\ InHand(t) \notin NtList(u)
       /\ t # u /\ InHand(t) # None => InHand(t) # InHand(u)
  /\ \A i \in Timers :
       i \in NtFree \/ \E t \in Threads : i \in NtList(t) \/ InHand(t) = i

\* What it is there.
AsItShould ==
  /\ \A i \in Timers : nt.timer[i].armed => nt.timer[i].os
  /\ \A i \in NtFree : ~ nt.timer[i].os
  /\ \A t \in Threads :
       /\ \A i \in NtList(t) : nt.timer[i].os /\ nt.timer[i].thread = t
       /\ nt.call[t].pc = "idle" <=> InHand(t) = None
       /\ nt.call[t].pc = "bind" => nt.timer[InHand(t)].os /\ nt.timer[InHand(t)].thread = t
       /\ nt.call[t].pc = "return" => ~ nt.timer[InHand(t)].os

NtInv == nt \in NtStates /\ AtOnePlace /\ AsItShould

LEMMA SameOperators ==
  ASSUME NEW S, NEW q, NEW e
  PROVE  /\ NT!RemoveFirst(q, e) = RemoveFirst(q, e) /\ NT!Reverse(q) = Reverse(q)
         /\ NT!Contains(q, e) = Contains(q, e) /\ NT!Cardinality(S) = Cardinality(S)
         /\ NT!SetToSeq(S) = SetToSeq(S)
<1>1. NT!Cardinality(S) = Cardinality(S)
  BY DEF NT!Cardinality, Cardinality
<1>2. NT!RemoveFirst(q, e) = RemoveFirst(q, e)
  BY DEF NT!RemoveFirst, RemoveFirst, NT!RemoveAt, RemoveAt, NT!SelectInSeq, SelectInSeq,
         NT!Min, Min
<1>3. NT!Reverse(q) = Reverse(q) /\ NT!Contains(q, e) = Contains(q, e)
  BY DEF NT!Reverse, Reverse, NT!Contains, Contains
<1>4. \A f : NT!IsInjective(f) <=> IsInjective(f)
  BY DEF NT!IsInjective, IsInjective
<1>5. NT!SetToSeq(S) = SetToSeq(S)
  BY <1>1, <1>4 DEF NT!SetToSeq, SetToSeq, NT!IsInjective, IsInjective
<1> QED
  BY <1>1, <1>2, <1>3, <1>5

LEMMA SetAsSequence ==
  ASSUME NEW S, IsFiniteSet(S)
  PROVE  /\ SetToSeq(S) \in Seq(S) /\ IsInjective(SetToSeq(S))
         /\ ToSet(SetToSeq(S)) = S
<1> DEFINE n == Cardinality(S)
           q == SetToSeq(S)
<1>1. n \in Nat /\ ExistsBijection(1..n, S)
  BY FS_CardinalityType
<1>2. PICK f \in Bijection(1..n, S) : TRUE
  BY <1>1 DEF ExistsBijection
<1>3. f \in [1..n -> S] /\ IsInjective(f)
  BY <1>2 DEF Bijection, Injection, IsInjective
<1>4. q \in [1..n -> S] /\ IsInjective(q)
  BY <1>3 DEF SetToSeq
<1>5. q \in Injection(1..n, S)
  BY <1>4 DEF Injection, IsInjective
<1>6. IsFiniteSet(1..n) /\ Cardinality(1..n) = n
  BY <1>1, FS_Interval
<1>7. q \in Surjection(1..n, S)
  BY <1>5, <1>6, FS_Injection
<1>8. q \in Seq(S) /\ DOMAIN q = 1..n
  BY <1>1, <1>4
<1> QED
  BY <1>4, <1>7, <1>8 DEF Surjection, ToSet

LEMMA ReverseOf ==
  ASSUME NEW S, NEW q \in Seq(S), IsInjective(q)
  PROVE  Reverse(q) \in Seq(S) /\ IsInjective(Reverse(q)) /\ ToSet(Reverse(q)) = ToSet(q)
<1> DEFINE n == Len(q)
           r == Reverse(q)
<1>1. n \in Nat /\ DOMAIN q = 1..n /\ DOMAIN r = 1..n
      /\ \A i \in 1..n : r[i] = q[n - i + 1] /\ n - i + 1 \in 1..n /\ q[i] \in S
  BY DEF Reverse
<1>2. r \in Seq(S)
  BY <1>1 DEF Reverse
<1>3. IsInjective(r)
  BY <1>1 DEF IsInjective
<1>4. \A i \in 1..n : n - i + 1 \in 1..n /\ r[n - i + 1] = q[i]
  BY <1>1
<1> QED
  BY <1>1, <1>2, <1>3, <1>4 DEF ToSet

LEMMA NtInit ==
  ASSUME NtAssumption, NT!Init
  PROVE  NtInv
<1>1. PICK p \in Platforms :
        nt = [platform |-> p, free |-> SetToSeq(Timers), timer |-> [i \in Timers |-> NT!Free],
              list |-> [t \in Threads |-> <<>>], call |-> [t \in Threads |-> NT!Idle],
              expired |-> {}, handled |-> None, failed |-> FALSE]
  BY SameOperators DEF NT!Init
<1>2. /\ SetToSeq(Timers) \in Seq(Timers) /\ IsInjective(SetToSeq(Timers))
      /\ ToSet(SetToSeq(Timers)) = Timers
  BY SetAsSequence DEF NtAssumption
<1>3. NT!Free \in TimerRecords /\ NT!Free.os = FALSE /\ NT!Free.armed = FALSE
      /\ NT!Idle \in NtCalls /\ NT!Idle.pc = "idle" /\ NT!Idle.timer = None
  BY DEF NT!Free, NT!Idle, TimerRecords, NtCalls
<1>4. nt \in NtStates
  BY <1>1, <1>2, <1>3 DEF NtStates
<1>5. /\ NtFree = Timers /\ \A t \in Threads : NtList(t) = {} /\ InHand(t) = None
      /\ \A t \in Threads : IsInjective(nt.list[t]) /\ nt.call[t].pc = "idle"
  BY <1>1, <1>2, <1>3 DEF NtFree, NtList, InHand, ToSet, IsInjective
<1>6. AtOnePlace
  BY <1>1, <1>2, <1>5 DEF AtOnePlace, NtAssumption
<1>7. AsItShould
  BY <1>1, <1>3, <1>5 DEF AsItShould
<1> QED
  BY <1>4, <1>6, <1>7 DEF NtInv

\* A step that moves no timer.
LEMMA NtStays ==
  ASSUME NtAssumption, NtInv, nt' \in NtStates, nt'.free = nt.free, nt'.list = nt.list,
         nt'.call = nt.call,
         \A i \in Timers : /\ nt'.timer[i].os = nt.timer[i].os
                           /\ nt'.timer[i].thread = nt.timer[i].thread
                           /\ nt'.timer[i].armed => nt.timer[i].os
  PROVE  NtInv'
<1>1. NtInv /\ nt \in NtStates
  BY DEF NtInv
<1>2. NtFree' = NtFree /\ \A t \in Threads : NtList(t)' = NtList(t) /\ InHand(t)' = InHand(t)
  BY DEF NtFree, NtList, InHand
<1>3. AtOnePlace'
  BY <1>1, <1>2 DEF NtInv, AtOnePlace
<1>4. /\ NtFree \subseteq Timers
      /\ \A t \in Threads : NtList(t) \subseteq Timers /\ InHand(t) \in Timers \cup {None}
      /\ \A t \in Threads : nt.call[t].pc # "idle" => InHand(t) \in Timers
  BY <1>1, SMTT(40) DEF NtInv, AsItShould, NtStates, NtFree, NtList, InHand, ToSet, NtCalls
<1>5. AsItShould'
  BY <1>1, <1>2, <1>4 DEF NtInv, AsItShould
<1> QED
  BY <1>3, <1>5 DEF NtInv

\* A timer record with another flag.
LEMMA NtArms ==
  ASSUME NtAssumption, NtInv, NEW i \in Timers, NEW is_armed \in BOOLEAN,
         NEW periodic \in BOOLEAN, is_armed => nt.timer[i].os,
         NEW expired \in SUBSET Expirations, NEW handled \in Expirations \cup {None},
         nt' = [nt EXCEPT !.timer[i] = [@ EXCEPT !.armed = is_armed, !.periodic = periodic],
                          !.expired = expired, !.handled = handled]
  PROVE  NtInv'
<1> DEFINE new == [nt.timer[i] EXCEPT !.armed = is_armed, !.periodic = periodic]
<1>1. NtInv /\ nt \in NtStates /\ nt.timer[i] \in TimerRecords
  BY DEF NtInv, NtStates
<1>2. /\ new \in TimerRecords /\ new.armed = is_armed /\ new.os = nt.timer[i].os
      /\ new.thread = nt.timer[i].thread
  BY <1>1 DEF TimerRecords
<1>3. nt' = [nt EXCEPT !.timer[i] = new, !.expired = expired, !.handled = handled]
  BY <1>1 DEF NtStates
<1> HIDE DEF new
<1>4. /\ nt' \in NtStates /\ nt'.free = nt.free /\ nt'.list = nt.list /\ nt'.call = nt.call
      /\ nt'.timer = [nt.timer EXCEPT ![i] = new]
  <2>1. nt \in NtStates /\ new \in TimerRecords
    BY <1>1, <1>2
  <2> QED
    BY ONLY <1>3, <2>1, i \in Timers, expired \in SUBSET Expirations,
       handled \in Expirations \cup {None} DEF NtStates
<1>5. \A j \in Timers : nt'.timer[j] = IF j = i THEN new ELSE nt.timer[j]
  BY <1>1, <1>4 DEF NtStates
<1>6. \A j \in Timers : nt.timer[j].armed => nt.timer[j].os
  BY <1>1 DEF NtInv, AsItShould
<1>7. \A j \in Timers : /\ nt'.timer[j].os = nt.timer[j].os
                        /\ nt'.timer[j].thread = nt.timer[j].thread
                        /\ nt'.timer[j].armed => nt.timer[j].os
  BY <1>2, <1>5, <1>6
<1> QED
  BY <1>4, <1>7, NtStays

LEMMA NtFlags ==
  ASSUME NtAssumption, NtInv,
         \/ \E t \in Threads, i \in Timers :
              \/ NT!StartAtOnce(t, i) \/ NT!Stop(t, i)
              \/ \E periodic \in BOOLEAN : NT!Start(t, i, periodic)
         \/ \E i \in Timers : NT!Expire(i)
         \/ \E x \in nt.expired : NT!Take(x)
         \/ NT!Handle
  PROVE  NtInv'
<1>1. /\ NtInv /\ nt \in NtStates /\ nt.timer \in [Timers -> TimerRecords]
      /\ nt.expired \in SUBSET Expirations /\ nt.handled \in Expirations \cup {None}
      /\ \A i \in Timers : /\ nt.timer[i].armed \in BOOLEAN /\ nt.timer[i].periodic \in BOOLEAN
                           /\ nt.timer[i].armed => nt.timer[i].os
  BY DEF NtInv, NtStates, TimerRecords, AsItShould
<1>2. ASSUME NEW t \in Threads, NEW i \in Timers, NEW periodic \in BOOLEAN,
             NT!Start(t, i, periodic)
      PROVE  NtInv'
  <2>1. nt.timer[i].os
    <3>1. Contains(nt.list[t], i)
      BY <1>2, SameOperators DEF NT!Start, NT!Calls
    <3>2. nt.list[t] \in Seq(Timers)
      BY <1>1 DEF NtStates
    <3>3. i \in NtList(t)
      BY <3>1, <3>2 DEF Contains, NtList, ToSet
    <3> QED BY <1>1, <3>3 DEF NtInv, AsItShould
  <2>2. nt' = [nt EXCEPT !.timer[i] = [@ EXCEPT !.armed = TRUE, !.periodic = periodic],
                         !.expired = nt.expired, !.handled = nt.handled]
    BY <1>1, <1>2 DEF NT!Start, NtStates, TimerRecords
  <2> QED BY <1>1, <2>1, <2>2, NtArms
<1>3. ASSUME NEW t \in Threads, NEW i \in Timers, NT!StartAtOnce(t, i) \/ NT!Stop(t, i)
      PROVE  NtInv'
  <2>1. nt' = [nt EXCEPT !.timer[i] = [@ EXCEPT !.armed = FALSE,
                                                !.periodic = nt.timer[i].periodic],
                         !.expired = nt.expired, !.handled = nt.handled]
    BY <1>1, <1>3 DEF NT!StartAtOnce, NT!Stop, NtStates, TimerRecords
  <2> QED BY <1>1, <2>1, NtArms
<1>4. ASSUME NEW i \in Timers, NT!Expire(i)
      PROVE  NtInv'
  <2> DEFINE x == [timer |-> i, thread |-> nt.timer[i].thread, event |-> nt.timer[i].event]
             is_armed == nt.platform = "win32" \/ nt.timer[i].periodic
             expired == nt.expired \cup {x}
  <2>1. expired \in SUBSET Expirations /\ is_armed \in BOOLEAN /\ nt.timer[i].os
    <3>1. nt.timer[i] \in TimerRecords /\ nt.timer[i].armed
      BY <1>1, <1>4 DEF NT!Expire
    <3>2. x \in Expirations
      BY <3>1 DEF Expirations, TimerRecords
    <3>3. is_armed \in BOOLEAN
      BY <1>1
    <3> QED BY <1>1, <3>1, <3>2, <3>3
  <2>2. nt' = [nt EXCEPT !.expired = expired, !.timer[i].armed = is_armed]
    BY <1>4 DEF NT!Expire
  <2> HIDE DEF expired, is_armed
  <2>3. nt' = [nt EXCEPT !.timer[i] = [@ EXCEPT !.armed = is_armed,
                                                !.periodic = nt.timer[i].periodic],
                         !.expired = expired, !.handled = nt.handled]
    BY <1>1, <2>2 DEF NtStates, TimerRecords
  <2> QED BY <1>1, <2>1, <2>3, NtArms
<1>5. ASSUME NEW x \in nt.expired, NT!Take(x)
      PROVE  NtInv'
  <2>1. x \in Expirations /\ nt.expired \ {x} \in SUBSET Expirations
    BY <1>1
  <2>2. nt' = [nt EXCEPT !.handled = x, !.expired = nt.expired \ {x}]
    BY <1>5 DEF NT!Take
  <2>3. /\ nt' \in NtStates /\ nt'.free = nt.free /\ nt'.list = nt.list /\ nt'.call = nt.call
        /\ nt'.timer = nt.timer
    BY <1>1, <2>1, <2>2 DEF NtStates
  <2> QED BY <1>1, <2>3, NtStays
<1>6. ASSUME NT!Handle
      PROVE  NtInv'
  <2> DEFINE i == nt.handled.timer
             is_armed == nt.timer[i].armed /\ (nt.platform = "qnx" \/ nt.timer[i].periodic)
  <2>1. i \in Timers
    BY <1>1, <1>6 DEF NT!Handle, Expirations
  <2>2. nt' = [nt EXCEPT !.handled = None, !.timer[i].armed = is_armed]
    BY <1>1, <1>6 DEF NT!Handle, NtStates, TimerRecords
  <2>3. is_armed \in BOOLEAN /\ (is_armed => nt.timer[i].os)
    BY <1>1, <2>1
  <2> HIDE DEF i, is_armed
  <2>4. nt' = [nt EXCEPT !.timer[i] = [@ EXCEPT !.armed = is_armed,
                                                !.periodic = nt.timer[i].periodic],
                         !.expired = nt.expired, !.handled = None]
    BY <1>1, <2>1, <2>2 DEF NtStates, TimerRecords
  <2> QED BY <1>1, <2>1, <2>3, <2>4, NtArms
<1> QED
  BY <1>2, <1>3, <1>4, <1>5, <1>6

\* What the invariant says of the places.
LEMMA NtPlaces ==
  ASSUME NtAssumption, NtInv
  PROVE  /\ nt \in NtStates /\ nt.free \in Seq(Timers) /\ nt.timer \in [Timers -> TimerRecords]
         /\ nt.list \in [Threads -> Seq(Timers)] /\ nt.call \in [Threads -> NtCalls]
         /\ NtFree \subseteq Timers /\ IsInjective(nt.free)
         /\ \A t \in Threads :
              /\ nt.list[t] \in Seq(Timers) /\ IsInjective(nt.list[t])
              /\ NtList(t) \subseteq Timers /\ InHand(t) \in Timers \cup {None}
              /\ nt.call[t].pc # "idle" => InHand(t) \in Timers
              /\ nt.call[t].pc \in {"idle", "bind", "destroy", "return"}
<1>1. nt \in NtStates /\ AtOnePlace /\ AsItShould
  BY DEF NtInv
<1>2. /\ nt.free \in Seq(Timers) /\ nt.timer \in [Timers -> TimerRecords]
      /\ nt.list \in [Threads -> Seq(Timers)] /\ nt.call \in [Threads -> NtCalls]
  BY <1>1 DEF NtStates
<1> QED
  BY <1>1, <1>2 DEF AtOnePlace, AsItShould, NtFree, NtList, InHand, ToSet, NtCalls

LEMMA NtCreate ==
  ASSUME NtAssumption, NtInv, NEW t \in Threads, NEW e \in Events, NT!Create(t, e)
  PROVE  NtInv'
<1> DEFINE i == Head(nt.free)
           new == [NT!Free EXCEPT !.event = e, !.thread = t, !.os = TRUE]
           in_call == [pc |-> "bind", timer |-> i]
<1>1. /\ NtInv /\ nt \in NtStates /\ nt.free \in Seq(Timers) /\ IsInjective(nt.free)
      /\ nt.call \in [Threads -> NtCalls] /\ nt.timer \in [Timers -> TimerRecords]
      /\ nt.call[t].pc = "idle" /\ nt.free # <<>>
      /\ \/ nt' = [nt EXCEPT !.failed = TRUE]
         \/ nt' = [nt EXCEPT !.free = Tail(@), !.call[t] = in_call, !.timer[i] = new]
  BY NtPlaces DEF NT!Create
<1>2. /\ i \in NtFree /\ i \in Timers /\ Tail(nt.free) \in Seq(Timers)
      /\ IsInjective(Tail(nt.free)) /\ ToSet(Tail(nt.free)) = NtFree \ {i}
  BY <1>1, TailOf DEF NtFree
<1>3. /\ new \in TimerRecords /\ new.os /\ ~ new.armed /\ new.thread = t
      /\ in_call \in NtCalls /\ in_call.pc = "bind" /\ in_call.timer = i
  BY <1>2 DEF NT!Free, TimerRecords, NtCalls
<1> HIDE DEF new, in_call, i
<1>4. CASE nt' = [nt EXCEPT !.failed = TRUE]
  <2>1. /\ nt' \in NtStates /\ nt'.free = nt.free /\ nt'.list = nt.list /\ nt'.call = nt.call
        /\ nt'.timer = nt.timer
    BY <1>1, <1>4 DEF NtStates
  <2>2. \A j \in Timers : nt.timer[j].armed => nt.timer[j].os
    BY <1>1 DEF NtInv, AsItShould
  <2> QED BY <1>1, <2>1, <2>2, NtStays
<1>5. CASE nt' = [nt EXCEPT !.free = Tail(@), !.call[t] = in_call, !.timer[i] = new]
  <2>1. /\ nt' \in NtStates /\ nt'.free = Tail(nt.free) /\ nt'.list = nt.list
        /\ nt'.call = [nt.call EXCEPT ![t] = in_call]
        /\ nt'.timer = [nt.timer EXCEPT ![i] = new]
    BY ONLY <1>1, <1>2, <1>3, <1>5, t \in Threads DEF NtStates
  <2>2. /\ \A u \in Threads : nt'.call[u] = IF u = t THEN in_call ELSE nt.call[u]
        /\ \A j \in Timers : nt'.timer[j] = IF j = i THEN new ELSE nt.timer[j]
    BY ONLY <1>1, <2>1, t \in Threads
  <2>3. /\ NtFree' = NtFree \ {i} /\ InHand(t)' = i
        /\ \A u \in Threads : NtList(u)' = NtList(u) /\ (u # t => InHand(u)' = InHand(u))
    BY <1>2, <1>3, <2>1, <2>2 DEF NtFree, NtList, InHand
  <2>4. AtOnePlace'
    BY <1>1, <1>2, <2>1, <2>3 DEF NtInv, AtOnePlace, AsItShould, NtAssumption
  <2>5. \A u \in Threads : i \notin NtList(u) /\ InHand(u) # i
    BY <1>1, <1>2 DEF NtInv, AtOnePlace
  <2>6. AsItShould'
    <3>1. \A u \in Threads : NtList(u) \subseteq Timers /\ InHand(u) \in Timers \cup {None}
                             /\ (nt.call[u].pc # "idle" => InHand(u) \in Timers)
      BY NtPlaces
    <3>2. NtFree \subseteq Timers
      BY NtPlaces
    <3>3. \A u \in Threads :
           /\ \A j \in NtList(u)' : nt'.timer[j].os /\ nt'.timer[j].thread = u
           /\ nt'.call[u].pc = "idle" <=> InHand(u)' = None
           /\ nt'.call[u].pc = "bind" => nt'.timer[InHand(u)'].os
                                         /\ nt'.timer[InHand(u)'].thread = u
           /\ nt'.call[u].pc = "return" => ~ nt'.timer[InHand(u)'].os
      <4> SUFFICES ASSUME NEW u \in Threads
                   PROVE  /\ \A j \in NtList(u)' : nt'.timer[j].os /\ nt'.timer[j].thread = u
                          /\ nt'.call[u].pc = "idle" <=> InHand(u)' = None
                          /\ nt'.call[u].pc = "bind" => nt'.timer[InHand(u)'].os
                                                        /\ nt'.timer[InHand(u)'].thread = u
                          /\ nt'.call[u].pc = "return" => ~ nt'.timer[InHand(u)'].os
        OBVIOUS
      <4>1. \A j \in NtList(u)' : nt'.timer[j].os /\ nt'.timer[j].thread = u
        BY <1>1, <2>2, <2>3, <2>5, <3>1 DEF NtInv, AsItShould
      <4>2. CASE u = t
        BY <1>2, <1>3, <2>2, <2>3, <4>1, <4>2 DEF NtAssumption
      <4>3. CASE u # t
        BY <1>1, <2>2, <2>3, <2>5, <3>1, <4>1, <4>3 DEF NtInv, AsItShould
      <4> QED BY <4>2, <4>3
    <3>4. \A j \in Timers : nt'.timer[j].armed => nt'.timer[j].os
      BY <1>1, <1>3, <2>2 DEF NtInv, AsItShould
    <3>5. \A j \in NtFree' : ~ nt'.timer[j].os
      BY <1>1, <2>2, <2>3, <3>2 DEF NtInv, AsItShould
    <3> QED BY <3>3, <3>4, <3>5 DEF AsItShould
  <2> QED BY <2>1, <2>4, <2>6 DEF NtInv
<1> QED
  BY <1>1, <1>4, <1>5

\* A step of thread t with the timers that no other thread has.
OwnStep(t, touched) ==
  /\ nt' \in NtStates /\ AtOnePlace' /\ t \in Threads /\ touched \in SUBSET Timers
  /\ \A u \in Threads \ {t} : /\ nt'.call[u] = nt.call[u] /\ NtList(u)' = NtList(u)
                              /\ touched \cap NtList(u) = {} /\ InHand(u) \notin touched
  /\ \A j \in Timers \ touched : nt'.timer[j] = nt.timer[j]
  /\ \A j \in touched : nt'.timer[j].armed => nt'.timer[j].os
  /\ \A j \in NtFree' : ~ nt'.timer[j].os
  /\ \A j \in NtList(t)' : nt'.timer[j].os /\ nt'.timer[j].thread = t
  /\ (nt'.call[t].pc = "idle") <=> (InHand(t)' = None)
  /\ nt'.call[t].pc = "bind" => nt'.timer[InHand(t)'].os /\ nt'.timer[InHand(t)'].thread = t
  /\ nt'.call[t].pc = "return" => ~ nt'.timer[InHand(t)'].os

LEMMA NtOthers ==
  ASSUME NtAssumption, NtInv, NEW t, NEW touched, OwnStep(t, touched)
  PROVE  NtInv'
<1>1. \A j \in Timers : nt'.timer[j].armed => nt'.timer[j].os
  BY DEF NtInv, AsItShould, OwnStep
<1>2. ASSUME NEW u \in Threads
      PROVE  /\ \A j \in NtList(u)' : nt'.timer[j].os /\ nt'.timer[j].thread = u
             /\ (nt'.call[u].pc = "idle") <=> (InHand(u)' = None)
             /\ nt'.call[u].pc = "bind" => nt'.timer[InHand(u)'].os
                                           /\ nt'.timer[InHand(u)'].thread = u
             /\ nt'.call[u].pc = "return" => ~ nt'.timer[InHand(u)'].os
  <2>1. CASE u = t
    BY <2>1 DEF OwnStep
  <2>2. CASE u # t
    <3>1. /\ nt'.call[u] = nt.call[u] /\ NtList(u)' = NtList(u) /\ InHand(u)' = InHand(u)
          /\ touched \cap NtList(u) = {} /\ InHand(u) \notin touched
      BY <2>2 DEF InHand, OwnStep
    <3>2. /\ NtList(u) \subseteq Timers
          /\ nt.call[u].pc # "idle" => InHand(u) \in Timers
      BY NtPlaces
    <3>3. /\ \A j \in NtList(u) : nt.timer[j].os /\ nt.timer[j].thread = u
          /\ (nt.call[u].pc = "idle") <=> (InHand(u) = None)
          /\ nt.call[u].pc = "bind" => nt.timer[InHand(u)].os /\ nt.timer[InHand(u)].thread = u
          /\ nt.call[u].pc = "return" => ~ nt.timer[InHand(u)].os
      BY DEF NtInv, AsItShould
    <3>4. \A j \in NtList(u) : nt'.timer[j] = nt.timer[j]
      BY <3>1, <3>2 DEF OwnStep
    <3>5. nt.call[u].pc # "idle" => nt'.timer[InHand(u)] = nt.timer[InHand(u)]
      BY <3>1, <3>2 DEF OwnStep
    <3> QED BY ONLY <3>1, <3>3, <3>4, <3>5
  <2> QED BY <2>1, <2>2
<1>3. \A j \in NtFree' : ~ nt'.timer[j].os
  BY DEF OwnStep
<1>4. AsItShould'
  BY ONLY <1>1, <1>2, <1>3 DEF AsItShould
<1> QED
  BY <1>4 DEF NtInv, OwnStep

LEMMA FirstPut ==
  ASSUME NEW S, NEW i \in S, NEW q \in Seq(S), IsInjective(q), i \notin ToSet(q)
  PROVE  /\ <<i>> \o q \in Seq(S) /\ IsInjective(<<i>> \o q)
         /\ ToSet(<<i>> \o q) = {i} \cup ToSet(q)
<1> DEFINE one == <<i>>
<1>1. one \in Seq(S) /\ DOMAIN one = {1} /\ one[1] = i
  OBVIOUS
<1>2. IsInjective(one) /\ ToSet(one) = {i}
  BY <1>1 DEF IsInjective, ToSet
<1> HIDE DEF one
<1>3. ToSet(one) \cap ToSet(q) = {}
  BY <1>2
<1>4. one \o q \in Seq(S) /\ IsInjective(one \o q) /\ ToSet(one \o q) = ToSet(one) \cup ToSet(q)
  BY <1>1, <1>2, <1>3, ConcatOf
<1> QED BY <1>2, <1>4 DEF one

LEMMA NtBind ==
  ASSUME NtAssumption, NtInv, NEW t \in Threads, NT!Bind(t)
  PROVE  NtInv'
<1> DEFINE i == InHand(t)
           longer == <<i>> \o nt.list[t]
<1>1. /\ NtInv /\ nt \in NtStates /\ nt.call \in [Threads -> NtCalls]
      /\ nt.list \in [Threads -> Seq(Timers)] /\ nt.list[t] \in Seq(Timers)
      /\ IsInjective(nt.list[t]) /\ nt.call[t].pc = "bind" /\ i \in Timers
      /\ nt' = [nt EXCEPT !.list[t] = longer, !.call[t] = NT!Idle]
  BY NtPlaces DEF NT!Bind, InHand
<1>2. \A u \in Threads : i \notin NtList(u)
  BY <1>1 DEF NtInv, AtOnePlace
<1>3. longer \in Seq(Timers) /\ IsInjective(longer) /\ ToSet(longer) = {i} \cup NtList(t)
  BY <1>1, <1>2, FirstPut DEF NtList
<1>4. NT!Idle \in NtCalls /\ NT!Idle.pc = "idle" /\ NT!Idle.timer = None
  BY DEF NT!Idle, NtCalls
<1> HIDE DEF longer
<1>5. /\ nt' \in NtStates /\ nt'.free = nt.free /\ nt'.timer = nt.timer
      /\ nt'.list = [nt.list EXCEPT ![t] = longer]
      /\ nt'.call = [nt.call EXCEPT ![t] = NT!Idle]
  BY ONLY <1>1, <1>3, <1>4, t \in Threads DEF NtStates
<1>6. /\ NtFree' = NtFree /\ InHand(t)' = None /\ nt'.call[t].pc = "idle"
      /\ NtList(t)' = {i} \cup NtList(t) /\ nt'.list[t] = longer
      /\ \A u \in Threads \ {t} : /\ nt'.list[u] = nt.list[u] /\ NtList(u)' = NtList(u)
                                  /\ nt'.call[u] = nt.call[u] /\ InHand(u)' = InHand(u)
  BY <1>1, <1>3, <1>4, <1>5 DEF NtFree, NtList, InHand
<1>7. AtOnePlace'
  <2>1. AtOnePlace /\ NtFree \subseteq Timers
    BY NtPlaces DEF NtInv
  <2>2. i = InHand(t) /\ i # None /\ i \notin NtFree
    BY <1>1, <2>1 DEF NtAssumption, AtOnePlace
  <2> HIDE DEF i
  <2>3. \A u \in Threads : None \notin NtList(u) /\ None \notin NtFree
    BY NtPlaces DEF NtAssumption
  <2>4. IsInjective(nt'.free)
    BY <1>5, <2>1 DEF AtOnePlace
  <2>5. \A u \in Threads : /\ IsInjective(nt'.list[u]) /\ NtList(u)' \cap NtFree' = {}
                           /\ InHand(u)' \notin NtFree'
    BY <1>3, <1>6, <2>1, <2>2, <2>3 DEF AtOnePlace
  <2>6. \A u \in Threads, v \in Threads :
          /\ u # v => NtList(u)' \cap NtList(v)' = {}
          /\ InHand(u)' \notin NtList(v)'
          /\ u # v /\ InHand(u)' # None => InHand(u)' # InHand(v)'
    BY <1>2, <1>6, <2>1, <2>2, <2>3 DEF AtOnePlace
  <2>7. \A j \in Timers :
          j \in NtFree' \/ \E u \in Threads : j \in NtList(u)' \/ InHand(u)' = j
    BY <1>6, <2>1, <2>2 DEF AtOnePlace
  <2> QED BY ONLY <2>4, <2>5, <2>6, <2>7 DEF AtOnePlace
<1>8. /\ \A j \in NtFree' : ~ nt'.timer[j].os
      /\ \A j \in NtList(t)' : nt'.timer[j].os /\ nt'.timer[j].thread = t
  BY <1>1, <1>5, <1>6 DEF NtInv, AsItShould
<1>9. OwnStep(t, {})
  BY <1>5, <1>6, <1>7, <1>8 DEF OwnStep
<1> QED
  BY <1>9, NtOthers

LEMMA NtUnbind ==
  ASSUME NtAssumption, NtInv, NEW t \in Threads, NEW i \in Timers, NT!Unbind(t, i)
  PROVE  NtInv'
<1> DEFINE shorter == RemoveFirst(nt.list[t], i)
           in_call == [pc |-> "destroy", timer |-> i]
<1>1. /\ NtInv /\ nt \in NtStates /\ nt.call \in [Threads -> NtCalls]
      /\ nt.list \in [Threads -> Seq(Timers)] /\ nt.list[t] \in Seq(Timers)
      /\ IsInjective(nt.list[t]) /\ nt.call[t].pc = "idle" /\ Contains(nt.list[t], i)
      /\ nt' = [nt EXCEPT !.list[t] = shorter, !.call[t] = in_call]
  BY NtPlaces, SameOperators DEF NT!Unbind, NT!Calls
<1>2. i \in NtList(t)
  BY <1>1 DEF Contains, NtList, ToSet
<1>3. shorter \in Seq(Timers) /\ IsInjective(shorter) /\ ToSet(shorter) = NtList(t) \ {i}
  BY <1>1, <1>2, RemoveFirstProperties DEF NtList
<1>4. in_call \in NtCalls /\ in_call.pc = "destroy" /\ in_call.timer = i
  BY DEF NtCalls
<1> HIDE DEF shorter, in_call
<1>5. /\ nt' \in NtStates /\ nt'.free = nt.free /\ nt'.timer = nt.timer
      /\ nt'.list = [nt.list EXCEPT ![t] = shorter]
      /\ nt'.call = [nt.call EXCEPT ![t] = in_call]
  BY ONLY <1>1, <1>3, <1>4, t \in Threads DEF NtStates
<1>6. /\ NtFree' = NtFree /\ InHand(t)' = i /\ nt'.call[t].pc = "destroy"
      /\ NtList(t)' = NtList(t) \ {i} /\ nt'.list[t] = shorter
      /\ \A u \in Threads \ {t} : /\ nt'.list[u] = nt.list[u] /\ NtList(u)' = NtList(u)
                                  /\ nt'.call[u] = nt.call[u] /\ InHand(u)' = InHand(u)
  BY <1>1, <1>3, <1>4, <1>5 DEF NtFree, NtList, InHand
<1>7. AtOnePlace'
  <2>1. AtOnePlace /\ InHand(t) = None
    BY <1>1 DEF NtInv, AsItShould
  <2>2. i \notin NtFree /\ \A u \in Threads : InHand(u) # i /\ (u # t => i \notin NtList(u))
    BY <1>2, <2>1 DEF AtOnePlace
  <2>3. i # None
    BY DEF NtAssumption
  <2>4. IsInjective(nt'.free)
    BY <1>5, <2>1 DEF AtOnePlace
  <2>5. \A u \in Threads : /\ IsInjective(nt'.list[u]) /\ NtList(u)' \cap NtFree' = {}
                           /\ InHand(u)' \notin NtFree'
    BY <1>3, <1>6, <2>1, <2>2 DEF AtOnePlace
  <2>6. \A u \in Threads, v \in Threads :
          /\ u # v => NtList(u)' \cap NtList(v)' = {}
          /\ InHand(u)' \notin NtList(v)'
          /\ u # v /\ InHand(u)' # None => InHand(u)' # InHand(v)'
    BY <1>6, <2>1, <2>2 DEF AtOnePlace
  <2>7. ASSUME NEW j \in Timers
        PROVE  j \in NtFree' \/ \E u \in Threads : j \in NtList(u)' \/ InHand(u)' = j
    <3>1. CASE j = i
      BY <1>6, <3>1
    <3>2. CASE j # i
      <4>1. j \in NtFree \/ \E u \in Threads : j \in NtList(u) \/ InHand(u) = j
        BY <2>1 DEF AtOnePlace
      <4>2. \A u \in Threads : j \in NtList(u) => j \in NtList(u)'
        BY <1>6, <3>2
      <4>3. \A u \in Threads : InHand(u) = j => InHand(u)' = j
        BY <1>6, <2>1, NtAssumption DEF NtAssumption
      <4> QED BY <1>6, <4>1, <4>2, <4>3
    <3> QED BY <3>1, <3>2
  <2> QED BY ONLY <2>4, <2>5, <2>6, <2>7 DEF AtOnePlace
<1>8. /\ \A j \in NtFree' : ~ nt'.timer[j].os
      /\ \A j \in NtList(t)' : nt'.timer[j].os /\ nt'.timer[j].thread = t
      /\ i # None
  BY <1>1, <1>5, <1>6 DEF NtInv, AsItShould, NtAssumption
<1>9. OwnStep(t, {})
  BY <1>5, <1>6, <1>7, <1>8 DEF OwnStep
<1> QED
  BY <1>9, NtOthers

LEMMA NtDestroy ==
  ASSUME NtAssumption, NtInv, NEW t \in Threads, NT!Destroy(t)
  PROVE  NtInv'
<1> DEFINE i == InHand(t)
           new == [nt.timer[i] EXCEPT !.os = FALSE, !.armed = FALSE]
           in_call == [nt.call[t] EXCEPT !.pc = "return"]
<1>1. /\ NtInv /\ nt \in NtStates /\ nt.call \in [Threads -> NtCalls]
      /\ nt.timer \in [Timers -> TimerRecords] /\ nt.call[t].pc = "destroy" /\ i \in Timers
  BY NtPlaces DEF NT!Destroy, InHand
<1>2. /\ nt.timer[i] \in TimerRecords /\ new \in TimerRecords /\ new.os = FALSE
      /\ new.armed = FALSE /\ new.thread = nt.timer[i].thread
      /\ in_call \in NtCalls /\ in_call.pc = "return" /\ in_call.timer = i
  <2>1. nt.timer[i] \in TimerRecords /\ nt.call[t] \in NtCalls
    BY <1>1
  <2>2. in_call \in NtCalls /\ in_call.pc = "return" /\ in_call.timer = i
    BY <2>1 DEF NtCalls, InHand
  <2> HIDE DEF i
  <2>3. /\ new \in TimerRecords /\ new.os = FALSE
        /\ new.armed = FALSE /\ new.thread = nt.timer[i].thread
    BY <2>1 DEF TimerRecords
  <2> QED BY <2>1, <2>2, <2>3
<1>3. nt' = [nt EXCEPT !.timer[i] = new, !.call[t] = in_call]
  <2>1. nt' = [NT!Destroyed(nt, i) EXCEPT !.call[t].pc = "return"]
    BY DEF NT!Destroy, InHand
  <2>2. NT!Destroyed(nt, i) = [nt EXCEPT !.timer[i] = new]
    BY <1>1 DEF NT!Destroyed, NtStates, TimerRecords
  <2>3. nt' = [[nt EXCEPT !.timer[i] = new] EXCEPT !.call[t].pc = "return"]
    BY <2>1, <2>2
  <2> HIDE DEF new
  <2> QED BY <1>1, <2>3 DEF NtStates
<1> HIDE DEF new, in_call, i
<1>4. /\ nt' \in NtStates /\ nt'.free = nt.free /\ nt'.list = nt.list
      /\ nt'.timer = [nt.timer EXCEPT ![i] = new]
      /\ nt'.call = [nt.call EXCEPT ![t] = in_call]
  BY ONLY <1>1, <1>2, <1>3, t \in Threads DEF NtStates
<1>5. /\ NtFree' = NtFree /\ InHand(t)' = i /\ nt'.call[t].pc = "return" /\ nt'.timer[i] = new
      /\ \A u \in Threads : NtList(u)' = NtList(u) /\ nt'.list[u] = nt.list[u]
      /\ \A u \in Threads \ {t} : nt'.call[u] = nt.call[u] /\ InHand(u)' = InHand(u)
      /\ \A j \in Timers \ {i} : nt'.timer[j] = nt.timer[j]
  BY <1>1, <1>2, <1>4 DEF NtFree, NtList, InHand
<1>6. i = InHand(t) /\ i # None /\ AtOnePlace
  BY <1>1 DEF i, NtInv, NtAssumption
<1>7. i \notin NtFree /\ \A u \in Threads : i \notin NtList(u) /\ (u # t => InHand(u) # i)
  BY <1>6 DEF AtOnePlace
<1>8. AtOnePlace'
  BY <1>4, <1>5, <1>6 DEF AtOnePlace
<1>9. /\ \A j \in NtFree' : ~ nt'.timer[j].os
      /\ \A j \in NtList(t)' : nt'.timer[j].os /\ nt'.timer[j].thread = t
  <2>1. NtFree \subseteq Timers /\ NtList(t) \subseteq Timers
    BY NtPlaces
  <2> QED BY <1>5, <1>7, <2>1 DEF NtInv, AsItShould
<1> DEFINE touched == {i}
<1>10. /\ touched \in SUBSET Timers
       /\ \A u \in Threads \ {t} : /\ nt'.call[u] = nt.call[u] /\ NtList(u)' = NtList(u)
                                   /\ touched \cap NtList(u) = {} /\ InHand(u) \notin touched
       /\ \A j \in Timers \ touched : nt'.timer[j] = nt.timer[j]
       /\ \A j \in touched : nt'.timer[j].armed => nt'.timer[j].os
  BY <1>1, <1>2, <1>5, <1>7
<1>11. (nt'.call[t].pc = "idle") <=> (InHand(t)' = None)
  BY <1>5, <1>6
<1>12. nt'.call[t].pc = "return" /\ ~ nt'.timer[InHand(t)'].os
  BY <1>2, <1>5
<1> HIDE DEF touched
<1>13. OwnStep(t, touched)
  BY <1>4, <1>8, <1>9, <1>10, <1>11, <1>12 DEF OwnStep
<1> QED
  BY <1>13, NtOthers

LEMMA NtReturn ==
  ASSUME NtAssumption, NtInv, NEW t \in Threads, NT!Return(t)
  PROVE  NtInv'
<1> DEFINE i == InHand(t)
           new == [nt.timer[i] EXCEPT !.event = None]
           longer == <<i>> \o nt.free
<1>1. /\ NtInv /\ nt \in NtStates /\ nt.call \in [Threads -> NtCalls]
      /\ nt.free \in Seq(Timers) /\ IsInjective(nt.free)
      /\ nt.timer \in [Timers -> TimerRecords] /\ nt.call[t].pc = "return" /\ i \in Timers
  BY NtPlaces DEF NT!Return, InHand
<1>2. /\ nt.timer[i] \in TimerRecords /\ new \in TimerRecords /\ new.os = nt.timer[i].os
      /\ new.armed = nt.timer[i].armed
      /\ NT!Idle \in NtCalls /\ NT!Idle.pc = "idle" /\ NT!Idle.timer = None
  BY <1>1 DEF TimerRecords, NtCalls, NT!Idle
<1>3. nt' = [nt EXCEPT !.timer[i] = new, !.free = longer, !.call[t] = NT!Idle]
  BY <1>1 DEF NT!Return, InHand, NtStates
<1>4. /\ i # None /\ i \notin NtFree /\ ~ nt.timer[i].os /\ ~ nt.timer[i].armed
      /\ \A u \in Threads : i \notin NtList(u) /\ (u # t => InHand(u) # i)
  BY <1>1 DEF NtInv, NtAssumption, AtOnePlace, AsItShould
<1>5. longer \in Seq(Timers) /\ IsInjective(longer) /\ ToSet(longer) = {i} \cup NtFree
  BY <1>1, <1>4, FirstPut DEF NtFree
<1>6. i = InHand(t)
  OBVIOUS
<1> HIDE DEF new, longer, i
<1>7. /\ nt' \in NtStates /\ nt'.free = longer /\ nt'.list = nt.list
      /\ nt'.timer = [nt.timer EXCEPT ![i] = new]
      /\ nt'.call = [nt.call EXCEPT ![t] = NT!Idle]
  BY ONLY <1>1, <1>2, <1>3, <1>5, t \in Threads DEF NtStates
<1>8. /\ NtFree' = {i} \cup NtFree /\ InHand(t)' = None /\ nt'.call[t].pc = "idle"
      /\ nt'.timer[i] = new
      /\ \A u \in Threads : NtList(u)' = NtList(u) /\ nt'.list[u] = nt.list[u]
      /\ \A u \in Threads \ {t} : nt'.call[u] = nt.call[u] /\ InHand(u)' = InHand(u)
      /\ \A j \in Timers \ {i} : nt'.timer[j] = nt.timer[j]
  BY <1>1, <1>2, <1>5, <1>7 DEF NtFree, NtList, InHand
<1>9. AtOnePlace'
  <2>1. AtOnePlace /\ \A u \in Threads : NtList(u) \subseteq Timers
    BY NtPlaces DEF NtInv
  <2>2. None \notin NtFree' /\ \A u \in Threads : None \notin NtList(u)
    BY <1>1, <1>8, <2>1, NtPlaces DEF NtAssumption
  <2> QED BY <1>4, <1>5, <1>6, <1>7, <1>8, <2>1, <2>2 DEF AtOnePlace
<1>10. /\ \A j \in NtFree' : ~ nt'.timer[j].os
       /\ \A j \in NtList(t)' : nt'.timer[j].os /\ nt'.timer[j].thread = t
  <2>1. NtFree \subseteq Timers /\ NtList(t) \subseteq Timers
    BY NtPlaces
  <2> QED BY <1>2, <1>4, <1>8, <2>1 DEF NtInv, AsItShould
<1> DEFINE touched == {i}
<1>11. /\ touched \in SUBSET Timers
       /\ \A u \in Threads \ {t} : /\ nt'.call[u] = nt.call[u] /\ NtList(u)' = NtList(u)
                                   /\ touched \cap NtList(u) = {} /\ InHand(u) \notin touched
       /\ \A j \in Timers \ touched : nt'.timer[j] = nt.timer[j]
       /\ \A j \in touched : nt'.timer[j].armed => nt'.timer[j].os
  BY <1>1, <1>2, <1>4, <1>8
<1> HIDE DEF touched
<1>12. OwnStep(t, touched)
  BY <1>7, <1>8, <1>9, <1>10, <1>11 DEF OwnStep
<1> QED
  BY <1>12, NtOthers

LEMMA NtThreadEnds ==
  ASSUME NtAssumption, NtInv, NEW t \in Threads, NT!ThreadEnds(t)
  PROVE  NtInv'
<1> DEFINE mine == nt.list[t]
           touched == NtList(t)
           longer == Reverse(mine) \o nt.free
           unarmed == [i \in Timers |-> IF Contains(mine, i)
                                       THEN [nt.timer[i] EXCEPT !.os = FALSE, !.armed = FALSE]
                                       ELSE nt.timer[i]]
<1>1. /\ NtInv /\ nt \in NtStates /\ nt.call \in [Threads -> NtCalls]
      /\ nt.free \in Seq(Timers) /\ IsInjective(nt.free)
      /\ nt.list \in [Threads -> Seq(Timers)] /\ mine \in Seq(Timers) /\ IsInjective(mine)
      /\ nt.timer \in [Timers -> TimerRecords] /\ nt.call[t].pc = "idle"
      /\ touched \subseteq Timers
  BY NtPlaces DEF NT!ThreadEnds
<1>2. \A i \in Timers : Contains(mine, i) <=> i \in touched
  BY <1>1 DEF Contains, NtList, ToSet
<1>3. /\ unarmed \in [Timers -> TimerRecords]
      /\ \A i \in touched : ~ unarmed[i].os /\ ~ unarmed[i].armed
      /\ \A i \in Timers \ touched : unarmed[i] = nt.timer[i]
  BY <1>1, <1>2 DEF TimerRecords
<1>4. longer \in Seq(Timers) /\ IsInjective(longer) /\ ToSet(longer) = touched \cup NtFree
  <2>1. /\ Reverse(mine) \in Seq(Timers) /\ IsInjective(Reverse(mine))
        /\ ToSet(Reverse(mine)) = touched
    BY <1>1, ReverseOf DEF NtList
  <2>2. touched \cap ToSet(nt.free) = {}
    BY DEF NtInv, AtOnePlace, NtFree
  <2> QED BY <1>1, <2>1, <2>2, ConcatOf DEF NtFree
<1>5. nt' = [nt EXCEPT !.timer = unarmed, !.free = longer, !.list[t] = <<>>]
  <2>1. \A i \in Timers : NT!Contains(mine, i) = Contains(mine, i)
    BY SameOperators
  <2>2. NT!Reverse(mine) = Reverse(mine)
    BY SameOperators
  <2> QED BY <1>1, <2>1, <2>2 DEF NT!ThreadEnds, NtStates
<1>6. touched = NtList(t)
  OBVIOUS
<1> HIDE DEF longer, unarmed, mine, touched
<1>7. /\ nt' \in NtStates /\ nt'.free = longer /\ nt'.list = [nt.list EXCEPT ![t] = <<>>]
      /\ nt'.timer = unarmed /\ nt'.call = nt.call
  <2>1. <<>> \in Seq(Timers) /\ nt \in NtStates /\ unarmed \in [Timers -> TimerRecords]
        /\ longer \in Seq(Timers)
    BY <1>1, <1>3, <1>4
  <2> QED BY ONLY <1>5, <2>1, t \in Threads DEF NtStates
<1>8. /\ NtFree' = touched \cup NtFree /\ NtList(t)' = {} /\ IsInjective(nt'.list[t])
      /\ \A u \in Threads : nt'.call[u] = nt.call[u] /\ InHand(u)' = InHand(u)
      /\ \A u \in Threads \ {t} : NtList(u)' = NtList(u) /\ nt'.list[u] = nt.list[u]
  <2>1. ToSet(<<>>) = {} /\ IsInjective(<<>>)
    BY DEF ToSet, IsInjective
  <2>2. nt'.list[t] = <<>> /\ \A u \in Threads \ {t} : nt'.list[u] = nt.list[u]
    BY <1>1, <1>7
  <2> QED BY <1>1, <1>4, <1>7, <2>1, <2>2 DEF NtFree, NtList, InHand
<1>9. AtOnePlace /\ AsItShould
  BY DEF NtInv
<1>10. /\ touched \cap NtFree = {} /\ InHand(t) = None
       /\ \A u \in Threads : InHand(u) \notin touched /\ (u # t => touched \cap NtList(u) = {})
  BY <1>1, <1>6, <1>9 DEF AtOnePlace, AsItShould
<1>11. AtOnePlace'
  BY <1>4, <1>6, <1>7, <1>8, <1>9, <1>10 DEF AtOnePlace
<1>12. \A j \in NtFree' : ~ nt'.timer[j].os
  <2>1. NtFree \subseteq Timers
    BY NtPlaces
  <2> QED BY <1>3, <1>7, <1>8, <1>9, <2>1 DEF AsItShould
<1>13. \A j \in touched : nt'.timer[j].armed => nt'.timer[j].os
  BY <1>3, <1>7
<1>14. \A j \in Timers \ touched : nt'.timer[j] = nt.timer[j]
  BY <1>3, <1>7
<1>15. \A u \in Threads \ {t} : /\ nt'.call[u] = nt.call[u] /\ NtList(u)' = NtList(u)
                                 /\ touched \cap NtList(u) = {} /\ InHand(u) \notin touched
  BY <1>8, <1>10
<1>16. nt'.call[t].pc = "idle" /\ InHand(t)' = None /\ NtList(t)' = {}
  BY <1>1, <1>8, <1>10
<1>17. OwnStep(t, touched)
  BY <1>1, <1>7, <1>11, <1>12, <1>13, <1>14, <1>15, <1>16 DEF OwnStep
<1> QED
  BY <1>17, NtOthers

LEMMA NtNext ==
  ASSUME NtAssumption, NtInv, [NT!Next]_(NT!vars)
  PROVE  NtInv'
<1>1. CASE NT!Next
  <2>1. \/ \E t \in Threads, e \in Events : NT!Create(t, e)
        \/ \E t \in Threads : NT!Bind(t) \/ NT!Destroy(t) \/ NT!Return(t) \/ NT!ThreadEnds(t)
        \/ \E t \in Threads, i \in Timers : NT!Unbind(t, i)
        \/ \E t \in Threads, i \in Timers :
             \/ NT!StartAtOnce(t, i) \/ NT!Stop(t, i)
             \/ \E periodic \in BOOLEAN : NT!Start(t, i, periodic)
        \/ \E i \in Timers : NT!Expire(i)
        \/ \E x \in nt.expired : NT!Take(x)
        \/ NT!Handle
    BY <1>1 DEF NT!Next
  <2> QED
    BY <2>1, NtCreate, NtBind, NtDestroy, NtReturn, NtThreadEnds, NtUnbind, NtFlags
<1>2. CASE UNCHANGED NT!vars
  BY <1>2, NtStays DEF NT!vars, NtInv, AsItShould
<1> QED
  BY <1>1, <1>2

\* A sequence without repetition has an element once or not at all.
LEMMA FoundOnce ==
  ASSUME NEW S, NEW q \in Seq(S), IsInjective(q), NEW where, NEW i
  PROVE  /\ i \notin ToSet(q) => NT!Found(where, q, i) = {}
         /\ i \in ToSet(q) => \E k \in 1..Len(q) : NT!Found(where, q, i) = {<<where, k>>}
<1>1. DOMAIN q = 1..Len(q)
  OBVIOUS
<1>2. ASSUME i \notin ToSet(q) PROVE NT!Found(where, q, i) = {}
  BY <1>1, <1>2 DEF NT!Found, ToSet
<1>3. ASSUME i \in ToSet(q)
      PROVE  \E k \in 1..Len(q) : NT!Found(where, q, i) = {<<where, k>>}
  <2>1. PICK k \in 1..Len(q) : q[k] = i
    BY <1>1, <1>3 DEF ToSet
  <2>2. {n \in DOMAIN q : q[n] = i} = {k}
    BY <1>1, <2>1 DEF IsInjective
  <2> QED BY <2>1, <2>2 DEF NT!Found
<1> QED BY <1>2, <1>3

LEMMA NtOnePlace ==
  ASSUME NtAssumption, NtInv, NEW i \in Timers
  PROVE  \E p : NT!Places(i) = {p}
<1> DEFINE found == UNION {NT!Found(<<t>>, nt.list[t], i) : t \in Threads}
           hands == {<<<<t>>, 0>> : t \in {u \in Threads : nt.call[u].timer = i}}
<1>1. NT!Places(i) = NT!Found(None, nt.free, i) \cup found \cup hands
  BY DEF NT!Places
<1>2. AtOnePlace /\ i # None
  BY DEF NtInv, NtAssumption
<1>3. /\ i \notin NtFree => NT!Found(None, nt.free, i) = {}
      /\ i \in NtFree => \E k : NT!Found(None, nt.free, i) = {<<None, k>>}
  BY NtPlaces, FoundOnce DEF NtFree
<1>4. \A t \in Threads :
        /\ i \notin NtList(t) => NT!Found(<<t>>, nt.list[t], i) = {}
        /\ i \in NtList(t) => \E k : NT!Found(<<t>>, nt.list[t], i) = {<<<<t>>, k>>}
  BY NtPlaces, FoundOnce DEF NtList
<1>5. hands = {<<<<t>>, 0>> : t \in {u \in Threads : InHand(u) = i}}
  BY DEF InHand
<1> HIDE DEF hands
<1>6. CASE i \in NtFree
  <2>1. \A t \in Threads : i \notin NtList(t) /\ InHand(t) # i
    BY <1>2, <1>6 DEF AtOnePlace
  <2>2. found = {} /\ hands = {}
    BY <1>4, <1>5, <2>1
  <2> QED BY <1>1, <1>3, <1>6, <2>2
<1>7. ASSUME NEW t \in Threads, i \in NtList(t)
      PROVE  \E p : NT!Places(i) = {p}
  <2>1. i \notin NtFree /\ \A u \in Threads : InHand(u) # i /\ (u # t => i \notin NtList(u))
    BY <1>2, <1>7 DEF AtOnePlace
  <2>2. hands = {} /\ NT!Found(None, nt.free, i) = {}
    BY <1>3, <1>5, <2>1
  <2>3. \A u \in Threads \ {t} : NT!Found(<<u>>, nt.list[u], i) = {}
    BY <1>4, <2>1
  <2> DEFINE at(u) == NT!Found(<<u>>, nt.list[u], i)
  <2> HIDE DEF at
  <2>4. found = UNION {at(u) : u \in Threads}
    BY DEF at
  <2>5. \A u \in Threads \ {t} : at(u) = {}
    BY <2>3 DEF at
  <2>6. found = at(t)
    BY ONLY <2>4, <2>5, t \in Threads
  <2> QED BY <1>1, <1>4, <1>7, <2>2, <2>6 DEF at
<1>8. ASSUME NEW t \in Threads, InHand(t) = i
      PROVE  \E p : NT!Places(i) = {p}
  <2>1. /\ i \notin NtFree /\ \A u \in Threads : i \notin NtList(u)
        /\ \A u \in Threads : InHand(u) = i => u = t
    BY <1>2, <1>8 DEF AtOnePlace
  <2>2. found = {} /\ NT!Found(None, nt.free, i) = {}
    BY <1>3, <1>4, <2>1
  <2>3. {u \in Threads : InHand(u) = i} = {t}
    BY <1>8, <2>1
  <2>4. hands = {<<<<t>>, 0>>}
    BY <1>5, <2>3
  <2> QED BY <1>1, <2>2, <2>4
<1> QED
  BY <1>2, <1>6, <1>7, <1>8 DEF AtOnePlace

LEMMA NtInvImplies ==
  ASSUME NtAssumption, NtInv
  PROVE  NT!EachTimerOnce /\ NT!FreeIsQuiet
<1>1. \A i \in Timers : NT!Cardinality(NT!Places(i)) = 1
  <2> SUFFICES ASSUME NEW i \in Timers PROVE NT!Cardinality(NT!Places(i)) = 1
    OBVIOUS
  <2>1. PICK p : NT!Places(i) = {p}
    BY NtOnePlace
  <2> QED BY <2>1, FS_Singleton, SameOperators
<1>2. \A i \in Timers, t \in Threads : NT!Contains(nt.list[t], i) => nt.timer[i].thread = t
  <2> SUFFICES ASSUME NEW i \in Timers, NEW t \in Threads, NT!Contains(nt.list[t], i)
               PROVE  nt.timer[i].thread = t
    OBVIOUS
  <2>1. Contains(nt.list[t], i) /\ nt.list[t] \in Seq(Timers)
    BY SameOperators, NtPlaces
  <2>2. i \in NtList(t)
    BY <2>1 DEF Contains, NtList, ToSet
  <2> QED BY <2>2 DEF NtInv, AsItShould
<1>3. NT!FreeIsQuiet
  <2> SUFFICES ASSUME NEW i \in Timers
               PROVE  /\ nt.timer[i].armed => nt.timer[i].os
                      /\ NT!Contains(nt.free, i) => ~ nt.timer[i].os
    BY DEF NT!FreeIsQuiet
  <2>1. NT!Contains(nt.free, i) => i \in NtFree
    <3>1. NT!Contains(nt.free, i) => Contains(nt.free, i)
      BY SameOperators
    <3>2. nt.free \in Seq(Timers)
      BY NtPlaces
    <3> QED BY <3>1, <3>2 DEF Contains, NtFree, ToSet
  <2> QED BY <2>1 DEF NtInv, AsItShould
<1> QED
  BY <1>1, <1>2, <1>3 DEF NT!EachTimerOnce

(* EachTimerAtOnePlace: with any number of threads and timers, on QNX as    *)
(* on Windows, whatever calls, expirations and ends of threads fall         *)
(* between the steps of one another, a timer is in the free list, in the    *)
(* list of the thread it belongs to or in the hands of one call, once and   *)
(* nowhere else, and a free one has no timer of the system that could       *)
(* expire (xsal_i_timer.c, xsal_create_timer.c, xsal_destroy_timer.c).      *)
THEOREM EachTimerAtOnePlace ==
  ASSUME NtAssumption
  PROVE  NT!Spec => [](NT!EachTimerOnce /\ NT!FreeIsQuiet)
<1>1. NT!Init => NtInv
  BY NtInit
<1>2. NtInv /\ [NT!Next]_(NT!vars) => NtInv'
  BY NtNext
<1>3. NtInv => NT!EachTimerOnce /\ NT!FreeIsQuiet
  BY NtInvImplies
<1> QED
  BY <1>1, <1>2, <1>3, PTL DEF NT!Spec

-----------------------------------------------------------------------------
(* The debug levels of an application, their file and the tools *)

CONSTANTS Tools, Modules, LvlHi, LvlLo, Default, NamedBy, CommandLines, Files
VARIABLE dbg

DG == INSTANCE DebugLevels



\* A command line is a sequence; of its options only the numbers are used here.
DebugAssumption ==
  /\ Modules \in Nat \ {0} /\ LvlHi \in Nat /\ LvlLo \in Nat
  /\ Default \in [1 .. Modules -> DG!Levels] /\ Files \subseteq Seq(Nat) \cup {None}
  /\ None \notin Seq(Nat)
  /\ \A line \in CommandLines : \E n \in Nat : DOMAIN line = 1 .. n

LevelLists == [1 .. Modules -> Nat]

Requests == {DG!Parsed(line) : line \in {l \in CommandLines : DG!Configures(l)}}

ToolStates ==
  [pc : {"idle", "get", "read", "set", "write", "done"}, connected : BOOLEAN,
   request : Requests \cup {None}, levels : LevelLists, at : Nat]

DebugStates ==
  [file : Seq(Nat) \cup {None}, app : {"down", "loading", "saving", "up"}, levels : LevelLists,
   isa : Int, read : Seq(Nat), at : Nat, client : Tools \cup {None},
   tool : [Tools -> ToolStates], meant : SUBSET LevelLists, torn : BOOLEAN, stale : BOOLEAN]

\* The levels of s are the first ones of l.
Begins(s, l) == \A i \in 1 .. Len(s) : s[i] = l[i]

Acceptable(file) == DG!RightSize(file) /\ DG!InRange(file)

ToolOK(r, file) ==
  /\ r.pc \in {"get", "read", "set", "write"} => r.request \in Requests
  /\ r.pc \in {"get", "set"} => r.at = 0
  /\ r.pc \in {"read", "write"} => file # None
  /\ r.pc = "write" => r.at <= Modules

AppOK(d) ==
  /\ d.app \in {"loading", "saving"} => d.file # None
  /\ d.app = "saving" => d.at <= Modules /\ d.client \in Tools

\* Who writes the file is alone with it as long as it is not torn, ...
OneWriter(d) ==
  ~ d.torn =>
    \A t \in Tools : d.tool[t].pc = "write" =>
      /\ d.app \notin {"loading", "saving"}
      /\ \A u \in Tools : d.tool[u].pc = "write" => u = t

\* ... and no tool writes it while the application trusts it.
NobodyElse(d) ==
  ~ d.stale /\ d.app # "down" => \A t \in Tools : d.tool[t].pc # "write"

\* What the application has read or written so far.
HalfWay(d) ==
  ~ d.torn \/ ~ d.stale =>
    /\ d.app = "loading" => DG!RightSize(d.file) /\ Begins(d.read, d.file)
    /\ d.app = "saving" => /\ Begins(d.file, d.levels)
                           /\ Len(d.file) = d.at \/ (d.at = Modules /\ Len(d.file) = 0)

ToolHalfWay(r, file, meant) ==
  r.pc = "write" => Begins(file, r.levels) /\ Len(file) = r.at /\ r.levels \in meant

Meant(d) ==
  /\ Default \in d.meant
  /\ ~ d.torn => /\ d.levels \in d.meant
                 /\ Acceptable(d.file) => d.file \in d.meant
                 /\ \A t \in Tools : ToolHalfWay(d.tool[t], d.file, d.meant)

Kept(d) == d.app = "up" /\ ~ d.stale /\ Acceptable(d.file) => d.file = d.levels

Guarded(d) ==
  /\ \A t \in Tools : ToolOK(d.tool[t], d.file)
  /\ AppOK(d) /\ OneWriter(d) /\ NobodyElse(d) /\ HalfWay(d) /\ Meant(d) /\ Kept(d)

DebugInv == dbg \in DebugStates /\ Guarded(dbg)

LEMMA GreatestIs ==
  ASSUME NEW b \in Nat, NEW T \in SUBSET (0 .. b), T # {}
  PROVE  DG!Max(T) \in T /\ \A y \in T : DG!Max(T) >= y
<1> DEFINE Above == {b - x : x \in T}
<1>1. Above \in SUBSET Nat /\ Above # {}
  <2>1. \A x \in T : x \in 0 .. b
    OBVIOUS
  <2>2. \A x \in 0 .. b : b - x \in Nat
    OBVIOUS
  <2> QED BY <2>1, <2>2
<1>2. PICK z \in Above : \A y \in Above : z <= y
  BY <1>1, LeastExists
<1>3. PICK x \in T : z = b - x
  OBVIOUS
<1>4. \A y \in T : x >= y
  <2> SUFFICES ASSUME NEW y \in T PROVE x >= y
    OBVIOUS
  <2>1. b - x <= b - y
    BY <1>2, <1>3
  <2> QED BY <2>1
<1> HIDE DEF Above
<1> QED BY <1>4 DEF DG!Max

LEMMA OverriddenType ==
  ASSUME DebugAssumption, NEW l \in LevelLists, NEW r \in Requests
  PROVE  DG!Overridden(l, r) \in LevelLists
<1>1. r.default = None \/ r.default \in Nat
  <2>1. PICK line \in CommandLines : DG!Configures(line) /\ r = DG!Parsed(line)
    BY DEF Requests
  <2> DEFINE D == {i \in DOMAIN line : line[i].kind = "default"}
  <2>2. r.default = IF D = {} THEN None ELSE line[DG!Max(D)].level
    BY <2>1 DEF DG!Parsed
  <2>3. PICK n \in Nat : DOMAIN line = 1 .. n
    BY DEF DebugAssumption
  <2>4. CASE D # {}
    <3>1. D \in SUBSET (0 .. n)
      BY <2>3
    <3>2. DG!Max(D) \in D
      <4> HIDE DEF D
      <4> QED BY <2>4, <3>1, GreatestIs
    <3>3. line[DG!Max(D)].level \in DG!Levels
      BY <2>1, <3>2 DEF DG!Configures
    <3> QED BY <2>2, <2>4, <3>3 DEF DG!Levels
  <2> QED BY <2>2, <2>4
<1>2. ASSUME NEW m \in 1 .. Modules, NEW named,
             named = {k \in DG!Levels : m \in r.list[k]}
      PROVE  (IF named # {} THEN DG!Max(named)
              ELSE IF r.default # None THEN r.default ELSE l[m]) \in Nat
  <2>1. LvlLo \in Nat /\ named \in SUBSET (0 .. LvlLo)
    BY <1>2 DEF DebugAssumption, DG!Levels
  <2>2. named # {} => DG!Max(named) \in Nat
    <3>1. named # {} => DG!Max(named) \in named
      BY <2>1, GreatestIs
    <3>2. \A x \in named : x \in Nat
      BY <2>1
    <3> QED BY <3>1, <3>2
  <2>3. l[m] \in Nat
    BY DEF LevelLists
  <2> QED BY <1>1, <2>2, <2>3
<1> QED BY <1>2 DEF DG!Overridden, LevelLists

\* A tool that does not write the file changes nothing but itself.
LEMMA QuietTool ==
  ASSUME DebugInv, NEW t \in Tools, NEW r \in ToolStates, ToolOK(r, dbg.file), r.pc # "write",
         dbg' = [dbg EXCEPT !.tool[t] = r]
  PROVE  DebugInv'
<1>1. PICK d : d = [dbg EXCEPT !.tool[t] = r]
  OBVIOUS
<1>2. dbg \in DebugStates /\ Guarded(dbg)
  BY DEF DebugInv
<1>3. /\ d \in DebugStates /\ d.file = dbg.file /\ d.app = dbg.app /\ d.levels = dbg.levels
      /\ d.read = dbg.read /\ d.at = dbg.at /\ d.client = dbg.client
      /\ d.meant = dbg.meant /\ d.torn = dbg.torn /\ d.stale = dbg.stale
      /\ \A u \in Tools : d.tool[u] = IF u = t THEN r ELSE dbg.tool[u]
  BY ONLY <1>1, <1>2, t \in Tools, r \in ToolStates DEF DebugStates
<1>4. \A u \in Tools : d.tool[u].pc = "write" => u # t /\ d.tool[u] = dbg.tool[u]
  BY <1>3
<1>5. (\A u \in Tools : ToolOK(d.tool[u], d.file)) /\ AppOK(d)
  BY <1>2, <1>3 DEF Guarded, AppOK
<1>6. OneWriter(d) /\ NobodyElse(d)
  BY <1>2, <1>3, <1>4 DEF Guarded, OneWriter, NobodyElse
<1>7. HalfWay(d) /\ Kept(d)
  BY <1>2, <1>3 DEF Guarded, HalfWay, Kept
<1>8. Meant(d)
  BY <1>2, <1>3, <1>4 DEF Guarded, Meant, ToolHalfWay
<1> QED BY <1>1, <1>3, <1>5, <1>6, <1>7, <1>8 DEF DebugInv, Guarded

LEMMA DebugInitially == DebugAssumption /\ DG!Init => DebugInv
<1> SUFFICES ASSUME DebugAssumption, DG!Init PROVE DebugInv
  OBVIOUS
<1>1. PICK f \in Files :
        dbg = [file |-> f, app |-> "down", levels |-> Default, isa |-> 0, read |-> <<>>,
               at |-> 0, client |-> None, tool |-> [t \in Tools |-> DG!Idle],
               meant |-> {Default} \cup {g \in {f} : DG!RightSize(f) /\ DG!InRange(f)},
               torn |-> FALSE, stale |-> FALSE]
  BY DEF DG!Init
<1>2. DG!Idle \in ToolStates /\ DG!Idle.pc = "idle"
  BY DEF DG!Idle, DG!Keep, ToolStates, LevelLists, DebugAssumption
<1>3. Default \in LevelLists
  BY DEF DebugAssumption, LevelLists, DG!Levels
<1>4. f \in Seq(Nat) \cup {None}
  BY DEF DebugAssumption
<1>5. PICK m : m = {Default} \cup {g \in {f} : DG!RightSize(f) /\ DG!InRange(f)}
  OBVIOUS
<1>6. m \in SUBSET LevelLists
  <2>1. DG!RightSize(f) => f \in LevelLists
    BY <1>4, DebugAssumption DEF DG!RightSize, LevelLists, DebugAssumption
  <2> QED BY <1>3, <1>5, <2>1
<1>7. dbg \in DebugStates
  BY <1>1, <1>2, <1>3, <1>4, <1>5, <1>6 DEF DebugStates
<1>8. \A t \in Tools : dbg.tool[t] = DG!Idle
  BY <1>1
<1>9. Acceptable(f) => f \in m
  BY <1>5 DEF Acceptable
<1>10. Default \in m
  BY <1>5
<1>11. /\ dbg.file = f /\ dbg.app = "down" /\ dbg.levels = Default /\ dbg.meant = m
  BY <1>1, <1>5
<1> QED BY <1>2, <1>7, <1>8, <1>9, <1>10, <1>11
        DEF DebugInv, Guarded, ToolOK, AppOK, OneWriter, NobodyElse, HalfWay, Meant, Kept,
            ToolHalfWay

\* What a tool is, in the words of its record.
LEMMA ToolFields ==
  ASSUME DebugInv, NEW t \in Tools
  PROVE  /\ dbg \in DebugStates /\ dbg.tool \in [Tools -> ToolStates]
         /\ dbg.tool[t] \in ToolStates /\ ToolOK(dbg.tool[t], dbg.file)
         /\ dbg.tool[t].levels \in LevelLists /\ dbg.tool[t].at \in Nat
         /\ dbg.tool[t].connected \in BOOLEAN /\ dbg.tool[t].request \in Requests \cup {None}
<1>1. /\ dbg \in DebugStates /\ dbg.tool \in [Tools -> ToolStates]
      /\ dbg.tool[t] \in ToolStates /\ ToolOK(dbg.tool[t], dbg.file)
  BY DEF DebugInv, DebugStates, Guarded
<1> QED BY <1>1 DEF ToolStates

\* The tool goes on with these levels, at the start of the file.
LEMMA DecidedStep ==
  ASSUME DebugAssumption, DebugInv, NEW t \in Tools, NEW l \in LevelLists,
         dbg.tool[t].pc \in {"get", "read"},
         dbg' = [dbg EXCEPT !.tool[t] =
                   [dbg.tool[t] EXCEPT !.pc = "set",
                                       !.levels = DG!Overridden(l, dbg.tool[t].request),
                                       !.at = 0]]
  PROVE  DebugInv'
<1>1. dbg.tool[t].request \in Requests
  BY ToolFields DEF ToolOK
<1>2. PICK new \in LevelLists : new = DG!Overridden(l, dbg.tool[t].request)
  BY <1>1, OverriddenType
<1>3. PICK r : r = [dbg.tool[t] EXCEPT !.pc = "set", !.levels = new, !.at = 0]
  OBVIOUS
<1>4. dbg.tool[t] \in ToolStates
  BY ToolFields
<1>5. r \in ToolStates /\ r.pc = "set" /\ r.at = 0 /\ r.request = dbg.tool[t].request
  BY ONLY <1>3, <1>4, new \in LevelLists DEF ToolStates
<1>6. ToolOK(r, dbg.file) /\ r.pc # "write"
  BY <1>1, <1>5 DEF ToolOK
<1> QED BY <1>2, <1>3, <1>5, <1>6, QuietTool

LEMMA DoneStep ==
  ASSUME DebugInv, NEW t \in Tools, NEW n \in Nat,
         dbg' = [dbg EXCEPT !.tool[t] = [dbg.tool[t] EXCEPT !.pc = "done", !.at = n]]
  PROVE  DebugInv'
<1>1. PICK r : r = [dbg.tool[t] EXCEPT !.pc = "done", !.at = n]
  OBVIOUS
<1>2. dbg.tool[t] \in ToolStates
  BY ToolFields
<1>3. r \in ToolStates /\ r.pc = "done"
  BY ONLY <1>1, <1>2, n \in Nat DEF ToolStates
<1>4. ToolOK(r, dbg.file) /\ r.pc # "write"
  BY <1>3 DEF ToolOK
<1> QED BY <1>1, <1>3, <1>4, QuietTool

\* The same for a tool that is at the start of the file.
LEMMA DecidedAtStart ==
  ASSUME DebugAssumption, DebugInv, NEW t \in Tools, NEW l \in LevelLists,
         dbg.tool[t].pc = "get", dbg' = DG!Decided(dbg, t, l)
  PROVE  DebugInv'
<1>1. PICK new : new = DG!Overridden(l, dbg.tool[t].request)
  OBVIOUS
<1>2. dbg' = [dbg EXCEPT !.tool[t] = [dbg.tool[t] EXCEPT !.pc = "set", !.levels = new]]
  <2>1. dbg' = [dbg EXCEPT !.tool[t].pc = "set", !.tool[t].levels = new]
    BY <1>1 DEF DG!Decided
  <2>2. dbg \in DebugStates /\ dbg.tool \in [Tools -> ToolStates] /\ dbg.tool[t] \in ToolStates
    BY ToolFields
  <2> QED BY ONLY <2>1, <2>2, t \in Tools DEF DebugStates, ToolStates
<1>3. dbg.tool[t] \in ToolStates /\ dbg.tool[t].at = 0
  BY ToolFields DEF ToolOK
<1>4. [dbg.tool[t] EXCEPT !.pc = "set", !.levels = new]
        = [dbg.tool[t] EXCEPT !.pc = "set", !.levels = new, !.at = 0]
  BY ONLY <1>3 DEF ToolStates
<1> QED BY <1>1, <1>2, <1>4, DecidedStep

\* Ended, wherever in the file it is.
LEMMA EndsTool ==
  ASSUME DebugInv, NEW t \in Tools, dbg' = [dbg EXCEPT !.tool[t].pc = "done"]
  PROVE  DebugInv'
<1>1. dbg.tool[t] \in ToolStates /\ dbg.tool[t].at \in Nat
  BY ToolFields
<1>2. PICK n \in Nat : n = dbg.tool[t].at
  BY <1>1
<1>3. [dbg.tool[t] EXCEPT !.pc = "done"] = [dbg.tool[t] EXCEPT !.pc = "done", !.at = n]
  BY ONLY <1>1, <1>2 DEF ToolStates
<1>4. dbg' = [dbg EXCEPT !.tool[t] = [dbg.tool[t] EXCEPT !.pc = "done"]]
  OBVIOUS
<1>5. dbg' = [dbg EXCEPT !.tool[t] = [dbg.tool[t] EXCEPT !.pc = "done", !.at = n]]
  BY <1>3, <1>4
<1> QED BY <1>2, <1>5, DoneStep

LEMMA DefaultType == DebugAssumption => Default \in LevelLists
BY DEF DebugAssumption, LevelLists, DG!Levels

LEMMA DebugBegin ==
  ASSUME DebugInv, NEW t \in Tools, NEW line \in CommandLines, NEW connected \in BOOLEAN,
         DebugAssumption, DG!Begin(t, line, connected)
  PROVE  DebugInv'
<1>1. PICK q \in Requests : q = DG!Parsed(line)
  BY DEF DG!Begin, Requests
<1>2. PICK r : r = [DG!Idle EXCEPT !.pc = "get", !.connected = connected, !.request = q]
  OBVIOUS
<1>3. r \in ToolStates /\ r.pc = "get" /\ r.request = q /\ r.at = 0
  BY <1>1, <1>2 DEF DG!Idle, DG!Keep, ToolStates, LevelLists, DebugAssumption
<1>4. ToolOK(r, dbg.file) /\ r.pc # "write"
  BY <1>1, <1>3 DEF ToolOK
<1>5. dbg' = [dbg EXCEPT !.tool[t] = r]
  BY <1>1, <1>2 DEF DG!Begin
<1> QED BY <1>3, <1>4, <1>5, QuietTool

LEMMA DebugGet ==
  ASSUME DebugAssumption, DebugInv, NEW t \in Tools, DG!Get(t)
  PROVE  DebugInv'
<1>1. dbg.levels \in LevelLists
  BY DEF DebugInv, DebugStates
<1> QED BY <1>1, DecidedAtStart DEF DG!Get, DG!Asks

LEMMA DebugGetFails ==
  ASSUME DebugAssumption, DebugInv, NEW t \in Tools, DG!GetFails(t)
  PROVE  DebugInv'
<1>1. CASE DG!RightSize(dbg.file)
  <2>1. dbg.tool[t] \in ToolStates /\ ToolOK(dbg.tool[t], dbg.file) /\ dbg.tool[t].pc = "get"
    BY ToolFields DEF DG!GetFails
  <2>2. PICK r : r = [dbg.tool[t] EXCEPT !.pc = "read"]
    OBVIOUS
  <2>3. r \in ToolStates /\ r.pc = "read" /\ r.request = dbg.tool[t].request
    BY ONLY <2>1, <2>2 DEF ToolStates
  <2>4. ToolOK(r, dbg.file) /\ r.pc # "write"
    BY <1>1, <2>1, <2>3 DEF ToolOK, DG!RightSize
  <2>5. dbg' = [dbg EXCEPT !.tool[t] = r]
    <3>1. dbg' = [dbg EXCEPT !.tool[t].pc = "read"]
      BY <1>1 DEF DG!GetFails
    <3> QED BY <2>2, <3>1
  <2> QED BY <2>3, <2>4, <2>5, QuietTool
<1>2. CASE ~ DG!RightSize(dbg.file) /\ dbg.tool[t].request.static
  BY <1>2, DefaultType, DecidedAtStart DEF DG!GetFails, DG!WithoutFile
<1>3. CASE ~ DG!RightSize(dbg.file) /\ ~ dbg.tool[t].request.static
  BY <1>3, EndsTool DEF DG!GetFails, DG!WithoutFile
<1> QED BY <1>1, <1>2, <1>3

LEMMA DebugReadFile ==
  ASSUME DebugAssumption, DebugInv, NEW t \in Tools, DG!ReadFile(t)
  PROVE  DebugInv'
<1>1. /\ dbg.tool[t] \in ToolStates /\ ToolOK(dbg.tool[t], dbg.file)
      /\ dbg.tool[t].pc = "read" /\ dbg.tool[t].levels \in LevelLists
  BY ToolFields DEF DG!ReadFile
<1> DEFINE at == dbg.tool[t].at
<1>2. at \in Nat
  BY ToolFields
<1>3. PICK file \in Seq(Nat) : file = dbg.file
  BY <1>1 DEF ToolOK, DebugInv, DebugStates
<1>4. CASE Len(file) <= at
  <2>1. PICK new : new = DG!Overridden(dbg.tool[t].levels, dbg.tool[t].request)
    OBVIOUS
  <2>2. dbg' = [[dbg EXCEPT !.tool[t].pc = "set", !.tool[t].levels = new]
                  EXCEPT !.tool[t].at = 0]
    BY <1>2, <1>3, <1>4, <2>1 DEF DG!ReadFile, DG!Decided
  <2>3. dbg \in DebugStates /\ dbg.tool \in [Tools -> ToolStates]
    BY ToolFields
  <2>4. PICK r : r = [dbg.tool[t] EXCEPT !.pc = "set", !.levels = new]
    OBVIOUS
  <2>5. [dbg EXCEPT !.tool[t].pc = "set", !.tool[t].levels = new] = [dbg EXCEPT !.tool[t] = r]
    BY ONLY <1>1, <2>3, <2>4, t \in Tools DEF DebugStates, ToolStates
  <2>6. dbg' = [dbg EXCEPT !.tool[t] = [r EXCEPT !.at = 0]]
    <3>1. dbg' = [[dbg EXCEPT !.tool[t] = r] EXCEPT !.tool[t].at = 0]
      BY <2>2, <2>5
    <3> QED BY ONLY <2>3, <3>1, t \in Tools DEF DebugStates
  <2>7. [r EXCEPT !.at = 0] = [dbg.tool[t] EXCEPT !.pc = "set", !.levels = new, !.at = 0]
    BY ONLY <1>1, <2>4 DEF ToolStates
  <2> QED BY <1>1, <2>1, <2>6, <2>7, DecidedStep
<1>5. CASE ~ (Len(file) <= at)
  <2>1. PICK more \in DG!ReadMore(at) :
          dbg' = [dbg EXCEPT !.tool[t].at = @ + Len(more),
                             !.tool[t].levels = [m \in 1 .. Modules |->
                               IF m \in at + 1 .. at + Len(more) THEN more[m - at] ELSE @[m]]]
    <3>1. ~ (Len(dbg.file) <= dbg.tool[t].at)
      BY <1>3, <1>5
    <3> QED BY <3>1, Zenon DEF DG!ReadFile
  <2> HIDE DEF at
  <2>2. PICK k \in at + 1 .. Len(file) : more = SubSeq(file, at + 1, k)
    BY <1>3 DEF DG!ReadMore
  <2>3. k \in Nat /\ k > at /\ k <= Len(file)
    BY <1>2
  <2>4. /\ more \in Seq(Nat) /\ Len(more) = k - at
        /\ \A i \in 1 .. k - at : more[i] \in Nat
    <3>1. \A i \in at + 1 .. k : file[i] \in Nat
      BY <1>2, <2>3
    <3>2. more \in Seq(Nat) /\ Len(more) = k - (at + 1) + 1
      BY <1>2, <2>2, <2>3, <3>1, SubSeqProperties
    <3>3. Len(more) = k - at
      BY <1>2, <2>3, <3>2
    <3> QED BY <3>2, <3>3
  <2>5. PICK l : l = [m \in 1 .. Modules |-> IF m \in at + 1 .. k THEN more[m - at]
                                             ELSE dbg.tool[t].levels[m]]
    OBVIOUS
  <2>6. l \in LevelLists
    <3>1. ASSUME NEW m \in 1 .. Modules
          PROVE  (IF m \in at + 1 .. k THEN more[m - at] ELSE dbg.tool[t].levels[m]) \in Nat
      <4>1. m \in at + 1 .. k => m - at \in 1 .. k - at
        BY <1>2, <2>3 DEF DebugAssumption
      <4>2. dbg.tool[t].levels[m] \in Nat
        BY <1>1 DEF LevelLists
      <4> QED BY <2>4, <4>1, <4>2
    <3> QED BY <2>5, <3>1 DEF LevelLists
  <2>7. dbg' = [dbg EXCEPT !.tool[t] = [dbg.tool[t] EXCEPT !.at = k, !.levels = l]]
    <3>1. at + Len(more) = k
      BY <1>2, <2>3, <2>4
    <3>2. dbg' = [dbg EXCEPT !.tool[t].at = at + Len(more),
                             !.tool[t].levels = [m \in 1 .. Modules |->
                               IF m \in at + 1 .. at + Len(more) THEN more[m - at] ELSE @[m]]]
      BY <2>1 DEF at
    <3>3. dbg' = [dbg EXCEPT !.tool[t].at = k, !.tool[t].levels = l]
      BY <2>5, <3>1, <3>2
    <3>4. dbg \in DebugStates /\ dbg.tool \in [Tools -> ToolStates]
      BY ToolFields
    <3> QED BY ONLY <1>1, <3>3, <3>4, t \in Tools DEF DebugStates, ToolStates
  <2>8. PICK r : r = [dbg.tool[t] EXCEPT !.at = k, !.levels = l]
    OBVIOUS
  <2>9. r \in ToolStates /\ r.pc = "read" /\ r.request = dbg.tool[t].request
    BY ONLY <1>1, <2>3, <2>6, <2>8 DEF ToolStates
  <2>10. ToolOK(r, dbg.file) /\ r.pc # "write"
    BY <1>1, <2>9 DEF ToolOK
  <2> QED BY <2>7, <2>8, <2>9, <2>10, QuietTool
<1> QED BY <1>4, <1>5

LEMMA DebugReadFileEnd ==
  ASSUME DebugAssumption, DebugInv, NEW t \in Tools, DG!ReadFileEnd(t)
  PROVE  DebugInv'
<1>1. dbg.tool[t].pc = "read" /\ dbg.tool[t].levels \in LevelLists /\ Default \in LevelLists
  BY ToolFields, DefaultType DEF DG!ReadFileEnd
<1>2. dbg \in DebugStates /\ dbg.tool \in [Tools -> ToolStates] /\ dbg.tool[t] \in ToolStates
  BY ToolFields
<1>3. ASSUME NEW l \in LevelLists, dbg' = DG!Decided([dbg EXCEPT !.tool[t].at = 0], t, l)
      PROVE  DebugInv'
  <2>1. PICK new : new = DG!Overridden(l, dbg.tool[t].request)
    OBVIOUS
  <2>2. dbg' = [[dbg EXCEPT !.tool[t].at = 0] EXCEPT !.tool[t].pc = "set",
                                                     !.tool[t].levels = new]
    BY <1>3, <2>1 DEF DG!Decided
  <2>3. dbg' = [dbg EXCEPT !.tool[t] = [dbg.tool[t] EXCEPT !.pc = "set", !.levels = new,
                                                           !.at = 0]]
    <3>1. PICK r : r = [dbg.tool[t] EXCEPT !.at = 0]
      OBVIOUS
    <3>2. PICK e : e = [dbg EXCEPT !.tool[t] = r]
      OBVIOUS
    <3>3. [dbg EXCEPT !.tool[t].at = 0] = e
      BY ONLY <1>2, <3>1, <3>2, t \in Tools DEF DebugStates, ToolStates
    <3>4. dbg' = [e EXCEPT !.tool[t].pc = "set", !.tool[t].levels = new]
      BY <2>2, <3>3
    <3>5. r \in ToolStates
      BY ONLY <1>2, <3>1 DEF ToolStates
    <3>6. dbg' = [dbg EXCEPT !.tool[t] = [r EXCEPT !.pc = "set", !.levels = new]]
      BY ONLY <1>2, <3>2, <3>4, <3>5, t \in Tools DEF DebugStates
    <3>7. [r EXCEPT !.pc = "set", !.levels = new]
            = [dbg.tool[t] EXCEPT !.pc = "set", !.levels = new, !.at = 0]
      BY ONLY <1>2, <3>1 DEF ToolStates
    <3> QED BY <3>6, <3>7
  <2> QED BY <1>1, <2>1, <2>3, DecidedStep
<1>4. CASE dbg' = [[dbg EXCEPT !.tool[t].at = 0] EXCEPT !.tool[t].pc = "done"]
  <2>1. dbg' = [dbg EXCEPT !.tool[t] = [dbg.tool[t] EXCEPT !.pc = "done", !.at = 0]]
    <3>1. PICK r : r = [dbg.tool[t] EXCEPT !.at = 0]
      OBVIOUS
    <3>2. PICK e : e = [dbg EXCEPT !.tool[t] = r]
      OBVIOUS
    <3>3. [dbg EXCEPT !.tool[t].at = 0] = e
      BY ONLY <1>2, <3>1, <3>2, t \in Tools DEF DebugStates, ToolStates
    <3>4. dbg' = [e EXCEPT !.tool[t].pc = "done"]
      BY <1>4, <3>3
    <3>5. r \in ToolStates
      BY ONLY <1>2, <3>1 DEF ToolStates
    <3>6. dbg' = [dbg EXCEPT !.tool[t] = [r EXCEPT !.pc = "done"]]
      BY ONLY <1>2, <3>2, <3>4, <3>5, t \in Tools DEF DebugStates
    <3>7. [r EXCEPT !.pc = "done"] = [dbg.tool[t] EXCEPT !.pc = "done", !.at = 0]
      BY ONLY <1>2, <3>1 DEF ToolStates
    <3> QED BY <3>6, <3>7
  <2> QED BY <2>1, DoneStep
<1> QED BY <1>1, <1>3, <1>4 DEF DG!ReadFileEnd

-----------------------------------------------------------------------------
LEMMA WholeFile ==
  ASSUME DebugAssumption, NEW file \in Seq(Nat), DG!RightSize(file) \/ Len(file) = Modules
  PROVE  file \in LevelLists
<1>1. Len(file) = Modules
  BY DEF DG!RightSize
<1> QED BY <1>1 DEF LevelLists

LEMMA BegunAndWhole ==
  ASSUME DebugAssumption, NEW file \in Seq(Nat), NEW l \in LevelLists, Begins(file, l),
         Len(file) = Modules
  PROVE  file = l
<1>1. file \in LevelLists
  BY WholeFile
<1> QED BY <1>1 DEF LevelLists, Begins

LEMMA EmptyFile ==
  ASSUME DebugAssumption
  PROVE  /\ <<>> \in Seq(Nat) /\ <<>> # None /\ Len(<<>>) = 0 /\ ~ Acceptable(<<>>)
         /\ \A l : Begins(<<>>, l)
<1>1. <<>> \in Seq(Nat) /\ Len(<<>>) = 0
  OBVIOUS
<1>2. <<>> # None
  BY <1>1 DEF DebugAssumption
<1>3. ~ Acceptable(<<>>)
  BY <1>1 DEF DebugAssumption, Acceptable, DG!RightSize
<1>4. \A l : Begins(<<>>, l)
  BY <1>1 DEF Begins
<1> QED BY <1>1, <1>2, <1>3, <1>4

LEMMA LargerIs ==
  ASSUME NEW a \in Nat, NEW b \in Nat
  PROVE  /\ DG!Max({a, b}) \in Nat /\ DG!Max({a, b}) >= a /\ DG!Max({a, b}) >= b
         /\ DG!Max({a, b}) = a \/ DG!Max({a, b}) = b
<1>1. PICK c \in Nat : a <= c /\ b <= c
  <2>1. a <= a + b /\ b <= a + b /\ a + b \in Nat
    OBVIOUS
  <2> QED BY <2>1
<1>2. {a, b} \in SUBSET (0 .. c) /\ {a, b} # {}
  BY <1>1
<1>3. PICK m \in {a, b} : m = DG!Max({a, b}) /\ \A y \in {a, b} : m >= y
  BY <1>2, GreatestIs
<1> QED BY <1>3

\* What a write leaves, and that it goes on with what was begun.
LEMMA WrittenOn ==
  ASSUME DebugAssumption, NEW l \in LevelLists, NEW at \in Nat, NEW n \in Nat, n > 0,
         at + n <= Modules, dbg.file \in Seq(Nat)
  PROVE  /\ DG!Written(l, at, n) \in Seq(Nat)
         /\ Begins(dbg.file, l) /\ Len(dbg.file) = at
              => Begins(DG!Written(l, at, n), l) /\ Len(DG!Written(l, at, n)) = at + n
<1>1. PICK file \in Seq(Nat) : file = dbg.file
  OBVIOUS
<1>2. PICK k \in Nat : k = Len(file)
  OBVIOUS
<1>3. PICK b \in Nat : b = at + n
  OBVIOUS
<1>4. PICK size \in Nat : /\ size = DG!Max({k, b}) /\ size >= b
                          /\ size = k \/ size = b
  BY LargerIs
<1> DEFINE At(i) == IF i \in at + 1 .. b THEN l[i] ELSE IF i <= k THEN file[i] ELSE 0
<1>5. DG!Written(l, at, n) = [i \in 1 .. size |-> At(i)]
  BY <1>1, <1>2, <1>3, <1>4 DEF DG!Written
<1>6. \A i \in 1 .. size : i \in at + 1 .. b => i \in 1 .. Modules
  BY <1>3 DEF DebugAssumption
<1>7. ASSUME NEW i \in 1 .. size
      PROVE  At(i) \in Nat
  <2>1. i \in at + 1 .. b => l[i] \in Nat
    BY <1>6 DEF LevelLists
  <2>2. i <= k => file[i] \in Nat
    BY <1>2
  <2> QED BY <2>1, <2>2
<1> HIDE DEF At
<1>8. DG!Written(l, at, n) \in Seq(Nat) /\ Len(DG!Written(l, at, n)) = size
  BY <1>5, <1>7
<1>9. ASSUME Begins(file, l), k = at
      PROVE  Begins(DG!Written(l, at, n), l) /\ size = b
  <2>1. size = b
    BY <1>3, <1>4, <1>9
  <2>2. ASSUME NEW i \in 1 .. size
        PROVE  At(i) = l[i]
    <3>1. i \in at + 1 .. b \/ i <= k
      BY <1>3, <1>9, <2>1
    <3>2. i <= k => file[i] = l[i]
      BY <1>2, <1>9 DEF Begins
    <3> QED BY <3>1, <3>2 DEF At
  <2> QED BY <1>5, <1>8, <2>1, <2>2 DEF Begins
<1> QED BY <1>1, <1>2, <1>3, <1>8, <1>9

LEMMA DebugStart ==
  ASSUME DebugAssumption, DebugInv, DG!Start
  PROVE  DebugInv'
<1>1. dbg \in DebugStates /\ Guarded(dbg) /\ dbg.app = "down"
  BY DEF DebugInv, DG!Start
<1>2. PICK writing \in BOOLEAN : writing = (DG!Writing # {})
  OBVIOUS
<1>3. PICK torn \in BOOLEAN : torn = (dbg.torn \/ writing)
  BY <1>1 DEF DebugStates
<1>4. PICK app \in {"loading", "up"} : app = IF DG!RightSize(dbg.file) THEN "loading" ELSE "up"
  OBVIOUS
<1>5. Default \in LevelLists
  BY DefaultType
<1>6. PICK isa \in Int : isa = 0
  OBVIOUS
<1>7. PICK read : read \in Seq(Nat) /\ read = <<>>
  BY EmptyFile
<1>8. PICK d : /\ d = dbg'
               /\ d = [dbg EXCEPT !.app = app, !.levels = Default, !.isa = isa, !.read = read,
                                  !.torn = torn, !.stale = writing]
  BY <1>2, <1>3, <1>4, <1>7, <1>6 DEF DG!Start
<1>9. /\ d \in DebugStates /\ d.app = app /\ d.levels = Default /\ d.read = read
      /\ d.torn = torn /\ d.stale = writing
      /\ d.file = dbg.file /\ d.tool = dbg.tool /\ d.meant = dbg.meant
  <2>1. /\ dbg \in DebugStates /\ Default \in LevelLists /\ read \in Seq(Nat)
        /\ d = [dbg EXCEPT !.app = app, !.levels = Default, !.isa = isa, !.read = read,
                           !.torn = torn, !.stale = writing]
    BY <1>1, <1>5, <1>7, <1>8
  <2> QED BY ONLY <2>1, writing \in BOOLEAN, torn \in BOOLEAN, isa \in Int,
                  app \in {"loading", "up"} DEF DebugStates
<1>10. ~ writing => \A t \in Tools : d.tool[t].pc # "write"
  BY <1>2, <1>9 DEF DG!Writing
<1>11. (\A t \in Tools : ToolOK(d.tool[t], d.file)) /\ AppOK(d)
  BY <1>1, <1>4, <1>9 DEF Guarded, AppOK, DG!RightSize
<1>12. OneWriter(d) /\ NobodyElse(d)
  BY <1>3, <1>9, <1>10 DEF OneWriter, NobodyElse
<1>13. HalfWay(d)
  BY <1>4, <1>7, <1>9, EmptyFile DEF HalfWay
<1>14. Meant(d)
  BY <1>1, <1>3, <1>5, <1>9 DEF Guarded, Meant
<1>15. Kept(d)
  BY <1>4, <1>9 DEF Kept, Acceptable
<1> QED BY <1>8, <1>9, <1>11, <1>12, <1>13, <1>14, <1>15 DEF DebugInv, Guarded

LEMMA DebugLoad ==
  ASSUME DebugAssumption, DebugInv, DG!Load
  PROVE  DebugInv'
<1>1. dbg \in DebugStates /\ Guarded(dbg) /\ dbg.app = "loading" /\ dbg.file # None
  BY DEF DebugInv, DG!Load, Guarded, AppOK
<1>2. PICK file \in Seq(Nat) : file = dbg.file
  BY <1>1 DEF DebugStates
<1>3. PICK old \in Seq(Nat) : old = dbg.read
  BY <1>1 DEF DebugStates
<1>4. PICK b \in Nat : b = Len(old)
  OBVIOUS
<1>5. b < Modules
  BY <1>3, <1>4 DEF DG!Load
<1>6. CASE Len(file) <= b
  <2>1. PICK d : d = dbg' /\ d = [dbg EXCEPT !.app = "up"]
    BY <1>2, <1>3, <1>4, <1>6 DEF DG!Load
  <2>2. PICK app \in {"up"} : app = "up"
    OBVIOUS
  <2>3. /\ d \in DebugStates /\ d.app = "up" /\ d.file = dbg.file /\ d.levels = dbg.levels
        /\ d.tool = dbg.tool /\ d.meant = dbg.meant /\ d.torn = dbg.torn
        /\ d.stale = dbg.stale
    BY ONLY <1>1, <2>1, <2>2 DEF DebugStates
  <2>4. (\A t \in Tools : ToolOK(d.tool[t], d.file)) /\ AppOK(d)
    BY <1>1, <2>3 DEF Guarded, AppOK
  <2>5. OneWriter(d) /\ NobodyElse(d) /\ HalfWay(d) /\ Meant(d)
    BY <1>1, <2>3 DEF Guarded, OneWriter, NobodyElse, HalfWay, Meant
  <2>6. Kept(d)
    <3>1. ~ dbg.stale => Len(file) = Modules
      BY <1>1, <1>2 DEF Guarded, HalfWay, DG!RightSize
    <3>2. dbg.stale
      <4>1. Len(file) \in Nat /\ Modules \in Nat
        BY DEF DebugAssumption
      <4> QED BY <1>5, <1>6, <3>1, <4>1
    <3> QED BY <2>3, <3>2 DEF Kept
  <2> QED BY <2>1, <2>3, <2>4, <2>5, <2>6 DEF DebugInv, Guarded
<1>7. CASE ~ (Len(file) <= b)
  <2>1. PICK more \in DG!ReadMore(b) : dbg' = [dbg EXCEPT !.read = @ \o more]
    BY <1>2, <1>3, <1>4, <1>7 DEF DG!Load
  <2>2. PICK k \in b + 1 .. Len(file) : more = SubSeq(file, b + 1, k)
    BY <1>2 DEF DG!ReadMore
  <2>3. k \in Nat /\ k > b /\ k <= Len(file)
    OBVIOUS
  <2>4. /\ more \in Seq(Nat) /\ Len(more) = k - b
        /\ \A i \in 1 .. k - b : more[i] = file[b + i]
    <3>1. \A i \in b + 1 .. k : file[i] \in Nat
      BY <2>3
    <3>2. /\ more \in Seq(Nat) /\ Len(more) = k - (b + 1) + 1
          /\ \A i \in 1 .. k - (b + 1) + 1 : more[i] = file[(b + 1) + i - 1]
      BY <2>2, <2>3, <3>1, SubSeqProperties
    <3>3. k - (b + 1) + 1 = k - b /\ \A i \in Nat : (b + 1) + i - 1 = b + i
      BY <2>3
    <3> QED BY <3>2, <3>3
  <2>5. PICK read : read \in Seq(Nat) /\ read = old \o more
    <3>1. old \o more \in Seq(Nat)
      BY <2>4
    <3> QED BY <3>1
  <2>6. Len(read) = k /\ \A i \in 1 .. k : read[i] = IF i <= b THEN old[i] ELSE more[i - b]
    BY <1>4, <2>3, <2>4, <2>5, SMTT(40)
  <2>7. Begins(old, file) => Begins(read, file)
    <3> SUFFICES ASSUME Begins(old, file), NEW i \in 1 .. k PROVE read[i] = file[i]
      BY <2>6 DEF Begins
    <3>1. CASE i <= b
      BY <1>4, <2>6, <3>1 DEF Begins
    <3>2. CASE ~ (i <= b)
      <4>1. i - b \in 1 .. k - b /\ b + (i - b) = i
        BY <2>3, <3>2
      <4> QED BY <2>4, <2>6, <3>2, <4>1
    <3> QED BY <3>1, <3>2
  <2>8. PICK d : d = dbg' /\ d = [dbg EXCEPT !.read = read]
    BY <1>3, <2>1, <2>5
  <2>9. /\ d \in DebugStates /\ d.app = dbg.app /\ d.file = dbg.file /\ d.levels = dbg.levels
        /\ d.tool = dbg.tool /\ d.meant = dbg.meant /\ d.torn = dbg.torn
        /\ d.stale = dbg.stale /\ d.read = read
    BY ONLY <1>1, <2>5, <2>8 DEF DebugStates
  <2>10. (\A t \in Tools : ToolOK(d.tool[t], d.file)) /\ AppOK(d)
    BY <1>1, <2>9 DEF Guarded, AppOK
  <2>11. OneWriter(d) /\ NobodyElse(d) /\ Meant(d) /\ Kept(d)
    BY <1>1, <2>9 DEF Guarded, OneWriter, NobodyElse, Meant, Kept
  <2>12. HalfWay(d)
    BY <1>1, <1>2, <1>3, <2>7, <2>9 DEF Guarded, HalfWay
  <2> QED BY <2>8, <2>9, <2>10, <2>11, <2>12 DEF DebugInv, Guarded
<1> QED BY <1>6, <1>7

LEMMA DebugLoadEnd ==
  ASSUME DebugAssumption, DebugInv, DG!LoadEnd
  PROVE  DebugInv'
<1>1. /\ dbg \in DebugStates /\ Guarded(dbg) /\ dbg.app = "loading" /\ dbg.file # None
      /\ dbg.read \in Seq(Nat) /\ dbg.levels \in LevelLists
  BY DEF DebugInv, DG!LoadEnd, Guarded, AppOK, DebugStates
<1>2. PICK file \in Seq(Nat) : file = dbg.file
  BY <1>1 DEF DebugStates
<1>3. PICK read \in Seq(Nat) : read = dbg.read
  BY <1>1
<1>4. Len(read) = Modules /\ read \in LevelLists
  BY <1>3, WholeFile DEF DG!LoadEnd
<1>5. PICK levels \in LevelLists : levels = IF DG!InRange(read) THEN read ELSE dbg.levels
  BY <1>1, <1>4
<1>6. PICK d : d = dbg' /\ d = [dbg EXCEPT !.app = "up", !.levels = levels]
  BY <1>3, <1>5 DEF DG!LoadEnd
<1>7. PICK app \in {"up"} : app = "up"
  OBVIOUS
<1>8. /\ d \in DebugStates /\ d.app = "up" /\ d.file = file /\ d.levels = levels
      /\ d.tool = dbg.tool /\ d.meant = dbg.meant /\ d.torn = dbg.torn
      /\ d.stale = dbg.stale
  BY ONLY <1>1, <1>2, <1>6, <1>7, levels \in LevelLists DEF DebugStates
<1>9. (\A t \in Tools : ToolOK(d.tool[t], d.file)) /\ AppOK(d)
  BY <1>1, <1>2, <1>8 DEF Guarded, AppOK
<1>10. OneWriter(d) /\ NobodyElse(d) /\ HalfWay(d)
  BY <1>1, <1>2, <1>8 DEF Guarded, OneWriter, NobodyElse, HalfWay
<1>11. ~ dbg.torn \/ ~ dbg.stale => read = file
  <2> SUFFICES ASSUME ~ dbg.torn \/ ~ dbg.stale PROVE read = file
    OBVIOUS
  <2>1. DG!RightSize(file) /\ Begins(read, file)
    BY <1>1, <1>2, <1>3 DEF Guarded, HalfWay
  <2> QED BY <1>4, <2>1, WholeFile, BegunAndWhole
<1>12. DG!RightSize(read)
  BY <1>4 DEF DG!RightSize, DebugAssumption
<1>13. ~ dbg.torn => levels \in dbg.meant
  BY <1>1, <1>2, <1>5, <1>11, <1>12 DEF Guarded, Meant, Acceptable
<1>14. Meant(d)
  BY <1>1, <1>2, <1>8, <1>13 DEF Guarded, Meant
<1>15. Kept(d)
  BY <1>5, <1>8, <1>11 DEF Kept, Acceptable
<1> QED BY <1>6, <1>8, <1>9, <1>10, <1>14, <1>15 DEF DebugInv, Guarded

LEMMA DebugSave ==
  ASSUME DebugAssumption, DebugInv, DG!Save
  PROVE  DebugInv'
<1>1. /\ dbg \in DebugStates /\ Guarded(dbg) /\ dbg.app = "saving" /\ dbg.file # None
      /\ dbg.levels \in LevelLists
  BY DEF DebugInv, DG!Save, Guarded, AppOK, DebugStates
<1>2. PICK at \in Nat : at = dbg.at
  BY <1>1 DEF DebugStates
<1>3. dbg.file \in Seq(Nat) /\ at < Modules /\ Modules \in Nat
  BY <1>1, <1>2 DEF DebugStates, DG!Save, DebugAssumption
<1>4. PICK n \in 1 .. Modules - at :
        dbg' = [dbg EXCEPT !.file = DG!Written(dbg.levels, at, n), !.at = @ + n]
  BY <1>2 DEF DG!Save
<1>5. PICK b \in Nat : b = at + n /\ b <= Modules /\ n \in Nat /\ n > 0
  BY <1>3
<1>6. PICK file : file = DG!Written(dbg.levels, at, n)
  OBVIOUS
<1>7. /\ file \in Seq(Nat)
      /\ Begins(dbg.file, dbg.levels) /\ Len(dbg.file) = at
           => Begins(file, dbg.levels) /\ Len(file) = b
  BY <1>1, <1>3, <1>5, <1>6, WrittenOn
<1>8. PICK d : d = dbg' /\ d = [dbg EXCEPT !.file = file, !.at = b]
  BY <1>2, <1>4, <1>5, <1>6
<1>9. file \in Seq(Nat) /\ file # None
  BY <1>7 DEF DebugAssumption
<1>10. /\ d \in DebugStates /\ d.app = dbg.app /\ d.file = file /\ d.levels = dbg.levels
       /\ d.tool = dbg.tool /\ d.meant = dbg.meant /\ d.torn = dbg.torn
       /\ d.stale = dbg.stale /\ d.at = b /\ d.client = dbg.client
  BY ONLY <1>1, <1>8, <1>9, b \in Nat DEF DebugStates
<1>11. \A t \in Tools : ToolOK(d.tool[t], d.file)
  BY <1>1, <1>9, <1>10 DEF Guarded, ToolOK
<1>12. AppOK(d) /\ OneWriter(d) /\ NobodyElse(d) /\ Kept(d)
  BY <1>1, <1>5, <1>9, <1>10 DEF Guarded, AppOK, OneWriter, NobodyElse, Kept
<1>13. ~ dbg.torn \/ ~ dbg.stale => Begins(file, dbg.levels) /\ Len(file) = b
  <2> SUFFICES ASSUME ~ dbg.torn \/ ~ dbg.stale
               PROVE  Begins(file, dbg.levels) /\ Len(file) = b
    OBVIOUS
  <2>1. Begins(dbg.file, dbg.levels) /\ (Len(dbg.file) = at \/ at = Modules)
    BY <1>1, <1>2 DEF Guarded, HalfWay
  <2> QED BY <1>3, <1>7, <2>1
<1>14. HalfWay(d)
  BY <1>1, <1>10, <1>13 DEF HalfWay
<1>15. Meant(d)
  <2>1. ~ dbg.torn => \A t \in Tools : dbg.tool[t].pc # "write"
    BY <1>1 DEF Guarded, OneWriter
  <2>2. ~ dbg.torn /\ Acceptable(file) => file = dbg.levels
    BY <1>1, <1>7, <1>13, BegunAndWhole DEF Acceptable, DG!RightSize
  <2> QED BY <1>1, <1>10, <2>1, <2>2 DEF Guarded, Meant, ToolHalfWay
<1> QED BY <1>8, <1>10, <1>11, <1>12, <1>14, <1>15 DEF DebugInv, Guarded

LEMMA DebugSaveFails ==
  ASSUME DebugAssumption, DebugInv, DG!SaveFails
  PROVE  DebugInv'
<1>1. dbg \in DebugStates /\ Guarded(dbg) /\ dbg.app = "saving"
  BY DEF DebugInv, DG!SaveFails
<1>2. PICK file \in Seq(Nat) : file = <<>> /\ file # None /\ Len(file) = 0 /\ ~ Acceptable(file)
  BY EmptyFile
<1>3. PICK d : d = dbg' /\ d = [dbg EXCEPT !.file = file, !.at = Modules]
  BY <1>2 DEF DG!SaveFails
<1>4. Modules \in Nat
  BY DEF DebugAssumption
<1>5. /\ d \in DebugStates /\ d.app = dbg.app /\ d.file = file /\ d.levels = dbg.levels
      /\ d.tool = dbg.tool /\ d.meant = dbg.meant /\ d.torn = dbg.torn
      /\ d.stale = dbg.stale /\ d.at = Modules /\ d.client = dbg.client
  BY ONLY <1>1, <1>3, <1>4, file \in Seq(Nat) DEF DebugStates
<1>6. \A t \in Tools : ToolOK(d.tool[t], d.file)
  BY <1>1, <1>2, <1>5 DEF Guarded, ToolOK
<1>7. AppOK(d) /\ OneWriter(d) /\ NobodyElse(d) /\ Kept(d)
  BY <1>1, <1>2, <1>4, <1>5 DEF Guarded, AppOK, OneWriter, NobodyElse, Kept
<1>8. HalfWay(d)
  BY <1>1, <1>2, <1>5 DEF HalfWay, Begins
<1>9. Meant(d)
  <2>1. ~ dbg.torn => \A t \in Tools : dbg.tool[t].pc # "write"
    BY <1>1 DEF Guarded, OneWriter
  <2> QED BY <1>1, <1>2, <1>5, <2>1 DEF Guarded, Meant, ToolHalfWay
<1> QED BY <1>3, <1>5, <1>6, <1>7, <1>8, <1>9 DEF DebugInv, Guarded

LEMMA DebugSaveEnd ==
  ASSUME DebugAssumption, DebugInv, DG!SaveEnd
  PROVE  DebugInv'
<1>1. /\ dbg \in DebugStates /\ Guarded(dbg) /\ dbg.app = "saving" /\ dbg.at = Modules
      /\ dbg.file # None /\ dbg.levels \in LevelLists
  BY DEF DebugInv, DG!SaveEnd, Guarded, AppOK, DebugStates
<1>2. PICK t \in Tools : t = dbg.client
  BY <1>1 DEF Guarded, AppOK
<1>3. dbg.tool \in [Tools -> ToolStates] /\ dbg.tool[t] \in ToolStates
  BY ToolFields
<1>4. PICK r : r = [dbg.tool[t] EXCEPT !.pc = "done"]
  OBVIOUS
<1>5. r \in ToolStates /\ r.pc = "done"
  BY ONLY <1>3, <1>4 DEF ToolStates
<1>6. PICK d : d = dbg' /\ d = [dbg EXCEPT !.app = "up", !.client = None, !.tool[t] = r]
  BY <1>2, <1>4 DEF DG!SaveEnd
<1>7. PICK app \in {"up"} : app = "up"
  OBVIOUS
<1>8. /\ d \in DebugStates /\ d.app = "up" /\ d.file = dbg.file /\ d.levels = dbg.levels
      /\ d.meant = dbg.meant /\ d.torn = dbg.torn /\ d.stale = dbg.stale
      /\ \A u \in Tools : d.tool[u] = IF u = t THEN r ELSE dbg.tool[u]
  <2>1. PICK e : e = [dbg EXCEPT !.app = app, !.client = None]
    OBVIOUS
  <2>2. e \in DebugStates
    BY ONLY <1>1, <1>7, <2>1 DEF DebugStates
  <2>3. /\ e.app = "up" /\ e.file = dbg.file /\ e.levels = dbg.levels /\ e.tool = dbg.tool
        /\ e.meant = dbg.meant /\ e.torn = dbg.torn /\ e.stale = dbg.stale
    BY ONLY <1>1, <1>7, <2>1 DEF DebugStates
  <2>4. d = [e EXCEPT !.tool[t] = r]
    BY <1>6, <1>7, <2>1
  <2>5. d \in DebugStates
    BY ONLY <1>5, <2>2, <2>4, t \in Tools DEF DebugStates
  <2>6. /\ d.app = e.app /\ d.file = e.file /\ d.levels = e.levels
        /\ d.meant = e.meant /\ d.torn = e.torn /\ d.stale = e.stale
        /\ \A u \in Tools : d.tool[u] = IF u = t THEN r ELSE e.tool[u]
    BY ONLY <1>5, <2>2, <2>4, t \in Tools DEF DebugStates
  <2> QED BY <2>3, <2>5, <2>6
<1>9. (\A u \in Tools : ToolOK(d.tool[u], d.file)) /\ AppOK(d)
  BY <1>1, <1>5, <1>8 DEF Guarded, AppOK, ToolOK
<1>10. \A u \in Tools : d.tool[u].pc = "write" => d.tool[u] = dbg.tool[u]
  BY <1>5, <1>8
<1>11. OneWriter(d) /\ NobodyElse(d)
  BY <1>1, <1>8, <1>10 DEF Guarded, OneWriter, NobodyElse
<1>12. HalfWay(d) /\ Meant(d)
  BY <1>1, <1>8, <1>10 DEF Guarded, HalfWay, Meant, ToolHalfWay
<1>13. Kept(d)
  <2> SUFFICES ASSUME ~ dbg.stale, Acceptable(dbg.file) PROVE dbg.file = dbg.levels
    BY <1>8 DEF Kept
  <2>1. Begins(dbg.file, dbg.levels)
    BY <1>1 DEF Guarded, HalfWay
  <2>2. dbg.file \in Seq(Nat) /\ Len(dbg.file) = Modules
    BY <1>1 DEF DebugStates, Acceptable, DG!RightSize
  <2> QED BY <1>1, <2>1, <2>2, BegunAndWhole
<1> QED BY <1>6, <1>8, <1>9, <1>11, <1>12, <1>13 DEF DebugInv, Guarded

LEMMA DebugCrash ==
  ASSUME DebugAssumption, DebugInv, DG!Crash
  PROVE  DebugInv'
<1>1. dbg \in DebugStates /\ Guarded(dbg) /\ dbg.tool \in [Tools -> ToolStates]
  BY DEF DebugInv, DebugStates
<1>2. PICK tool : tool = [t \in Tools |-> [dbg.tool[t] EXCEPT !.connected = FALSE]]
  OBVIOUS
<1>3. ASSUME NEW t \in Tools
      PROVE  /\ tool[t] \in ToolStates /\ tool[t].pc = dbg.tool[t].pc
             /\ tool[t].at = dbg.tool[t].at /\ tool[t].levels = dbg.tool[t].levels
             /\ tool[t].request = dbg.tool[t].request
  <2>1. dbg.tool[t] \in ToolStates /\ tool[t] = [dbg.tool[t] EXCEPT !.connected = FALSE]
    BY <1>1, <1>2
  <2> QED BY ONLY <2>1 DEF ToolStates
<1>4. tool \in [Tools -> ToolStates]
  BY <1>2, <1>3
<1>5. PICK d : d = dbg' /\ d = [dbg EXCEPT !.app = "down", !.client = None, !.tool = tool]
  BY <1>2 DEF DG!Crash
<1>6. PICK app \in {"down"} : app = "down"
  OBVIOUS
<1>7. /\ d \in DebugStates /\ d.app = "down" /\ d.file = dbg.file /\ d.levels = dbg.levels
      /\ d.meant = dbg.meant /\ d.torn = dbg.torn /\ d.stale = dbg.stale /\ d.tool = tool
  BY ONLY <1>1, <1>4, <1>5, <1>6 DEF DebugStates
<1>8. (\A t \in Tools : ToolOK(d.tool[t], d.file)) /\ AppOK(d)
  BY <1>1, <1>3, <1>7 DEF Guarded, AppOK, ToolOK
<1>9. OneWriter(d) /\ NobodyElse(d)
  BY <1>1, <1>3, <1>7 DEF Guarded, OneWriter, NobodyElse
<1>10. HalfWay(d) /\ Meant(d) /\ Kept(d)
  BY <1>1, <1>3, <1>7 DEF Guarded, HalfWay, Meant, Kept, ToolHalfWay
<1> QED BY <1>5, <1>7, <1>8, <1>9, <1>10 DEF DebugInv, Guarded

LEMMA IsaType ==
  ASSUME DebugAssumption, DebugInv, NEW l \in LevelLists
  PROVE  DG!IsaLevel(l) \in Int
<1>1. 1 \in 1 .. Modules
  BY DEF DebugAssumption
<1>2. l[1] \in Nat /\ LvlHi \in Nat /\ dbg.isa \in Int
  BY <1>1 DEF LevelLists, DebugAssumption, DebugInv, DebugStates
<1>3. l[1] - (LvlHi - 1) \in Int
  BY <1>2
<1> QED BY <1>2, <1>3 DEF DG!IsaLevel

LEMMA DebugSet ==
  ASSUME DebugAssumption, DebugInv, NEW t \in Tools, DG!Set(t)
  PROVE  DebugInv'
<1>1. dbg \in DebugStates /\ Guarded(dbg) /\ dbg.meant \in SUBSET LevelLists
  BY DEF DebugInv, DebugStates
<1>2. PICK l \in LevelLists : l = dbg.tool[t].levels
  BY ToolFields
<1>3. PICK isa \in Int : isa = DG!IsaLevel(l)
  BY IsaType
<1>4. PICK writing \in BOOLEAN : writing = (DG!Writing # {})
  OBVIOUS
<1>5. PICK torn \in BOOLEAN : torn = (dbg.torn \/ writing)
  BY <1>1 DEF DebugStates
<1>6. PICK file \in Seq(Nat) : /\ file = <<>> /\ file # None /\ Len(file) = 0
                               /\ ~ Acceptable(file) /\ Begins(file, l)
  BY EmptyFile
<1>7. PICK meant \in SUBSET LevelLists : meant = dbg.meant \cup {l}
  BY <1>1
<1>8. PICK at \in Nat : at = 0
  OBVIOUS
<1>9. PICK app \in {"saving"} : app = "saving"
  OBVIOUS
<1>10. PICK d : d = dbg'
  OBVIOUS
<1>11. d = [[dbg EXCEPT !.levels = l, !.isa = isa, !.meant = meant]
              EXCEPT !.app = app, !.client = t, !.at = at, !.file = file,
                     !.torn = torn, !.stale = writing]
  <2>1. d = [[dbg EXCEPT !.levels = l, !.isa = isa, !.meant = @ \cup {l}]
               EXCEPT !.app = "saving", !.client = t, !.at = 0, !.file = <<>>,
                      !.torn = @ \/ writing, !.stale = writing]
    BY <1>2, <1>3, <1>4, <1>10 DEF DG!Set, DG!LevelsSet
  <2>2. [dbg EXCEPT !.levels = l, !.isa = isa, !.meant = @ \cup {l}]
          = [dbg EXCEPT !.levels = l, !.isa = isa, !.meant = meant]
    BY <1>7
  <2>3. [dbg EXCEPT !.levels = l, !.isa = isa, !.meant = meant].torn = dbg.torn
    BY ONLY <1>1 DEF DebugStates
  <2> QED BY <1>5, <1>6, <1>8, <1>9, <2>1, <2>2, <2>3
<1>12. /\ d \in DebugStates /\ d.app = "saving" /\ d.file = file /\ d.levels = l /\ d.at = 0
       /\ d.client = t /\ d.meant = meant /\ d.torn = torn /\ d.stale = writing
       /\ d.tool = dbg.tool
  <2>1. PICK e : e = [dbg EXCEPT !.levels = l, !.isa = isa, !.meant = meant]
    OBVIOUS
  <2>2. e \in DebugStates /\ e.tool = dbg.tool
    BY ONLY <1>1, <2>1, l \in LevelLists, isa \in Int, meant \in SUBSET LevelLists
       DEF DebugStates
  <2>3. d = [e EXCEPT !.app = app, !.client = t, !.at = at, !.file = file,
                      !.torn = torn, !.stale = writing]
    BY <1>11, <2>1
  <2>4. PICK f : f = [e EXCEPT !.app = app, !.client = t, !.at = at]
    OBVIOUS
  <2>5. f \in DebugStates /\ f.app = "saving" /\ f.levels = l /\ f.at = 0 /\ f.client = t
        /\ f.meant = meant /\ f.tool = dbg.tool
    BY ONLY <1>8, <1>9, <2>1, <2>2, <2>4, app \in {"saving"}, t \in Tools, at \in Nat,
            l \in LevelLists, meant \in SUBSET LevelLists, <1>1, ZenonT(40) DEF DebugStates
  <2>6. d = [f EXCEPT !.file = file, !.torn = torn, !.stale = writing]
    BY ONLY <2>2, <2>3, <2>4, SMTT(40) DEF DebugStates
  <2> QED BY ONLY <2>5, <2>6, file \in Seq(Nat), torn \in BOOLEAN, writing \in BOOLEAN,
                  ZenonT(40) DEF DebugStates
<1>13. ~ writing => \A u \in Tools : d.tool[u].pc # "write"
  BY <1>4, <1>12 DEF DG!Writing
<1>14. \A u \in Tools : ToolOK(d.tool[u], d.file)
  BY <1>1, <1>6, <1>12 DEF Guarded, ToolOK
<1>15. AppOK(d)
  BY <1>6, <1>12 DEF AppOK, DebugAssumption
<1>16. OneWriter(d) /\ NobodyElse(d) /\ Kept(d)
  BY <1>5, <1>12, <1>13 DEF OneWriter, NobodyElse, Kept
<1>17. HalfWay(d)
  BY <1>6, <1>12 DEF HalfWay
<1>18. Meant(d)
  <2>1. Default \in meant /\ l \in meant
    BY <1>1, <1>7 DEF Guarded, Meant
  <2>2. ~ d.torn => \A u \in Tools : d.tool[u].pc # "write"
    BY <1>5, <1>12, <1>13
  <2> QED BY <1>6, <1>12, <2>1, <2>2 DEF Meant, ToolHalfWay
<1> QED BY <1>10, <1>12, <1>14, <1>15, <1>16, <1>17, <1>18 DEF DebugInv, Guarded

LEMMA DebugSetWithoutFile ==
  ASSUME DebugAssumption, DebugInv, NEW t \in Tools, DG!SetWithoutFile(t)
  PROVE  DebugInv'
<1>1. /\ dbg \in DebugStates /\ Guarded(dbg) /\ dbg.meant \in SUBSET LevelLists
      /\ dbg.app = "up"
  BY DEF DebugInv, DebugStates, DG!SetWithoutFile, DG!Asks
<1>2. PICK l \in LevelLists : l = dbg.tool[t].levels
  BY ToolFields
<1>3. PICK isa \in Int : isa = DG!IsaLevel(l)
  BY IsaType
<1>4. PICK meant \in SUBSET LevelLists : meant = dbg.meant \cup {l}
  BY <1>1
<1>5. dbg.tool \in [Tools -> ToolStates] /\ dbg.tool[t] \in ToolStates
  BY ToolFields
<1>6. PICK r : r = [dbg.tool[t] EXCEPT !.pc = "done"]
  OBVIOUS
<1>7. r \in ToolStates /\ r.pc = "done"
  BY ONLY <1>5, <1>6 DEF ToolStates
<1>8. PICK e : e = [dbg EXCEPT !.levels = l, !.isa = isa, !.meant = meant]
  OBVIOUS
<1>9. /\ e \in DebugStates /\ e.tool = dbg.tool /\ e.file = dbg.file /\ e.levels = l
      /\ e.meant = meant /\ e.torn = dbg.torn /\ e.app = "up"
  BY ONLY <1>1, <1>8, l \in LevelLists, isa \in Int, meant \in SUBSET LevelLists
     DEF DebugStates
<1>10. PICK d : d = dbg'
  OBVIOUS
<1>11. d = [e EXCEPT !.stale = TRUE, !.tool[t] = r]
  <2>1. d = [[dbg EXCEPT !.levels = l, !.isa = isa, !.meant = @ \cup {l}]
               EXCEPT !.stale = TRUE, !.tool[t].pc = "done"]
    BY <1>2, <1>3, <1>10 DEF DG!SetWithoutFile, DG!LevelsSet
  <2>2. d = [e EXCEPT !.stale = TRUE, !.tool[t].pc = "done"]
    BY <1>4, <1>8, <2>1
  <2>3. r = [e.tool[t] EXCEPT !.pc = "done"]
    BY <1>6, <1>9
  <2> QED BY ONLY <1>5, <1>9, <2>2, <2>3, t \in Tools DEF DebugStates, ToolStates
<1>12. /\ d \in DebugStates /\ d.app = "up" /\ d.file = dbg.file /\ d.levels = l
       /\ d.meant = meant /\ d.torn = dbg.torn /\ d.stale
       /\ \A u \in Tools : d.tool[u] = IF u = t THEN r ELSE dbg.tool[u]
  BY ONLY <1>7, <1>9, <1>11, t \in Tools DEF DebugStates
<1>13. (\A u \in Tools : ToolOK(d.tool[u], d.file)) /\ AppOK(d)
  BY <1>1, <1>7, <1>12 DEF Guarded, AppOK, ToolOK
<1>14. \A u \in Tools : d.tool[u].pc = "write" => d.tool[u] = dbg.tool[u]
  BY <1>7, <1>12
<1>15. OneWriter(d) /\ NobodyElse(d) /\ HalfWay(d) /\ Kept(d)
  BY <1>1, <1>12, <1>14 DEF Guarded, OneWriter, NobodyElse, HalfWay, Kept
<1>16. Meant(d)
  BY <1>1, <1>4, <1>12, <1>14 DEF Guarded, Meant, ToolHalfWay
<1> QED BY <1>10, <1>12, <1>13, <1>15, <1>16 DEF DebugInv, Guarded

-----------------------------------------------------------------------------
\* A tool that writes the file, or makes it what nobody accepts.
LEMMA WriterStep ==
  ASSUME DebugAssumption, DebugInv, NEW t \in Tools, NEW r, NEW d \in DebugStates,
         dbg' = d, d.file \in Seq(Nat), ToolOK(r, d.file),
         d.app = dbg.app, d.levels = dbg.levels, d.at = dbg.at, d.client = dbg.client,
         \A u \in Tools : d.tool[u] = IF u = t THEN r ELSE dbg.tool[u],
         dbg.meant \subseteq d.meant, dbg.torn => d.torn,
         ~ d.stale => d.app = "down",
         ~ d.torn => /\ d.app \notin {"loading", "saving"}
                     /\ \A u \in Tools : u # t => dbg.tool[u].pc # "write",
         ~ d.torn => ToolHalfWay(r, d.file, d.meant) /\ (Acceptable(d.file) => d.file \in d.meant)
  PROVE  DebugInv'
<1>1. Guarded(dbg) /\ d.file # None
  BY DEF DebugInv, DebugAssumption
<1>2. \A u \in Tools : ToolOK(d.tool[u], d.file)
  BY <1>1 DEF Guarded, ToolOK
<1>3. AppOK(d)
  BY <1>1 DEF Guarded, AppOK
<1>4. OneWriter(d) /\ NobodyElse(d)
  BY DEF OneWriter, NobodyElse
<1>5. HalfWay(d) /\ Kept(d)
  BY DEF HalfWay, Kept
<1>6. Meant(d)
  BY <1>1 DEF Guarded, Meant, ToolHalfWay
<1> QED BY <1>2, <1>3, <1>4, <1>5, <1>6 DEF DebugInv, Guarded

LEMMA DebugSetFails ==
  ASSUME DebugAssumption, DebugInv, NEW t \in Tools, DG!SetFails(t)
  PROVE  DebugInv'
<1>1. /\ dbg \in DebugStates /\ Guarded(dbg) /\ dbg.meant \in SUBSET LevelLists
      /\ dbg.tool[t].pc = "set" /\ dbg.torn \in BOOLEAN /\ dbg.stale \in BOOLEAN
  BY DEF DebugInv, DebugStates, DG!SetFails
<1>2. CASE ~ dbg.tool[t].request.static
  BY <1>2, EndsTool DEF DG!SetFails
<1>3. CASE dbg.tool[t].request.static
  <2>1. /\ dbg.tool \in [Tools -> ToolStates] /\ dbg.tool[t] \in ToolStates
        /\ ToolOK(dbg.tool[t], dbg.file)
    BY ToolFields
  <2>2. PICK r : r = [dbg.tool[t] EXCEPT !.pc = "write"]
    OBVIOUS
  <2>3. /\ r \in ToolStates /\ r.pc = "write" /\ r.levels = dbg.tool[t].levels
        /\ r.at = dbg.tool[t].at /\ r.request = dbg.tool[t].request
    BY ONLY <2>1, <2>2 DEF ToolStates
  <2>4. r.at = 0 /\ r.request \in Requests
    BY <1>1, <2>1, <2>3 DEF ToolOK
  <2>5. PICK l \in LevelLists : l = dbg.tool[t].levels
    BY ToolFields
  <2>6. PICK meant \in SUBSET LevelLists : meant = dbg.meant \cup {l}
    BY <1>1
  <2>7. PICK torn \in BOOLEAN :
          torn = (dbg.torn \/ DG!Writing # {} \/ dbg.app \in {"loading", "saving"})
    OBVIOUS
  <2>8. PICK stale \in BOOLEAN : stale = (dbg.stale \/ dbg.app # "down")
    OBVIOUS
  <2>9. PICK file \in Seq(Nat) : /\ file = <<>> /\ file # None /\ Len(file) = 0
                                 /\ ~ Acceptable(file) /\ Begins(file, l)
    BY EmptyFile
  <2>10. PICK d : d = dbg'
    OBVIOUS
  <2>11. d = [dbg EXCEPT !.tool[t] = r, !.file = file, !.meant = meant, !.torn = torn,
                         !.stale = stale]
    <3>1. d = [dbg EXCEPT !.tool[t].pc = "write", !.file = <<>>, !.meant = @ \cup {l},
                          !.torn = @ \/ DG!Writing # {} \/ dbg.app \in {"loading", "saving"},
                          !.stale = @ \/ dbg.app # "down"]
      BY <1>3, <2>5, <2>10 DEF DG!SetFails
    <3>2. d = [dbg EXCEPT !.tool[t].pc = "write", !.file = file, !.meant = meant, !.torn = torn,
                          !.stale = stale]
      BY <2>6, <2>7, <2>8, <2>9, <3>1
    <3> QED BY <2>2, <3>2
  <2>12. /\ d \in DebugStates /\ d.app = dbg.app /\ d.file = file /\ d.levels = dbg.levels
         /\ d.at = dbg.at /\ d.client = dbg.client /\ d.meant = meant /\ d.torn = torn
         /\ d.stale = stale
         /\ \A u \in Tools : d.tool[u] = IF u = t THEN r ELSE dbg.tool[u]
    <3>1. PICK e : e = [dbg EXCEPT !.tool[t] = r]
      OBVIOUS
    <3>2. e \in DebugStates
      BY ONLY <1>1, <2>3, <3>1, t \in Tools DEF DebugStates
    <3>3. /\ e.app = dbg.app /\ e.levels = dbg.levels /\ e.at = dbg.at /\ e.client = dbg.client
          /\ \A u \in Tools : e.tool[u] = IF u = t THEN r ELSE dbg.tool[u]
      BY ONLY <1>1, <2>3, <3>1, t \in Tools DEF DebugStates
    <3>4. d = [e EXCEPT !.file = file, !.meant = meant, !.torn = torn, !.stale = stale]
      BY <2>11, <3>1
    <3>5. d \in DebugStates
      BY ONLY <3>2, <3>4, file \in Seq(Nat), meant \in SUBSET LevelLists, torn \in BOOLEAN,
              stale \in BOOLEAN DEF DebugStates
    <3>6. /\ d.app = e.app /\ d.levels = e.levels /\ d.at = e.at /\ d.client = e.client
          /\ d.tool = e.tool
          /\ d.file = file /\ d.meant = meant /\ d.torn = torn /\ d.stale = stale
      BY ONLY <3>2, <3>4 DEF DebugStates
    <3> QED BY <3>3, <3>5, <3>6
  <2>13. ToolOK(r, d.file)
    BY <2>3, <2>4, <2>9, <2>12 DEF ToolOK, DebugAssumption
  <2>14. ~ torn => /\ d.app \notin {"loading", "saving"}
                   /\ \A u \in Tools : u # t => dbg.tool[u].pc # "write"
    BY <2>7, <2>12 DEF DG!Writing
  <2>15. ToolHalfWay(r, d.file, d.meant) /\ ~ Acceptable(d.file)
    BY <2>3, <2>4, <2>5, <2>6, <2>9, <2>12 DEF ToolHalfWay
  <2>16. (~ d.stale => d.app = "down") /\ (dbg.torn => d.torn) /\ dbg.meant \subseteq d.meant
    BY <2>6, <2>7, <2>8, <2>12
  <2> QED BY <2>10, <2>12, <2>13, <2>14, <2>15, <2>16, WriterStep
<1> QED BY <1>2, <1>3

\* Who writes is alone, and the application is down, unless this is noted.
LEMMA WriterIsAlone ==
  ASSUME DebugInv, NEW t \in Tools, dbg.tool[t].pc = "write"
  PROVE  /\ ~ dbg.stale => dbg.app = "down"
         /\ ~ dbg.torn => /\ dbg.app \notin {"loading", "saving"}
                          /\ \A u \in Tools : u # t => dbg.tool[u].pc # "write"
         /\ ~ dbg.torn => ToolHalfWay(dbg.tool[t], dbg.file, dbg.meant)
BY DEF DebugInv, Guarded, NobodyElse, OneWriter, Meant

LEMMA DebugWrite ==
  ASSUME DebugAssumption, DebugInv, NEW t \in Tools, DG!Write(t)
  PROVE  DebugInv'
<1>1. /\ dbg \in DebugStates /\ dbg.tool[t].pc = "write" /\ dbg.tool[t] \in ToolStates
      /\ ToolOK(dbg.tool[t], dbg.file) /\ dbg.tool \in [Tools -> ToolStates]
  BY ToolFields DEF DG!Write
<1>2. PICK at \in Nat : at = dbg.tool[t].at
  BY ToolFields
<1>3. PICK l \in LevelLists : l = dbg.tool[t].levels
  BY ToolFields
<1>4. at < Modules /\ Modules \in Nat
  BY <1>2 DEF DG!Write, DebugAssumption
<1>5. dbg.file \in Seq(Nat)
  BY <1>1 DEF DebugStates, ToolOK
<1>6. PICK n \in 1 .. Modules - at :
        dbg' = [dbg EXCEPT !.file = DG!Written(l, at, n), !.tool[t].at = @ + n]
  BY <1>2, <1>3 DEF DG!Write
<1>7. PICK b \in Nat : b = at + n /\ b <= Modules /\ n \in Nat /\ n > 0
  BY <1>4
<1>8. PICK file : file = DG!Written(l, at, n)
  OBVIOUS
<1>9. /\ file \in Seq(Nat)
      /\ Begins(dbg.file, l) /\ Len(dbg.file) = at => Begins(file, l) /\ Len(file) = b
  BY <1>5, <1>7, <1>8, WrittenOn
<1>10. PICK r : r = [dbg.tool[t] EXCEPT !.at = b]
  OBVIOUS
<1>11. /\ r \in ToolStates /\ r.pc = "write" /\ r.at = b /\ r.levels = l
       /\ r.request = dbg.tool[t].request
  BY ONLY <1>1, <1>3, <1>10, b \in Nat DEF ToolStates
<1>12. PICK d : d = dbg' /\ d = [dbg EXCEPT !.file = file, !.tool[t] = r]
  <2>1. dbg' = [dbg EXCEPT !.file = file, !.tool[t].at = b]
    BY <1>2, <1>6, <1>7, <1>8
  <2> QED BY <1>10, <2>1
<1>13. file \in Seq(Nat) /\ file # None
  BY <1>9 DEF DebugAssumption
<1>14. /\ d \in DebugStates /\ d.app = dbg.app /\ d.file = file /\ d.levels = dbg.levels
       /\ d.at = dbg.at /\ d.client = dbg.client /\ d.meant = dbg.meant /\ d.torn = dbg.torn
       /\ d.stale = dbg.stale
       /\ \A u \in Tools : d.tool[u] = IF u = t THEN r ELSE dbg.tool[u]
  <2>1. dbg \in DebugStates /\ r \in ToolStates /\ file \in Seq(Nat)
    BY <1>1, <1>11, <1>13
  <2>2. d = [dbg EXCEPT !.file = file, !.tool[t] = r]
    BY <1>12
  <2>3. PICK e : e = [dbg EXCEPT !.file = file]
    OBVIOUS
  <2>4. /\ e \in DebugStates /\ e.app = dbg.app /\ e.file = file /\ e.levels = dbg.levels
        /\ e.at = dbg.at /\ e.client = dbg.client /\ e.meant = dbg.meant
        /\ e.torn = dbg.torn /\ e.stale = dbg.stale /\ e.tool = dbg.tool
    BY ONLY <2>1, <2>3 DEF DebugStates
  <2>5. d = [e EXCEPT !.tool[t] = r]
    BY <2>2, <2>3
  <2>6. d \in DebugStates
    BY ONLY <2>1, <2>4, <2>5, t \in Tools DEF DebugStates
  <2>7. /\ d.app = e.app /\ d.file = e.file /\ d.levels = e.levels
        /\ d.at = e.at /\ d.client = e.client /\ d.meant = e.meant
        /\ d.torn = e.torn /\ d.stale = e.stale
        /\ \A u \in Tools : d.tool[u] = IF u = t THEN r ELSE e.tool[u]
    BY ONLY <2>1, <2>4, <2>5, t \in Tools DEF DebugStates
  <2> QED BY <2>4, <2>6, <2>7
<1>15. ToolOK(r, d.file)
  BY <1>1, <1>7, <1>11, <1>13, <1>14 DEF ToolOK
<1>16. ~ dbg.torn => Begins(file, l) /\ Len(file) = b /\ l \in dbg.meant
  BY <1>1, <1>2, <1>3, <1>9, WriterIsAlone DEF ToolHalfWay
<1>17. ~ d.torn => ToolHalfWay(r, d.file, d.meant) /\ (Acceptable(d.file) => d.file \in d.meant)
  <2> SUFFICES ASSUME ~ dbg.torn
               PROVE  ToolHalfWay(r, file, dbg.meant) /\ (Acceptable(file) => file \in dbg.meant)
    BY <1>14
  <2>1. ToolHalfWay(r, file, dbg.meant)
    BY <1>11, <1>16 DEF ToolHalfWay
  <2>2. Acceptable(file) => file = l
    BY <1>13, <1>16, BegunAndWhole DEF Acceptable, DG!RightSize
  <2> QED BY <1>16, <2>1, <2>2
<1>18. /\ (~ d.stale => d.app = "down") /\ (dbg.torn => d.torn) /\ dbg.meant \subseteq d.meant
       /\ ~ d.torn => /\ d.app \notin {"loading", "saving"}
                       /\ \A u \in Tools : u # t => dbg.tool[u].pc # "write"
  BY <1>1, <1>14, WriterIsAlone
<1>19. dbg' = d /\ d.file \in Seq(Nat)
  BY <1>12, <1>13, <1>14
<1> QED BY <1>14, <1>15, <1>17, <1>18, <1>19, WriterStep, SMTT(60)

LEMMA DebugWriteFails ==
  ASSUME DebugAssumption, DebugInv, NEW t \in Tools, DG!WriteFails(t)
  PROVE  DebugInv'
<1>1. /\ dbg \in DebugStates /\ dbg.tool[t].pc = "write" /\ dbg.tool[t] \in ToolStates
      /\ dbg.tool \in [Tools -> ToolStates]
  BY ToolFields DEF DG!WriteFails
<1>2. PICK r : r = [dbg.tool[t] EXCEPT !.pc = "done"]
  OBVIOUS
<1>3. r \in ToolStates /\ r.pc = "done"
  BY ONLY <1>1, <1>2 DEF ToolStates
<1>4. PICK file \in Seq(Nat) : file = <<>> /\ file # None /\ ~ Acceptable(file)
  BY EmptyFile
<1>5. PICK d : d = dbg' /\ d = [dbg EXCEPT !.file = file, !.tool[t] = r]
  BY <1>2, <1>4 DEF DG!WriteFails
<1>6. /\ d \in DebugStates /\ d.app = dbg.app /\ d.file = file /\ d.levels = dbg.levels
      /\ d.at = dbg.at /\ d.client = dbg.client /\ d.meant = dbg.meant /\ d.torn = dbg.torn
      /\ d.stale = dbg.stale
      /\ \A u \in Tools : d.tool[u] = IF u = t THEN r ELSE dbg.tool[u]
  <2>1. dbg \in DebugStates /\ r \in ToolStates /\ file \in Seq(Nat)
    BY <1>1, <1>3
  <2>2. d = [dbg EXCEPT !.file = file, !.tool[t] = r]
    BY <1>5
  <2>3. PICK e : e = [dbg EXCEPT !.file = file]
    OBVIOUS
  <2>4. /\ e \in DebugStates /\ e.app = dbg.app /\ e.file = file /\ e.levels = dbg.levels
        /\ e.at = dbg.at /\ e.client = dbg.client /\ e.meant = dbg.meant
        /\ e.torn = dbg.torn /\ e.stale = dbg.stale /\ e.tool = dbg.tool
    BY ONLY <2>1, <2>3 DEF DebugStates
  <2>5. d = [e EXCEPT !.tool[t] = r]
    BY <2>2, <2>3
  <2>6. d \in DebugStates
    BY ONLY <2>1, <2>4, <2>5, t \in Tools DEF DebugStates
  <2>7. /\ d.app = e.app /\ d.file = e.file /\ d.levels = e.levels
        /\ d.at = e.at /\ d.client = e.client /\ d.meant = e.meant
        /\ d.torn = e.torn /\ d.stale = e.stale
        /\ \A u \in Tools : d.tool[u] = IF u = t THEN r ELSE e.tool[u]
    BY ONLY <2>1, <2>4, <2>5, t \in Tools DEF DebugStates
  <2> QED BY <2>4, <2>6, <2>7
<1>7. ToolOK(r, d.file) /\ ToolHalfWay(r, d.file, d.meant)
  BY <1>3 DEF ToolOK, ToolHalfWay
<1>8. /\ (~ d.stale => d.app = "down") /\ (dbg.torn => d.torn) /\ dbg.meant \subseteq d.meant
      /\ ~ d.torn => /\ d.app \notin {"loading", "saving"}
                      /\ \A u \in Tools : u # t => dbg.tool[u].pc # "write"
  BY <1>1, <1>6, WriterIsAlone
<1>9. ~ d.torn => ToolHalfWay(r, d.file, d.meant) /\ (Acceptable(d.file) => d.file \in d.meant)
  BY <1>4, <1>6, <1>7
<1>10. dbg' = d /\ d.file \in Seq(Nat)
  BY <1>5, <1>6
<1> QED BY <1>6, <1>7, <1>8, <1>9, <1>10, WriterStep, SMTT(60)

LEMMA DebugNext ==
  ASSUME DebugAssumption, DebugInv, [DG!Next]_(DG!vars)
  PROVE  DebugInv'
<1>1. CASE dbg' = dbg
  BY <1>1 DEF DebugInv
<1>2. CASE \/ DG!Start \/ DG!Load \/ DG!LoadEnd \/ DG!Save \/ DG!SaveFails \/ DG!SaveEnd
           \/ DG!Crash
  BY <1>2, DebugStart, DebugLoad, DebugLoadEnd, DebugSave, DebugSaveFails, DebugSaveEnd,
     DebugCrash
<1>3. ASSUME NEW t \in Tools, NEW line \in CommandLines, NEW connected \in BOOLEAN,
             DG!Begin(t, line, connected)
      PROVE  DebugInv'
  BY <1>3, DebugBegin
<1>4. ASSUME NEW t \in Tools,
             \/ DG!Get(t) \/ DG!GetFails(t) \/ DG!ReadFile(t) \/ DG!ReadFileEnd(t)
             \/ DG!Set(t) \/ DG!SetWithoutFile(t) \/ DG!SetFails(t)
             \/ DG!Write(t) \/ DG!WriteFails(t)
      PROVE  DebugInv'
  BY <1>4, DebugGet, DebugGetFails, DebugReadFile, DebugReadFileEnd, DebugSet,
     DebugSetWithoutFile, DebugSetFails, DebugWrite, DebugWriteFails
<1>5. ASSUME NEW t \in Tools, DG!WriteEnd(t) \/ DG!Killed(t)
      PROVE  DebugInv'
  BY <1>5, EndsTool DEF DG!WriteEnd, DG!Killed
<1> QED BY <1>1, <1>2, <1>3, <1>4, <1>5 DEF DG!Next, DG!vars

LEMMA DebugIsRight ==
  ASSUME DebugInv
  PROVE  DG!RestartKeepsLevels /\ DG!WholeOrNothing
<1>1. Guarded(dbg)
  BY DEF DebugInv
<1>2. DG!RestartKeepsLevels
  BY <1>1 DEF Guarded, Kept, Acceptable, DG!RestartKeepsLevels
<1>3. DG!WholeOrNothing
  BY <1>1 DEF Guarded, Meant, Acceptable, DG!WholeOrNothing
<1> QED BY <1>2, <1>3

(* For any number of tools, modules and levels, any command lines and any   *)
(* file that an application finds: after whatever failed writes, crashes    *)
(* and ends of tools, what a start would accept, and what the application   *)
(* works with, are the levels of one request, of the configuration or of    *)
(* the file before, as long as nobody else has the file open meanwhile; and *)
(* without another writer the file holds the levels in force                *)
(* (dbg_trace_ps.c, dbg_ctrl.c).                                            *)
THEOREM LevelsAreWhole ==
  ASSUME DebugAssumption
  PROVE  DG!Spec => [](DG!RestartKeepsLevels /\ DG!WholeOrNothing)
<1>1. DG!Init => DebugInv
  BY DebugInitially
<1>2. DebugInv /\ [DG!Next]_(DG!vars) => DebugInv'
  BY DebugNext
<1>3. DebugInv => DG!RestartKeepsLevels /\ DG!WholeOrNothing
  BY DebugIsRight
<1> QED BY <1>1, <1>2, <1>3, PTL DEF DG!Spec
=============================================================================
