------------------------- MODULE SubscriptionsProofs -------------------------
(***************************************************************************)
(* The name server and its clients, for any number of applications, threads, *)
(* ports, events, failed requests, crashes and restarts.                     *)
(*                                                                           *)
(* The name server alone: in the array of bound channels a port is there at  *)
(* most once, and each command does to the array what it does to a           *)
(* ChannelDirectory, whatever the order of the entries, which UNBIND_CHANNEL *)
(* and UNBIND_APP change.                                                    *)
(*                                                                           *)
(* The server with its clients, an invariant in four parts.  RouteInv: a     *)
(* thread has one request on its way, and what was granted to it is routed   *)
(* with no request behind it that takes it away.  RestType: the rest of the  *)
(* type.  NeedInv: whoever has a request about an application is still       *)
(* entitled to it or is served before the application runs again, and a bit  *)
(* nobody wants is about to be cleared.  CleanInv: while the process manager *)
(* removes an application, nothing behind its requests brings it back.       *)
(***************************************************************************)
EXTENDS Subscriptions, NameService, SequenceLemmas

-----------------------------------------------------------------------------
(* The array of the name server *)

\* A function that is applied once in each of L turns.
Iterates(L, V, start, step) ==
  \E f \in [0 .. L -> V] :
    f[0] = start /\ \A n \in 1 .. L : f[n] = step[f[n - 1]]

LEMMA TurnsExist ==
  ASSUME NEW L \in Nat, NEW V, NEW start \in V, NEW step \in [V -> V]
  PROVE  Iterates(L, V, start, step)
<1> DEFINE
      Upto(m, f) == f[0] = start /\ \A n \in 1 .. m : f[n] = step[f[n - 1]]
      Missing == {m \in 0 .. L : ~\E f \in [0 .. m -> V] : Upto(m, f)}
<1>1. Missing = {}
  <2> SUFFICES ASSUME Missing # {} PROVE FALSE
    OBVIOUS
  <2>1. Missing \in SUBSET Nat
    OBVIOUS
  <2>2. PICK m \in Missing : \A k \in Missing : m <= k
    <3> HIDE DEF Missing
    <3> QED BY <2>1, LeastExists
  <2>3. CASE m = 0
    <3> DEFINE f == [n \in 0 .. 0 |-> start]
    <3>1. f \in [0 .. 0 -> V] /\ Upto(0, f)
      OBVIOUS
    <3> HIDE DEF f
    <3> QED BY <2>2, <2>3, <3>1
  <2>4. CASE m # 0
    <3>1. m \in Nat /\ m <= L /\ m - 1 \in 0 .. L /\ ~(m <= m - 1)
      BY <2>4
    <3>2. m - 1 \notin Missing
      <4> HIDE DEF Missing
      <4> QED BY <2>2, <3>1
    <3>3. PICK g \in [0 .. m - 1 -> V] : Upto(m - 1, g)
      BY <3>1, <3>2
    <3> DEFINE f == [n \in 0 .. m |-> IF n = m THEN step[g[m - 1]] ELSE g[n]]
    <3>4. f \in [0 .. m -> V]
      <4>1. \A n \in 0 .. m : n # m => n \in 0 .. m - 1
        BY <3>1
      <4>2. m - 1 \in 0 .. m - 1
        BY <3>1, <2>4
      <4> QED BY <3>3, <4>1, <4>2
    <3>5. \A n \in 0 .. m : f[n] = IF n = 0 THEN start ELSE step[f[n - 1]]
      <4> TAKE n \in 0 .. m
      <4>1. CASE n = m
        <5>1. f[n] = step[g[m - 1]] /\ n - 1 \in 0 .. m /\ n - 1 # m
          BY <4>1, <3>1, <2>4
        <5>2. f[n - 1] = g[m - 1]
          BY <4>1, <5>1
        <5> HIDE DEF f
        <5> QED BY <4>1, <2>4, <5>1, <5>2
      <4>2. CASE n # m
        <5>1. n \in 0 .. m - 1 /\ f[n] = g[n]
          BY <4>2, <3>1
        <5>2. g[n] = IF n = 0 THEN start ELSE step[g[n - 1]]
          <6>1. n # 0 => n \in 1 .. m - 1
            BY <3>1, <5>1
          <6> HIDE DEF f
          <6> QED BY <3>3, <6>1
        <5>3. n # 0 => n - 1 \in 0 .. m /\ n - 1 # m
          BY <4>2, <3>1
        <5>4. n # 0 => f[n - 1] = g[n - 1]
          BY <5>3
        <5> HIDE DEF f
        <5> QED BY <5>1, <5>2, <5>4
      <4> QED BY <4>1, <4>2
    <3>6. Upto(m, f)
      <4> HIDE DEF f
      <4>1. 0 \in 0 .. m /\ \A n \in 1 .. m : n \in 0 .. m /\ n # 0
        BY <3>1
      <4> QED BY <3>5, <4>1
    <3> HIDE DEF f, Upto
    <3> QED BY <3>4, <3>6
  <2> QED BY <2>3, <2>4
<1>2. L \in 0 .. L
  OBVIOUS
<1> QED BY <1>1, <1>2 DEF Iterates

LEMMA FillHoleIs ==
  ASSUME NEW S, NEW ch \in Seq(S), NEW i \in 1 .. Len(ch)
  PROVE  /\ FillHole(ch, i) \in Seq(S)
         /\ Len(FillHole(ch, i)) = Len(ch) - 1
         /\ \A j \in 1 .. Len(ch) - 1 :
              FillHole(ch, i)[j] = IF j = i THEN ch[Len(ch)] ELSE ch[j]
<1> DEFINE r == [ch EXCEPT ![i] = ch[Len(ch)]]
<1>1. /\ r \in Seq(S) /\ Len(r) = Len(ch)
      /\ \A j \in 1 .. Len(ch) : r[j] = IF j = i THEN ch[Len(ch)] ELSE ch[j]
  <2>1. ch[Len(ch)] \in S
    OBVIOUS
  <2> QED BY <2>1
<1>2. FillHole(ch, i) = SubSeq(r, 1, Len(r) - 1)
  BY DEF FillHole, Front, Last
<1> HIDE DEF r
<1>3. Len(r) \in Nat /\ Len(r) >= 1
  BY <1>1
<1> QED BY <1>1, <1>2, <1>3, SubSeqProperties

\* At most one entry for a port.
PortsOnce(ch) ==
  \A i, j \in DOMAIN ch :
    ch[i].app_id = ch[j].app_id /\ ch[i].port_id = ch[j].port_id => i = j

\* After n turns of Unbind_App: the entries before i are others' ones, and
\* the entries of others are all there.
Swept_Up_To(a, ch, n, s) ==
  /\ (s.i - 1) + (Len(ch) - Len(s.ch)) = n
  /\ s.i <= Len(s.ch) + 1 /\ Len(s.ch) <= Len(ch)
  /\ \A j \in DOMAIN s.ch : j < s.i => s.ch[j].app_id # a
  /\ \A j \in DOMAIN s.ch : \E k \in DOMAIN ch : s.ch[j] = ch[k]
  /\ \A k \in DOMAIN ch : ch[k].app_id # a => \E j \in DOMAIN s.ch : s.ch[j] = ch[k]
  /\ PortsOnce(ch) => PortsOnce(s.ch)

\* A filled hole takes one entry away.
Hole(q, i, r) ==
  /\ Len(r) = Len(q) - 1 /\ DOMAIN r = 1 .. Len(q) - 1
  /\ \A j \in DOMAIN r : \E k \in DOMAIN q :
       r[j] = q[k] /\ k # i /\ (j < i => k = j)
  /\ \A k \in DOMAIN q : k # i => \E j \in DOMAIN r : r[j] = q[k]
  /\ PortsOnce(q) => PortsOnce(r)

LEMMA HoleFacts ==
  ASSUME NEW S, NEW q \in Seq(S), NEW i \in 1 .. Len(q),
         NEW r, r = FillHole(q, i)
  PROVE  r \in Seq(S) /\ Hole(q, i, r)
<1>0. PICK L \in Nat : L = Len(q)
  OBVIOUS
<1>1. i \in 1 .. L /\ i \in Nat /\ 1 <= i /\ i <= L /\ DOMAIN q = 1 .. L
  BY <1>0
<1>2. /\ r \in Seq(S) /\ Len(r) = L - 1
      /\ \A j \in 1 .. L - 1 : r[j] = IF j = i THEN q[L] ELSE q[j]
  BY <1>0, FillHoleIs
<1>3. DOMAIN r = 1 .. L - 1
  BY <1>2
<1>4. \A j \in 1 .. L - 1 : \E k \in 1 .. L :
         r[j] = q[k] /\ (j = i => k = L) /\ (j # i => k = j)
  <2> TAKE j \in 1 .. L - 1
  <2>1. CASE j = i
    <3>1. L \in 1 .. L /\ r[j] = q[L]
      BY <1>1, <1>2, <2>1
    <3> QED BY <2>1, <3>1
  <2>2. CASE j # i
    <3>1. j \in 1 .. L /\ r[j] = q[j]
      BY <1>1, <1>2, <2>2
    <3> QED BY <2>2, <3>1
  <2> QED BY <2>1, <2>2
<1>5. ASSUME NEW k \in 1 .. L, k # i
      PROVE  \E j \in 1 .. L - 1 : r[j] = q[k]
  <2>1. CASE k = L
    <3>1. i \in 1 .. L - 1 /\ r[i] = q[k]
      BY <1>1, <1>2, <1>5, <2>1
    <3> QED BY <3>1
  <2>2. CASE k # L
    <3>1. k \in 1 .. L - 1
      BY <1>1, <2>2
    <3>2. r[k] = q[k]
      BY <1>2, <1>5, <3>1
    <3> QED BY <3>1, <3>2
  <2> QED BY <2>1, <2>2
<1>6. ASSUME PortsOnce(q) PROVE PortsOnce(r)
  <2> SUFFICES ASSUME NEW j \in 1 .. L - 1, NEW k \in 1 .. L - 1,
                      r[j].app_id = r[k].app_id, r[j].port_id = r[k].port_id
               PROVE  j = k
    BY <1>3 DEF PortsOnce
  <2>1. PICK u \in 1 .. L :
          r[j] = q[u] /\ (j = i => u = L) /\ (j # i => u = j)
    BY <1>4
  <2>2. PICK v \in 1 .. L :
          r[k] = q[v] /\ (k = i => v = L) /\ (k # i => v = k)
    BY <1>4
  <2>3. u = v
    BY <1>1, <1>6, <2>1, <2>2 DEF PortsOnce
  <2>4. j # L /\ k # L
    BY <1>1
  <2> QED BY <2>1, <2>2, <2>3, <2>4
<1>7. \A j \in DOMAIN r : \E k \in DOMAIN q : r[j] = q[k] /\ k # i /\ (j < i => k = j)
  <2> SUFFICES ASSUME NEW j \in 1 .. L - 1
               PROVE  \E k \in 1 .. L : r[j] = q[k] /\ k # i /\ (j < i => k = j)
    BY <1>1, <1>3
  <2>1. PICK k \in 1 .. L :
          r[j] = q[k] /\ (j = i => k = L) /\ (j # i => k = j)
    BY <1>4
  <2>2. k # i
    BY <1>1, <2>1
  <2>3. j < i => k = j
    BY <1>1, <2>1
  <2> QED BY <2>1, <2>2, <2>3
<1> QED BY <1>0, <1>1, <1>2, <1>3, <1>5, <1>6, <1>7 DEF Hole

LEMMA SweepStep ==
  ASSUME NEW a, NEW ch \in Seq(Entry), NEW n \in Nat, n < Len(ch),
         NEW s \in [ch : Seq(Entry), i : Nat \ {0}], Swept_Up_To(a, ch, n, s)
  PROVE  Swept_Up_To(a, ch, n + 1, Sweep(a, s))
<1>1. PICK q \in Seq(Entry), i \in Nat \ {0} : q = s.ch /\ i = s.i
  OBVIOUS
<1>0. PICK L \in Nat, M \in Nat : L = Len(q) /\ M = Len(ch)
  OBVIOUS
<1>2. /\ (i - 1) + (M - L) = n /\ i <= L + 1 /\ L <= M
      /\ \A j \in DOMAIN q : j < i => q[j].app_id # a
      /\ \A j \in DOMAIN q : \E k \in DOMAIN ch : q[j] = ch[k]
      /\ \A k \in DOMAIN ch : ch[k].app_id # a => \E j \in DOMAIN q : q[j] = ch[k]
      /\ PortsOnce(ch) => PortsOnce(q)
  BY <1>0, <1>1 DEF Swept_Up_To
<1>3. DOMAIN q = 1 .. L
  BY <1>0
<1>4. i <= L /\ i \in 1 .. L /\ ~(i > L)
  BY <1>0, <1>2, <1>3
<1>5. CASE q[i].app_id = a
  <2>1. PICK r : r = FillHole(q, i)
    OBVIOUS
  <2>2. Sweep(a, s) = [s EXCEPT !.ch = r]
    BY <1>0, <1>1, <1>4, <1>5, <2>1 DEF Sweep
  <2>3. Sweep(a, s).ch = r /\ Sweep(a, s).i = i
    BY <1>1, <2>2
  <2>4. /\ Len(r) = L - 1 /\ DOMAIN r = 1 .. L - 1
        /\ \A j \in DOMAIN r : \E k \in DOMAIN q :
              r[j] = q[k] /\ k # i /\ (j < i => k = j)
        /\ \A k \in DOMAIN q : k # i => \E j \in DOMAIN r : r[j] = q[k]
        /\ PortsOnce(q) => PortsOnce(r)
    <3>1. i \in 1 .. Len(q) /\ q \in Seq(Entry)
      BY <1>0, <1>4
    <3>2. Hole(q, i, r)
      BY <2>1, <3>1, HoleFacts
    <3> QED BY <1>0, <3>2 DEF Hole
  <2>5. (i - 1) + (M - Len(r)) = n + 1 /\ i <= Len(r) + 1 /\ Len(r) <= M
    <3>1. (i - 1) + (M - (L - 1)) = n + 1 /\ i <= (L - 1) + 1 /\ L - 1 <= M
      BY <1>2, <1>4
    <3> QED BY <2>4, <3>1
  <2>6. \A j \in DOMAIN r : j < i => r[j].app_id # a
    BY <1>2, <2>4
  <2>7. \A j \in DOMAIN r : \E k \in DOMAIN ch : r[j] = ch[k]
    BY <1>2, <2>4
  <2>8. ASSUME NEW k \in DOMAIN ch, ch[k].app_id # a
        PROVE  \E j \in DOMAIN r : r[j] = ch[k]
    <3>1. PICK m \in DOMAIN q : q[m] = ch[k]
      BY <1>2, <2>8
    <3>2. m # i
      BY <1>5, <2>8, <3>1
    <3> QED BY <2>4, <3>1, <3>2
  <2> QED BY <1>0, <1>2, <2>3, <2>4, <2>5, <2>6, <2>7, <2>8 DEF Swept_Up_To
<1>6. CASE q[i].app_id # a
  <2>1. Sweep(a, s) = [s EXCEPT !.i = i + 1]
    BY <1>0, <1>1, <1>4, <1>6 DEF Sweep
  <2>2. Sweep(a, s).ch = q /\ Sweep(a, s).i = i + 1
    BY <1>1, <2>1
  <2>3. ((i + 1) - 1) + (M - L) = n + 1 /\ i + 1 <= L + 1
    BY <1>2, <1>3, <1>4
  <2>4. ASSUME NEW j \in 1 .. L, j < i + 1 PROVE q[j].app_id # a
    <3>1. j < i \/ j = i
      BY <2>4
    <3> QED BY <1>2, <1>3, <1>6, <3>1
  <2> QED BY <1>0, <1>2, <1>3, <2>2, <2>3, <2>4 DEF Swept_Up_To
<1> QED BY <1>5, <1>6

LEMMA SweepType ==
  ASSUME NEW a, NEW s \in [ch : Seq(Entry), i : Nat \ {0}]
  PROVE  Sweep(a, s) \in [ch : Seq(Entry), i : Nat \ {0}]
<1>1. s.ch \in Seq(Entry) /\ s.i \in Nat /\ s.i >= 1 /\ Len(s.ch) \in Nat
  OBVIOUS
<1>2. CASE s.i > Len(s.ch)
  BY <1>2 DEF Sweep
<1>3. CASE s.i <= Len(s.ch)
  <2>1. s.i \in 1 .. Len(s.ch) /\ ~(s.i > Len(s.ch))
    BY <1>1, <1>3
  <2> PICK r : r = FillHole(s.ch, s.i)
    OBVIOUS
  <2>2. r \in Seq(Entry)
    BY <1>1, <2>1, FillHoleIs
  <2>3. \/ Sweep(a, s) = [s EXCEPT !.ch = r]
        \/ Sweep(a, s) = [s EXCEPT !.i = s.i + 1]
    BY <2>1 DEF Sweep
  <2> QED BY <1>1, <2>2, <2>3
<1> QED BY <1>1, <1>2, <1>3

\* Unbind_App: the entries of the application are gone, the others are there.
LEMMA SweptIs ==
  ASSUME NEW a, NEW ch \in Seq(Entry)
  PROVE  /\ Swept(a, ch) \in Seq(Entry) /\ Len(Swept(a, ch)) <= Len(ch)
         /\ \A j \in DOMAIN Swept(a, ch) : Swept(a, ch)[j].app_id # a
         /\ \A j \in DOMAIN Swept(a, ch) : \E k \in DOMAIN ch : Swept(a, ch)[j] = ch[k]
         /\ \A k \in DOMAIN ch : ch[k].app_id # a =>
              \E j \in DOMAIN Swept(a, ch) : Swept(a, ch)[j] = ch[k]
         /\ PortsOnce(ch) => PortsOnce(Swept(a, ch))
<1> DEFINE V == [ch : Seq(Entry), i : Nat \ {0}]
           start == [ch |-> ch, i |-> 1]
           step == [s \in V |-> Sweep(a, s)]
           Turn(f) == f = [n \in 0 .. Len(ch) |->
                        IF n = 0 THEN [ch |-> ch, i |-> 1] ELSE Sweep(a, f[n - 1])]
           turn == CHOOSE f : Turn(f)
<1>1. start \in V /\ step \in [V -> V] /\ Len(ch) \in Nat
  BY SweepType
<1>2. PICK f \in [0 .. Len(ch) -> V] :
        f[0] = start /\ \A n \in 1 .. Len(ch) : f[n] = step[f[n - 1]]
  <2> HIDE DEF start, step, V
  <2>1. Iterates(Len(ch), V, start, step)
    BY <1>1, TurnsExist
  <2> QED BY <2>1 DEF Iterates
<1>3. Turn(f)
  <2>1. ASSUME NEW n \in 0 .. Len(ch), n # 0 PROVE f[n - 1] \in V
    <3>1. n - 1 \in 0 .. Len(ch)
      BY <1>1, <2>1
    <3> HIDE DEF V
    <3> QED BY <1>2, <3>1
  <2>2. \A n \in 0 .. Len(ch) : n # 0 => step[f[n - 1]] = Sweep(a, f[n - 1])
    BY <2>1
  <2> HIDE DEF step, V
  <2>3. \A n \in 0 .. Len(ch) :
           f[n] = IF n = 0 THEN [ch |-> ch, i |-> 1] ELSE Sweep(a, f[n - 1])
    BY <1>1, <1>2, <2>2
  <2> QED BY <1>2, <2>3
<1>4. Turn(turn)
  <2> HIDE DEF Turn
  <2> QED BY <1>3
<1>5. Swept(a, ch) = turn[Len(ch)].ch
  BY DEF Swept
<1> DEFINE Bad == {n \in 0 .. Len(ch) : ~(turn[n] \in V /\ Swept_Up_To(a, ch, n, turn[n]))}
<1>6. /\ turn[0] = start
      /\ \A n \in 0 .. Len(ch) : n # 0 => turn[n] = Sweep(a, turn[n - 1])
  <2> HIDE DEF turn
  <2>1. \A n \in 0 .. Len(ch) :
          turn[n] = IF n = 0 THEN [ch |-> ch, i |-> 1] ELSE Sweep(a, turn[n - 1])
    BY <1>4
  <2> QED BY <1>1, <2>1
<1> HIDE DEF turn, Turn
<1>7. Bad = {}
  <2> SUFFICES ASSUME Bad # {} PROVE FALSE
    OBVIOUS
  <2>1. Bad \in SUBSET Nat
    OBVIOUS
  <2>2. PICK m \in Bad : \A k \in Bad : m <= k
    <3> HIDE DEF Bad
    <3> QED BY <2>1, LeastExists
  <2>3. m # 0
    <3>1. start.i = 1 /\ start.ch = ch
      OBVIOUS
    <3>2. Swept_Up_To(a, ch, 0, start)
      <4> HIDE DEF start
      <4>1. (1 - 1) + (Len(ch) - Len(ch)) = 0 /\ 1 <= Len(ch) + 1
        BY <1>1
      <4>2. \A j \in DOMAIN ch : ~(j < 1)
        OBVIOUS
      <4> QED BY <3>1, <4>1, <4>2 DEF Swept_Up_To
    <3> HIDE DEF start, V
    <3>3. 0 \notin Bad
      BY <1>1, <1>6, <3>2
    <3> HIDE DEF Bad
    <3> QED BY <2>2, <3>3
  <2>4. m \in Nat /\ m - 1 \in 0 .. Len(ch) /\ m - 1 < Len(ch) /\ (m - 1) + 1 = m
        /\ ~(m <= m - 1) /\ m - 1 \in Nat /\ m \in 0 .. Len(ch)
    BY <2>2, <2>3
  <2>5. m - 1 \notin Bad
    <3> HIDE DEF Bad
    <3> QED BY <2>2, <2>4
  <2>6. turn[m - 1] \in V /\ Swept_Up_To(a, ch, m - 1, turn[m - 1])
    BY <2>4, <2>5
  <2>7. turn[m] = Sweep(a, turn[m - 1])
    BY <1>6, <2>3, <2>4
  <2>8. Swept_Up_To(a, ch, m, turn[m])
    BY <2>4, <2>6, <2>7, SweepStep
  <2>9. turn[m] \in V
    BY <2>6, <2>7, SweepType
  <2> HIDE DEF V
  <2> QED BY <2>2, <2>8, <2>9
<1>8. turn[Len(ch)] \in V /\ Swept_Up_To(a, ch, Len(ch), turn[Len(ch)])
  <2>1. Len(ch) \in 0 .. Len(ch)
    BY <1>1
  <2> HIDE DEF V
  <2> QED BY <1>7, <2>1
<1> PICK r : r = turn[Len(ch)].ch
  OBVIOUS
<1> PICK i : i = turn[Len(ch)].i
  OBVIOUS
<1>9. r \in Seq(Entry) /\ i \in Nat /\ Len(r) \in Nat
  BY <1>8
<1>10. /\ (i - 1) + (Len(ch) - Len(r)) = Len(ch) /\ i <= Len(r) + 1 /\ Len(r) <= Len(ch)
       /\ \A j \in DOMAIN r : j < i => r[j].app_id # a
       /\ \A j \in DOMAIN r : \E k \in DOMAIN ch : r[j] = ch[k]
       /\ \A k \in DOMAIN ch : ch[k].app_id # a => \E j \in DOMAIN r : r[j] = ch[k]
       /\ PortsOnce(ch) => PortsOnce(r)
  BY <1>8 DEF Swept_Up_To
<1>11. \A j \in DOMAIN r : j < i
  BY <1>1, <1>9, <1>10
<1> QED BY <1>5, <1>9, <1>10, <1>11

-----------------------------------------------------------------------------
(* What the array stands for *)

\* The first entry of a port in an array, and what it resolves to.
First(ch, a, p) == SelectInSeq(ch, LAMBDA c : c.app_id = a /\ c.port_id = p)

Resolved(ch, a, p) ==
  IF First(ch, a, p) = 0 THEN Unbound ELSE ch[First(ch, a, p)].channel

\* The same without an order: the channel of some entry of the port.
Maps(ch, a, p, c) ==
  \/ \E i \in DOMAIN ch :
       ch[i].app_id = a /\ ch[i].port_id = p /\ ch[i].channel = c
  \/ /\ c = Unbound
     /\ \A i \in DOMAIN ch : ~(ch[i].app_id = a /\ ch[i].port_id = p)

LEMMA FirstIs ==
  ASSUME NEW ch \in Seq(Entry), NEW a, NEW p
  PROVE  /\ First(ch, a, p) \in 0 .. Len(ch)
         /\ First(ch, a, p) # 0 =>
              /\ ch[First(ch, a, p)].app_id = a
              /\ ch[First(ch, a, p)].port_id = p
         /\ First(ch, a, p) = 0 =>
              \A i \in DOMAIN ch : ~(ch[i].app_id = a /\ ch[i].port_id = p)
<1> DEFINE I == {i \in 1 .. Len(ch) : ch[i].app_id = a /\ ch[i].port_id = p}
<1>1. First(ch, a, p) = IF I # {} THEN Min(I) ELSE 0
  BY DEF First, SelectInSeq
<1>2. Len(ch) \in Nat /\ DOMAIN ch = 1 .. Len(ch) /\ I \in SUBSET Nat
  OBVIOUS
<1>3. I # {} => Min(I) \in I
  <2> HIDE DEF I
  <2> QED BY <1>2, MinIs
<1>4. CASE I = {}
  BY <1>1, <1>2, <1>4
<1>5. CASE I # {}
  <2>1. First(ch, a, p) \in I
    <3> HIDE DEF I
    <3> QED BY <1>1, <1>3, <1>5
  <2> QED BY <1>2, <2>1
<1> QED BY <1>4, <1>5

LEMMA ResolvedIs ==
  ASSUME NEW ch \in Seq(Entry), PortsOnce(ch), NEW a, NEW p, NEW c, Maps(ch, a, p, c)
  PROVE  Resolved(ch, a, p) = c
<1> PICK f : f = First(ch, a, p)
  OBVIOUS
<1>1. /\ f \in 0 .. Len(ch)
      /\ f # 0 => ch[f].app_id = a /\ ch[f].port_id = p
      /\ f = 0 => \A i \in DOMAIN ch : ~(ch[i].app_id = a /\ ch[i].port_id = p)
  BY FirstIs
<1>2. f # 0 => f \in DOMAIN ch
  BY <1>1
<1>3. Resolved(ch, a, p) = IF f = 0 THEN Unbound ELSE ch[f].channel
  BY DEF Resolved
<1> QED BY <1>1, <1>2, <1>3 DEF Maps, PortsOnce

LEMMA ResolvedMaps ==
  ASSUME NEW ch \in Seq(Entry), NEW a, NEW p
  PROVE  Maps(ch, a, p, Resolved(ch, a, p))
<1> PICK f : f = First(ch, a, p)
  OBVIOUS
<1>1. /\ f \in 0 .. Len(ch)
      /\ f # 0 => ch[f].app_id = a /\ ch[f].port_id = p
      /\ f = 0 => \A i \in DOMAIN ch : ~(ch[i].app_id = a /\ ch[i].port_id = p)
  BY FirstIs
<1>2. f # 0 => f \in DOMAIN ch
  BY <1>1
<1>3. Resolved(ch, a, p) = IF f = 0 THEN Unbound ELSE ch[f].channel
  BY DEF Resolved
<1> QED BY <1>1, <1>2, <1>3 DEF Maps

\* The directory an array stands for.
Bound(ch) == [k \in Apps \X Ports |-> Resolved(ch, k[1], k[2])]

LEMMA BoundTo ==
  ASSUME NEW ch \in Seq(Entry), PortsOnce(ch),
         NEW d, d = [k \in Apps \X Ports |-> d[k]],
         \A a \in Apps, p \in Ports : Maps(ch, a, p, d[<<a, p>>])
  PROVE  Bound(ch) = d
<1>1. ASSUME NEW k \in Apps \X Ports PROVE Resolved(ch, k[1], k[2]) = d[k]
  <2>1. k[1] \in Apps /\ k[2] \in Ports /\ k = <<k[1], k[2]>>
    OBVIOUS
  <2>2. Maps(ch, k[1], k[2], d[k])
    BY <2>1
  <2> QED BY <2>2, ResolvedIs
<1> QED BY <1>1 DEF Bound

LEMMA BoundMaps ==
  ASSUME NEW ch \in Seq(Entry), NEW a \in Apps, NEW p \in Ports
  PROVE  Maps(ch, a, p, Bound(ch)[<<a, p>>])
BY ResolvedMaps DEF Bound

\* The array afterwards has channel c for a port and the others as before.
Gets(ch, ch2, a, p, c) == Bound(ch2) = [Bound(ch) EXCEPT ![<<a, p>>] = c]

WithEntry(ch, a, p, c) == Append(ch, [app_id |-> a, port_id |-> p, channel |-> c])
WithChannel(ch, i, c) == [ch EXCEPT ![i].channel = c]

\* Bind_Channel of a port that has no entry.
LEMMA BindNew ==
  ASSUME NEW ch \in Seq(Entry), PortsOnce(ch),
         NEW a \in Apps, NEW p \in Ports, NEW c \in Channels, First(ch, a, p) = 0,
         NEW ch2, ch2 = WithEntry(ch, a, p, c)
  PROVE  /\ ch2 \in Seq(Entry) /\ PortsOnce(ch2) /\ Len(ch2) = Len(ch) + 1
         /\ Gets(ch, ch2, a, p, c)
<1> PICK e : e = [app_id |-> a, port_id |-> p, channel |-> c]
  OBVIOUS
<1>1. e \in Entry /\ e.app_id = a /\ e.port_id = p /\ e.channel = c
  BY DEF Entry
<1> PICK L \in Nat : L = Len(ch)
  OBVIOUS
<1>2. /\ ch2 \in Seq(Entry) /\ Len(ch2) = L + 1
      /\ DOMAIN ch = 1 .. L /\ DOMAIN ch2 = 1 .. L + 1
      /\ \A i \in 1 .. L : i \in DOMAIN ch2 /\ ch2[i] = ch[i]
      /\ L + 1 \in DOMAIN ch2 /\ ch2[L + 1] = e
      /\ \A i \in DOMAIN ch2 : i \in DOMAIN ch \/ i = L + 1
  BY <1>1 DEF WithEntry
<1>3. \A i \in DOMAIN ch : ~(ch[i].app_id = a /\ ch[i].port_id = p)
  BY FirstIs
<1>4. PortsOnce(ch2)
  BY <1>1, <1>2, <1>3 DEF PortsOnce
<1> DEFINE d == [Bound(ch) EXCEPT ![<<a, p>>] = c]
<1>5. d = [k \in Apps \X Ports |-> d[k]]
  BY DEF Bound
<1>6. ASSUME NEW b \in Apps, NEW r \in Ports PROVE Maps(ch2, b, r, d[<<b, r>>])
  <2>1. CASE b = a /\ r = p
    <3>1. d[<<b, r>>] = c
      BY <2>1 DEF Bound
    <3> QED BY <1>1, <1>2, <2>1, <3>1 DEF Maps
  <2>2. CASE ~(b = a /\ r = p)
    <3>1. d[<<b, r>>] = Bound(ch)[<<b, r>>]
      BY <2>2 DEF Bound
    <3>2. Maps(ch, b, r, Bound(ch)[<<b, r>>])
      BY BoundMaps
    <3> QED BY <1>1, <1>2, <2>2, <3>1, <3>2 DEF Maps
  <2> QED BY <2>1, <2>2
<1>7. Bound(ch2) = d
  <2> HIDE DEF d
  <2> QED BY <1>2, <1>4, <1>5, <1>6, BoundTo
<1> QED BY <1>2, <1>4, <1>7 DEF Gets

\* Bind_Channel of a port that has an entry.
LEMMA BindAgain ==
  ASSUME NEW ch \in Seq(Entry), PortsOnce(ch),
         NEW a \in Apps, NEW p \in Ports, NEW c \in Channels, First(ch, a, p) # 0,
         NEW ch2, ch2 = WithChannel(ch, First(ch, a, p), c)
  PROVE  /\ ch2 \in Seq(Entry) /\ PortsOnce(ch2) /\ Len(ch2) = Len(ch)
         /\ \A i \in DOMAIN ch2 : i \in DOMAIN ch /\ ch2[i].app_id = ch[i].app_id
         /\ Gets(ch, ch2, a, p, c)
<1> PICK f : f = First(ch, a, p)
  OBVIOUS
<1> PICK L \in Nat : L = Len(ch)
  OBVIOUS
<1>1. f \in 1 .. L /\ ch[f].app_id = a /\ ch[f].port_id = p /\ DOMAIN ch = 1 .. L
  BY FirstIs
<1> PICK e : e = [ch[f] EXCEPT !.channel = c]
  OBVIOUS
<1>2. e \in Entry /\ e.app_id = a /\ e.port_id = p /\ e.channel = c
  <2>1. ch[f] \in Entry
    BY <1>1
  <2> QED BY <1>1, <2>1 DEF Entry
<1>3. ch2 = [ch EXCEPT ![f] = e]
  BY DEF WithChannel
<1>4. /\ ch2 \in Seq(Entry) /\ Len(ch2) = L /\ DOMAIN ch2 = 1 .. L /\ ch2[f] = e
      /\ \A i \in 1 .. L : i # f => ch2[i] = ch[i]
  BY <1>1, <1>2, <1>3
<1>5. \A i \in 1 .. L :
        ch2[i].app_id = ch[i].app_id /\ ch2[i].port_id = ch[i].port_id
  BY <1>1, <1>2, <1>4
<1>6. PortsOnce(ch2)
  BY <1>1, <1>4, <1>5 DEF PortsOnce
<1> DEFINE d == [Bound(ch) EXCEPT ![<<a, p>>] = c]
<1>7. d = [k \in Apps \X Ports |-> d[k]]
  BY DEF Bound
<1>8. ASSUME NEW b \in Apps, NEW r \in Ports PROVE Maps(ch2, b, r, d[<<b, r>>])
  <2>1. CASE b = a /\ r = p
    <3>1. d[<<b, r>>] = c
      BY <2>1 DEF Bound
    <3> QED BY <1>1, <1>2, <1>4, <2>1, <3>1, ZenonT(40) DEF Maps
  <2>2. CASE ~(b = a /\ r = p)
    <3>1. d[<<b, r>>] = Bound(ch)[<<b, r>>]
      BY <2>2 DEF Bound
    <3>2. Maps(ch, b, r, Bound(ch)[<<b, r>>])
      BY BoundMaps
    <3> QED BY <1>1, <1>4, <1>5, <2>2, <3>1, <3>2 DEF Maps
  <2> QED BY <2>1, <2>2
<1>9. Bound(ch2) = d
  <2> HIDE DEF d
  <2> QED BY <1>4, <1>6, <1>7, <1>8, BoundTo
<1> QED BY <1>1, <1>4, <1>5, <1>6, <1>9 DEF Gets

\* Unbind_Channel.
LEMMA UnbindOne ==
  ASSUME NEW ch \in Seq(Entry), PortsOnce(ch), NEW i \in 1 .. Len(ch),
         NEW ch2, ch2 = FillHole(ch, i)
  PROVE  /\ ch2 \in Seq(Entry) /\ PortsOnce(ch2) /\ Len(ch2) = Len(ch) - 1
         /\ \A j \in DOMAIN ch2 : \E k \in DOMAIN ch : ch2[j] = ch[k]
         /\ Gets(ch, ch2, ch[i].app_id, ch[i].port_id, Unbound)
<1>1. ch2 \in Seq(Entry) /\ Hole(ch, i, ch2)
  BY HoleFacts
<1>2. /\ Len(ch2) = Len(ch) - 1 /\ PortsOnce(ch2)
      /\ \A j \in DOMAIN ch2 : \E k \in DOMAIN ch : ch2[j] = ch[k] /\ k # i
      /\ \A k \in DOMAIN ch : k # i => \E j \in DOMAIN ch2 : ch2[j] = ch[k]
  BY <1>1 DEF Hole
<1> PICK a, p : a = ch[i].app_id /\ p = ch[i].port_id
  OBVIOUS
<1>3. i \in DOMAIN ch /\ a \in Apps /\ p \in Ports
  <2>1. i \in DOMAIN ch /\ ch[i] \in Entry
    OBVIOUS
  <2> QED BY <2>1 DEF Entry
<1> DEFINE d == [Bound(ch) EXCEPT ![<<a, p>>] = Unbound]
<1>4. d = [k \in Apps \X Ports |-> d[k]]
  BY DEF Bound
<1>5. ASSUME NEW b \in Apps, NEW r \in Ports PROVE Maps(ch2, b, r, d[<<b, r>>])
  <2>1. CASE b = a /\ r = p
    <3>1. d[<<b, r>>] = Unbound
      BY <2>1 DEF Bound
    <3>2. \A k \in DOMAIN ch : ch[k].app_id = a /\ ch[k].port_id = p => k = i
      BY <1>3 DEF PortsOnce
    <3> QED BY <1>2, <2>1, <3>1, <3>2 DEF Maps
  <2>2. CASE ~(b = a /\ r = p)
    <3>1. d[<<b, r>>] = Bound(ch)[<<b, r>>]
      BY <2>2 DEF Bound
    <3>2. Maps(ch, b, r, Bound(ch)[<<b, r>>])
      BY BoundMaps
    <3> PICK c : c = Bound(ch)[<<b, r>>]
      OBVIOUS
    <3>3. CASE \E k \in DOMAIN ch :
                 ch[k].app_id = b /\ ch[k].port_id = r /\ ch[k].channel = c
      BY <1>2, <2>2, <3>1, <3>3 DEF Maps
    <3>4. CASE /\ c = Unbound
               /\ \A k \in DOMAIN ch : ~(ch[k].app_id = b /\ ch[k].port_id = r)
      BY <1>2, <3>1, <3>4 DEF Maps
    <3> QED BY <3>2, <3>3, <3>4 DEF Maps
  <2> QED BY <2>1, <2>2
<1>6. Bound(ch2) = d
  <2> HIDE DEF d
  <2> QED BY <1>1, <1>2, <1>4, <1>5, BoundTo
<1> QED BY <1>1, <1>2, <1>6 DEF Gets

\* Unbind_App.
LEMMA UnbindAll ==
  ASSUME NEW ch \in Seq(Entry), PortsOnce(ch), NEW a \in Apps, NEW ch2, ch2 = Swept(a, ch)
  PROVE  Bound(ch2) = [k \in Apps \X Ports |-> IF k[1] = a THEN Unbound ELSE Bound(ch)[k]]
<1> DEFINE d == [k \in Apps \X Ports |-> IF k[1] = a THEN Unbound ELSE Bound(ch)[k]]
<1>1. /\ ch2 \in Seq(Entry) /\ PortsOnce(ch2)
      /\ \A j \in DOMAIN ch2 : ch2[j].app_id # a
      /\ \A j \in DOMAIN ch2 : \E k \in DOMAIN ch : ch2[j] = ch[k]
      /\ \A k \in DOMAIN ch : ch[k].app_id # a => \E j \in DOMAIN ch2 : ch2[j] = ch[k]
  BY SweptIs
<1>2. d = [k \in Apps \X Ports |-> d[k]]
  OBVIOUS
<1>3. ASSUME NEW b \in Apps, NEW r \in Ports PROVE Maps(ch2, b, r, d[<<b, r>>])
  <2>1. CASE b = a
    <3>1. d[<<b, r>>] = Unbound
      BY <2>1
    <3> QED BY <1>1, <2>1, <3>1 DEF Maps
  <2>2. CASE b # a
    <3>1. d[<<b, r>>] = Bound(ch)[<<b, r>>]
      BY <2>2
    <3>2. Maps(ch, b, r, Bound(ch)[<<b, r>>])
      BY BoundMaps
    <3> PICK c : c = Bound(ch)[<<b, r>>]
      OBVIOUS
    <3>3. CASE \E k \in DOMAIN ch :
                 ch[k].app_id = b /\ ch[k].port_id = r /\ ch[k].channel = c
      BY <1>1, <2>2, <3>1, <3>3 DEF Maps
    <3>4. CASE /\ c = Unbound
               /\ \A k \in DOMAIN ch : ~(ch[k].app_id = b /\ ch[k].port_id = r)
      BY <1>1, <3>1, <3>4 DEF Maps
    <3> QED BY <3>2, <3>3, <3>4 DEF Maps
  <2> QED BY <2>1, <2>2
<1> HIDE DEF d
<1>4. Bound(ch2) = d
  BY <1>1, <1>2, <1>3, BoundTo
<1> QED BY <1>4 DEF d

ServerInv == ServerTypeOK /\ PortsOnce(channels)

\* The mapping of the refinement.
LEMMA ResolveIs ==
  ASSUME NEW a, NEW p, NEW cmd, cmd.app_id = a, cmd.port_id = p
  PROVE  Find(a, p) = First(channels, a, p) /\ Resolve_Channel(cmd) = Resolved(channels, a, p)
BY DEF Find, First, Resolve_Channel, Resolved

Mapped ==
  [k \in Apps \X Ports |-> Resolve_Channel([app_id |-> k[1], port_id |-> k[2]])]

LEMMA MappedIs == Mapped = Bound(channels)
<1>1. ASSUME NEW k \in Apps \X Ports
      PROVE  Resolve_Channel([app_id |-> k[1], port_id |-> k[2]]) = Resolved(channels, k[1], k[2])
  <2>1. /\ [app_id |-> k[1], port_id |-> k[2]].app_id = k[1]
        /\ [app_id |-> k[1], port_id |-> k[2]].port_id = k[2]
    OBVIOUS
  <2> QED BY <2>1, ResolveIs
<1> QED BY <1>1 DEF Mapped, Bound

LEMMA CommandTypes ==
  ASSUME NEW cmd \in Commands
  PROVE  /\ cmd.command = "BIND_CHANNEL" =>
              cmd.app_id \in Apps /\ cmd.port_id \in Ports /\ cmd.channel \in Channels
         /\ cmd.command = "UNBIND_CHANNEL" => cmd.channel \in Channels
         /\ cmd.command = "RESOLVE_CHANNEL" => cmd.app_id \in Apps /\ cmd.port_id \in Ports
         /\ cmd.command \in {"UNBIND_APP", "UNSUBSCRIBE_APP", "SUBSCRIBE", "UNSUBSCRIBE"} =>
              cmd.app_id \in Apps
<1>1. CASE cmd \in {SAL_NS_Bind_Channel(a, p, ch) : a \in Apps, p \in Ports, ch \in Channels}
  BY <1>1 DEF SAL_NS_Bind_Channel
<1>2. CASE cmd \in {SAL_NS_Unbind_Channel(ch) : ch \in Channels}
  BY <1>2 DEF SAL_NS_Unbind_Channel
<1>3. CASE cmd \in {SAL_NS_Resolve_Channel(a, p) : a \in Apps, p \in Ports}
  BY <1>3 DEF SAL_NS_Resolve_Channel
<1> DEFINE Lists == (SUBSET (Events \cup OtherIds)) \ {{}}
<1>4. CASE cmd \in {SAL_NS_Subscribe(a, ids) : a \in Apps, ids \in Lists}
  <2> HIDE DEF Lists
  <2> QED BY <1>4 DEF SAL_NS_Subscribe
<1>5. CASE cmd \in {SAL_NS_Unsubscribe(a, ids) : a \in Apps, ids \in Lists}
  <2> HIDE DEF Lists
  <2> QED BY <1>5 DEF SAL_NS_Unsubscribe
<1>6. CASE cmd \in {SAL_NS_Unsubscribe_App(a) : a \in Apps}
  BY <1>6 DEF SAL_NS_Unsubscribe_App
<1>7. CASE cmd \in {SAL_NS_Unbind_App(a) : a \in Apps}
  BY <1>7 DEF SAL_NS_Unbind_App
<1>8. CASE cmd \in {SAL_NS_Get_App_Data(a) : a \in Apps \cup OtherIds}
  BY <1>8 DEF SAL_NS_Get_App_Data
<1>9. CASE cmd \in {SAL_NS_Get_Running_App_Ids, SAL_NS_Get_Last_App_Id,
                   SAL_NS_Get_Last_Dbg_Module_Id}
  BY <1>9 DEF SAL_NS_Get_Running_App_Ids, SAL_NS_Get_Last_App_Id, SAL_NS_Get_Last_Dbg_Module_Id
<1>10. CASE cmd \in {SAL_NS_Get_Dbg_Module_Data(m) : m \in 0 .. TR_NUM_MODULE_IDS}
  BY <1>10 DEF SAL_NS_Get_Dbg_Module_Data
<1> QED
  BY <1>1, <1>2, <1>3, <1>4, <1>5, <1>6, <1>7, <1>8, <1>9, <1>10, SMTT(60) DEF Commands

\* The entry Unbind_Channel finds.
ChannelAt(ch, c) == SelectInSeq(ch, LAMBDA x : x.channel = c)

LEMMA FoundChannel ==
  ASSUME NEW ch \in Seq(Entry), NEW c, NEW i, i = ChannelAt(ch, c),
         \E j \in DOMAIN ch : ch[j].channel = c
  PROVE  i \in 1 .. Len(ch) /\ ch[i].channel = c
<1> DEFINE I == {j \in 1 .. Len(ch) : ch[j].channel = c}
<1>1. i = IF I # {} THEN Min(I) ELSE 0
  BY DEF ChannelAt, SelectInSeq
<1>2. Len(ch) \in Nat /\ DOMAIN ch = 1 .. Len(ch) /\ I \in SUBSET Nat /\ I # {}
  OBVIOUS
<1>3. Min(I) \in I
  <2> HIDE DEF I
  <2> QED BY <1>2, MinIs
<1>4. i \in I
  <2> HIDE DEF I
  <2> QED BY <1>1, <1>2, <1>3
<1> QED BY <1>4

LEMMA RoutingType ==
  ASSUME routing_table \in [Events -> SUBSET Apps], NEW cmd \in Commands, Handle(cmd)
  PROVE  routing_table' \in [Events -> SUBSET Apps]
<1>1. CASE UNCHANGED routing_table
  BY <1>1
<1>2. CASE /\ cmd.command \in {"SUBSCRIBE", "UNSUBSCRIBE"}
           /\ Update_Events(cmd.app_id, cmd.event_ids, cmd.command = "SUBSCRIBE")
  <2>1. cmd.app_id \in Apps
    BY <1>2, CommandTypes
  <2> QED BY <1>2, <2>1 DEF Update_Events
<1>3. CASE cmd.command = "UNSUBSCRIBE_APP" /\ Unsubscribe_App(cmd.app_id)
  BY <1>3 DEF Unsubscribe_App
<1> QED BY <1>1, <1>2, <1>3 DEF Handle, Change, tables

-----------------------------------------------------------------------------
(* What a command does to the array *)

\* An entry is one of before, perhaps with another channel, or the one that was
\* bound.
Stays(cmd) ==
  /\ \A j \in DOMAIN channels' :
       \/ \E k \in DOMAIN channels : channels'[j].app_id = channels[k].app_id
       \/ cmd.command = "BIND_CHANNEL" /\ channels'[j].app_id = cmd.app_id
  /\ cmd.command = "UNBIND_APP" =>
       \A j \in DOMAIN channels' : channels'[j].app_id # cmd.app_id

LEMMA BindStep ==
  ASSUME ServerInv, NEW cmd \in Commands, cmd.command = "BIND_CHANNEL",
         ~Bind_Refused(cmd), Bind_Channel(cmd)
  PROVE  /\ channels' \in Seq(Entry) /\ Len(channels') <= SAL_MAX_CHANNELS
         /\ PortsOnce(channels') /\ Stays(cmd)
         /\ Gets(channels, channels', cmd.app_id, cmd.port_id, cmd.channel)
<1> PICK a, p, c : a = cmd.app_id /\ p = cmd.port_id /\ c = cmd.channel
  OBVIOUS
<1>1. a \in Apps /\ p \in Ports /\ c \in Channels
  BY CommandTypes
<1>2. /\ channels \in Seq(Entry) /\ Len(channels) <= SAL_MAX_CHANNELS
      /\ PortsOnce(channels) /\ SAL_MAX_CHANNELS \in Nat
  BY NameServerAssumption DEF ServerInv, ServerTypeOK
<1>3. Find(a, p) = First(channels, a, p)
  BY ResolveIs DEF Find, First
<1>4. CASE First(channels, a, p) # 0
  <2>1. channels' = WithChannel(channels, First(channels, a, p), c)
    BY <1>3, <1>4 DEF Bind_Channel, WithChannel
  <2>2. /\ channels' \in Seq(Entry) /\ PortsOnce(channels') /\ Len(channels') = Len(channels)
        /\ \A i \in DOMAIN channels' :
             i \in DOMAIN channels /\ channels'[i].app_id = channels[i].app_id
        /\ Gets(channels, channels', a, p, c)
    BY <1>1, <1>2, <1>4, <2>1, BindAgain
  <2>3. Stays(cmd)
    BY <2>2 DEF Stays
  <2> QED BY <1>2, <2>2, <2>3
<1>5. CASE First(channels, a, p) = 0
  <2>1. channels' = WithEntry(channels, a, p, c)
    BY <1>3, <1>5 DEF Bind_Channel, WithEntry
  <2>2. /\ channels' \in Seq(Entry) /\ PortsOnce(channels') /\ Len(channels') = Len(channels) + 1
        /\ Gets(channels, channels', a, p, c)
    BY <1>1, <1>2, <1>5, <2>1, BindNew
  <2>3. Len(channels') <= SAL_MAX_CHANNELS
    <3>1. ~(Len(channels) >= SAL_MAX_CHANNELS)
      BY <1>3, <1>5 DEF Bind_Refused
    <3>2. Len(channels) \in Nat
      BY <1>2
    <3> QED BY <1>2, <2>2, <3>1, <3>2
  <2>4. Stays(cmd)
    <3> PICK e : e = [app_id |-> a, port_id |-> p, channel |-> c]
      OBVIOUS
    <3>1. channels' = Append(channels, e) /\ e.app_id = a
      BY <2>1 DEF WithEntry
    <3>2. \A j \in DOMAIN channels' :
            (j \in DOMAIN channels /\ channels'[j] = channels[j]) \/ channels'[j] = e
      BY <1>2, <3>1
    <3> QED BY <3>1, <3>2 DEF Stays
  <2> QED BY <2>2, <2>3, <2>4
<1> QED BY <1>4, <1>5

LEMMA UnbindStep ==
  ASSUME ServerInv, NEW cmd \in Commands, cmd.command = "UNBIND_CHANNEL",
         ~Unbind_Refused(cmd), Unbind_Channel(cmd)
  PROVE  /\ channels' \in Seq(Entry) /\ Len(channels') <= SAL_MAX_CHANNELS
         /\ PortsOnce(channels') /\ Stays(cmd)
         /\ \E a \in Apps, p \in Ports :
              /\ Bound(channels)[<<a, p>>] = cmd.channel
              /\ Gets(channels, channels', a, p, Unbound)
<1>2. /\ channels \in Seq(Entry) /\ Len(channels) <= SAL_MAX_CHANNELS
      /\ PortsOnce(channels) /\ SAL_MAX_CHANNELS \in Nat /\ Len(channels) \in Nat
  BY NameServerAssumption DEF ServerInv, ServerTypeOK
<1>3. \E j \in DOMAIN channels : channels[j].channel = cmd.channel
  BY DEF Unbind_Refused
<1>4. PICK i \in 1 .. Len(channels) :
        channels[i].channel = cmd.channel /\ channels' = FillHole(channels, i)
  <2>1. channels' = FillHole(channels, ChannelAt(channels, cmd.channel))
    BY DEF Unbind_Channel, ChannelAt
  <2> QED BY <1>2, <1>3, <2>1, FoundChannel
<1> PICK a, p : a = channels[i].app_id /\ p = channels[i].port_id
  OBVIOUS
<1>6. /\ channels' \in Seq(Entry) /\ PortsOnce(channels') /\ Len(channels') = Len(channels) - 1
      /\ \A j \in DOMAIN channels' : \E k \in DOMAIN channels : channels'[j] = channels[k]
      /\ Gets(channels, channels', a, p, Unbound)
  BY <1>2, <1>4, UnbindOne
<1>7. a \in Apps /\ p \in Ports /\ i \in DOMAIN channels
  <2>1. channels[i] \in Entry /\ i \in DOMAIN channels
    BY <1>2, <1>4
  <2> QED BY <2>1 DEF Entry
<1>8. Bound(channels)[<<a, p>>] = cmd.channel
  <2>1. Maps(channels, a, p, cmd.channel)
    BY <1>4, <1>7 DEF Maps
  <2>2. Resolved(channels, a, p) = cmd.channel
    BY <1>2, <2>1, ResolvedIs
  <2> QED BY <1>7, <2>2 DEF Bound
<1>9. Stays(cmd)
  BY <1>6 DEF Stays
<1>10. \E b \in Apps, r \in Ports :
         /\ Bound(channels)[<<b, r>>] = cmd.channel
         /\ Gets(channels, channels', b, r, Unbound)
  BY <1>6, <1>7, <1>8
<1>11. Len(channels') <= SAL_MAX_CHANNELS
  BY <1>2, <1>6
<1> QED BY <1>6, <1>9, <1>10, <1>11

LEMMA UnbindAppStep ==
  ASSUME ServerInv, NEW cmd \in Commands, cmd.command = "UNBIND_APP", Unbind_App(cmd)
  PROVE  /\ channels' \in Seq(Entry) /\ Len(channels') <= SAL_MAX_CHANNELS
         /\ PortsOnce(channels') /\ Stays(cmd)
         /\ Bound(channels') = [k \in Apps \X Ports |->
                IF k[1] = cmd.app_id THEN Unbound ELSE Bound(channels)[k]]
<1> PICK a : a = cmd.app_id
  OBVIOUS
<1>1. a \in Apps
  BY CommandTypes
<1>2. /\ channels \in Seq(Entry) /\ Len(channels) <= SAL_MAX_CHANNELS
      /\ PortsOnce(channels) /\ SAL_MAX_CHANNELS \in Nat /\ Len(channels) \in Nat
  BY NameServerAssumption DEF ServerInv, ServerTypeOK
<1>3. channels' = Swept(a, channels)
  BY DEF Unbind_App
<1>4. /\ channels' \in Seq(Entry) /\ Len(channels') <= Len(channels) /\ PortsOnce(channels')
      /\ \A j \in DOMAIN channels' : channels'[j].app_id # a
      /\ \A j \in DOMAIN channels' : \E k \in DOMAIN channels : channels'[j] = channels[k]
  BY <1>2, <1>3, SweptIs
<1>5. Bound(channels') = [k \in Apps \X Ports |->
                            IF k[1] = a THEN Unbound ELSE Bound(channels)[k]]
  BY <1>1, <1>2, <1>3, UnbindAll
<1>6. Stays(cmd)
  BY <1>4 DEF Stays
<1>7. Len(channels') <= SAL_MAX_CHANNELS
  <2>1. Len(channels') \in Nat
    BY <1>4
  <2> QED BY <1>2, <1>4, <2>1
<1> QED BY <1>4, <1>5, <1>6, <1>7

LEMMA HandleChannels ==
  ASSUME ServerInv, NEW cmd \in Commands, Handle(cmd)
  PROVE  ServerInv' /\ Stays(cmd)
<1>1. routing_table' \in [Events -> SUBSET Apps]
  BY RoutingType DEF ServerInv, ServerTypeOK
<1>2. CASE channels' = channels /\ cmd.command # "UNBIND_APP"
  BY <1>1, <1>2 DEF ServerInv, ServerTypeOK, Stays, PortsOnce
<1>3. CASE cmd.command = "BIND_CHANNEL" /\ ~Fails(cmd) /\ Bind_Channel(cmd)
  <2>1. ~Bind_Refused(cmd)
    BY <1>3 DEF Fails
  <2> QED BY <1>1, <1>3, <2>1, BindStep DEF ServerInv, ServerTypeOK, PortsOnce
<1>4. CASE cmd.command = "UNBIND_CHANNEL" /\ ~Fails(cmd) /\ Unbind_Channel(cmd)
  <2>1. ~Unbind_Refused(cmd)
    BY <1>4 DEF Fails
  <2> QED BY <1>1, <1>4, <2>1, UnbindStep DEF ServerInv, ServerTypeOK, PortsOnce
<1>5. CASE cmd.command = "UNBIND_APP" /\ Unbind_App(cmd)
  BY <1>1, <1>5, UnbindAppStep DEF ServerInv, ServerTypeOK, PortsOnce
<1>6. cmd.command = "UNBIND_APP" => ~Fails(cmd) /\ cmd.command \notin Queries
  BY DEF Fails, Queries
<1> QED BY <1>2, <1>3, <1>4, <1>5, <1>6 DEF Handle, Change, tables

-----------------------------------------------------------------------------
(* Each command is the step of the directory for it *)

LEMMA MappedNext == Mapped' = Bound(channels')
<1>1. (Mapped = Bound(channels))'
  BY MappedIs, PTL
<1> QED BY <1>1 DEF Bound

\* The ports an array binds.
PortsOf(ch) == {k \in Apps \X Ports : Bound(ch)[k] # Unbound}

LEMMA BoundIff ==
  ASSUME NEW ch \in Seq(Entry), NEW a \in Apps, NEW p \in Ports
  PROVE  /\ <<a, p>> \in PortsOf(ch) <=> First(ch, a, p) # 0
         /\ <<a, p>> \in PortsOf(ch) <=>
              \E i \in DOMAIN ch : ch[i].app_id = a /\ ch[i].port_id = p
<1> PICK f : f = First(ch, a, p)
  OBVIOUS
<1>1. /\ f \in 0 .. Len(ch)
      /\ f # 0 => ch[f].app_id = a /\ ch[f].port_id = p
      /\ f = 0 => \A i \in DOMAIN ch : ~(ch[i].app_id = a /\ ch[i].port_id = p)
  BY FirstIs
<1>2. f # 0 => f \in DOMAIN ch /\ ch[f].channel \in Channels
  <2>1. f # 0 => f \in DOMAIN ch /\ ch[f] \in Entry
    BY <1>1
  <2> QED BY <2>1 DEF Entry
<1>3. Bound(ch)[<<a, p>>] = IF f = 0 THEN Unbound ELSE ch[f].channel
  BY DEF Bound, Resolved
<1>4. <<a, p>> \in PortsOf(ch) <=> f # 0
  BY <1>2, <1>3, NameServerAssumption DEF PortsOf
<1> QED BY <1>1, <1>2, <1>4

\* Each entry is a port of its own: there are as many ports as entries.
LEMMA PortsAreEntries ==
  ASSUME NEW ch \in Seq(Entry), PortsOnce(ch)
  PROVE  Cardinality(PortsOf(ch)) = Len(ch)
<1> PICK n \in Nat : n = Len(ch) /\ DOMAIN ch = 1 .. n
  OBVIOUS
<1> DEFINE f == [i \in 1 .. n |-> <<ch[i].app_id, ch[i].port_id>>]
<1>1. \A i \in 1 .. n : ch[i].app_id \in Apps /\ ch[i].port_id \in Ports
  <2>1. \A i \in 1 .. n : ch[i] \in Entry
    OBVIOUS
  <2> QED BY <2>1 DEF Entry
<1>2. f \in [1 .. n -> PortsOf(ch)]
  BY <1>1, BoundIff
<1>3. \A i, j \in 1 .. n : f[i] = f[j] => i = j
  BY DEF PortsOnce
<1>4. ASSUME NEW k \in PortsOf(ch) PROVE \E i \in 1 .. n : f[i] = k
  <2>1. k[1] \in Apps /\ k[2] \in Ports /\ k = <<k[1], k[2]>>
    BY DEF PortsOf
  <2>2. \E i \in DOMAIN ch : ch[i].app_id = k[1] /\ ch[i].port_id = k[2]
    BY <2>1, BoundIff
  <2> QED BY <2>1, <2>2
<1>5. f \in Bijection(1 .. n, PortsOf(ch))
  <2> HIDE DEF f
  <2>1. DOMAIN f = 1 .. n
    BY <1>2
  <2> QED BY <1>2, <1>3, <1>4, <2>1 DEF Bijection, Injection, Surjection, IsInjective
<1>6. ExistsBijection(1 .. n, PortsOf(ch))
  <2> HIDE DEF f
  <2> QED BY <1>5 DEF ExistsBijection
<1> QED BY <1>6, FS_CountingElements

LEMMA DirectoryPorts ==
  /\ Directory!Keys = Apps \X Ports
  /\ Directory!BoundKeys = PortsOf(channels)
  /\ Directory!Running = {a \in Apps : <<a, RouterPort>> \in PortsOf(channels)}
<1>1. Directory!BoundKeys = PortsOf(channels)
  <2>1. Directory!BoundKeys = {k \in Apps \X Ports : Mapped[k] # Unbound}
    BY DEF Directory!BoundKeys, Directory!Keys, Mapped
  <2> QED BY <2>1, MappedIs DEF PortsOf
<1> QED BY <1>1 DEF Directory!Keys, Directory!Running

\* The directory before and after a command.
LEMMA DirectoryChanges ==
  /\ channels' = channels => UNCHANGED Mapped
  /\ \A a \in Apps, p \in Ports : \A c :
       Gets(channels, channels', a, p, c) => Directory!Bind(<<a, p>>, c)
  /\ \A a :
       Bound(channels') = [k \in Apps \X Ports |->
                             IF k[1] = a THEN Unbound ELSE Bound(channels)[k]]
       => Directory!UnbindApp(a)
<1>1. channels' = channels => UNCHANGED Mapped
  BY MappedIs, MappedNext
<1>2. ASSUME NEW a \in Apps, NEW p \in Ports, NEW c, Gets(channels, channels', a, p, c)
      PROVE  Directory!Bind(<<a, p>>, c)
  <2>1. Mapped' = [Mapped EXCEPT ![<<a, p>>] = c]
    BY <1>2, MappedIs, MappedNext DEF Gets
  <2> QED BY <2>1 DEF Directory!Bind, Mapped
<1>3. ASSUME NEW a,
             Bound(channels') = [k \in Apps \X Ports |->
                                   IF k[1] = a THEN Unbound ELSE Bound(channels)[k]]
      PROVE  Directory!UnbindApp(a)
  <2>1. Mapped' = [k \in Apps \X Ports |-> IF k[1] = a THEN Unbound ELSE Mapped[k]]
    BY <1>3, MappedIs, MappedNext
  <2> QED BY <2>1 DEF Directory!UnbindApp, Directory!Keys, Mapped
<1> QED BY <1>1, <1>2, <1>3

LEMMA AnswerIs ==
  ASSUME NEW cmd
  PROVE  /\ cmd.command \in {"BIND_CHANNEL", "UNBIND_CHANNEL", "UNBIND_APP"} =>
              Answer(cmd) = Unbound
         /\ cmd.command = "RESOLVE_CHANNEL" => Answer(cmd) = Resolve_Channel(cmd)
         /\ cmd.command = "GET_RUNNING_APP_IDS" => Answer(cmd) = Get_Running_App_Ids
         /\ cmd.command = "GET_APP_DATA" => Answer(cmd) = Get_App_Data(cmd.app_id)
BY DEF Answer

\* The reply of the directory.
LEMMA RepliesAre ==
  ASSUME NEW cmd, Serves(cmd), NEW status, status <=> ~Fails(cmd), status \in BOOLEAN,
         NEW data, data = Answer(cmd)
  PROVE  Directory!Reply(cmd, status, data) /\ served'.cmd = cmd /\ served'.data = data
<1>1. status = ~Fails(cmd)
  OBVIOUS
<1> QED BY <1>1 DEF Serves, Directory!Reply

LEMMA ServesBind ==
  ASSUME ServerInv, NEW cmd \in Commands, Serves(cmd), cmd.command = "BIND_CHANNEL"
  PROVE  Directory!ServeBind(cmd, <<cmd.app_id, cmd.port_id>>)
<1> PICK a, p : a = cmd.app_id /\ p = cmd.port_id
  OBVIOUS
<1>1. a \in Apps /\ p \in Ports /\ channels \in Seq(Entry) /\ PortsOnce(channels)
  BY CommandTypes DEF ServerInv, ServerTypeOK
<1>2. Fails(cmd) <=> Bind_Refused(cmd)
  BY DEF Fails
<1>3. Find(a, p) = 0 <=> <<a, p>> \notin PortsOf(channels)
  <2>1. Find(a, p) = First(channels, a, p)
    BY ResolveIs DEF Find, First
  <2> QED BY <1>1, <2>1, BoundIff
<1>4. Bind_Refused(cmd) <=> Directory!Refuses(<<a, p>>)
  <2>1. Cardinality(Directory!BoundKeys) = Len(channels)
    BY <1>1, DirectoryPorts, PortsAreEntries
  <2>2. <<a, p>> \in Directory!BoundKeys <=> Find(a, p) # 0
    BY <1>3, DirectoryPorts
  <2>3. Directory!Cardinality(Directory!BoundKeys) = Cardinality(Directory!BoundKeys)
    BY DEF Directory!Cardinality, Cardinality
  <2> QED BY <2>1, <2>2, <2>3 DEF Bind_Refused, Directory!Refuses
<1>5. Answer(cmd) = Unbound
  BY AnswerIs
<1>6. CASE Bind_Refused(cmd)
  <2>1. UNCHANGED Mapped
    BY <1>2, <1>6, DirectoryChanges DEF Serves, Handle, tables
  <2>2. Directory!Reply(cmd, FALSE, Unbound)
    BY <1>2, <1>5, <1>6, RepliesAre
  <2> QED BY <1>4, <1>6, <2>1, <2>2 DEF Directory!ServeBind, Mapped
<1>7. CASE ~Bind_Refused(cmd)
  <2>1. Bind_Channel(cmd)
    BY <1>2, <1>7 DEF Serves, Handle, Change, Queries
  <2>2. Gets(channels, channels', a, p, cmd.channel)
    BY <1>7, <2>1, BindStep
  <2>3. Directory!Bind(<<a, p>>, cmd.channel)
    BY <1>1, <2>2, DirectoryChanges
  <2>4. Directory!Reply(cmd, TRUE, Unbound)
    BY <1>2, <1>5, <1>7, RepliesAre
  <2> QED BY <1>4, <1>7, <2>3, <2>4 DEF Directory!ServeBind
<1> QED BY <1>6, <1>7

LEMMA ServesUnbind ==
  ASSUME ServerInv, NEW cmd \in Commands, Serves(cmd), cmd.command = "UNBIND_CHANNEL"
  PROVE  Directory!ServeUnbind(cmd)
<1>1. channels \in Seq(Entry) /\ PortsOnce(channels) /\ cmd.channel \in Channels
  BY CommandTypes DEF ServerInv, ServerTypeOK
<1>2. Fails(cmd) <=> Unbind_Refused(cmd)
  BY DEF Fails
<1>3. Answer(cmd) = Unbound
  BY AnswerIs
<1>4. CASE Unbind_Refused(cmd)
  <2>1. UNCHANGED Mapped
    BY <1>2, <1>4, DirectoryChanges DEF Serves, Handle, tables
  <2>2. Directory!Reply(cmd, FALSE, Unbound)
    BY <1>2, <1>3, <1>4, RepliesAre
  <2>3. ASSUME NEW k \in Apps \X Ports, Mapped[k] = cmd.channel PROVE FALSE
    <3>1. k[1] \in Apps /\ k[2] \in Ports /\ k = <<k[1], k[2]>>
      OBVIOUS
    <3>2. Maps(channels, k[1], k[2], cmd.channel)
      BY <1>1, <2>3, <3>1, MappedIs, BoundMaps
    <3>3. cmd.channel # Unbound
      BY <1>1, NameServerAssumption
    <3> QED BY <1>4, <3>2, <3>3 DEF Maps, Unbind_Refused
  <2> QED BY <2>1, <2>2, <2>3 DEF Directory!ServeUnbind, Directory!Keys, Mapped
<1>5. CASE ~Unbind_Refused(cmd)
  <2>1. Unbind_Channel(cmd)
    BY <1>2, <1>5 DEF Serves, Handle, Change, Queries
  <2>2. PICK a \in Apps, p \in Ports :
          /\ Bound(channels)[<<a, p>>] = cmd.channel
          /\ Gets(channels, channels', a, p, Unbound)
    BY <1>5, <2>1, UnbindStep
  <2>3. Directory!Bind(<<a, p>>, Unbound) /\ Mapped[<<a, p>>] = cmd.channel
    BY <2>2, DirectoryChanges, MappedIs
  <2>4. Directory!Reply(cmd, TRUE, Unbound)
    BY <1>2, <1>3, <1>5, RepliesAre
  <2>5. <<a, p>> \in Apps \X Ports
    OBVIOUS
  <2> QED BY <2>3, <2>4, <2>5 DEF Directory!ServeUnbind, Directory!Keys, Mapped
<1> QED BY <1>4, <1>5

LEMMA ServesUnbindApp ==
  ASSUME ServerInv, NEW cmd \in Commands, Serves(cmd), cmd.command = "UNBIND_APP"
  PROVE  Directory!ServeUnbindApp(cmd)
<1>1. ~Fails(cmd) /\ Unbind_App(cmd)
  BY DEF Fails, Serves, Handle, Change, Queries
<1>2. Directory!UnbindApp(cmd.app_id)
  BY <1>1, UnbindAppStep, DirectoryChanges
<1>3. Directory!Reply(cmd, TRUE, Unbound)
  BY <1>1, AnswerIs, RepliesAre
<1> QED BY <1>2, <1>3 DEF Directory!ServeUnbindApp

\* The queries find the array as it was.
LEMMA ServesQuery ==
  ASSUME NEW cmd \in Commands, Serves(cmd),
         cmd.command \notin {"BIND_CHANNEL", "UNBIND_CHANNEL", "UNBIND_APP"}
  PROVE  UNCHANGED Mapped
<1>1. channels' = channels
  BY DEF Serves, Handle, Change, tables
<1> QED BY <1>1, DirectoryChanges

LEMMA ServesResolve ==
  ASSUME ServerInv, NEW cmd \in Commands, Serves(cmd), cmd.command = "RESOLVE_CHANNEL"
  PROVE  Directory!ServeResolve(cmd, <<cmd.app_id, cmd.port_id>>)
<1> PICK k : k = <<cmd.app_id, cmd.port_id>>
  OBVIOUS
<1>1. cmd.app_id \in Apps /\ cmd.port_id \in Ports
  BY CommandTypes
<1>2. Resolve_Channel(cmd) = Mapped[k]
  <2>1. Mapped[k] = Resolved(channels, cmd.app_id, cmd.port_id)
    BY <1>1, MappedIs DEF Bound
  <2> QED BY <2>1, ResolveIs
<1>3. k \in Directory!BoundKeys <=> Mapped[k] # Unbound
  BY <1>1, DirectoryPorts, MappedIs DEF PortsOf
<1>4. Fails(cmd) <=> Mapped[k] = Unbound
  BY <1>2 DEF Fails
<1>5. UNCHANGED Mapped
  BY ServesQuery
<1>6. Directory!Reply(cmd, k \in Directory!BoundKeys, Mapped[k])
  <2>1. Answer(cmd) = Mapped[k]
    BY <1>2, AnswerIs
  <2>2. CASE k \in Directory!BoundKeys
    <3>1. Directory!Reply(cmd, TRUE, Mapped[k])
      BY <1>3, <1>4, <2>1, <2>2, RepliesAre
    <3>2. (k \in Directory!BoundKeys) = TRUE
      BY <2>2
    <3> QED BY <3>1, <3>2 DEF Directory!Reply
  <2>3. CASE k \notin Directory!BoundKeys
    <3>1. Directory!Reply(cmd, FALSE, Mapped[k])
      BY <1>3, <1>4, <2>1, <2>3, RepliesAre
    <3>2. (k \in Directory!BoundKeys) = FALSE
      BY <2>3
    <3> QED BY <3>1, <3>2 DEF Directory!Reply
  <2> QED BY <2>2, <2>3
<1> QED BY <1>5, <1>6 DEF Directory!ServeResolve, Mapped

LEMMA ServesRunning ==
  ASSUME ServerInv, NEW cmd \in Commands, Serves(cmd), cmd.command = "GET_RUNNING_APP_IDS"
  PROVE  Directory!ServeRunning(cmd)
<1>1. channels \in Seq(Entry) /\ PortsOnce(channels)
  BY DEF ServerInv, ServerTypeOK
<1> PICK ids : ids = Get_Running_App_Ids
  OBVIOUS
<1> DEFINE routers == {j \in DOMAIN channels : channels[j].port_id = RouterPort}
<1>2. DOMAIN ids = routers /\ \A i \in routers : ids[i] = channels[i].app_id
  BY DEF Get_Running_App_Ids
<1>3. \A i, j \in DOMAIN ids : ids[i] = ids[j] => i = j
  BY <1>1, <1>2 DEF PortsOnce
<1>4. {ids[i] : i \in DOMAIN ids} = Directory!Running
  <2>1. \A i \in DOMAIN channels : channels[i].app_id \in Apps
    <3>1. \A i \in DOMAIN channels : channels[i] \in Entry
      BY <1>1
    <3> QED BY <3>1 DEF Entry
  <2>2. \A a \in Apps : <<a, RouterPort>> \in PortsOf(channels) <=>
          \E i \in DOMAIN channels : channels[i].app_id = a /\ channels[i].port_id = RouterPort
    BY <1>1, BoundIff, NameServerAssumption
  <2> QED BY <1>2, <2>1, <2>2, DirectoryPorts
<1>5. UNCHANGED Mapped
  BY ServesQuery
<1>6. served'.data = ids /\ Directory!Reply(cmd, TRUE, served'.data)
  <2>1. ~Fails(cmd)
    BY DEF Fails
  <2>2. served'.data = ids /\ Directory!Reply(cmd, TRUE, ids)
    BY <2>1, AnswerIs, RepliesAre
  <2> QED BY <2>2
<1>7. /\ {served'.data[i] : i \in DOMAIN served'.data} = Directory!Running
      /\ \A i, j \in DOMAIN served'.data : served'.data[i] = served'.data[j] => i = j
  BY <1>3, <1>4, <1>6
<1> QED BY <1>5, <1>6, <1>7 DEF Directory!ServeRunning, Mapped

LEMMA ServesAppData ==
  ASSUME ServerInv, NEW cmd \in Commands, Serves(cmd), cmd.command = "GET_APP_DATA"
  PROVE  Directory!ServeAppData(cmd)
<1> PICK a : a = cmd.app_id
  OBVIOUS
<1>1. channels \in Seq(Entry)
  BY DEF ServerInv, ServerTypeOK
<1>2. Find(a, RouterPort) # 0 <=> a \in Directory!Running
  <2>1. Find(a, RouterPort) = First(channels, a, RouterPort)
    BY ResolveIs DEF Find, First
  <2>2. CASE a \in Apps
    BY <1>1, <2>1, <2>2, BoundIff, DirectoryPorts, NameServerAssumption
  <2>3. CASE a \notin Apps
    <3>1. \A i \in DOMAIN channels : channels[i].app_id # a
      <4>1. \A i \in DOMAIN channels : channels[i] \in Entry
        BY <1>1
      <4> QED BY <2>3, <4>1 DEF Entry
    <3>2. First(channels, a, RouterPort) = 0
      <4>1. /\ First(channels, a, RouterPort) \in 0 .. Len(channels)
            /\ First(channels, a, RouterPort) # 0 =>
                 channels[First(channels, a, RouterPort)].app_id = a
        BY <1>1, FirstIs
      <4> QED BY <1>1, <3>1, <4>1
    <3> QED BY <2>1, <2>3, <3>2, DirectoryPorts
  <2> QED BY <2>2, <2>3
<1> PICK data : data = [known |-> a \in Apps, is_running |-> a \in Directory!Running]
  OBVIOUS
<1>3. Get_App_Data(a) = data
  <2>1. (Find(a, RouterPort) # 0) = (a \in Directory!Running)
    BY <1>2
  <2> QED BY <2>1 DEF Get_App_Data
<1>4. UNCHANGED Mapped
  BY ServesQuery
<1>5. Directory!Reply(cmd, TRUE, data)
  <2>1. ~Fails(cmd)
    BY DEF Fails
  <2> QED BY <1>3, <2>1, AnswerIs, RepliesAre
<1> QED BY <1>4, <1>5 DEF Directory!ServeAppData, Mapped

LEMMA ServesOther ==
  ASSUME NEW cmd \in Commands, Serves(cmd),
         cmd.command \notin {"BIND_CHANNEL", "UNBIND_CHANNEL", "UNBIND_APP",
                             "RESOLVE_CHANNEL", "GET_RUNNING_APP_IDS", "GET_APP_DATA"}
  PROVE  Directory!ServeOther(cmd)
<1>1. UNCHANGED Mapped
  BY ServesQuery
<1> PICK data : data = Answer(cmd)
  OBVIOUS
<1>2. Directory!Reply(cmd, TRUE, data) /\ served'.data = data
  <2>1. ~Fails(cmd)
    BY DEF Fails
  <2> QED BY <2>1, RepliesAre
<1> QED BY <1>1, <1>2 DEF Directory!ServeOther, Mapped

LEMMA ServesIsStep ==
  ASSUME ServerInv, NEW cmd \in Commands, Serves(cmd)
  PROVE  Directory!Next
<1>1. served'.cmd = cmd
  BY DEF Serves
<1>2. Directory!Serve(cmd)
  BY <1>1, ServesBind, ServesUnbind, ServesUnbindApp, ServesResolve, ServesRunning,
     ServesAppData, ServesOther DEF Directory!Serve
<1> QED BY <1>2 DEF Directory!Next

\* The array of the name server with its moved entries implements the directory
\* of ports, each command as what it was asked for: a bind changes its own port
\* and no other, and is refused for the bound router's port of the process
\* manager and, for a new port, exactly when SAL_MAX_CHANNELS ports are bound;
\* UNBIND_APP, whose loop moves the last entry into each hole while it goes on,
\* takes every port of its application and none of another; a resolve gives what
\* was bound last, and each running application is listed once.  No port has two
\* entries (xsal_ns_thread.c, SAL_Name_Server_Thread and the handlers it calls).
THEOREM NameServerIsDirectory ==
  ServiceSpec => ImplementsDirectory /\ []PortsBoundOnce
<1> DEFINE all == <<tables, served>>
<1>1. ServiceInit => ServerInv
  BY NameServerAssumption DEF ServiceInit, ServerInit, ServerInv, ServerTypeOK, PortsOnce
<1>2. ServiceInit => Directory!Init
  <2> SUFFICES ASSUME ServiceInit PROVE Directory!Init
    OBVIOUS
  <2>1. \A k \in Apps \X Ports : Resolved(channels, k[1], k[2]) = Unbound
    <3>1. channels \in Seq(Entry) /\ PortsOnce(channels) /\ DOMAIN channels = {}
      BY DEF ServiceInit, ServerInit, PortsOnce
    <3>2. \A a, p : Maps(channels, a, p, Unbound)
      BY <3>1 DEF Maps
    <3> QED BY <3>1, <3>2, ResolvedIs
  <2>2. Mapped = [k \in Apps \X Ports |-> Unbound]
    BY <2>1, MappedIs DEF Bound
  <2> QED BY <2>2 DEF ServiceInit, Mapped, Directory!Init, Directory!Keys
<1>3. ServerInv /\ [ServiceNext]_all => ServerInv'
  <2> SUFFICES ASSUME ServerInv, [ServiceNext]_all PROVE ServerInv'
    OBVIOUS
  <2>1. CASE ServiceNext
    BY <2>1, HandleChannels DEF ServiceNext, Serves
  <2>2. CASE UNCHANGED all
    BY <2>2 DEF tables, ServerInv, ServerTypeOK, PortsOnce
  <2> QED BY <2>1, <2>2
<1>4. ServerInv /\ [ServiceNext]_all => [Directory!Next]_<<Mapped, served>>
  <2> SUFFICES ASSUME ServerInv, [ServiceNext]_all, ~Directory!Next
               PROVE  UNCHANGED <<Mapped, served>>
    OBVIOUS
  <2>1. channels' = channels /\ served' = served
    BY ServesIsStep DEF ServiceNext, tables
  <2> QED BY <2>1, DirectoryChanges
<1>5. ServerInv => PortsBoundOnce
  BY DEF ServerInv, PortsOnce, PortsBoundOnce
<1> QED
  <2>1. ServiceSpec => []ServerInv
    BY <1>1, <1>3, PTL DEF ServiceSpec
  <2>2. ServiceSpec => [][Directory!Next]_<<Mapped, served>>
    BY <1>4, <2>1, PTL DEF ServiceSpec
  <2>3. ServiceSpec => []PortsBoundOnce
    BY <1>5, <2>1, PTL
  <2> QED BY <1>2, <2>2, <2>3, PTL DEF ServiceSpec, ImplementsDirectory, Directory!Spec, Mapped

-----------------------------------------------------------------------------
(* The server and the bits *)

\* A command that sets, or clears, the bit of an application for an event.
Gives(cmd, a, e) ==
  cmd.command = "SUBSCRIBE" /\ cmd.app_id = a /\ e \in cmd.event_ids

Takes(cmd, a, e) ==
  \/ cmd.command = "UNSUBSCRIBE" /\ cmd.app_id = a /\ e \in cmd.event_ids
  \/ cmd.command = "UNSUBSCRIBE_APP" /\ cmd.app_id = a

\* The server does with a bit what the command says.
LEMMA HandleRouting ==
  ASSUME NEW cmd, Handle(cmd), NEW a, NEW e \in Events
  PROVE  /\ a \in routing_table[e] /\ ~Takes(cmd, a, e) => a \in routing_table'[e]
         /\ Gives(cmd, a, e) => a \in routing_table'[e]
<1>1. CASE UNCHANGED tables /\ (Fails(cmd) \/ cmd.command \in Queries)
  <2>1. ~Gives(cmd, a, e)
    BY <1>1 DEF Fails, Queries, Gives
  <2> QED BY <1>1, <2>1 DEF tables
<1>2. CASE Change(cmd)
  <2>1. CASE cmd.command = "BIND_CHANNEL" /\ UNCHANGED routing_table
    BY <2>1 DEF Gives
  <2>2. CASE cmd.command = "UNBIND_CHANNEL" /\ UNCHANGED routing_table
    BY <2>2 DEF Gives
  <2>3. CASE cmd.command = "UNBIND_APP" /\ UNCHANGED routing_table
    BY <2>3 DEF Gives
  <2>4. CASE /\ cmd.command \in {"SUBSCRIBE", "UNSUBSCRIBE"}
             /\ Update_Events(cmd.app_id, cmd.event_ids, cmd.command = "SUBSCRIBE")
    BY <2>4 DEF Update_Events, Gives, Takes
  <2>5. CASE cmd.command = "UNSUBSCRIBE_APP" /\ Unsubscribe_App(cmd.app_id)
    BY <2>5 DEF Unsubscribe_App, Gives, Takes
  <2> QED BY <1>2, <2>1, <2>2, <2>3, <2>4, <2>5 DEF Change
<1> QED BY <1>1, <1>2 DEF Handle

-----------------------------------------------------------------------------
(* The invariant *)

Names == {"none", "subscribe", "unsubscribe", "end"}
Requests == [client : Clients \cup {Nobody}, cmd : Commands]

FlowType ==
  /\ backlog \in Seq(Requests)
  /\ reply = [c \in Clients |-> reply[c]]
  /\ phase = [a \in Apps |-> phase[a]] /\ kill = [a \in Apps |-> kill[a]]
  /\ subscribed \in [Threads -> SUBSET Events]
  /\ granted \in [Threads -> SUBSET Events]
  /\ call \in [Threads -> [name : Names, ids : SUBSET (Events \cup OtherIds)]]

\* The tables of an application must agree while it runs and nobody kills it.
Live(a) == phase[a] = "running" /\ kill[a] = "no"

\* A thread without a call has nothing on its way, and no thread has two
\* requests, or a request and a reply.
OneRequest(t) ==
  /\ call[t] = NoCall =>
       reply[t] = Pending /\ \A i \in DOMAIN backlog : backlog[i].client # t
  /\ \A i, j \in DOMAIN backlog :
       backlog[i].client = t /\ backlog[j].client = t => i = j
  /\ \A i \in DOMAIN backlog : backlog[i].client = t => reply[t] = Pending

\* The bits of a thread cover what it was granted or asks for, and go with its
\* process.
BitsCover(t) ==
  /\ granted[t] \subseteq subscribed[t]
  /\ call[t].name = "subscribe" => call[t].ids \cap Events \subseteq subscribed[t]
  /\ phase[AppOf[t]] \notin Working => granted[t] = {} /\ call[t] = NoCall

\* Routed, and no request on its way changes that.
Safe(a, e) ==
  /\ a \in routing_table[e]
  /\ \A i \in DOMAIN backlog : ~Takes(backlog[i].cmd, a, e)

\* The thread's request will make it so.
Coming(t, a, e) ==
  \E i \in DOMAIN backlog :
    /\ backlog[i].client = t /\ Gives(backlog[i].cmd, a, e)
    /\ \A j \in DOMAIN backlog : j > i => ~Takes(backlog[j].cmd, a, e)

Kept(t) ==
  Live(AppOf[t]) =>
    /\ \A e \in granted[t] : Safe(AppOf[t], e)
    /\ call[t].name = "subscribe" =>
         \A e \in call[t].ids \cap Events :
           Safe(AppOf[t], e) \/ Coming(t, AppOf[t], e)

RouteInv ==
  FlowType /\ \A t \in Threads : OneRequest(t) /\ BitsCover(t) /\ Kept(t)

LEMMA RouteImplies == RouteInv => GrantedIsRouted
BY DEF RouteInv, Kept, Live, Safe, GrantedIsRouted

LEMMA InitRoute == Init => RouteInv
<1> SUFFICES ASSUME Init PROVE RouteInv
  OBVIOUS
<1>1. FlowType
  <2>1. backlog \in Seq(Requests)
    BY DEF Init
  <2>2. {} \in SUBSET (Events \cup OtherIds)
    OBVIOUS
  <2>3. /\ reply = [c \in Clients |-> reply[c]]
        /\ phase = [a \in Apps |-> phase[a]] /\ kill = [a \in Apps |-> kill[a]]
    BY DEF Init
  <2>4. /\ subscribed \in [Threads -> SUBSET Events]
        /\ granted \in [Threads -> SUBSET Events]
    BY DEF Init
  <2>5. call \in [Threads -> [name : Names, ids : SUBSET (Events \cup OtherIds)]]
    BY <2>2 DEF Init, NoCall, Names
  <2> QED BY <2>1, <2>3, <2>4, <2>5 DEF FlowType
<1>2. ASSUME NEW t \in Threads PROVE OneRequest(t) /\ BitsCover(t) /\ Kept(t)
  <2>1. AppOf[t] \in Apps /\ t \in Clients
    BY SubscriptionsAssumption
  <2> QED
    BY <2>1 DEF Init, OneRequest, BitsCover, Kept, Live, NoCall
<1> QED BY <1>1, <1>2 DEF RouteInv

-----------------------------------------------------------------------------
(* The requests *)

LEMMA Assumed ==
  /\ \A t \in Threads : AppOf[t] \in Apps \ {ProcMan} /\ t \in Clients /\ t \notin Apps
  /\ Apps \subseteq Clients /\ ProcMan \in Apps /\ Nobody \notin Clients
BY SubscriptionsAssumption, NameServerAssumption

LEMMA AreCommands ==
  /\ \A a \in Apps :
       /\ SAL_NS_Bind_Channel(a, RouterPort, ChannelOf[a]) \in Commands
       /\ SAL_NS_Unsubscribe_App(a) \in Commands
       /\ SAL_NS_Unbind_App(a) \in Commands
  /\ \A a \in Apps, ids \in (SUBSET (Events \cup OtherIds)) \ {{}} :
       SAL_NS_Subscribe(a, ids) \in Commands /\ SAL_NS_Unsubscribe(a, ids) \in Commands
<1>1. /\ \A a \in Apps : ChannelOf[a] \in Channels
      /\ RouterPort \in Ports
  BY SubscriptionsAssumption, NameServerAssumption
<1>2. ASSUME NEW a \in Apps
      PROVE  /\ SAL_NS_Bind_Channel(a, RouterPort, ChannelOf[a]) \in Commands
             /\ SAL_NS_Unsubscribe_App(a) \in Commands
             /\ SAL_NS_Unbind_App(a) \in Commands
  <2>1. SAL_NS_Bind_Channel(a, RouterPort, ChannelOf[a]) \in
          {SAL_NS_Bind_Channel(b, p, ch) : b \in Apps, p \in Ports, ch \in Channels}
    BY <1>1
  <2>2. SAL_NS_Unsubscribe_App(a) \in {SAL_NS_Unsubscribe_App(b) : b \in Apps}
    OBVIOUS
  <2>3. SAL_NS_Unbind_App(a) \in {SAL_NS_Unbind_App(b) : b \in Apps}
    OBVIOUS
  <2>4. SAL_NS_Bind_Channel(a, RouterPort, ChannelOf[a]) \in Commands
    BY <2>1, SMTT(20) DEF Commands
  <2>5. SAL_NS_Unsubscribe_App(a) \in Commands
    BY <2>2, SMTT(20) DEF Commands
  <2>6. SAL_NS_Unbind_App(a) \in Commands
    BY <2>3, SMTT(20) DEF Commands
  <2> QED BY <2>4, <2>5, <2>6
<1>3. ASSUME NEW a \in Apps, NEW ids \in (SUBSET (Events \cup OtherIds)) \ {{}}
      PROVE  /\ SAL_NS_Subscribe(a, ids) \in Commands
             /\ SAL_NS_Unsubscribe(a, ids) \in Commands
  <2> DEFINE L == (SUBSET (Events \cup OtherIds)) \ {{}}
  <2>1. SAL_NS_Subscribe(a, ids) \in
          {SAL_NS_Subscribe(b, l) : b \in Apps, l \in L}
    OBVIOUS
  <2>2. SAL_NS_Unsubscribe(a, ids) \in
          {SAL_NS_Unsubscribe(b, l) : b \in Apps, l \in L}
    OBVIOUS
  <2>3. SAL_NS_Subscribe(a, ids) \in Commands
    BY <2>1, SMTT(20) DEF Commands
  <2>4. SAL_NS_Unsubscribe(a, ids) \in Commands
    BY <2>2, SMTT(20) DEF Commands
  <2> QED BY <2>3, <2>4
<1> QED BY <1>2, <1>3

LEMMA AskAdds ==
  ASSUME FlowType, NEW c \in Clients, NEW cmd \in Commands, Ask(c, cmd)
  PROVE  /\ backlog' \in Seq(Requests)
         /\ DOMAIN backlog' = DOMAIN backlog \cup {Len(backlog) + 1}
         /\ Len(backlog) + 1 \notin DOMAIN backlog
         /\ \A i \in DOMAIN backlog : backlog'[i] = backlog[i]
         /\ \A i \in DOMAIN backlog : i < Len(backlog) + 1
         /\ backlog'[Len(backlog) + 1] = [client |-> c, cmd |-> cmd]
         /\ \A i \in DOMAIN backlog : i \in Int
<1>1. [client |-> c, cmd |-> cmd] \in Requests
  BY DEF Requests
<1> QED BY <1>1 DEF FlowType, Ask

-----------------------------------------------------------------------------
(* Steps of the main thread of an application and of the process manager *)

LEMMA AskKeeps ==
  ASSUME FlowType, NEW c \in Clients, NEW cmd \in Commands, Ask(c, cmd),
         routing_table' = routing_table,
         NEW t, NEW a, NEW e, ~Takes(cmd, a, e)
  PROVE  /\ Safe(a, e) => Safe(a, e)'
         /\ Coming(t, a, e) => Coming(t, a, e)'
<1> DEFINE n == Len(backlog) + 1
<1>1. /\ DOMAIN backlog' = DOMAIN backlog \cup {n} /\ n \notin DOMAIN backlog
      /\ \A i \in DOMAIN backlog : backlog'[i] = backlog[i] /\ i < n /\ i \in Int
      /\ backlog'[n].cmd = cmd
  <2>1. /\ DOMAIN backlog' = DOMAIN backlog \cup {n} /\ n \notin DOMAIN backlog
        /\ \A i \in DOMAIN backlog : backlog'[i] = backlog[i]
        /\ \A i \in DOMAIN backlog : i < n
        /\ backlog'[n] = [client |-> c, cmd |-> cmd]
        /\ \A i \in DOMAIN backlog : i \in Int
    BY AskAdds
  <2> HIDE DEF n
  <2> QED BY <2>1
<1> HIDE DEF n
<1>2. ASSUME NEW i \in DOMAIN backlog',
             \A j \in DOMAIN backlog : j > i => ~Takes(backlog[j].cmd, a, e)
      PROVE  \A j \in DOMAIN backlog' : j > i => ~Takes(backlog'[j].cmd, a, e)
  BY <1>1, <1>2
<1>3. ASSUME Safe(a, e) PROVE Safe(a, e)'
  <2>1. a \in routing_table'[e]
    BY <1>3 DEF Safe
  <2>2. ASSUME NEW i \in DOMAIN backlog' PROVE ~Takes(backlog'[i].cmd, a, e)
    <3>1. CASE i \in DOMAIN backlog
      BY <1>1, <1>3, <3>1 DEF Safe
    <3>2. CASE i = n
      BY <1>1, <3>2
    <3> QED BY <1>1, <2>2, <3>1, <3>2
  <2> QED BY <2>1, <2>2 DEF Safe
<1>4. ASSUME Coming(t, a, e) PROVE Coming(t, a, e)'
  <2>1. PICK i \in DOMAIN backlog :
          /\ backlog[i].client = t /\ Gives(backlog[i].cmd, a, e)
          /\ \A j \in DOMAIN backlog : j > i => ~Takes(backlog[j].cmd, a, e)
    BY <1>4 DEF Coming
  <2>2. i \in DOMAIN backlog' /\ backlog'[i] = backlog[i]
    BY <1>1
  <2>3. \A j \in DOMAIN backlog' : j > i => ~Takes(backlog'[j].cmd, a, e)
    BY <1>2, <2>1, <2>2
  <2> QED BY <2>1, <2>2, <2>3 DEF Coming
<1> QED BY <1>3, <1>4

LEMMA MainAskKeeps ==
  ASSUME RouteInv, NEW c \in Apps, NEW cmd \in Commands, Ask(c, cmd),
         reply' = reply \/ reply' = [reply EXCEPT ![c] = Pending],
         UNCHANGED <<routing_table, subscribed, call>>,
         granted' \in [Threads -> SUBSET Events],
         \A t \in Threads : granted'[t] \subseteq granted[t],
         phase' = [a \in Apps |-> phase'[a]], kill' = [a \in Apps |-> kill'[a]],
         \A a \in Apps : phase'[a] \notin Working => phase[a] \notin Working,
         \A a \in Apps : Live(a)' =>
           /\ Live(a) \/ phase[a] \notin Working
           /\ \A e \in Events : ~Takes(cmd, a, e)
  PROVE  RouteInv'
<1> DEFINE n == Len(backlog) + 1
<1>1. c \in Clients /\ c \notin Threads
  BY Assumed
<1>2. /\ backlog' \in Seq(Requests)
      /\ DOMAIN backlog' = DOMAIN backlog \cup {n} /\ n \notin DOMAIN backlog
      /\ \A i \in DOMAIN backlog : backlog'[i] = backlog[i]
      /\ backlog'[n].client = c
  <2>1. FlowType
    BY DEF RouteInv
  <2>2. /\ backlog' \in Seq(Requests)
        /\ DOMAIN backlog' = DOMAIN backlog \cup {n} /\ n \notin DOMAIN backlog
        /\ \A i \in DOMAIN backlog : backlog'[i] = backlog[i]
        /\ backlog'[n] = [client |-> c, cmd |-> cmd]
    BY <1>1, <2>1, AskAdds
  <2> HIDE DEF n
  <2> QED BY <2>2
<1> HIDE DEF n
<1>3. FlowType'
  <2>1. FlowType
    BY DEF RouteInv
  <2>2. reply' = [d \in Clients |-> reply'[d]]
    <3>1. CASE reply' = reply
      BY <2>1, <3>1 DEF FlowType
    <3>2. CASE reply' = [reply EXCEPT ![c] = Pending]
      BY <2>1, <3>2 DEF FlowType
    <3> QED BY <3>1, <3>2
  <2>3. /\ subscribed' \in [Threads -> SUBSET Events]
        /\ call' \in [Threads -> [name : Names, ids : SUBSET (Events \cup OtherIds)]]
    BY <2>1 DEF FlowType
  <2> QED BY <1>2, <2>2, <2>3 DEF FlowType
<1>4. ASSUME NEW t \in Threads PROVE (OneRequest(t) /\ BitsCover(t) /\ Kept(t))'
  <2>1. /\ OneRequest(t) /\ BitsCover(t) /\ Kept(t)
        /\ t # c /\ AppOf[t] \in Apps /\ t \in Clients
    BY <1>1, Assumed DEF RouteInv
  <2>2. reply'[t] = reply[t]
    BY <2>1 DEF RouteInv, FlowType
  <2>3. OneRequest(t)'
    BY <1>2, <2>1, <2>2 DEF OneRequest
  <2>4. BitsCover(t)'
    BY <2>1 DEF BitsCover
  <2>5. Kept(t)'
    <3> SUFFICES ASSUME Live(AppOf[t])'
                 PROVE  /\ \A e \in granted'[t] : Safe(AppOf[t], e)'
                        /\ call[t].name = "subscribe" =>
                             \A e \in call[t].ids \cap Events :
                               Safe(AppOf[t], e)' \/ Coming(t, AppOf[t], e)'
      BY DEF Kept
    <3>1. granted'[t] \subseteq granted[t] /\ granted[t] \subseteq Events
      BY DEF RouteInv, FlowType
    <3>2. CASE phase[AppOf[t]] \notin Working
      BY <2>1, <3>1, <3>2 DEF BitsCover, NoCall
    <3>3. CASE Live(AppOf[t])
      <4>1. \A e \in Events :
              /\ Safe(AppOf[t], e) => Safe(AppOf[t], e)'
              /\ Coming(t, AppOf[t], e) => Coming(t, AppOf[t], e)'
        BY <1>1, <2>1, AskKeeps DEF RouteInv
      <4> QED BY <2>1, <3>1, <3>3, <4>1 DEF Kept
    <3> QED BY <2>1, <3>2, <3>3
  <2> QED BY <2>3, <2>4, <2>5
<1> QED BY <1>3, <1>4 DEF RouteInv

\* The same without a request.
LEMMA MainStepKeeps ==
  ASSUME RouteInv, NEW c \in Apps, reply' = [reply EXCEPT ![c] = Pending],
         UNCHANGED <<backlog, routing_table, subscribed, granted, call>>,
         phase' = [a \in Apps |-> phase'[a]], kill' = [a \in Apps |-> kill'[a]],
         \A a \in Apps : phase'[a] \notin Working => phase[a] \notin Working,
         \A a \in Apps : Live(a)' => Live(a) \/ phase[a] \notin Working
  PROVE  RouteInv'
<1>1. c \notin Threads
  BY Assumed
<1>2. FlowType'
  BY DEF RouteInv, FlowType
<1>3. ASSUME NEW t \in Threads PROVE (OneRequest(t) /\ BitsCover(t) /\ Kept(t))'
  <2>1. /\ OneRequest(t) /\ BitsCover(t) /\ Kept(t)
        /\ t # c /\ AppOf[t] \in Apps /\ t \in Clients
    BY <1>1, Assumed DEF RouteInv
  <2>2. reply'[t] = reply[t]
    BY <2>1 DEF RouteInv, FlowType
  <2>3. OneRequest(t)'
    BY <2>1, <2>2 DEF OneRequest
  <2>4. BitsCover(t)'
    BY <2>1 DEF BitsCover
  <2>5. \A e : Safe(AppOf[t], e)' <=> Safe(AppOf[t], e)
    BY DEF Safe
  <2>6. \A e : Coming(t, AppOf[t], e)' <=> Coming(t, AppOf[t], e)
    BY DEF Coming
  <2>7. Kept(t)'
    <3>1. CASE phase[AppOf[t]] \notin Working
      BY <2>1, <3>1 DEF BitsCover, NoCall, Kept
    <3>2. CASE phase[AppOf[t]] \in Working
      BY <2>1, <2>5, <2>6, <3>2 DEF Kept
    <3> QED BY <3>1, <3>2
  <2> QED BY <2>3, <2>4, <2>7
<1> QED BY <1>2, <1>3 DEF RouteInv

-----------------------------------------------------------------------------
(* Clients that are gone *)

LEMMA HangUpFacts ==
  ASSUME FlowType, NEW gone, Hang_Up(gone), routing_table' = routing_table
  PROVE  /\ backlog' \in Seq(Requests)
         /\ reply' = [c \in Clients |-> reply'[c]]
         /\ DOMAIN backlog' = DOMAIN backlog
         /\ \A i \in DOMAIN backlog :
              /\ backlog'[i].cmd = backlog[i].cmd
              /\ backlog[i].client \in gone => backlog'[i].client = Nobody
              /\ backlog[i].client \notin gone => backlog'[i].client = backlog[i].client
         /\ \A c \in Clients : reply'[c] = IF c \in gone THEN Pending ELSE reply[c]
         /\ \A a, e : Safe(a, e)' <=> Safe(a, e)
         /\ \A t \in Threads \ gone : \A a, e : Coming(t, a, e) => Coming(t, a, e)'
<1> DEFINE Kin(i) == IF backlog[i].client \in gone
                     THEN [backlog[i] EXCEPT !.client = Nobody] ELSE backlog[i]
<1>1. /\ backlog \in Seq(Requests)
      /\ backlog' = [i \in DOMAIN backlog |-> Kin(i)]
      /\ reply' = [c \in Clients |-> IF c \in gone THEN Pending ELSE reply[c]]
  BY DEF FlowType, Hang_Up
<1>2. \A i \in DOMAIN backlog : backlog[i] \in Requests
  BY <1>1
<1>3. ASSUME NEW i \in DOMAIN backlog
      PROVE  /\ Kin(i) \in Requests
             /\ Kin(i).cmd = backlog[i].cmd
             /\ backlog[i].client \in gone => Kin(i).client = Nobody
             /\ backlog[i].client \notin gone => Kin(i).client = backlog[i].client
  BY <1>2 DEF Requests
<1> HIDE DEF Kin
<1>4. /\ DOMAIN backlog' = DOMAIN backlog
      /\ \A i \in DOMAIN backlog : backlog'[i] = Kin(i)
  BY <1>1
<1>5. backlog' \in Seq(Requests)
  <2>1. Len(backlog) \in Nat /\ DOMAIN backlog = 1 .. Len(backlog)
    BY <1>1
  <2>2. backlog' \in [1 .. Len(backlog) -> Requests]
    BY <1>1, <1>3, <2>1
  <2> QED BY <2>1, <2>2
<1>6. \A i \in DOMAIN backlog :
        /\ backlog'[i].cmd = backlog[i].cmd
        /\ backlog[i].client \in gone => backlog'[i].client = Nobody
        /\ backlog[i].client \notin gone => backlog'[i].client = backlog[i].client
  BY <1>3, <1>4
<1>7. \A a, e : Safe(a, e)' <=> Safe(a, e)
  <2> TAKE a, e
  <2>1. \A i \in DOMAIN backlog :
          Takes(backlog'[i].cmd, a, e) <=> Takes(backlog[i].cmd, a, e)
    BY <1>6 DEF Takes
  <2> QED BY <1>4, <2>1 DEF Safe
<1>8. ASSUME NEW t \in Threads \ gone, NEW a, NEW e, Coming(t, a, e)
      PROVE  Coming(t, a, e)'
  <2>1. PICK i \in DOMAIN backlog :
          /\ backlog[i].client = t /\ Gives(backlog[i].cmd, a, e)
          /\ \A j \in DOMAIN backlog : j > i => ~Takes(backlog[j].cmd, a, e)
    BY <1>8 DEF Coming
  <2>2. backlog'[i].client = t /\ Gives(backlog'[i].cmd, a, e)
    BY <1>6, <2>1 DEF Gives
  <2>3. \A j \in DOMAIN backlog' : j > i => ~Takes(backlog'[j].cmd, a, e)
    BY <1>4, <1>6, <2>1 DEF Takes
  <2> QED BY <1>4, <2>1, <2>2, <2>3 DEF Coming
<1> QED BY <1>1, <1>4, <1>5, <1>6, <1>7, <1>8

\* A process ends with all its threads.
LEMMA VanishKeeps ==
  ASSUME RouteInv, NEW a \in Apps, NEW to, to \notin Working,
         NEW callers \in SUBSET Apps, Vanish(a, to, callers)
  PROVE  RouteInv'
<1> DEFINE gone == ThreadsOf(a) \cup callers
<1>1. FlowType
  BY DEF RouteInv
<1>2. routing_table' = routing_table /\ Hang_Up(gone)
  BY DEF Vanish, tables
<1> HIDE DEF gone
<1>3. /\ backlog' \in Seq(Requests)
      /\ reply' = [c \in Clients |-> reply'[c]]
      /\ DOMAIN backlog' = DOMAIN backlog
      /\ \A i \in DOMAIN backlog :
           /\ backlog[i].client \in gone => backlog'[i].client = Nobody
           /\ backlog[i].client \notin gone => backlog'[i].client = backlog[i].client
      /\ \A c \in Clients : reply'[c] = IF c \in gone THEN Pending ELSE reply[c]
      /\ \A b, e : Safe(b, e)' <=> Safe(b, e)
      /\ \A t \in Threads \ gone : \A b, e : Coming(t, b, e) => Coming(t, b, e)'
  BY <1>1, <1>2, HangUpFacts
<1>4. /\ \A b \in Apps : phase'[b] = IF b = a THEN to ELSE phase[b]
      /\ \A b \in Apps : kill'[b] = IF b = a THEN "no" ELSE kill[b]
      /\ phase' = [b \in Apps |-> phase'[b]] /\ kill' = [b \in Apps |-> kill'[b]]
  BY <1>1 DEF FlowType, Vanish
<1>5. \A t \in Threads :
        /\ subscribed'[t] = IF AppOf[t] = a THEN {} ELSE subscribed[t]
        /\ granted'[t] = IF AppOf[t] = a THEN {} ELSE granted[t]
        /\ call'[t] = IF AppOf[t] = a THEN NoCall ELSE call[t]
  BY DEF Vanish
<1>6. FlowType'
  <2>1. /\ subscribed' \in [Threads -> SUBSET Events]
        /\ granted' \in [Threads -> SUBSET Events]
    BY <1>1 DEF FlowType, Vanish
  <2>2. NoCall \in [name : Names, ids : SUBSET (Events \cup OtherIds)]
    <3>1. {} \in SUBSET (Events \cup OtherIds)
      OBVIOUS
    <3> QED BY <3>1 DEF NoCall, Names
  <2>3. call' \in [Threads -> [name : Names, ids : SUBSET (Events \cup OtherIds)]]
    <3> DEFINE C == [name : Names, ids : SUBSET (Events \cup OtherIds)]
    <3>1. call \in [Threads -> C] /\ NoCall \in C
      BY <1>1, <2>2 DEF FlowType
    <3>2. call' = [t \in Threads |-> IF AppOf[t] = a THEN NoCall ELSE call[t]]
      BY DEF Vanish
    <3> HIDE DEF C
    <3>3. call' \in [Threads -> C]
      BY <3>1, <3>2
    <3> QED BY <3>3 DEF C
  <2> QED BY <1>3, <1>4, <2>1, <2>3 DEF FlowType
<1>7. ASSUME NEW t \in Threads PROVE (OneRequest(t) /\ BitsCover(t) /\ Kept(t))'
  <2>1. /\ OneRequest(t) /\ BitsCover(t) /\ Kept(t)
        /\ AppOf[t] \in Apps /\ t \in Clients /\ t \notin Apps /\ t # Nobody
    BY Assumed DEF RouteInv
  <2>2. t \in gone <=> AppOf[t] = a
    BY <2>1 DEF gone, ThreadsOf
  <2>3. CASE AppOf[t] = a
    <3>1. reply'[t] = Pending /\ call'[t] = NoCall /\ granted'[t] = {}
      BY <1>3, <1>5, <2>1, <2>2, <2>3
    <3>2. \A i \in DOMAIN backlog : backlog'[i].client # t
      BY <1>3, <2>1, <2>2, <2>3
    <3>3. OneRequest(t)'
      BY <1>3, <3>1, <3>2 DEF OneRequest
    <3>4. phase'[AppOf[t]] \notin Working
      BY <1>4, <2>1, <2>3
    <3>5. BitsCover(t)' /\ Kept(t)'
      BY <3>1, <3>4 DEF BitsCover, Kept, NoCall, Live, Working, Alive
    <3> QED BY <3>3, <3>5
  <2>4. CASE AppOf[t] # a
    <3>1. /\ reply'[t] = reply[t] /\ call'[t] = call[t]
          /\ granted'[t] = granted[t] /\ subscribed'[t] = subscribed[t]
          /\ phase'[AppOf[t]] = phase[AppOf[t]] /\ kill'[AppOf[t]] = kill[AppOf[t]]
      BY <1>3, <1>4, <1>5, <2>1, <2>2, <2>4
    <3>2. \A i \in DOMAIN backlog : backlog'[i].client = t <=> backlog[i].client = t
      BY <1>3, <2>1, <2>2, <2>4
    <3>3. OneRequest(t)'
      BY <1>3, <2>1, <3>1, <3>2 DEF OneRequest
    <3>4. BitsCover(t)'
      BY <2>1, <3>1 DEF BitsCover
    <3>5. \A e : /\ Safe(AppOf[t], e) => Safe(AppOf[t], e)'
                 /\ Coming(t, AppOf[t], e) => Coming(t, AppOf[t], e)'
      BY <1>3, <2>2, <2>4
    <3>6. Kept(t)'
      BY <2>1, <3>1, <3>5 DEF Kept, Live
    <3> QED BY <3>3, <3>4, <3>6
  <2> QED BY <2>3, <2>4
<1> QED BY <1>6, <1>7 DEF RouteInv

LEMMA ReplyLostKeeps ==
  ASSUME RouteInv, NEW t \in Threads, ReplyLost(t)
  PROVE  RouteInv'
<1>1. FlowType
  BY DEF RouteInv
<1>2. routing_table' = routing_table /\ Hang_Up({t})
  BY DEF ReplyLost, Returned, tables
<1>3. /\ backlog' \in Seq(Requests)
      /\ reply' = [c \in Clients |-> reply'[c]]
      /\ DOMAIN backlog' = DOMAIN backlog
      /\ \A i \in DOMAIN backlog :
           /\ backlog[i].client \in {t} => backlog'[i].client = Nobody
           /\ backlog[i].client \notin {t} => backlog'[i].client = backlog[i].client
      /\ \A c \in Clients : reply'[c] = IF c \in {t} THEN Pending ELSE reply[c]
      /\ \A b, e : Safe(b, e)' <=> Safe(b, e)
      /\ \A s \in Threads \ {t} : \A b, e : Coming(s, b, e) => Coming(s, b, e)'
  BY <1>1, <1>2, HangUpFacts
<1>4. /\ call' = [call EXCEPT ![t] = NoCall]
      /\ UNCHANGED <<phase, kill, subscribed, granted>>
  BY DEF ReplyLost, Returned, lives
<1>5. NoCall \in [name : Names, ids : SUBSET (Events \cup OtherIds)]
  <2>1. {} \in SUBSET (Events \cup OtherIds)
    OBVIOUS
  <2> QED BY <2>1 DEF NoCall, Names
<1>6. FlowType'
  <2> DEFINE C == [name : Names, ids : SUBSET (Events \cup OtherIds)]
  <2>1. call \in [Threads -> C] /\ NoCall \in C
    BY <1>1, <1>5 DEF FlowType
  <2> HIDE DEF C
  <2>2. call' \in [Threads -> C]
    BY <1>4, <2>1
  <2> QED BY <1>1, <1>3, <1>4, <2>2 DEF FlowType, C
<1>7. ASSUME NEW s \in Threads PROVE (OneRequest(s) /\ BitsCover(s) /\ Kept(s))'
  <2>1. /\ OneRequest(s) /\ BitsCover(s) /\ Kept(s)
        /\ AppOf[s] \in Apps /\ s \in Clients /\ s # Nobody
    BY Assumed DEF RouteInv
  <2>2. CASE s = t
    <3>1. reply'[s] = Pending /\ call'[s] = NoCall
      BY <1>1, <1>3, <1>4, <2>1, <2>2 DEF FlowType
    <3>2. \A i \in DOMAIN backlog : backlog'[i].client # s
      BY <1>3, <2>1, <2>2
    <3>3. OneRequest(s)'
      BY <1>3, <3>1, <3>2 DEF OneRequest
    <3>4. BitsCover(s)'
      BY <1>4, <2>1, <3>1 DEF BitsCover, NoCall
    <3>5. Kept(s)'
      BY <1>3, <1>4, <2>1, <3>1 DEF Kept, Live, NoCall
    <3> QED BY <3>3, <3>4, <3>5
  <2>3. CASE s # t
    <3>1. reply'[s] = reply[s] /\ call'[s] = call[s]
      BY <1>1, <1>3, <1>4, <2>1, <2>3 DEF FlowType
    <3>2. \A i \in DOMAIN backlog : backlog'[i].client = s <=> backlog[i].client = s
      BY <1>3, <2>1, <2>3
    <3>3. OneRequest(s)'
      BY <1>3, <2>1, <3>1, <3>2 DEF OneRequest
    <3>4. BitsCover(s)'
      BY <1>4, <2>1, <3>1 DEF BitsCover
    <3>5. Kept(s)'
      BY <1>3, <1>4, <2>1, <2>3, <3>1 DEF Kept, Live
    <3> QED BY <3>3, <3>4, <3>5
  <2> QED BY <2>2, <2>3
<1> QED BY <1>6, <1>7 DEF RouteInv

-----------------------------------------------------------------------------
(* The calls of a thread *)

\* A call that has nothing to ask, or cannot ask.
LEMMA LocalKeeps ==
  ASSUME RouteInv,
         UNCHANGED <<backlog, reply, phase, kill, routing_table, call>>,
         subscribed' \in [Threads -> SUBSET Events],
         granted' \in [Threads -> SUBSET Events],
         \A s \in Threads :
           /\ granted'[s] \subseteq granted[s] /\ granted'[s] \subseteq subscribed'[s]
           /\ call[s].name = "subscribe" => subscribed[s] \subseteq subscribed'[s]
  PROVE  RouteInv'
<1>1. FlowType'
  BY DEF RouteInv, FlowType
<1>2. ASSUME NEW s \in Threads PROVE (OneRequest(s) /\ BitsCover(s) /\ Kept(s))'
  <2>1. OneRequest(s) /\ BitsCover(s) /\ Kept(s)
    BY DEF RouteInv
  <2>2. OneRequest(s)'
    BY <2>1 DEF OneRequest
  <2>3. BitsCover(s)'
    BY <2>1 DEF BitsCover
  <2>4. \A e : /\ Safe(AppOf[s], e)' <=> Safe(AppOf[s], e)
               /\ Coming(s, AppOf[s], e)' <=> Coming(s, AppOf[s], e)
    BY DEF Safe, Coming
  <2>5. Kept(s)'
    BY <2>1, <2>4 DEF Kept, Live
  <2> QED BY <2>2, <2>3, <2>5
<1> QED BY <1>1, <1>2 DEF RouteInv

\* A call whose request leaves alone what was granted to others or is on its
\* way to them.
LEMMA RequestKeeps ==
  ASSUME RouteInv, NEW t \in Threads, NEW name \in Names \ {"none"},
         NEW ids \in SUBSET (Events \cup OtherIds), NEW cmd \in Commands,
         Callable(t), Request(t, name, ids, cmd),
         subscribed' \in [Threads -> SUBSET Events],
         granted' \in [Threads -> SUBSET Events],
         \A s \in Threads :
           /\ granted'[s] \subseteq granted[s] /\ granted'[s] \subseteq subscribed'[s]
           /\ call[s].name = "subscribe" => subscribed[s] \subseteq subscribed'[s],
         name = "subscribe" =>
           /\ ids \cap Events \subseteq subscribed'[t]
           /\ \A e \in ids \cap Events : Gives(cmd, AppOf[t], e),
         \A s \in Threads, e \in Events :
           \/ e \in granted'[s]
           \/ s # t /\ call[s].name = "subscribe" /\ e \in call[s].ids
           => ~Takes(cmd, AppOf[s], e)
  PROVE  RouteInv'
<1> DEFINE n == Len(backlog) + 1
<1> DEFINE new == [name |-> name, ids |-> ids]
<1>1. /\ FlowType /\ t \in Clients /\ Ask(t, cmd)
      /\ UNCHANGED <<routing_table, reply, phase, kill>>
      /\ call' = [call EXCEPT ![t] = new]
      /\ call[t] = NoCall /\ phase[AppOf[t]] \in Working
  BY Assumed DEF RouteInv, Request, Callable, tables, lives
<1>2. /\ backlog' \in Seq(Requests)
      /\ DOMAIN backlog' = DOMAIN backlog \cup {n} /\ n \notin DOMAIN backlog
      /\ \A i \in DOMAIN backlog : backlog'[i] = backlog[i]
      /\ \A i \in DOMAIN backlog : i < n /\ i \in Int
      /\ backlog'[n] = [client |-> t, cmd |-> cmd]
  <2>1. /\ backlog' \in Seq(Requests)
        /\ DOMAIN backlog' = DOMAIN backlog \cup {n} /\ n \notin DOMAIN backlog
        /\ \A i \in DOMAIN backlog : backlog'[i] = backlog[i]
        /\ \A i \in DOMAIN backlog : i < n
        /\ backlog'[n] = [client |-> t, cmd |-> cmd]
        /\ \A i \in DOMAIN backlog : i \in Int
    BY <1>1, AskAdds
  <2> HIDE DEF n
  <2> QED BY <2>1
<1>3. n \in Int
  BY <1>1 DEF FlowType
<1> HIDE DEF n
<1>4. new \in [name : Names, ids : SUBSET (Events \cup OtherIds)] /\ new # NoCall
  BY DEF NoCall
<1>5. new.name = name /\ new.ids = ids
  OBVIOUS
<1> HIDE DEF new
<1>6. FlowType'
  <2> DEFINE C == [name : Names, ids : SUBSET (Events \cup OtherIds)]
  <2>1. call \in [Threads -> C] /\ new \in C
    BY <1>1, <1>4 DEF FlowType
  <2> HIDE DEF C
  <2>2. call' \in [Threads -> C]
    BY <1>1, <2>1
  <2> QED BY <1>1, <1>2, <2>2 DEF FlowType, C
<1>7. /\ call'[t] = new
      /\ \A s \in Threads \ {t} : call'[s] = call[s]
  BY <1>1 DEF FlowType
<1>8. ASSUME NEW s \in Threads PROVE (OneRequest(s) /\ BitsCover(s) /\ Kept(s))'
  <2>1. OneRequest(s) /\ BitsCover(s) /\ Kept(s)
    BY DEF RouteInv
  <2>2. CASE s = t
    <3>1. reply[s] = Pending /\ \A i \in DOMAIN backlog : backlog[i].client # s
      BY <1>1, <2>1, <2>2 DEF OneRequest
    <3>2. OneRequest(s)'
      <4>1. \A i \in DOMAIN backlog' : backlog'[i].client = s => i = n
        BY <1>2, <3>1
      <4>2. reply'[s] = Pending /\ call'[s] # NoCall
        BY <1>1, <1>4, <1>7, <2>2, <3>1
      <4> QED BY <4>1, <4>2 DEF OneRequest
    <3>3. BitsCover(s)'
      BY <1>1, <1>5, <1>7, <2>2 DEF BitsCover
    <3>4. \A e \in granted'[s] : Live(AppOf[s]) => Safe(AppOf[s], e)'
      <4> SUFFICES ASSUME NEW e \in granted'[s], Live(AppOf[s])
                   PROVE  Safe(AppOf[s], e)'
        OBVIOUS
      <4>1. Safe(AppOf[s], e) /\ ~Takes(cmd, AppOf[s], e)
        BY <2>1 DEF Kept
      <4> QED BY <1>1, <4>1, AskKeeps
    <3>5. ASSUME name = "subscribe", NEW e \in ids \cap Events
          PROVE  Coming(s, AppOf[s], e)'
      <4>1. n \in DOMAIN backlog' /\ backlog'[n].client = s /\ backlog'[n].cmd = cmd
        BY <1>2, <2>2
      <4>2. Gives(backlog'[n].cmd, AppOf[s], e)
        BY <2>2, <3>5, <4>1
      <4>3. \A j \in DOMAIN backlog' : ~(j > n)
        BY <1>2, <1>3
      <4> QED BY <4>1, <4>2, <4>3 DEF Coming
    <3>6. Kept(s)'
      BY <1>1, <1>5, <1>7, <2>2, <3>4, <3>5 DEF Kept, Live
    <3> QED BY <3>2, <3>3, <3>6
  <2>3. CASE s # t
    <3>1. call'[s] = call[s]
      BY <1>7, <2>3
    <3>2. OneRequest(s)'
      <4>1. n \in DOMAIN backlog' /\ backlog'[n].client = t
        BY <1>2
      <4>2. \A i \in DOMAIN backlog' : backlog'[i].client = s =>
              i \in DOMAIN backlog /\ backlog[i].client = s
        BY <1>2, <2>3, <4>1
      <4> QED BY <1>1, <2>1, <3>1, <4>2 DEF OneRequest
    <3>3. BitsCover(s)'
      BY <1>1, <2>1, <3>1 DEF BitsCover
    <3>4. \A e \in Events : ~Takes(cmd, AppOf[s], e) =>
            /\ Safe(AppOf[s], e) => Safe(AppOf[s], e)'
            /\ Coming(s, AppOf[s], e) => Coming(s, AppOf[s], e)'
      BY <1>1, AskKeeps
    <3>5. Kept(s)'
      <4> SUFFICES ASSUME Live(AppOf[s])
                   PROVE  /\ \A e \in granted'[s] : Safe(AppOf[s], e)'
                          /\ call[s].name = "subscribe" =>
                               \A e \in call[s].ids \cap Events :
                                 Safe(AppOf[s], e)' \/ Coming(s, AppOf[s], e)'
        BY <1>1, <3>1 DEF Kept, Live
      <4>1. \A e \in granted'[s] : e \in Events /\ e \in granted[s]
        OBVIOUS
      <4>2. \A e \in granted'[s] : Safe(AppOf[s], e)'
        BY <2>1, <3>4, <4>1 DEF Kept
      <4>3. ASSUME call[s].name = "subscribe", NEW e \in call[s].ids \cap Events
            PROVE  Safe(AppOf[s], e)' \/ Coming(s, AppOf[s], e)'
        BY <2>1, <2>3, <3>4, <4>3 DEF Kept
      <4> QED BY <4>2, <4>3
    <3> QED BY <3>2, <3>3, <3>5
  <2> QED BY <2>2, <2>3
<1> QED BY <1>6, <1>8 DEF RouteInv

LEMMA ReturnKeeps ==
  ASSUME RouteInv, NEW t \in Threads, Return(t)
  PROVE  RouteInv'
<1>1. /\ FlowType /\ t \in Clients
      /\ call[t] # NoCall /\ reply[t] # Pending
      /\ reply' = [reply EXCEPT ![t] = Pending]
      /\ UNCHANGED <<backlog, routing_table, phase, kill, subscribed>>
      /\ call' = [call EXCEPT ![t] = NoCall]
  BY Assumed DEF RouteInv, Return, Answered, Returned, tables, lives
<1>2. OneRequest(t) /\ BitsCover(t) /\ Kept(t)
  BY DEF RouteInv
<1>3. \A i \in DOMAIN backlog : backlog[i].client # t
  BY <1>1, <1>2 DEF OneRequest
<1>4. /\ \A s \in Threads \ {t} : granted'[s] = granted[s] /\ call'[s] = call[s]
      /\ call'[t] = NoCall
      /\ \/ granted'[t] = granted[t]
         \/ /\ call[t].name = "subscribe"
            /\ granted'[t] = granted[t] \cup (call[t].ids \cap Events)
      /\ granted' \in [Threads -> SUBSET Events]
  <2>1. granted \in [Threads -> SUBSET Events]
    BY <1>1 DEF FlowType
  <2>2. /\ call'[t] = NoCall
        /\ \A s \in Threads \ {t} : call'[s] = call[s]
    BY <1>1 DEF FlowType
  <2>3. CASE call[t].name = "subscribe" /\ reply[t].status
    <3>1. granted' = [granted EXCEPT ![t] = @ \cup (call[t].ids \cap Events)]
      BY <2>3 DEF Return
    <3> QED BY <2>1, <2>2, <2>3, <3>1
  <2>4. CASE ~(call[t].name = "subscribe" /\ reply[t].status)
    <3>1. granted' = granted
      BY <2>4 DEF Return
    <3> QED BY <2>1, <2>2, <3>1
  <2> QED BY <2>3, <2>4
<1>5. FlowType'
  <2> DEFINE C == [name : Names, ids : SUBSET (Events \cup OtherIds)]
  <2>1. {} \in SUBSET (Events \cup OtherIds)
    OBVIOUS
  <2>2. call \in [Threads -> C] /\ NoCall \in C
    BY <1>1, <2>1 DEF FlowType, NoCall, Names
  <2> HIDE DEF C
  <2>3. call' \in [Threads -> C]
    BY <1>1, <2>2
  <2>4. reply' = [c \in Clients |-> reply'[c]]
    BY <1>1 DEF FlowType
  <2> QED BY <1>1, <1>4, <2>3, <2>4 DEF FlowType, C
<1>6. ASSUME NEW s \in Threads PROVE (OneRequest(s) /\ BitsCover(s) /\ Kept(s))'
  <2>1. OneRequest(s) /\ BitsCover(s) /\ Kept(s) /\ s \in Clients
    BY Assumed DEF RouteInv
  <2>2. \A e : /\ Safe(AppOf[s], e)' <=> Safe(AppOf[s], e)
               /\ Coming(s, AppOf[s], e)' <=> Coming(s, AppOf[s], e)
    BY <1>1 DEF Safe, Coming
  <2>3. CASE s = t
    <3>1. reply'[s] = Pending
      BY <1>1, <2>1, <2>3 DEF FlowType
    <3>2. OneRequest(s)'
      BY <1>1, <1>3, <2>3, <3>1 DEF OneRequest
    <3>3. phase[AppOf[t]] \in Working
      BY <1>1, <1>2 DEF BitsCover
    <3>4. BitsCover(s)'
      BY <1>1, <1>2, <1>4, <2>3, <3>3 DEF BitsCover, NoCall
    <3>5. \A e : ~Coming(s, AppOf[s], e)
      BY <1>3, <2>3 DEF Coming
    <3>6. Kept(s)'
      BY <1>1, <1>4, <2>1, <2>2, <2>3, <3>5 DEF Kept, Live, NoCall
    <3> QED BY <3>2, <3>4, <3>6
  <2>4. CASE s # t
    <3>1. reply'[s] = reply[s]
      BY <1>1, <2>1, <2>4 DEF FlowType
    <3>2. OneRequest(s)'
      BY <1>1, <1>4, <2>1, <2>4, <3>1 DEF OneRequest
    <3>3. BitsCover(s)'
      BY <1>1, <1>4, <2>1, <2>4 DEF BitsCover
    <3>4. Kept(s)'
      BY <1>1, <1>4, <2>1, <2>2, <2>4 DEF Kept, Live
    <3> QED BY <3>2, <3>3, <3>4
  <2> QED BY <2>3, <2>4
<1> QED BY <1>5, <1>6 DEF RouteInv

LEMMA SubscribeKeeps ==
  ASSUME RouteInv, NEW t \in Threads,
         NEW ids \in (SUBSET (Events \cup OtherIds)) \ {{}},
         SAL_Subscribe(t, ids) \/ SubscribeFails(t, ids)
  PROVE  RouteInv'
<1>1. FlowType /\ AppOf[t] \in Apps
  BY Assumed DEF RouteInv
<1>2. \A s \in Threads : BitsCover(s)
  BY DEF RouteInv
<1>3. /\ Callable(t) /\ granted' = granted
      /\ subscribed' = [subscribed EXCEPT ![t] = @ \cup (ids \cap Events)]
  BY DEF SAL_Subscribe, SubscribeFails, Subscribe_Bits
<1>4. /\ subscribed' \in [Threads -> SUBSET Events]
      /\ granted' \in [Threads -> SUBSET Events]
      /\ \A s \in Threads :
           /\ granted'[s] \subseteq granted[s] /\ granted'[s] \subseteq subscribed'[s]
           /\ subscribed[s] \subseteq subscribed'[s]
      /\ ids \cap Events \subseteq subscribed'[t]
  BY <1>1, <1>2, <1>3 DEF FlowType, BitsCover
<1>5. CASE SubscribeFails(t, ids)
  <2>1. UNCHANGED <<backlog, reply, phase, kill, routing_table, call>>
    BY <1>5 DEF SubscribeFails, NoRequest, transport, lives, tables
  <2> QED BY <1>4, <2>1, LocalKeeps
<1>6. CASE SAL_Subscribe(t, ids)
  <2> DEFINE cmd == SAL_NS_Subscribe(AppOf[t], ids)
  <2>1. /\ cmd \in Commands
        /\ \A a, e : ~Takes(cmd, a, e)
        /\ \A e \in ids \cap Events : Gives(cmd, AppOf[t], e)
    BY <1>1, AreCommands DEF Takes, Gives, SAL_NS_Subscribe
  <2>2. Request(t, "subscribe", ids, cmd)
    BY <1>6 DEF SAL_Subscribe
  <2> HIDE DEF cmd
  <2>3. "subscribe" \in Names \ {"none"}
    BY DEF Names
  <2> QED BY <1>3, <1>4, <2>1, <2>2, <2>3, RequestKeeps
<1> QED BY <1>5, <1>6

LEMMA WithdrawKeeps ==
  ASSUME RouteInv, NEW t \in Threads, NEW name \in {"unsubscribe", "end"},
         NEW ids \in SUBSET (Events \cup OtherIds), Withdraw(t, name, ids)
  PROVE  RouteInv'
<1>1. FlowType /\ AppOf[t] \in Apps
  BY Assumed DEF RouteInv
<1>2. \A s \in Threads : BitsCover(s)
  BY DEF RouteInv
<1>3. /\ Callable(t) /\ call[t] = NoCall
      /\ subscribed' = [subscribed EXCEPT ![t] = @ \ ids]
      /\ granted' = [granted EXCEPT ![t] = @ \ ids]
  BY DEF Withdraw, Callable
<1>4. /\ subscribed' \in [Threads -> SUBSET Events]
      /\ granted' \in [Threads -> SUBSET Events]
      /\ \A s \in Threads \ {t} : subscribed'[s] = subscribed[s]
                                  /\ granted'[s] = granted[s]
      /\ granted'[t] = granted[t] \ ids /\ subscribed'[t] = subscribed[t] \ ids
  BY <1>1, <1>3 DEF FlowType
<1>5. \A s \in Threads :
        /\ granted'[s] \subseteq granted[s] /\ granted'[s] \subseteq subscribed'[s]
        /\ call[s].name = "subscribe" => subscribed[s] \subseteq subscribed'[s]
  <2> TAKE s \in Threads
  <2>1. CASE s = t
    BY <1>2, <1>3, <1>4, <2>1 DEF BitsCover, NoCall
  <2>2. CASE s # t
    BY <1>2, <1>4, <2>2 DEF BitsCover
  <2> QED BY <2>1, <2>2
<1> DEFINE unneeded == Unneeded(t, ids)
<1>6. \/ unneeded # {} /\ Request(t, name, unneeded, SAL_NS_Unsubscribe(AppOf[t], unneeded))
      \/ NoRequest
  BY DEF Withdraw
<1>7. /\ unneeded \subseteq ids \cap Events
      /\ \A s \in Threads : s # t /\ AppOf[s] = AppOf[t] =>
           unneeded \cap subscribed[s] = {}
  BY DEF Unneeded, ThreadsOf
<1> HIDE DEF unneeded
<1>8. CASE NoRequest
  <2>1. UNCHANGED <<backlog, reply, phase, kill, routing_table, call>>
    BY <1>8 DEF NoRequest, transport, lives, tables
  <2> QED BY <1>4, <1>5, <2>1, LocalKeeps
<1>9. CASE /\ unneeded # {}
           /\ Request(t, name, unneeded, SAL_NS_Unsubscribe(AppOf[t], unneeded))
  <2> DEFINE cmd == SAL_NS_Unsubscribe(AppOf[t], unneeded)
  <2>1. unneeded \in (SUBSET (Events \cup OtherIds)) \ {{}}
    BY <1>7, <1>9
  <2>2. /\ cmd \in Commands
        /\ \A a, e : Takes(cmd, a, e) => a = AppOf[t] /\ e \in unneeded
    BY <1>1, <2>1, AreCommands DEF Takes, SAL_NS_Unsubscribe
  <2>3. Request(t, name, unneeded, cmd)
    BY <1>9
  <2> HIDE DEF cmd
  <2>4. name \in Names \ {"none"} /\ name # "subscribe"
    BY DEF Names
  <2>5. ASSUME NEW s \in Threads, NEW e \in Events,
               \/ e \in granted'[s]
               \/ s # t /\ call[s].name = "subscribe" /\ e \in call[s].ids
        PROVE  ~Takes(cmd, AppOf[s], e)
    <3>1. CASE s = t
      BY <1>4, <1>7, <2>2, <2>5, <3>1
    <3>2. CASE s # t
      <4>1. e \in subscribed[s]
        BY <1>2, <1>4, <2>5, <3>2 DEF BitsCover
      <4> QED BY <1>7, <2>2, <3>2, <4>1
    <3> QED BY <3>1, <3>2
  <2>6. unneeded \in SUBSET (Events \cup OtherIds)
    BY <2>1
  <2> QED BY <1>3, <1>4, <1>5, <2>2, <2>3, <2>4, <2>5, <2>6, RequestKeeps
<1> QED BY <1>6, <1>8, <1>9

-----------------------------------------------------------------------------
(* The name server *)

LEMMA ServeKeeps ==
  ASSUME RouteInv, ServeNext
  PROVE  RouteInv'
<1> DEFINE head == Head(backlog)
<1>1. /\ FlowType /\ backlog # << >> /\ Handle(head.cmd)
      /\ backlog' = Tail(backlog)
      /\ UNCHANGED <<phase, kill, subscribed, call, granted>>
  BY DEF RouteInv, ServeNext, Serve, lives, history
<1>2. /\ backlog' \in Seq(Requests)
      /\ 1 \in DOMAIN backlog /\ backlog[1] = head
      /\ \A i \in DOMAIN backlog : i \in Int /\ i >= 1
      /\ \A i \in DOMAIN backlog' :
           i \in Int /\ i + 1 \in DOMAIN backlog /\ backlog'[i] = backlog[i + 1]
      /\ \A i \in DOMAIN backlog : i # 1 =>
           i - 1 \in DOMAIN backlog' /\ backlog'[i - 1] = backlog[i]
  BY <1>1 DEF FlowType
<1>3. /\ reply' = [c \in Clients |-> reply'[c]]
      /\ \A c \in Clients : c # head.client => reply'[c] = reply[c]
  <2>1. CASE head.client = Nobody
    <3>1. reply' = reply
      BY <2>1 DEF ServeNext, Serve
    <3> QED BY <1>1, <3>1 DEF FlowType
  <2>2. CASE head.client # Nobody
    <3> DEFINE r == [status |-> ~Fails(head.cmd), data |-> Answer(head.cmd)]
    <3>1. reply' = [reply EXCEPT ![head.client] = r]
      BY <2>2 DEF ServeNext, Serve
    <3> HIDE DEF r
    <3> QED BY <1>1, <3>1 DEF FlowType
  <2> QED BY <2>1, <2>2
<1> HIDE DEF head
<1>4. FlowType'
  BY <1>1, <1>2, <1>3 DEF FlowType
<1>5. ASSUME NEW a, NEW e \in Events, Safe(a, e) PROVE Safe(a, e)'
  <2>1. a \in routing_table[e] /\ ~Takes(head.cmd, a, e)
    BY <1>2, <1>5 DEF Safe
  <2>2. a \in routing_table'[e]
    BY <1>1, <2>1, HandleRouting
  <2>3. \A i \in DOMAIN backlog' : ~Takes(backlog'[i].cmd, a, e)
    BY <1>2, <1>5 DEF Safe
  <2> QED BY <2>2, <2>3 DEF Safe
<1>6. ASSUME NEW t, NEW a, NEW e \in Events, Coming(t, a, e)
      PROVE  Safe(a, e)' \/ Coming(t, a, e)'
  <2>1. PICK i \in DOMAIN backlog :
          /\ backlog[i].client = t /\ Gives(backlog[i].cmd, a, e)
          /\ \A j \in DOMAIN backlog : j > i => ~Takes(backlog[j].cmd, a, e)
    BY <1>6 DEF Coming
  <2>2. CASE i = 1
    <3>1. a \in routing_table'[e]
      BY <1>1, <1>2, <2>1, <2>2, HandleRouting
    <3>2. \A j \in DOMAIN backlog' : j + 1 > 1
      BY <1>2
    <3>3. \A j \in DOMAIN backlog' : ~Takes(backlog'[j].cmd, a, e)
      BY <1>2, <2>1, <2>2, <3>2
    <3> QED BY <3>1, <3>3 DEF Safe
  <2>3. CASE i # 1
    <3>1. /\ i - 1 \in DOMAIN backlog' /\ backlog'[i - 1].client = t
          /\ Gives(backlog'[i - 1].cmd, a, e)
      BY <1>2, <2>1, <2>3
    <3>2. \A j \in DOMAIN backlog' : j > i - 1 => j + 1 > i
      BY <1>2, <2>1
    <3>3. \A j \in DOMAIN backlog' : j > i - 1 => ~Takes(backlog'[j].cmd, a, e)
      BY <1>2, <2>1, <3>2
    <3> QED BY <3>1, <3>3 DEF Coming
  <2> QED BY <2>2, <2>3
<1>7. ASSUME NEW t \in Threads PROVE (OneRequest(t) /\ BitsCover(t) /\ Kept(t))'
  <2>1. /\ OneRequest(t) /\ BitsCover(t) /\ Kept(t) /\ t \in Clients
        /\ granted[t] \subseteq Events
    BY <1>1, Assumed DEF RouteInv, FlowType
  <2>2. OneRequest(t)'
    <3>1. ASSUME call[t] = NoCall
          PROVE  reply'[t] = Pending /\ \A i \in DOMAIN backlog' : backlog'[i].client # t
      BY <1>2, <1>3, <2>1, <3>1 DEF OneRequest
    <3>2. ASSUME NEW i \in DOMAIN backlog', NEW j \in DOMAIN backlog',
                 backlog'[i].client = t, backlog'[j].client = t
          PROVE  i = j
      <4>1. i + 1 = j + 1
        BY <1>2, <2>1, <3>2 DEF OneRequest
      <4> QED BY <1>2, <4>1
    <3>3. ASSUME NEW i \in DOMAIN backlog', backlog'[i].client = t
          PROVE  reply'[t] = Pending
      <4>1. i + 1 \in DOMAIN backlog /\ backlog[i + 1].client = t /\ i + 1 # 1
        <5>1. i + 1 \in DOMAIN backlog /\ backlog[i + 1].client = t
          BY <1>2, <3>3
        <5>2. i \in Int /\ i + 1 >= 1
          BY <1>2
        <5>3. i >= 1
          BY <1>1, <1>2 DEF FlowType
        <5> QED BY <5>1, <5>2, <5>3
      <4>2. head.client # t
        BY <1>2, <2>1, <4>1 DEF OneRequest
      <4>3. reply[t] = Pending
        BY <2>1, <4>1 DEF OneRequest
      <4> QED BY <1>3, <2>1, <4>2, <4>3
    <3> QED BY <1>1, <3>1, <3>2, <3>3 DEF OneRequest
  <2>3. BitsCover(t)'
    BY <1>1, <2>1 DEF BitsCover
  <2>4. Kept(t)'
    <3> SUFFICES ASSUME Live(AppOf[t])
                 PROVE  /\ \A e \in granted[t] : Safe(AppOf[t], e)'
                        /\ call[t].name = "subscribe" =>
                             \A e \in call[t].ids \cap Events :
                               Safe(AppOf[t], e)' \/ Coming(t, AppOf[t], e)'
      BY <1>1 DEF Kept, Live
    <3>1. \A e \in granted[t] : Safe(AppOf[t], e)'
      BY <1>5, <2>1 DEF Kept
    <3>2. ASSUME call[t].name = "subscribe", NEW e \in call[t].ids \cap Events
          PROVE  Safe(AppOf[t], e)' \/ Coming(t, AppOf[t], e)'
      <4>1. Safe(AppOf[t], e) \/ Coming(t, AppOf[t], e)
        BY <2>1, <3>2 DEF Kept
      <4> QED BY <1>5, <1>6, <4>1
    <3> QED BY <3>1, <3>2
  <2> QED BY <2>2, <2>3, <2>4
<1> QED BY <1>4, <1>7 DEF RouteInv

-----------------------------------------------------------------------------
(* The life of an application *)

LEMMA NewPhase ==
  ASSUME FlowType, NEW a \in Apps, NEW to, phase' = [phase EXCEPT ![a] = to]
  PROVE  /\ phase' = [b \in Apps |-> phase'[b]]
         /\ \A b \in Apps : phase'[b] = IF b = a THEN to ELSE phase[b]
BY DEF FlowType

LEMMA NewKill ==
  ASSUME FlowType, NEW a \in Apps, NEW to, kill' = [kill EXCEPT ![a] = to]
  PROVE  /\ kill' = [b \in Apps |-> kill'[b]]
         /\ \A b \in Apps : kill'[b] = IF b = a THEN to ELSE kill[b]
BY DEF FlowType

LEMMA LifeKeeps ==
  ASSUME RouteInv, NEW a \in Apps \ {ProcMan},
         \/ Start(a) \/ Started(a) \/ Leave(a) \/ LeaveUnbind(a) \/ Exit(a)
         \/ Crash(a) \/ CleanUp(a) \/ CleanUpUnbind(a) \/ CleanedUp(a)
         \/ Kill(a) \/ KillUnbind(a) \/ KillSignal(a)
  PROVE  RouteInv'
<1>1. /\ FlowType /\ ProcMan \in Apps
      /\ SAL_NS_Bind_Channel(a, RouterPort, ChannelOf[a]) \in Commands
      /\ SAL_NS_Unsubscribe_App(a) \in Commands
      /\ SAL_NS_Unbind_App(a) \in Commands
  BY Assumed, AreCommands DEF RouteInv
<1>2. /\ granted \in [Threads -> SUBSET Events]
      /\ kill = [b \in Apps |-> kill[b]]
  BY <1>1 DEF FlowType
<1>3. /\ \A b, e : ~Takes(SAL_NS_Bind_Channel(a, RouterPort, ChannelOf[a]), b, e)
      /\ \A b, e : ~Takes(SAL_NS_Unbind_App(a), b, e)
      /\ \A b, e : Takes(SAL_NS_Unsubscribe_App(a), b, e) => b = a
  BY DEF Takes, SAL_NS_Bind_Channel, SAL_NS_Unbind_App, SAL_NS_Unsubscribe_App
<1>4. CASE Start(a)
  <2>1. /\ Ask(a, SAL_NS_Bind_Channel(a, RouterPort, ChannelOf[a])) /\ reply' = reply
        /\ UNCHANGED <<routing_table, subscribed, call, granted, kill>>
        /\ phase' = [phase EXCEPT ![a] = "binding"] /\ phase[a] \notin Working
    BY <1>4 DEF Start, MainAsks, tables, history, Working, Alive
  <2>2. /\ phase' = [b \in Apps |-> phase'[b]]
        /\ \A b \in Apps : phase'[b] = IF b = a THEN "binding" ELSE phase[b]
    BY <1>1, <2>1, NewPhase
  <2> QED BY <1>1, <1>2, <1>3, <2>1, <2>2, MainAskKeeps, ZenonT(40) DEF Live
<1>5. CASE Started(a)
  <2> DEFINE to == IF reply[a].status THEN "running" ELSE "exited"
  <2>1. /\ reply' = [reply EXCEPT ![a] = Pending]
        /\ UNCHANGED <<backlog, routing_table, subscribed, granted, call, kill>>
        /\ phase[a] = "binding" /\ phase' = [phase EXCEPT ![a] = to]
    BY <1>5 DEF Started, Answered, Advance, tables
  <2> HIDE DEF to
  <2>2. /\ phase' = [b \in Apps |-> phase'[b]]
        /\ \A b \in Apps : phase'[b] = IF b = a THEN to ELSE phase[b]
    BY <1>1, <2>1, NewPhase
  <2>3. phase[a] \notin Working
    BY <2>1 DEF Working
  <2> QED BY <1>2, <2>1, <2>2, <2>3, MainStepKeeps DEF Live
<1>6. CASE Leave(a)
  <2>1. /\ Ask(a, SAL_NS_Unsubscribe_App(a)) /\ reply' = reply
        /\ UNCHANGED <<routing_table, subscribed, call, kill>>
        /\ phase' = [phase EXCEPT ![a] = "unsubscribing"]
        /\ granted' = [t \in Threads |-> IF AppOf[t] = a THEN {} ELSE granted[t]]
    BY <1>6 DEF Leave, MainAsks, Advance, tables
  <2>2. /\ phase' = [b \in Apps |-> phase'[b]]
        /\ \A b \in Apps : phase'[b] = IF b = a THEN "unsubscribing" ELSE phase[b]
    BY <1>1, <2>1, NewPhase
  <2>3. /\ granted' \in [Threads -> SUBSET Events]
        /\ \A t \in Threads : granted'[t] \subseteq granted[t]
    BY <1>2, <2>1
  <2>4. "unsubscribing" \in Working
    BY DEF Working, Alive
  <2> QED BY <1>1, <1>2, <1>3, <2>1, <2>2, <2>3, <2>4, MainAskKeeps, ZenonT(40) DEF Live
<1>7. CASE LeaveUnbind(a)
  <2>1. /\ Ask(a, SAL_NS_Unbind_App(a)) /\ reply' = [reply EXCEPT ![a] = Pending]
        /\ UNCHANGED <<routing_table, subscribed, call, granted, kill>>
        /\ phase' = [phase EXCEPT ![a] = "unbinding"]
    BY <1>7 DEF LeaveUnbind, Answered, Advance, Quiet, Still, tables, history
  <2>2. /\ phase' = [b \in Apps |-> phase'[b]]
        /\ \A b \in Apps : phase'[b] = IF b = a THEN "unbinding" ELSE phase[b]
    BY <1>1, <2>1, NewPhase
  <2>3. "unbinding" \in Working
    BY DEF Working, Alive
  <2> QED BY <1>1, <1>2, <1>3, <2>1, <2>2, <2>3, MainAskKeeps DEF Live
<1>8. CASE Exit(a)
  <2>1. Vanish(a, "exited", {a}) /\ "exited" \notin Working
    BY <1>8 DEF Exit, Working, Alive
  <2> QED BY <2>1, VanishKeeps
<1>9. CASE Crash(a)
  <2>1. Vanish(a, "crashed", {a}) /\ "crashed" \notin Working
    BY <1>9 DEF Crash, Working, Alive
  <2> QED BY <2>1, VanishKeeps
<1>10. CASE CleanUp(a)
  <2>1. /\ Ask(ProcMan, SAL_NS_Unsubscribe_App(a)) /\ reply' = reply
        /\ UNCHANGED <<routing_table, subscribed, call, granted, kill>>
        /\ phase' = [phase EXCEPT ![a] = "removing"] /\ phase[a] = "crashed"
    BY <1>10 DEF CleanUp, MainAsks, Advance, Quiet, Still, tables, history
  <2>2. /\ phase' = [b \in Apps |-> phase'[b]]
        /\ \A b \in Apps : phase'[b] = IF b = a THEN "removing" ELSE phase[b]
    BY <1>1, <2>1, NewPhase
  <2>3. phase[a] \notin Working
    BY <2>1 DEF Working, Alive
  <2> QED BY <1>1, <1>2, <1>3, <2>1, <2>2, <2>3, MainAskKeeps, ZenonT(40) DEF Live
<1>11. CASE CleanUpUnbind(a)
  <2>1. /\ Ask(ProcMan, SAL_NS_Unbind_App(a))
        /\ reply' = [reply EXCEPT ![ProcMan] = Pending]
        /\ UNCHANGED <<routing_table, subscribed, call, granted, kill>>
        /\ phase' = [phase EXCEPT ![a] = "closing"] /\ phase[a] = "removing"
    BY <1>11 DEF CleanUpUnbind, Answered, Advance, Quiet, Still, tables, history
  <2>2. /\ phase' = [b \in Apps |-> phase'[b]]
        /\ \A b \in Apps : phase'[b] = IF b = a THEN "closing" ELSE phase[b]
    BY <1>1, <2>1, NewPhase
  <2>3. phase[a] \notin Working
    BY <2>1 DEF Working, Alive
  <2> QED BY <1>1, <1>2, <1>3, <2>1, <2>2, <2>3, MainAskKeeps, ZenonT(40) DEF Live
<1>12. CASE CleanedUp(a)
  <2>1. /\ reply' = [reply EXCEPT ![ProcMan] = Pending]
        /\ UNCHANGED <<backlog, routing_table, subscribed, granted, call, kill>>
        /\ phase[a] = "closing" /\ phase' = [phase EXCEPT ![a] = "removed"]
    BY <1>12 DEF CleanedUp, Answered, Advance, Quiet, Still, tables, history
  <2>2. /\ phase' = [b \in Apps |-> phase'[b]]
        /\ \A b \in Apps : phase'[b] = IF b = a THEN "removed" ELSE phase[b]
    BY <1>1, <2>1, NewPhase
  <2>3. phase[a] \notin Working
    BY <2>1 DEF Working, Alive
  <2> QED BY <1>1, <1>2, <2>1, <2>2, <2>3, MainStepKeeps DEF Live
<1>13. CASE Kill(a)
  <2>1. /\ Ask(ProcMan, SAL_NS_Unsubscribe_App(a)) /\ reply' = reply
        /\ UNCHANGED <<routing_table, subscribed, call, granted, phase>>
        /\ kill' = [kill EXCEPT ![a] = "unsubscribing"]
    BY <1>13 DEF Kill, MainAsks, Still, tables, history
  <2>2. /\ kill' = [b \in Apps |-> kill'[b]]
        /\ \A b \in Apps : kill'[b] = IF b = a THEN "unsubscribing" ELSE kill[b]
    BY <1>1, <2>1, NewKill
  <2>3. phase' = [b \in Apps |-> phase'[b]]
    BY <1>1, <2>1 DEF FlowType
  <2> QED BY <1>1, <1>2, <1>3, <2>1, <2>2, <2>3, MainAskKeeps DEF Live
<1>14. CASE KillUnbind(a)
  <2>1. /\ Ask(ProcMan, SAL_NS_Unbind_App(a))
        /\ reply' = [reply EXCEPT ![ProcMan] = Pending]
        /\ UNCHANGED <<routing_table, subscribed, call, granted, phase>>
        /\ kill' = [kill EXCEPT ![a] = "unbinding"]
    BY <1>14 DEF KillUnbind, Answered, Still, tables, history
  <2>2. /\ kill' = [b \in Apps |-> kill'[b]]
        /\ \A b \in Apps : kill'[b] = IF b = a THEN "unbinding" ELSE kill[b]
    BY <1>1, <2>1, NewKill
  <2>3. phase' = [b \in Apps |-> phase'[b]]
    BY <1>1, <2>1 DEF FlowType
  <2> QED BY <1>1, <1>2, <1>3, <2>1, <2>2, <2>3, MainAskKeeps DEF Live
<1>15. CASE KillSignal(a)
  <2>1. Vanish(a, "killed", {a, ProcMan}) /\ "killed" \notin Working
    BY <1>15 DEF KillSignal, Working, Alive
  <2> QED BY <1>1, <2>1, VanishKeeps
<1> QED BY <1>4, <1>5, <1>6, <1>7, <1>8, <1>9, <1>10, <1>11, <1>12, <1>13,
           <1>14, <1>15

-----------------------------------------------------------------------------

LEMMA NextRoute == RouteInv /\ [Next]_vars => RouteInv'
<1> SUFFICES ASSUME RouteInv, [Next]_vars PROVE RouteInv'
  OBVIOUS
<1>1. CASE UNCHANGED vars
  <2>1. UNCHANGED <<backlog, reply, phase, kill, routing_table, call, subscribed,
                    granted>>
    BY <1>1 DEF vars, tables, transport, lives, history
  <2>2. /\ subscribed \in [Threads -> SUBSET Events]
        /\ granted \in [Threads -> SUBSET Events]
        /\ \A s \in Threads : granted[s] \subseteq subscribed[s]
    BY DEF RouteInv, FlowType, BitsCover
  <2> QED BY <2>1, <2>2, LocalKeeps
<1>2. ASSUME NEW t \in Threads, NEW ids \in EventLists[t],
             SAL_Subscribe(t, ids) \/ SubscribeFails(t, ids) \/ SAL_Unsubscribe(t, ids)
      PROVE  RouteInv'
  <2>1. ids \in (SUBSET (Events \cup OtherIds)) \ {{}}
    BY SubscriptionsAssumption
  <2>2. CASE SAL_Unsubscribe(t, ids)
    <3>1. Withdraw(t, "unsubscribe", ids)
      BY <2>2 DEF SAL_Unsubscribe
    <3> QED BY <2>1, <3>1, WithdrawKeeps
  <2> QED BY <1>2, <2>1, <2>2, SubscribeKeeps
<1>3. ASSUME NEW t \in Threads,
             SAL_I_Unsubscribe_Thread_Events(t) \/ Return(t) \/ ReplyLost(t)
      PROVE  RouteInv'
  <2>1. CASE SAL_I_Unsubscribe_Thread_Events(t)
    <3>1. Withdraw(t, "end", subscribed[t])
      BY <2>1 DEF SAL_I_Unsubscribe_Thread_Events
    <3>2. subscribed[t] \in SUBSET (Events \cup OtherIds)
      BY DEF RouteInv, FlowType
    <3> QED BY <3>1, <3>2, WithdrawKeeps
  <2> QED BY <1>3, <2>1, ReturnKeeps, ReplyLostKeeps
<1>4. ASSUME NEW a \in Apps \ {ProcMan},
             \/ Start(a) \/ Started(a) \/ Leave(a) \/ LeaveUnbind(a) \/ Exit(a)
             \/ Crash(a) \/ CleanUp(a) \/ CleanUpUnbind(a) \/ CleanedUp(a)
             \/ Kill(a) \/ KillUnbind(a) \/ KillSignal(a)
      PROVE  RouteInv'
  BY <1>4, LifeKeeps
<1>5. CASE ServeNext
  BY <1>5, ServeKeeps
<1> QED BY <1>1, <1>2, <1>3, <1>4, <1>5 DEF Next

-----------------------------------------------------------------------------
(* The rest of the type *)

Phases == Alive \cup {"down", "exited", "crashed", "removing", "closing",
                      "removed", "killed"}
Kills == {"no", "unsubscribing", "unbinding"}

RestType ==
  /\ routing_table \in [Events -> SUBSET Apps]
  /\ phase \in [Apps -> Phases] /\ kill \in [Apps -> Kills]
  /\ property_mutex \in [Apps -> Threads \cup {Nobody}]
  /\ residue \in [Apps -> SUBSET Events]
  /\ failures \in 0..MaxFailures

LEMMA InitRest == Init => RestType
<1> SUFFICES ASSUME Init PROVE RestType
  OBVIOUS
<1>1. failures \in 0..MaxFailures
  BY SubscriptionsAssumption DEF Init
<1> QED BY <1>1 DEF Init, ServerInit, RestType, Phases, Kills

LEMMA CallRest ==
  ASSUME RestType, NEW t \in Threads, NEW ids,
         \/ SAL_Subscribe(t, ids) \/ SubscribeFails(t, ids)
         \/ \E name : Withdraw(t, name, ids)
         \/ Return(t) \/ ReplyLost(t)
  PROVE  RestType'
<1>1. AppOf[t] \in Apps
  BY Assumed
<1>2. ASSUME NEW name, NEW list, NEW cmd, Request(t, name, list, cmd)
      PROVE  RestType'
  <2>1. /\ property_mutex' = [property_mutex EXCEPT ![AppOf[t]] = t]
        /\ UNCHANGED <<routing_table, phase, kill, residue, failures>>
    BY <1>2 DEF Request, tables, lives
  <2> QED BY <1>1, <2>1 DEF RestType
<1>3. ASSUME NoRequest,
             \/ failures' = failures
             \/ failures < MaxFailures /\ failures' = failures + 1
      PROVE  RestType'
  <2>1. UNCHANGED <<routing_table, phase, kill, residue, property_mutex>>
    BY <1>3 DEF NoRequest, tables, lives
  <2>2. failures' \in 0..MaxFailures
    BY <1>3, SubscriptionsAssumption DEF RestType
  <2> QED BY <2>1, <2>2 DEF RestType
<1>4. ASSUME Returned(t),
             \/ failures' = failures
             \/ failures < MaxFailures /\ failures' = failures + 1
      PROVE  RestType'
  <2>1. /\ UNCHANGED <<routing_table, phase, kill, residue>>
        /\ property_mutex' = [property_mutex EXCEPT ![AppOf[t]] = Nobody]
    BY <1>4 DEF Returned, tables, lives
  <2>2. failures' \in 0..MaxFailures
    BY <1>4, SubscriptionsAssumption DEF RestType
  <2>3. property_mutex' \in [Apps -> Threads \cup {Nobody}]
    BY <2>1 DEF RestType
  <2> QED BY <2>1, <2>2, <2>3 DEF RestType
<1>5. CASE SAL_Subscribe(t, ids)
  BY <1>2, <1>5 DEF SAL_Subscribe
<1>6. CASE SubscribeFails(t, ids)
  BY <1>3, <1>6 DEF SubscribeFails
<1>7. CASE \E name : Withdraw(t, name, ids)
  <2>1. PICK name : Withdraw(t, name, ids)
    BY <1>7
  <2> DEFINE U == Unneeded(t, ids)
  <2>2. \/ Request(t, name, U, SAL_NS_Unsubscribe(AppOf[t], U))
        \/ NoRequest /\ (\/ failures' = failures
                         \/ failures < MaxFailures /\ failures' = failures + 1)
    BY <2>1 DEF Withdraw
  <2> HIDE DEF U
  <2>3. CASE Request(t, name, U, SAL_NS_Unsubscribe(AppOf[t], U))
    BY <1>2, <2>3
  <2> QED BY <1>3, <2>2, <2>3
<1>8. CASE Return(t) \/ ReplyLost(t)
  <2>1. Returned(t) /\ (\/ failures' = failures
                        \/ failures < MaxFailures /\ failures' = failures + 1)
    BY <1>8 DEF Return, ReplyLost
  <2> QED BY <1>4, <2>1
<1> QED BY <1>5, <1>6, <1>7, <1>8

LEMMA LifeRest ==
  ASSUME RestType, NEW a \in Apps \ {ProcMan},
         \/ Start(a) \/ Started(a) \/ Leave(a) \/ LeaveUnbind(a) \/ Exit(a)
         \/ Crash(a) \/ CleanUp(a) \/ CleanUpUnbind(a) \/ CleanedUp(a)
         \/ Kill(a) \/ KillUnbind(a) \/ KillSignal(a)
  PROVE  RestType'
<1>1. ASSUME NEW to \in Phases, phase' = [phase EXCEPT ![a] = to],
             UNCHANGED <<routing_table, kill, residue, property_mutex, failures>>
      PROVE  RestType'
  BY <1>1 DEF RestType
<1>2. ASSUME NEW to \in Kills, kill' = [kill EXCEPT ![a] = to],
             UNCHANGED <<routing_table, phase, residue, property_mutex, failures>>
      PROVE  RestType'
  BY <1>2 DEF RestType
<1>3. ASSUME NEW to \in Phases, NEW callers, Vanish(a, to, callers)
      PROVE  RestType'
  <2>1. /\ phase' = [phase EXCEPT ![a] = to] /\ kill' = [kill EXCEPT ![a] = "no"]
        /\ property_mutex' = [property_mutex EXCEPT ![a] = Nobody]
        /\ UNCHANGED <<routing_table, residue, failures>>
    BY <1>3 DEF Vanish, tables
  <2> QED BY <2>1 DEF RestType, Kills
<1>4. /\ "binding" \in Phases /\ "running" \in Phases /\ "exited" \in Phases
      /\ "unsubscribing" \in Phases /\ "unbinding" \in Phases /\ "crashed" \in Phases
      /\ "removing" \in Phases /\ "closing" \in Phases /\ "removed" \in Phases
      /\ "killed" \in Phases /\ "unsubscribing" \in Kills /\ "unbinding" \in Kills
  BY DEF Phases, Alive, Kills
<1>5. CASE Start(a)
  BY <1>1, <1>4, <1>5 DEF Start, tables, history
<1>6. CASE Started(a)
  <2> DEFINE to == IF reply[a].status THEN "running" ELSE "exited"
  <2>1. /\ phase' = [phase EXCEPT ![a] = to]
        /\ residue' = [residue EXCEPT ![a] = {e \in Events : a \in routing_table[e]}]
        /\ UNCHANGED <<routing_table, kill, property_mutex, failures>>
    BY <1>6 DEF Started, Advance, tables
  <2>2. to \in Phases
    BY <1>4
  <2> HIDE DEF to
  <2> QED BY <2>1, <2>2 DEF RestType
<1>7. CASE Leave(a)
  BY <1>1, <1>4, <1>7 DEF Leave, Advance, tables
<1>8. CASE LeaveUnbind(a)
  BY <1>1, <1>4, <1>8 DEF LeaveUnbind, Advance, Quiet, Still, tables, history
<1>9. CASE Exit(a)
  BY <1>3, <1>4, <1>9 DEF Exit
<1>10. CASE Crash(a)
  BY <1>3, <1>4, <1>10 DEF Crash
<1>11. CASE CleanUp(a)
  BY <1>1, <1>4, <1>11 DEF CleanUp, Advance, Quiet, Still, tables, history
<1>12. CASE CleanUpUnbind(a)
  BY <1>1, <1>4, <1>12 DEF CleanUpUnbind, Advance, Quiet, Still, tables, history
<1>13. CASE CleanedUp(a)
  BY <1>1, <1>4, <1>13 DEF CleanedUp, Advance, Quiet, Still, tables, history
<1>14. CASE Kill(a)
  BY <1>2, <1>4, <1>14 DEF Kill, Still, tables, history
<1>15. CASE KillUnbind(a)
  BY <1>2, <1>4, <1>15 DEF KillUnbind, Still, tables, history
<1>16. CASE KillSignal(a)
  BY <1>3, <1>4, <1>16 DEF KillSignal
<1> QED BY <1>5, <1>6, <1>7, <1>8, <1>9, <1>10, <1>11, <1>12, <1>13, <1>14,
           <1>15, <1>16

LEMMA NextRest == RouteInv /\ RestType /\ [Next]_vars => RestType'
<1> SUFFICES ASSUME RouteInv, RestType, [Next]_vars PROVE RestType'
  OBVIOUS
<1>1. CASE UNCHANGED vars
  BY <1>1 DEF vars, tables, lives, history, RestType
<1>2. ASSUME NEW t \in Threads, NEW ids \in EventLists[t],
             SAL_Subscribe(t, ids) \/ SubscribeFails(t, ids) \/ SAL_Unsubscribe(t, ids)
      PROVE  RestType'
  BY <1>2, CallRest DEF SAL_Unsubscribe
<1>3. ASSUME NEW t \in Threads,
             SAL_I_Unsubscribe_Thread_Events(t) \/ Return(t) \/ ReplyLost(t)
      PROVE  RestType'
  BY <1>3, CallRest DEF SAL_I_Unsubscribe_Thread_Events
<1>4. ASSUME NEW a \in Apps \ {ProcMan},
             \/ Start(a) \/ Started(a) \/ Leave(a) \/ LeaveUnbind(a) \/ Exit(a)
             \/ Crash(a) \/ CleanUp(a) \/ CleanUpUnbind(a) \/ CleanedUp(a)
             \/ Kill(a) \/ KillUnbind(a) \/ KillSignal(a)
      PROVE  RestType'
  BY <1>4, LifeRest
<1>5. CASE ServeNext
  <2>1. /\ backlog \in Seq(Requests) /\ backlog # << >>
        /\ Handle(Head(backlog).cmd)
        /\ UNCHANGED <<phase, kill, residue, property_mutex, failures>>
    BY <1>5 DEF ServeNext, Serve, lives, history, RouteInv, FlowType
  <2>2. Head(backlog).cmd \in Commands
    <3>1. Head(backlog) \in Requests
      BY <2>1
    <3> QED BY <3>1 DEF Requests
  <2>3. routing_table' \in [Events -> SUBSET Apps]
    BY <2>1, <2>2, RoutingType DEF RestType
  <2> QED BY <2>1, <2>3 DEF RestType
<1> QED BY <1>1, <1>2, <1>3, <1>4, <1>5 DEF Next

-----------------------------------------------------------------------------
(* Nothing needless is routed: the invariant *)

Touches(cmd, a) ==
  cmd.command \in {"SUBSCRIBE", "UNSUBSCRIBE", "UNSUBSCRIBE_APP"} /\ cmd.app_id = a

\* Whoever waits for the name server to handle a request about an application
\* holds its mutex, or is its main thread that leaves, or removes it.
MutexIsHeld(t) == call[t] # NoCall => property_mutex[AppOf[t]] = t

Owner(a, c) ==
  \/ c \in ThreadsOf(a)
  \/ c = a /\ phase[a] = "unsubscribing"
  \/ c = ProcMan /\ (kill[a] = "unsubscribing" \/ phase[a] = "removing")

\* What a process that is gone left in the backlog is served before the next
\* instance of the application has bound its channel.
Behind(a, i) ==
  /\ backlog[i].client = Nobody
  /\ \/ failures > 0
     \/ phase[a] \notin Alive
     \/ /\ phase[a] = "binding"
        /\ \E j \in DOMAIN backlog : j > i /\ backlog[j].client = a

Owned(a) ==
  \A i \in DOMAIN backlog : Touches(backlog[i].cmd, a) =>
    Owner(a, backlog[i].client) \/ Behind(a, i)

\* The main threads and the process manager have one request each.
Single(c) ==
  /\ \A i, j \in DOMAIN backlog :
       backlog[i].client = c /\ backlog[j].client = c => i = j
  /\ \A i \in DOMAIN backlog : backlog[i].client = c => reply[c] = Pending

Routed(a, e) ==
  a \in routing_table[e] \/ \E i \in DOMAIN backlog : Gives(backlog[i].cmd, a, e)

Wanted(a, e) == \E t \in ThreadsOf(a) : e \in subscribed[t]

Dropped(a, e) ==
  \E i \in DOMAIN backlog :
    /\ Takes(backlog[i].cmd, a, e)
    /\ \A j \in DOMAIN backlog : j >= i => ~Gives(backlog[j].cmd, a, e)

Watched(a, e) == Live(a) /\ failures = 0 /\ e \notin residue[a]

Needed(a, e) == Watched(a, e) /\ Routed(a, e) => Wanted(a, e) \/ Dropped(a, e)

NeedInv ==
  /\ \A t \in Threads : MutexIsHeld(t)
  /\ \A a \in Apps : Single(a) /\ Owned(a) /\ \A e \in Events : Needed(a, e)

LEMMA NoneOwned ==
  ASSUME RouteInv, NEW a \in Apps, Owned(a), failures = 0, kill[a] = "no",
         phase[a] = "running" \/ phase[a] = "binding",
         phase[a] = "binding" => \A i \in DOMAIN backlog : backlog[i].client # a,
         \A t \in ThreadsOf(a) : call[t] = NoCall
  PROVE  \A i \in DOMAIN backlog, e \in Events :
           ~Gives(backlog[i].cmd, a, e) /\ ~Takes(backlog[i].cmd, a, e)
<1> SUFFICES ASSUME NEW i \in DOMAIN backlog, Touches(backlog[i].cmd, a)
             PROVE  FALSE
  BY DEF Touches, Gives, Takes
<1>1. Owner(a, backlog[i].client) \/ Behind(a, i)
  BY DEF Owned
<1>2. backlog[i].client \notin ThreadsOf(a)
  BY DEF RouteInv, OneRequest, ThreadsOf
<1>3. phase[a] # "unsubscribing" /\ phase[a] # "removing" /\ phase[a] \in Alive
  BY DEF Alive
<1>4. ~Owner(a, backlog[i].client)
  BY <1>2, <1>3 DEF Owner
<1>5. ~Behind(a, i)
  BY <1>3 DEF Behind
<1> QED BY <1>1, <1>4, <1>5

LEMMA NeedImplies == RouteInv /\ RestType /\ NeedInv => NoNeedlessBit
<1> SUFFICES ASSUME RouteInv, RestType, NeedInv, NEW a \in Apps, NEW e \in Events,
                    failures = 0, property_mutex[a] = Nobody, Live(a),
                    a \in routing_table[e], e \notin residue[a]
             PROVE  Wanted(a, e)
  BY DEF NoNeedlessBit, Live, Wanted
<1>1. \A t \in ThreadsOf(a) : call[t] = NoCall
  BY Assumed DEF NeedInv, MutexIsHeld, ThreadsOf
<1>2. \A i \in DOMAIN backlog : ~Takes(backlog[i].cmd, a, e)
  BY <1>1, NoneOwned DEF NeedInv, Live
<1>3. ~Dropped(a, e)
  BY <1>2 DEF Dropped
<1>4. Needed(a, e)
  BY DEF NeedInv
<1> QED BY <1>3, <1>4 DEF Needed, Watched, Routed

LEMMA InitNeed == Init => NeedInv
<1> SUFFICES ASSUME Init PROVE NeedInv
  OBVIOUS
<1>1. backlog = << >>
  BY DEF Init
<1>2. \A t \in Threads : MutexIsHeld(t)
  BY DEF Init, MutexIsHeld
<1>3. \A a \in Apps : Single(a) /\ Owned(a)
  BY <1>1 DEF Single, Owned
<1>4. \A a \in Apps, e \in Events : Needed(a, e)
  BY DEF Init, Needed, Watched, Live
<1> QED BY <1>2, <1>3, <1>4 DEF NeedInv

-----------------------------------------------------------------------------
(* What a change of the backlog does to the parts of the invariant *)

\* The backlog stays.
LEMMA SameOwned ==
  ASSUME NEW a \in Apps, Owned(a), backlog' = backlog,
         failures \in Int, failures' \in Int, failures' >= failures,
         \A i \in DOMAIN backlog :
           Owner(a, backlog[i].client) =>
             \/ backlog[i].client \in ThreadsOf(a)
             \/ backlog[i].client = a /\ phase'[a] = "unsubscribing"
             \/ /\ backlog[i].client = ProcMan
                /\ kill'[a] = "unsubscribing" \/ phase'[a] = "removing",
         phase[a] \notin Alive => phase'[a] \notin Alive,
         phase[a] = "binding" =>
           \/ phase'[a] = "binding" \/ phase'[a] \notin Alive
           \/ \A i \in DOMAIN backlog : backlog[i].client # a
  PROVE  Owned(a)'
<1> SUFFICES ASSUME NEW i \in DOMAIN backlog, Touches(backlog[i].cmd, a)
             PROVE  Owner(a, backlog[i].client)' \/ Behind(a, i)'
  BY DEF Owned
<1>1. CASE Owner(a, backlog[i].client)
  BY <1>1 DEF Owner
<1>2. CASE Behind(a, i)
  BY <1>2 DEF Behind
<1> QED BY <1>1, <1>2 DEF Owned

LEMMA SameNeeded ==
  ASSUME NEW a \in Apps, NEW e \in Events, Needed(a, e),
         UNCHANGED <<backlog, routing_table>>,
         Watched(a, e)' => Watched(a, e),
         Watched(a, e)' /\ Wanted(a, e) => Wanted(a, e)'
  PROVE  Needed(a, e)'
<1>1. Routed(a, e)' <=> Routed(a, e)
  BY DEF Routed
<1>2. Dropped(a, e)' <=> Dropped(a, e)
  BY DEF Dropped
<1> QED BY <1>1, <1>2 DEF Needed

\* A request joins it.
LEMMA AskOwned ==
  ASSUME FlowType, NEW c \in Clients, NEW cmd \in Commands, Ask(c, cmd),
         NEW a \in Apps, Owned(a),
         failures \in Int, failures' \in Int, failures' >= failures,
         Touches(cmd, a) =>
           \/ c \in ThreadsOf(a)
           \/ c = a /\ phase'[a] = "unsubscribing"
           \/ c = ProcMan /\ (kill'[a] = "unsubscribing" \/ phase'[a] = "removing"),
         \A i \in DOMAIN backlog :
           Owner(a, backlog[i].client) =>
             \/ backlog[i].client \in ThreadsOf(a)
             \/ backlog[i].client = a /\ phase'[a] = "unsubscribing"
             \/ /\ backlog[i].client = ProcMan
                /\ kill'[a] = "unsubscribing" \/ phase'[a] = "removing",
         phase[a] \notin Alive =>
           phase'[a] \notin Alive \/ (phase'[a] = "binding" /\ c = a),
         phase[a] = "binding" => phase'[a] = "binding" \/ phase'[a] \notin Alive
  PROVE  Owned(a)'
<1> DEFINE n == Len(backlog) + 1
<1>1. /\ DOMAIN backlog' = DOMAIN backlog \cup {n} /\ n \notin DOMAIN backlog
      /\ \A i \in DOMAIN backlog : backlog'[i] = backlog[i]
      /\ \A i \in DOMAIN backlog : i < n
      /\ backlog'[n] = [client |-> c, cmd |-> cmd]
  BY AskAdds
<1> HIDE DEF n
<1>2. backlog'[n].client = c /\ backlog'[n].cmd = cmd /\ n \in DOMAIN backlog'
  BY <1>1
<1>3. ASSUME NEW i \in DOMAIN backlog', Touches(backlog'[i].cmd, a)
      PROVE  (Owner(a, backlog[i].client) \/ Behind(a, i))'
  <2>1. CASE i = n
    BY <1>2, <1>3, <2>1 DEF Owner, ThreadsOf
  <2>2. CASE i \in DOMAIN backlog
    <3>1. backlog'[i] = backlog[i] /\ Touches(backlog[i].cmd, a) /\ i < n
      BY <1>1, <1>3, <2>2
    <3>2. CASE Owner(a, backlog[i].client)
      BY <2>2, <3>1, <3>2 DEF Owner, ThreadsOf
    <3>3. CASE Behind(a, i)
      <4>1. backlog'[i].client = Nobody
        BY <3>1, <3>3 DEF Behind
      <4>2. \/ failures' > 0 \/ phase'[a] \notin Alive
            \/ /\ phase'[a] = "binding"
               /\ \E j \in DOMAIN backlog' : j > i /\ backlog'[j].client = a
        <5>1. CASE failures > 0 \/ phase[a] \notin Alive
          <6>1. n > i
            BY <2>2, <3>1, <1>1 DEF FlowType, n
          <6> QED BY <1>2, <5>1, <6>1
        <5>2. CASE /\ phase[a] = "binding"
                   /\ \E j \in DOMAIN backlog : j > i /\ backlog[j].client = a
          BY <1>1, <5>2
        <5> QED BY <3>3, <5>1, <5>2 DEF Behind
      <4> QED BY <4>1, <4>2 DEF Behind
    <3> QED BY <2>2, <3>1, <3>2, <3>3 DEF Owned
  <2> QED BY <1>1, <1>3, <2>1, <2>2
<1> QED BY <1>3 DEF Owned

LEMMA AskNeeded ==
  ASSUME FlowType, NEW c \in Clients, NEW cmd \in Commands, Ask(c, cmd),
         UNCHANGED routing_table,
         NEW a \in Apps, NEW e \in Events, Needed(a, e),
         Watched(a, e)' => Watched(a, e),
         Gives(cmd, a, e) => Wanted(a, e)',
         Wanted(a, e) => Wanted(a, e)' \/ Takes(cmd, a, e)
  PROVE  Needed(a, e)'
<1> DEFINE n == Len(backlog) + 1
<1>1. /\ DOMAIN backlog' = DOMAIN backlog \cup {n} /\ n \notin DOMAIN backlog
      /\ \A i \in DOMAIN backlog : backlog'[i] = backlog[i]
      /\ \A i \in DOMAIN backlog : i < n
      /\ backlog'[n] = [client |-> c, cmd |-> cmd]
      /\ \A i \in DOMAIN backlog : i \in Int
  BY AskAdds
<1>2. n \in Int
  BY DEF FlowType
<1> HIDE DEF n
<1>3. backlog'[n].cmd = cmd /\ n \in DOMAIN backlog'
  BY <1>1
<1> SUFFICES ASSUME Watched(a, e)', Routed(a, e)', ~Wanted(a, e)'
             PROVE  Dropped(a, e)'
  BY DEF Needed
<1>4. ~Gives(cmd, a, e)
  OBVIOUS
<1>5. CASE Takes(cmd, a, e)
  <2>1. \A j \in DOMAIN backlog' : j >= n => j = n
    BY <1>1, <1>2
  <2> QED BY <1>3, <1>4, <1>5, <2>1 DEF Dropped
<1>6. CASE ~Takes(cmd, a, e)
  <2>1. Routed(a, e)
    BY <1>1, <1>3, <1>4 DEF Routed
  <2>2. Dropped(a, e)
    BY <1>6, <2>1 DEF Needed
  <2>3. PICK i \in DOMAIN backlog :
          /\ Takes(backlog[i].cmd, a, e)
          /\ \A j \in DOMAIN backlog : j >= i => ~Gives(backlog[j].cmd, a, e)
    BY <2>2 DEF Dropped
  <2>4. i \in DOMAIN backlog' /\ Takes(backlog'[i].cmd, a, e)
    BY <1>1, <2>3
  <2>5. \A j \in DOMAIN backlog' : j >= i => ~Gives(backlog'[j].cmd, a, e)
    BY <1>1, <1>3, <1>4, <2>3
  <2> QED BY <2>4, <2>5 DEF Dropped
<1> QED BY <1>5, <1>6

\* Clients hang up.
LEMMA HangUpOwned ==
  ASSUME FlowType, NEW gone, Hang_Up(gone), UNCHANGED routing_table,
         NEW a \in Apps, Owned(a),
         failures \in Int, failures' \in Int, failures' >= failures,
         \A i \in DOMAIN backlog :
           backlog[i].client \in gone /\ Owner(a, backlog[i].client) =>
             failures' > 0 \/ phase'[a] \notin Alive,
         \A i \in DOMAIN backlog :
           backlog[i].client \notin gone /\ Owner(a, backlog[i].client) =>
             \/ backlog[i].client \in ThreadsOf(a)
             \/ backlog[i].client = a /\ phase'[a] = "unsubscribing"
             \/ /\ backlog[i].client = ProcMan
                /\ kill'[a] = "unsubscribing" \/ phase'[a] = "removing",
         phase[a] \notin Alive => phase'[a] \notin Alive,
         phase[a] = "binding" =>
           \/ phase'[a] \notin Alive
           \/ /\ phase'[a] = "binding"
              /\ \A i \in DOMAIN backlog : backlog[i].client = a => a \notin gone
  PROVE  Owned(a)'
<1>1. /\ DOMAIN backlog' = DOMAIN backlog
      /\ \A i \in DOMAIN backlog :
           /\ backlog'[i].cmd = backlog[i].cmd
           /\ backlog[i].client \in gone => backlog'[i].client = Nobody
           /\ backlog[i].client \notin gone => backlog'[i].client = backlog[i].client
  BY HangUpFacts
<1> SUFFICES ASSUME NEW i \in DOMAIN backlog, Touches(backlog'[i].cmd, a)
             PROVE  (Owner(a, backlog[i].client) \/ Behind(a, i))'
  BY <1>1 DEF Owned
<1>2. Owner(a, backlog[i].client) \/ Behind(a, i)
  BY <1>1 DEF Owned, Touches
<1>3. CASE Owner(a, backlog[i].client) /\ backlog[i].client \in gone
  BY <1>1, <1>3 DEF Behind
<1>4. CASE Owner(a, backlog[i].client) /\ backlog[i].client \notin gone
  <2>1. backlog'[i].client = backlog[i].client
    BY <1>1, <1>4
  <2> QED BY <1>4, <2>1 DEF Owner, ThreadsOf
<1>5. CASE Behind(a, i)
  <2>1. backlog'[i].client = Nobody
    BY <1>1, <1>5 DEF Behind
  <2>2. CASE failures > 0 \/ phase[a] \notin Alive \/ phase'[a] \notin Alive
    BY <2>1, <2>2 DEF Behind
  <2>3. CASE /\ phase[a] = "binding" /\ phase'[a] \in Alive
             /\ \E j \in DOMAIN backlog : j > i /\ backlog[j].client = a
    <3>1. PICK j \in DOMAIN backlog : j > i /\ backlog[j].client = a
      BY <2>3
    <3>2. backlog'[j].client = a /\ phase'[a] = "binding" /\ j \in DOMAIN backlog'
      BY <1>1, <2>3, <3>1
    <3> QED BY <2>1, <3>1, <3>2 DEF Behind
  <2> QED BY <1>5, <2>2, <2>3 DEF Behind
<1> QED BY <1>2, <1>3, <1>4, <1>5

LEMMA HangUpNeeded ==
  ASSUME FlowType, NEW gone, Hang_Up(gone), UNCHANGED routing_table,
         NEW a \in Apps, NEW e \in Events, Needed(a, e),
         Watched(a, e)' => Watched(a, e),
         Watched(a, e)' /\ Wanted(a, e) => Wanted(a, e)'
  PROVE  Needed(a, e)'
<1>1. /\ DOMAIN backlog' = DOMAIN backlog
      /\ \A i \in DOMAIN backlog : backlog'[i].cmd = backlog[i].cmd
  BY HangUpFacts
<1>2. \A i \in DOMAIN backlog :
        /\ Takes(backlog'[i].cmd, a, e) <=> Takes(backlog[i].cmd, a, e)
        /\ Gives(backlog'[i].cmd, a, e) <=> Gives(backlog[i].cmd, a, e)
  BY <1>1 DEF Takes, Gives
<1>3. Routed(a, e)' => Routed(a, e)
  BY <1>1, <1>2 DEF Routed
<1>4. Dropped(a, e) => Dropped(a, e)'
  BY <1>1, <1>2 DEF Dropped
<1> QED BY <1>3, <1>4 DEF Needed

LEMMA HangUpSingle ==
  ASSUME FlowType, NEW gone, Hang_Up(gone), UNCHANGED routing_table,
         NEW c \in Apps, Single(c)
  PROVE  Single(c)'
<1>1. /\ DOMAIN backlog' = DOMAIN backlog
      /\ \A i \in DOMAIN backlog :
           /\ backlog[i].client \in gone => backlog'[i].client = Nobody
           /\ backlog[i].client \notin gone => backlog'[i].client = backlog[i].client
      /\ \A d \in Clients : reply'[d] = IF d \in gone THEN Pending ELSE reply[d]
  BY HangUpFacts
<1>2. c \in Clients /\ c # Nobody
  BY Assumed
<1>3. \A i \in DOMAIN backlog : backlog'[i].client = c => backlog[i].client = c
  BY <1>1, <1>2
<1>4. reply'[c] = Pending \/ reply'[c] = reply[c]
  BY <1>1, <1>2
<1> QED BY <1>1, <1>3, <1>4 DEF Single

\* The name server takes the first request.
LEMMA HandleClears ==
  ASSUME NEW cmd, Handle(cmd), NEW a, NEW e \in Events, a \in routing_table'[e]
  PROVE  Gives(cmd, a, e) \/ (a \in routing_table[e] /\ ~Takes(cmd, a, e))
<1>1. CASE UNCHANGED tables /\ (Fails(cmd) \/ cmd.command \in Queries)
  BY <1>1 DEF tables, Fails, Queries, Takes
<1>2. CASE Change(cmd)
  <2>1. CASE UNCHANGED routing_table /\ cmd.command = "BIND_CHANNEL"
    BY <2>1 DEF Takes
  <2>2. CASE UNCHANGED routing_table /\ cmd.command = "UNBIND_CHANNEL"
    BY <2>2 DEF Takes
  <2>3. CASE UNCHANGED routing_table /\ cmd.command = "UNBIND_APP"
    BY <2>3 DEF Takes
  <2>4. CASE /\ cmd.command \in {"SUBSCRIBE", "UNSUBSCRIBE"}
             /\ Update_Events(cmd.app_id, cmd.event_ids, cmd.command = "SUBSCRIBE")
    <3>1. CASE cmd.command = "SUBSCRIBE"
      BY <2>4, <3>1 DEF Update_Events, Gives, Takes
    <3>2. CASE cmd.command = "UNSUBSCRIBE"
      BY <2>4, <3>2 DEF Update_Events, Gives, Takes
    <3> QED BY <2>4, <3>1, <3>2
  <2>5. CASE cmd.command = "UNSUBSCRIBE_APP" /\ Unsubscribe_App(cmd.app_id)
    BY <2>5 DEF Unsubscribe_App, Gives, Takes
  <2> QED BY <1>2, <2>1, <2>2, <2>3, <2>4, <2>5 DEF Change
<1> QED BY <1>1, <1>2 DEF Handle

LEMMA TailFacts ==
  ASSUME FlowType, backlog # << >>, backlog' = Tail(backlog)
  PROVE  /\ 1 \in DOMAIN backlog /\ backlog[1] = Head(backlog)
         /\ \A i \in DOMAIN backlog : i \in Int /\ i >= 1
         /\ \A i \in DOMAIN backlog' : i \in Int /\ i >= 1
         /\ \A i \in DOMAIN backlog' :
              i + 1 \in DOMAIN backlog /\ backlog'[i] = backlog[i + 1]
         /\ \A i \in DOMAIN backlog : i # 1 =>
              i - 1 \in DOMAIN backlog' /\ backlog'[i - 1] = backlog[i]
BY DEF FlowType

LEMMA ServeNeed ==
  ASSUME RouteInv, NeedInv, ServeNext
  PROVE  NeedInv'
<1> DEFINE head == Head(backlog)
<1>1. /\ FlowType /\ backlog # << >> /\ Handle(head.cmd)
      /\ backlog' = Tail(backlog)
      /\ reply' = IF head.client = Nobody THEN reply
                  ELSE [reply EXCEPT ![head.client] =
                         [status |-> ~Fails(head.cmd), data |-> Answer(head.cmd)]]
      /\ UNCHANGED <<phase, kill, property_mutex, subscribed, call, failures, residue>>
  BY DEF RouteInv, ServeNext, Serve, lives, history
<1>2. /\ 1 \in DOMAIN backlog /\ backlog[1] = head
      /\ \A i \in DOMAIN backlog : i \in Int /\ i >= 1
      /\ \A i \in DOMAIN backlog' : i \in Int /\ i >= 1
      /\ \A i \in DOMAIN backlog' :
           i + 1 \in DOMAIN backlog /\ backlog'[i] = backlog[i + 1]
      /\ \A i \in DOMAIN backlog : i # 1 =>
           i - 1 \in DOMAIN backlog' /\ backlog'[i - 1] = backlog[i]
  BY <1>1, TailFacts
<1> HIDE DEF head
<1>3. \A c \in Clients : c # head.client => reply'[c] = reply[c]
  <2>1. CASE head.client = Nobody
    BY <1>1, <2>1
  <2>2. CASE head.client # Nobody
    <3> DEFINE r == [status |-> ~Fails(head.cmd), data |-> Answer(head.cmd)]
    <3>1. reply' = [reply EXCEPT ![head.client] = r]
      BY <1>1, <2>2
    <3> HIDE DEF r
    <3> QED BY <1>1, <3>1 DEF FlowType
  <2> QED BY <2>1, <2>2
<1>4. ASSUME NEW t \in Threads PROVE MutexIsHeld(t)'
  BY <1>1 DEF NeedInv, MutexIsHeld
<1>5. ASSUME NEW a \in Apps PROVE Single(a)'
  <2>1. Single(a) /\ a \in Clients
    BY Assumed DEF NeedInv
  <2>2. ASSUME NEW i \in DOMAIN backlog', backlog'[i].client = a
        PROVE  /\ i + 1 \in DOMAIN backlog /\ backlog[i + 1].client = a
               /\ i + 1 # 1 /\ i \in Int
    BY <1>2, <2>2
  <2>3. ASSUME NEW i \in DOMAIN backlog', backlog'[i].client = a
        PROVE  reply'[a] = Pending
    <3>1. head.client # a
      BY <1>2, <2>1, <2>2, <2>3 DEF Single
    <3> QED BY <1>3, <2>1, <2>2, <2>3, <3>1 DEF Single
  <2>4. ASSUME NEW i \in DOMAIN backlog', NEW j \in DOMAIN backlog',
               backlog'[i].client = a, backlog'[j].client = a
        PROVE  i = j
    <3>1. i + 1 = j + 1
      BY <2>1, <2>2, <2>4 DEF Single
    <3> QED BY <1>2, <3>1
  <2> QED BY <2>3, <2>4 DEF Single
<1>6. ASSUME NEW a \in Apps PROVE Owned(a)'
  <2> SUFFICES ASSUME NEW i \in DOMAIN backlog', Touches(backlog'[i].cmd, a)
               PROVE  (Owner(a, backlog[i].client) \/ Behind(a, i))'
    BY DEF Owned
  <2>1. i \in Int /\ i + 1 \in DOMAIN backlog /\ backlog'[i] = backlog[i + 1]
    BY <1>2
  <2>2. Owner(a, backlog[i + 1].client) \/ Behind(a, i + 1)
    BY <2>1 DEF NeedInv, Owned
  <2>3. CASE Owner(a, backlog[i + 1].client)
    BY <1>1, <2>1, <2>3 DEF Owner, ThreadsOf
  <2>4. CASE Behind(a, i + 1)
    <3>1. backlog'[i].client = Nobody
      BY <2>1, <2>4 DEF Behind
    <3>2. ASSUME NEW j \in DOMAIN backlog, j > i + 1, backlog[j].client = a
          PROVE  \E k \in DOMAIN backlog' : k > i /\ backlog'[k].client = a
      <4>1. j # 1 /\ j - 1 > i
        BY <1>2, <2>1, <3>2
      <4> QED BY <1>2, <3>2, <4>1
    <3> QED BY <1>1, <2>4, <3>1, <3>2 DEF Behind
  <2> QED BY <2>2, <2>3, <2>4
<1>7. ASSUME NEW a \in Apps, NEW e \in Events PROVE Needed(a, e)'
  <2>1. Needed(a, e)
    BY DEF NeedInv
  <2>2. Watched(a, e)' <=> Watched(a, e)
    BY <1>1 DEF Watched, Live
  <2>3. Wanted(a, e)' <=> Wanted(a, e)
    BY <1>1 DEF Wanted, ThreadsOf
  <2>4. ASSUME Routed(a, e)' PROVE Routed(a, e)
    <3>1. CASE a \in routing_table'[e]
      BY <1>1, <1>2, <3>1, HandleClears DEF Routed
    <3>2. CASE \E i \in DOMAIN backlog' : Gives(backlog'[i].cmd, a, e)
      BY <1>2, <3>2 DEF Routed
    <3> QED BY <2>4, <3>1, <3>2 DEF Routed
  <2>5. ASSUME Routed(a, e)', Dropped(a, e) PROVE Dropped(a, e)'
    <3>1. PICK i \in DOMAIN backlog :
            /\ Takes(backlog[i].cmd, a, e)
            /\ \A j \in DOMAIN backlog : j >= i => ~Gives(backlog[j].cmd, a, e)
      BY <2>5 DEF Dropped
    <3>2. CASE i = 1
      <4>1. \A j \in DOMAIN backlog : ~Gives(backlog[j].cmd, a, e)
        BY <1>2, <3>1, <3>2
      <4>2. a \notin routing_table'[e]
        BY <1>1, <1>2, <3>1, <3>2, <4>1, HandleClears
      <4>3. \A j \in DOMAIN backlog' : ~Gives(backlog'[j].cmd, a, e)
        BY <1>2, <4>1
      <4> QED BY <2>5, <4>2, <4>3 DEF Routed
    <3>3. CASE i # 1
      <4>1. i - 1 \in DOMAIN backlog' /\ Takes(backlog'[i - 1].cmd, a, e)
        BY <1>2, <3>1, <3>3
      <4>2. ASSUME NEW j \in DOMAIN backlog', j >= i - 1
            PROVE  ~Gives(backlog'[j].cmd, a, e)
        <5>1. j + 1 \in DOMAIN backlog /\ j + 1 >= i /\ backlog'[j] = backlog[j + 1]
          BY <1>2, <4>2
        <5> QED BY <3>1, <5>1
      <4> QED BY <4>1, <4>2 DEF Dropped
    <3> QED BY <3>2, <3>3
  <2> QED BY <2>1, <2>2, <2>3, <2>4, <2>5 DEF Needed
<1> QED BY <1>4, <1>5, <1>6, <1>7 DEF NeedInv

-----------------------------------------------------------------------------
(* The main threads and the process manager *)

LEMMA MainAskNeed ==
  ASSUME RouteInv, RestType, NeedInv,
         NEW c \in Apps, NEW cmd \in Commands, Ask(c, cmd),
         (reply' = reply /\ ~Asking(c)) \/ Answered(c),
         UNCHANGED <<routing_table, subscribed, call, failures, residue,
                     property_mutex>>,
         \A a \in Apps : Live(a)' => Live(a),
         \A a, e : ~Gives(cmd, a, e),
         \A a \in Apps : Touches(cmd, a) =>
           \/ c = a /\ phase'[a] = "unsubscribing"
           \/ c = ProcMan /\ (kill'[a] = "unsubscribing" \/ phase'[a] = "removing"),
         \A a \in Apps : phase[a] = "unsubscribing" /\ c # a =>
           phase'[a] = "unsubscribing",
         \A a \in Apps : c # ProcMan =>
           /\ kill[a] = "unsubscribing" => kill'[a] = "unsubscribing"
           /\ phase[a] = "removing" => phase'[a] = "removing",
         \A a \in Apps : phase[a] \notin Alive =>
           phase'[a] \notin Alive \/ (phase'[a] = "binding" /\ c = a),
         \A a \in Apps : phase[a] = "binding" => phase'[a] = "binding"
  PROVE  NeedInv'
<1> DEFINE n == Len(backlog) + 1
<1>1. FlowType /\ c \in Clients /\ c # Nobody /\ c \notin Threads
  BY Assumed DEF RouteInv
<1>2. \A i \in DOMAIN backlog : backlog[i].client # c
  BY DEF Asking, Answered, NeedInv, Single
<1>3. /\ DOMAIN backlog' = DOMAIN backlog \cup {n} /\ n \notin DOMAIN backlog
      /\ \A i \in DOMAIN backlog : backlog'[i] = backlog[i]
      /\ backlog'[n] = [client |-> c, cmd |-> cmd]
  BY <1>1, AskAdds
<1> HIDE DEF n
<1>4. backlog'[n].client = c
  BY <1>3
<1>5. failures \in Int /\ failures' \in Int /\ failures' >= failures
  BY DEF RestType
<1>6. ASSUME NEW t \in Threads PROVE MutexIsHeld(t)'
  BY DEF NeedInv, MutexIsHeld
<1>7. ASSUME NEW a \in Apps PROVE Single(a)'
  <2>1. Single(a) /\ a \in Clients
    BY Assumed DEF NeedInv
  <2>2. CASE a = c
    <3>1. \A i \in DOMAIN backlog' : backlog'[i].client = a => i = n
      BY <1>2, <1>3, <2>2
    <3>2. reply'[a] = Pending
      BY <1>1, <2>1, <2>2 DEF Asking, Answered, FlowType
    <3> QED BY <3>1, <3>2 DEF Single
  <2>3. CASE a # c
    <3>1. \A i \in DOMAIN backlog' : backlog'[i].client = a =>
            i \in DOMAIN backlog /\ backlog[i].client = a
      BY <1>3, <1>4, <2>3
    <3>2. reply'[a] = reply[a]
      BY <1>1, <2>1, <2>3 DEF Answered, FlowType
    <3> QED BY <2>1, <3>1, <3>2 DEF Single
  <2> QED BY <2>2, <2>3
<1>8. ASSUME NEW a \in Apps PROVE Owned(a)'
  <2>1. Owned(a)
    BY DEF NeedInv
  <2>2. ASSUME NEW i \in DOMAIN backlog, Owner(a, backlog[i].client)
        PROVE  \/ backlog[i].client \in ThreadsOf(a)
               \/ backlog[i].client = a /\ phase'[a] = "unsubscribing"
               \/ /\ backlog[i].client = ProcMan
                  /\ kill'[a] = "unsubscribing" \/ phase'[a] = "removing"
    BY <1>2, <2>2 DEF Owner
  <2> QED BY <1>1, <1>5, <2>1, <2>2, AskOwned
<1>9. ASSUME NEW a \in Apps, NEW e \in Events PROVE Needed(a, e)'
  <2>1. Needed(a, e)
    BY DEF NeedInv
  <2>2. Watched(a, e)' => Watched(a, e)
    BY DEF Watched
  <2>3. Wanted(a, e) => Wanted(a, e)'
    BY DEF Wanted, ThreadsOf
  <2> QED BY <1>1, <2>1, <2>2, <2>3, AskNeeded
<1> QED BY <1>6, <1>7, <1>8, <1>9 DEF NeedInv

\* An application that binds its channel runs, or the process manager is done.
LEMMA MainStepNeed ==
  ASSUME RouteInv, RestType, NeedInv, NEW a \in Apps \ {ProcMan},
         Started(a) \/ CleanedUp(a)
  PROVE  NeedInv'
<1>1. /\ FlowType /\ a \in Clients /\ ProcMan \in Apps
      /\ \A b \in Apps : b \in Clients
      /\ \A t \in Threads : t \notin Apps
  BY Assumed DEF RouteInv
<1>2. /\ UNCHANGED <<backlog, routing_table, subscribed, call, kill, failures,
                     property_mutex>>
      /\ \/ Started(a) /\ reply' = [reply EXCEPT ![a] = Pending] /\ reply[a] # Pending
         \/ CleanedUp(a) /\ reply' = [reply EXCEPT ![ProcMan] = Pending]
      /\ \A b \in Apps \ {a} : phase'[b] = phase[b]
      /\ \A b \in Apps \ {a} : residue'[b] = residue[b]
      /\ \/ /\ Started(a) /\ phase[a] = "binding"
            /\ phase'[a] = "running" \/ phase'[a] = "exited"
            /\ residue'[a] = {e \in Events : a \in routing_table[e]}
         \/ CleanedUp(a) /\ phase[a] = "closing" /\ phase'[a] = "removed"
  BY <1>1 DEF Started, CleanedUp, Answered, Advance, Quiet, Still, tables, history,
     RestType, FlowType
<1>3. failures \in Int /\ failures' \in Int /\ failures' >= failures
  BY <1>2 DEF RestType
<1>4. ASSUME NEW t \in Threads PROVE MutexIsHeld(t)'
  BY <1>2 DEF NeedInv, MutexIsHeld
<1>5. ASSUME NEW b \in Apps PROVE Single(b)'
  <2>1. reply'[b] = Pending \/ reply'[b] = reply[b]
    BY <1>1, <1>2 DEF FlowType
  <2> QED BY <1>2, <2>1 DEF NeedInv, Single
<1>6. Started(a) => \A i \in DOMAIN backlog : backlog[i].client # a
  BY DEF Started, Answered, NeedInv, Single
<1>7. ASSUME NEW b \in Apps PROVE Owned(b)'
  <2>1. Owned(b)
    BY DEF NeedInv
  <2>2. \A i \in DOMAIN backlog :
          Owner(b, backlog[i].client) =>
            \/ backlog[i].client \in ThreadsOf(b)
            \/ backlog[i].client = b /\ phase'[b] = "unsubscribing"
            \/ /\ backlog[i].client = ProcMan
               /\ kill'[b] = "unsubscribing" \/ phase'[b] = "removing"
    BY <1>2 DEF Owner
  <2>3. phase[b] \notin Alive => phase'[b] \notin Alive
    BY <1>2 DEF Alive
  <2>4. phase[b] = "binding" =>
          \/ phase'[b] = "binding"
          \/ \A i \in DOMAIN backlog : backlog[i].client # b
    BY <1>2, <1>6
  <2> QED BY <1>2, <1>3, <2>1, <2>2, <2>3, <2>4, SameOwned
<1>8. ASSUME NEW b \in Apps, NEW e \in Events PROVE Needed(b, e)'
  <2>1. Needed(b, e) /\ Owned(a)
    BY DEF NeedInv
  <2>2. Wanted(b, e)' <=> Wanted(b, e)
    BY <1>2 DEF Wanted, ThreadsOf
  <2>3. CASE b # a
    <3>1. Watched(b, e)' <=> Watched(b, e)
      BY <1>2, <2>3 DEF Watched, Live
    <3> QED BY <1>2, <2>1, <2>2, <3>1, SameNeeded
  <2>4. CASE b = a
    <3> SUFFICES ASSUME Watched(a, e)' PROVE ~Routed(a, e)'
      BY <2>4 DEF Needed
    <3>1. /\ Started(a) /\ phase[a] = "binding" /\ kill[a] = "no" /\ failures = 0
          /\ a \notin routing_table[e]
      BY <1>2 DEF Watched, Live
    <3>2. \A t \in ThreadsOf(a) : call[t] = NoCall
      BY <3>1 DEF RouteInv, BitsCover, ThreadsOf, Working
    <3>3. \A i \in DOMAIN backlog : ~Gives(backlog[i].cmd, a, e)
      BY <1>6, <2>1, <3>1, <3>2, NoneOwned
    <3> QED BY <1>2, <3>1, <3>3 DEF Routed
  <2> QED BY <2>3, <2>4
<1> QED BY <1>4, <1>5, <1>7, <1>8 DEF NeedInv

LEMMA VanishNeed ==
  ASSUME RouteInv, RestType, NeedInv, NEW a \in Apps \ {ProcMan},
         NEW to, to \notin Alive, NEW callers \in {{a}, {a, ProcMan}},
         Vanish(a, to, callers),
         ProcMan \in callers =>
           \A i \in DOMAIN backlog : backlog[i].client # ProcMan,
         ProcMan \notin callers => kill[a] = "no" /\ phase[a] # "removing"
  PROVE  NeedInv'
<1> DEFINE gone == ThreadsOf(a) \cup callers
<1>1. /\ FlowType /\ ProcMan \in Apps /\ Nobody \notin Clients
      /\ \A t \in Threads : t \notin Apps /\ t \in Clients /\ t # Nobody
      /\ \A b \in Apps : b \in Clients
  BY Assumed DEF RouteInv
<1>2. /\ Hang_Up(gone)
      /\ UNCHANGED <<routing_table, failures, residue>>
      /\ \A b \in Apps : phase'[b] = IF b = a THEN to ELSE phase[b]
      /\ \A b \in Apps : kill'[b] = IF b = a THEN "no" ELSE kill[b]
      /\ \A b \in Apps : property_mutex'[b] = IF b = a THEN Nobody
                                              ELSE property_mutex[b]
      /\ \A t \in Threads : AppOf[t] # a =>
           subscribed'[t] = subscribed[t] /\ call'[t] = call[t]
      /\ \A t \in Threads : AppOf[t] = a => call'[t] = NoCall
  BY <1>1 DEF Vanish, tables, RestType
<1>3. failures \in Int /\ failures' \in Int /\ failures' >= failures
  BY <1>2 DEF RestType
<1>4. \A b \in Apps \ {a} :
        /\ ThreadsOf(b) \cap gone = {}
        /\ b \in gone => b = ProcMan /\ ProcMan \in callers
  BY <1>1 DEF ThreadsOf
<1> HIDE DEF gone
<1>5. ASSUME NEW t \in Threads PROVE MutexIsHeld(t)'
  <2>1. AppOf[t] \in Apps
    BY Assumed
  <2> QED BY <1>2, <2>1 DEF NeedInv, MutexIsHeld
<1>6. ASSUME NEW b \in Apps PROVE Single(b)'
  BY <1>1, <1>2, HangUpSingle DEF NeedInv
<1>7. ASSUME NEW b \in Apps PROVE Owned(b)'
  <2>1. Owned(b)
    BY DEF NeedInv
  <2>2. CASE b = a
    <3>1. phase'[b] \notin Alive
      BY <1>2, <2>2
    <3>2. ASSUME NEW i \in DOMAIN backlog, backlog[i].client \notin gone,
                 Owner(b, backlog[i].client)
          PROVE  FALSE
      <4>1. backlog[i].client = ProcMan /\ (kill[a] = "unsubscribing" \/ phase[a] = "removing")
        BY <2>2, <3>2 DEF Owner, gone
      <4> QED BY <4>1
    <3> QED BY <1>1, <1>2, <1>3, <2>1, <3>1, <3>2, HangUpOwned
  <2>3. CASE b # a
    <3>1. phase'[b] = phase[b] /\ kill'[b] = kill[b]
      BY <1>2, <2>3
    <3>2. \A i \in DOMAIN backlog :
            Owner(b, backlog[i].client) => backlog[i].client \notin gone
      <4> SUFFICES ASSUME NEW i \in DOMAIN backlog, Owner(b, backlog[i].client),
                          backlog[i].client \in gone
                   PROVE  FALSE
        OBVIOUS
      <4>1. backlog[i].client \in Apps
        BY <1>1, <1>4, <2>3 DEF Owner
      <4>2. backlog[i].client = ProcMan /\ ProcMan \in callers
        BY <1>1, <1>4, <2>3, <4>1 DEF Owner, gone, ThreadsOf
      <4> QED BY <4>2
    <3>3. \A i \in DOMAIN backlog :
            Owner(b, backlog[i].client) =>
              \/ backlog[i].client \in ThreadsOf(b)
              \/ backlog[i].client = b /\ phase'[b] = "unsubscribing"
              \/ /\ backlog[i].client = ProcMan
                 /\ kill'[b] = "unsubscribing" \/ phase'[b] = "removing"
      BY <3>1 DEF Owner
    <3>4. \A i \in DOMAIN backlog : backlog[i].client = b => b \notin gone
      BY <1>4, <2>3
    <3> QED BY <1>1, <1>2, <1>3, <2>1, <3>1, <3>2, <3>3, <3>4, HangUpOwned
  <2> QED BY <2>2, <2>3
<1>8. ASSUME NEW b \in Apps, NEW e \in Events PROVE Needed(b, e)'
  <2>1. Needed(b, e)
    BY DEF NeedInv
  <2>2. CASE b = a
    <3>1. ~Watched(b, e)'
      BY <1>2, <2>2 DEF Watched, Live, Alive
    <3> QED BY <3>1 DEF Needed
  <2>3. CASE b # a
    <3>1. Watched(b, e)' <=> Watched(b, e)
      BY <1>2, <2>3 DEF Watched, Live
    <3>2. Wanted(b, e) => Wanted(b, e)'
      BY <1>2, <2>3 DEF Wanted, ThreadsOf
    <3> QED BY <1>1, <1>2, <2>1, <3>1, <3>2, HangUpNeeded
  <2> QED BY <2>2, <2>3
<1> QED BY <1>5, <1>6, <1>7, <1>8 DEF NeedInv

LEMMA LifeNeed ==
  ASSUME RouteInv, RestType, NeedInv, NEW a \in Apps \ {ProcMan},
         \/ Start(a) \/ Started(a) \/ Leave(a) \/ LeaveUnbind(a) \/ Exit(a)
         \/ Crash(a) \/ CleanUp(a) \/ CleanUpUnbind(a) \/ CleanedUp(a)
         \/ Kill(a) \/ KillUnbind(a) \/ KillSignal(a)
  PROVE  NeedInv'
<1>1. /\ FlowType /\ ProcMan \in Apps /\ ProcMan # a
      /\ SAL_NS_Bind_Channel(a, RouterPort, ChannelOf[a]) \in Commands
      /\ SAL_NS_Unsubscribe_App(a) \in Commands
      /\ SAL_NS_Unbind_App(a) \in Commands
  BY Assumed, AreCommands DEF RouteInv
<1>2. /\ \A b, e : ~Gives(SAL_NS_Bind_Channel(a, RouterPort, ChannelOf[a]), b, e)
      /\ \A b : ~Touches(SAL_NS_Bind_Channel(a, RouterPort, ChannelOf[a]), b)
      /\ \A b, e : ~Gives(SAL_NS_Unbind_App(a), b, e)
      /\ \A b : ~Touches(SAL_NS_Unbind_App(a), b)
      /\ \A b, e : ~Gives(SAL_NS_Unsubscribe_App(a), b, e)
      /\ \A b : Touches(SAL_NS_Unsubscribe_App(a), b) => b = a
  BY DEF Gives, Touches, SAL_NS_Bind_Channel, SAL_NS_Unbind_App, SAL_NS_Unsubscribe_App
<1>3. CASE Start(a)
  <2>1. /\ Ask(a, SAL_NS_Bind_Channel(a, RouterPort, ChannelOf[a]))
        /\ reply' = reply /\ ~Asking(a)
        /\ UNCHANGED <<routing_table, subscribed, call, failures, residue,
                       property_mutex, kill>>
        /\ phase' = [phase EXCEPT ![a] = "binding"]
        /\ phase[a] # "unsubscribing" /\ phase[a] # "removing"
    BY <1>3 DEF Start, MainAsks, tables, history
  <2>2. \A b \in Apps : phase'[b] = IF b = a THEN "binding" ELSE phase[b]
    BY <1>1, <2>1, NewPhase
  <2> QED BY <1>1, <1>2, <2>1, <2>2, MainAskNeed DEF Live, Alive
<1>4. CASE Leave(a)
  <2>1. /\ Ask(a, SAL_NS_Unsubscribe_App(a)) /\ reply' = reply /\ ~Asking(a)
        /\ UNCHANGED <<routing_table, subscribed, call, failures, residue,
                       property_mutex, kill>>
        /\ phase' = [phase EXCEPT ![a] = "unsubscribing"] /\ phase[a] = "running"
    BY <1>4 DEF Leave, MainAsks, Advance, tables
  <2>2. \A b \in Apps : phase'[b] = IF b = a THEN "unsubscribing" ELSE phase[b]
    BY <1>1, <2>1, NewPhase
  <2> QED BY <1>1, <1>2, <2>1, <2>2, MainAskNeed DEF Live, Alive
<1>5. CASE LeaveUnbind(a)
  <2>1. /\ Ask(a, SAL_NS_Unbind_App(a)) /\ Answered(a)
        /\ UNCHANGED <<routing_table, subscribed, call, failures, residue,
                       property_mutex, kill>>
        /\ phase' = [phase EXCEPT ![a] = "unbinding"] /\ phase[a] = "unsubscribing"
    BY <1>5 DEF LeaveUnbind, Advance, Quiet, Still, tables, history
  <2>2. \A b \in Apps : phase'[b] = IF b = a THEN "unbinding" ELSE phase[b]
    BY <1>1, <2>1, NewPhase
  <2> QED BY <1>1, <1>2, <2>1, <2>2, MainAskNeed DEF Live, Alive
<1>6. CASE CleanUp(a)
  <2>1. /\ Ask(ProcMan, SAL_NS_Unsubscribe_App(a)) /\ reply' = reply /\ ~Asking(ProcMan)
        /\ UNCHANGED <<routing_table, subscribed, call, failures, residue,
                       property_mutex, kill>>
        /\ phase' = [phase EXCEPT ![a] = "removing"] /\ phase[a] = "crashed"
    BY <1>6 DEF CleanUp, MainAsks, Advance, Quiet, Still, tables, history
  <2>2. \A b \in Apps : phase'[b] = IF b = a THEN "removing" ELSE phase[b]
    BY <1>1, <2>1, NewPhase
  <2> QED BY <1>1, <1>2, <2>1, <2>2, MainAskNeed DEF Live, Alive
<1>7. CASE CleanUpUnbind(a)
  <2>1. /\ Ask(ProcMan, SAL_NS_Unbind_App(a))
        /\ Answered(ProcMan)
        /\ UNCHANGED <<routing_table, subscribed, call, failures, residue,
                       property_mutex, kill>>
        /\ phase' = [phase EXCEPT ![a] = "closing"] /\ phase[a] = "removing"
    BY <1>7 DEF CleanUpUnbind, Advance, Quiet, Still, tables, history
  <2>2. \A b \in Apps : phase'[b] = IF b = a THEN "closing" ELSE phase[b]
    BY <1>1, <2>1, NewPhase
  <2> QED BY <1>1, <1>2, <2>1, <2>2, MainAskNeed DEF Live, Alive
<1>8. CASE Kill(a)
  <2>1. /\ Ask(ProcMan, SAL_NS_Unsubscribe_App(a)) /\ reply' = reply /\ ~Asking(ProcMan)
        /\ UNCHANGED <<routing_table, subscribed, call, failures, residue,
                       property_mutex, phase>>
        /\ kill' = [kill EXCEPT ![a] = "unsubscribing"] /\ kill[a] = "no"
    BY <1>8 DEF Kill, MainAsks, Still, tables, history
  <2>2. \A b \in Apps : kill'[b] = IF b = a THEN "unsubscribing" ELSE kill[b]
    BY <1>1, <2>1, NewKill
  <2> QED BY <1>1, <1>2, <2>1, <2>2, MainAskNeed DEF Live
<1>9. CASE KillUnbind(a)
  <2>1. /\ Ask(ProcMan, SAL_NS_Unbind_App(a))
        /\ Answered(ProcMan)
        /\ UNCHANGED <<routing_table, subscribed, call, failures, residue,
                       property_mutex, phase>>
        /\ kill' = [kill EXCEPT ![a] = "unbinding"] /\ kill[a] = "unsubscribing"
    BY <1>9 DEF KillUnbind, Still, tables, history
  <2>2. \A b \in Apps : kill'[b] = IF b = a THEN "unbinding" ELSE kill[b]
    BY <1>1, <2>1, NewKill
  <2> QED BY <1>1, <1>2, <2>1, <2>2, MainAskNeed DEF Live
<1>10. CASE Exit(a) \/ Crash(a)
  <2>1. PICK to \in {"exited", "crashed"} : Vanish(a, to, {a})
    BY <1>10 DEF Exit, Crash
  <2>2. kill[a] = "no" /\ phase[a] # "removing" /\ to \notin Alive
    BY <1>10, <2>1 DEF Exit, Crash, Alive
  <2> QED BY <1>1, <2>1, <2>2, VanishNeed
<1>11. CASE KillSignal(a)
  <2>1. Vanish(a, "killed", {a, ProcMan}) /\ reply[ProcMan] # Pending
        /\ "killed" \notin Alive
    BY <1>11 DEF KillSignal, Alive
  <2>2. \A i \in DOMAIN backlog : backlog[i].client # ProcMan
    BY <1>1, <2>1 DEF NeedInv, Single
  <2> QED BY <1>1, <2>1, <2>2, VanishNeed
<1> QED BY <1>3, <1>4, <1>5, <1>6, <1>7, <1>8, <1>9, <1>10, <1>11, MainStepNeed

-----------------------------------------------------------------------------
(* The calls of a thread *)

LEMMA LocalNeed ==
  ASSUME RestType, NeedInv,
         UNCHANGED <<backlog, reply, phase, kill, routing_table, property_mutex,
                     call, residue>>,
         \/ failures' = failures + 1
         \/ /\ failures' = failures
            /\ \A a \in Apps, e \in Events : Wanted(a, e) => Wanted(a, e)'
  PROVE  NeedInv'
<1>1. failures \in Int /\ failures >= 0 /\ failures' \in Int /\ failures' >= failures
  BY DEF RestType
<1>2. \A t \in Threads : MutexIsHeld(t)'
  BY DEF NeedInv, MutexIsHeld
<1>3. \A a \in Apps : Single(a)'
  BY DEF NeedInv, Single
<1>4. ASSUME NEW a \in Apps PROVE Owned(a)'
  <2>1. Owned(a)
    BY DEF NeedInv
  <2>2. \A i \in DOMAIN backlog :
          Owner(a, backlog[i].client) =>
            \/ backlog[i].client \in ThreadsOf(a)
            \/ backlog[i].client = a /\ phase'[a] = "unsubscribing"
            \/ /\ backlog[i].client = ProcMan
               /\ kill'[a] = "unsubscribing" \/ phase'[a] = "removing"
    BY DEF Owner
  <2> QED BY <1>1, <2>1, <2>2, SameOwned
<1>5. ASSUME NEW a \in Apps, NEW e \in Events PROVE Needed(a, e)'
  <2>1. Needed(a, e)
    BY DEF NeedInv
  <2>2. /\ Watched(a, e)' => Watched(a, e)
        /\ Watched(a, e)' /\ Wanted(a, e) => Wanted(a, e)'
    BY <1>1 DEF Watched, Live
  <2> QED BY <2>1, <2>2, SameNeeded
<1> QED BY <1>2, <1>3, <1>4, <1>5 DEF NeedInv

LEMMA RequestNeed ==
  ASSUME RouteInv, RestType, NeedInv, NEW t \in Threads, NEW name, NEW ids,
         NEW cmd \in Commands, Callable(t), Request(t, name, ids, cmd),
         \A a : Touches(cmd, a) => a = AppOf[t],
         \A a \in Apps, e \in Events :
           /\ Gives(cmd, a, e) => Wanted(a, e)'
           /\ Wanted(a, e) => Wanted(a, e)' \/ Takes(cmd, a, e)
  PROVE  NeedInv'
<1> DEFINE n == Len(backlog) + 1
<1>1. /\ FlowType /\ t \in Clients /\ t # Nobody /\ t \notin Apps /\ t # ProcMan
      /\ AppOf[t] \in Apps /\ \A s \in Threads : AppOf[s] \in Apps /\ s # Nobody
  BY Assumed DEF RouteInv
<1>2. /\ Ask(t, cmd)
      /\ UNCHANGED <<routing_table, reply, phase, kill, failures, residue>>
      /\ property_mutex[AppOf[t]] = Nobody
      /\ \A a \in Apps : property_mutex'[a] = IF a = AppOf[t] THEN t
                                              ELSE property_mutex[a]
      /\ \A s \in Threads \ {t} : call'[s] = call[s]
  BY <1>1 DEF Request, Callable, tables, lives, RestType, FlowType
<1>3. /\ DOMAIN backlog' = DOMAIN backlog \cup {n} /\ n \notin DOMAIN backlog
      /\ \A i \in DOMAIN backlog : backlog'[i] = backlog[i]
      /\ backlog'[n] = [client |-> t, cmd |-> cmd]
  BY <1>1, <1>2, AskAdds
<1> HIDE DEF n
<1>4. backlog'[n].client = t
  BY <1>3
<1>5. failures \in Int /\ failures' \in Int /\ failures' >= failures
  BY <1>2 DEF RestType
<1>6. ASSUME NEW s \in Threads PROVE MutexIsHeld(s)'
  <2>1. MutexIsHeld(s)
    BY DEF NeedInv
  <2> QED BY <1>1, <1>2, <2>1 DEF MutexIsHeld
<1>7. ASSUME NEW a \in Apps PROVE Single(a)'
  <2>1. Single(a)
    BY DEF NeedInv
  <2>2. \A i \in DOMAIN backlog' : backlog'[i].client = a =>
          i \in DOMAIN backlog /\ backlog[i].client = a
    BY <1>1, <1>3, <1>4
  <2> QED BY <1>2, <2>1, <2>2 DEF Single
<1>8. ASSUME NEW a \in Apps PROVE Owned(a)'
  <2>1. Owned(a)
    BY DEF NeedInv
  <2>2. Touches(cmd, a) => t \in ThreadsOf(a)
    BY DEF ThreadsOf
  <2>3. \A i \in DOMAIN backlog :
          Owner(a, backlog[i].client) =>
            \/ backlog[i].client \in ThreadsOf(a)
            \/ backlog[i].client = a /\ phase'[a] = "unsubscribing"
            \/ /\ backlog[i].client = ProcMan
               /\ kill'[a] = "unsubscribing" \/ phase'[a] = "removing"
    BY <1>2 DEF Owner
  <2>4. /\ phase[a] \notin Alive => phase'[a] \notin Alive
        /\ phase[a] = "binding" => phase'[a] = "binding"
    BY <1>2
  <2> QED BY <1>1, <1>2, <1>5, <2>1, <2>2, <2>3, <2>4, AskOwned
<1>9. ASSUME NEW a \in Apps, NEW e \in Events PROVE Needed(a, e)'
  <2>1. Needed(a, e)
    BY DEF NeedInv
  <2>2. Watched(a, e)' => Watched(a, e)
    BY <1>2 DEF Watched, Live
  <2> QED BY <1>1, <1>2, <2>1, <2>2, AskNeeded
<1> QED BY <1>6, <1>7, <1>8, <1>9 DEF NeedInv

LEMMA SubscribeNeed ==
  ASSUME RouteInv, RestType, NeedInv, NEW t \in Threads,
         NEW ids \in (SUBSET (Events \cup OtherIds)) \ {{}},
         SAL_Subscribe(t, ids) \/ SubscribeFails(t, ids)
  PROVE  NeedInv'
<1>1. FlowType /\ AppOf[t] \in Apps
  BY Assumed DEF RouteInv
<1>2. subscribed' = [subscribed EXCEPT ![t] = @ \cup (ids \cap Events)]
  BY DEF SAL_Subscribe, SubscribeFails, Subscribe_Bits
<1>3. /\ \A s \in Threads : subscribed[s] \subseteq subscribed'[s]
      /\ ids \cap Events \subseteq subscribed'[t]
  BY <1>1, <1>2 DEF FlowType
<1>4. \A a, e : Wanted(a, e) => Wanted(a, e)'
  BY <1>3 DEF Wanted, ThreadsOf
<1>5. CASE SubscribeFails(t, ids)
  <2>1. /\ UNCHANGED <<backlog, reply, phase, kill, routing_table, property_mutex,
                       call, residue>>
        /\ failures' = failures + 1
    BY <1>5 DEF SubscribeFails, NoRequest, transport, lives, tables
  <2> QED BY <2>1, LocalNeed
<1>6. CASE SAL_Subscribe(t, ids)
  <2> DEFINE cmd == SAL_NS_Subscribe(AppOf[t], ids)
  <2>1. /\ cmd \in Commands
        /\ \A a : Touches(cmd, a) => a = AppOf[t]
        /\ \A a, e : Gives(cmd, a, e) => a = AppOf[t] /\ e \in ids
    BY <1>1, AreCommands DEF Touches, Gives, SAL_NS_Subscribe
  <2>2. Request(t, "subscribe", ids, cmd) /\ Callable(t)
    BY <1>6 DEF SAL_Subscribe
  <2> HIDE DEF cmd
  <2>3. \A a \in Apps, e \in Events : Gives(cmd, a, e) => Wanted(a, e)'
    BY <1>3, <2>1 DEF Wanted, ThreadsOf
  <2> QED BY <1>4, <2>1, <2>2, <2>3, RequestNeed
<1> QED BY <1>5, <1>6

LEMMA WithdrawNeed ==
  ASSUME RouteInv, RestType, NeedInv, NEW t \in Threads, NEW name,
         NEW ids \in SUBSET (Events \cup OtherIds), Withdraw(t, name, ids)
  PROVE  NeedInv'
<1>1. FlowType /\ AppOf[t] \in Apps
  BY Assumed DEF RouteInv
<1>2. /\ Callable(t)
      /\ subscribed' = [subscribed EXCEPT ![t] = @ \ ids]
  BY DEF Withdraw
<1>3. /\ \A s \in Threads \ {t} : subscribed'[s] = subscribed[s]
      /\ subscribed'[t] = subscribed[t] \ ids
      /\ subscribed[t] \subseteq Events
  BY <1>1, <1>2 DEF FlowType
<1> DEFINE unneeded == Unneeded(t, ids)
<1>4. \/ /\ unneeded # {}
         /\ Request(t, name, unneeded, SAL_NS_Unsubscribe(AppOf[t], unneeded))
      \/ NoRequest /\ unneeded = {} /\ failures' = failures
      \/ NoRequest /\ failures' = failures + 1
  BY DEF Withdraw
<1>5. /\ unneeded \subseteq Events
      /\ \A e \in ids \cap Events : e \notin unneeded =>
           \E s \in Threads \ {t} : AppOf[s] = AppOf[t] /\ e \in subscribed[s]
  BY DEF Unneeded, ThreadsOf
<1> HIDE DEF unneeded
<1>6. ASSUME NEW a \in Apps, NEW e \in Events, Wanted(a, e)
      PROVE  Wanted(a, e)' \/ (a = AppOf[t] /\ e \in unneeded)
  <2>1. PICK s \in Threads : AppOf[s] = a /\ e \in subscribed[s]
    BY <1>6 DEF Wanted, ThreadsOf
  <2>2. CASE s # t \/ e \notin ids
    BY <1>3, <2>1, <2>2 DEF Wanted, ThreadsOf
  <2>3. CASE s = t /\ e \in ids /\ e \notin unneeded
    <3>1. PICK r \in Threads \ {t} : AppOf[r] = a /\ e \in subscribed[r]
      BY <1>5, <2>1, <2>3
    <3> QED BY <1>3, <3>1 DEF Wanted, ThreadsOf
  <2> QED BY <2>1, <2>2, <2>3
<1>7. CASE NoRequest
  <2>1. UNCHANGED <<backlog, reply, phase, kill, routing_table, property_mutex,
                    call, residue>>
    BY <1>7 DEF NoRequest, transport, lives, tables
  <2>2. CASE failures' = failures + 1
    BY <2>1, <2>2, LocalNeed
  <2>3. CASE unneeded = {} /\ failures' = failures
    BY <1>6, <2>1, <2>3, LocalNeed
  <2>4. CASE unneeded # {} /\ Request(t, name, unneeded, SAL_NS_Unsubscribe(AppOf[t], unneeded))
    <3>1. property_mutex'[AppOf[t]] = t /\ property_mutex[AppOf[t]] = Nobody
      BY <1>1, <1>2, <2>4 DEF Request, Callable, RestType
    <3> QED BY <2>1, <3>1, Assumed
  <2> QED BY <1>4, <2>2, <2>3, <2>4
<1>8. CASE /\ unneeded # {}
           /\ Request(t, name, unneeded, SAL_NS_Unsubscribe(AppOf[t], unneeded))
  <2> DEFINE cmd == SAL_NS_Unsubscribe(AppOf[t], unneeded)
  <2>1. unneeded \in (SUBSET (Events \cup OtherIds)) \ {{}}
    BY <1>5, <1>8
  <2>2. /\ cmd \in Commands
        /\ \A a : Touches(cmd, a) => a = AppOf[t]
        /\ \A a, e : ~Gives(cmd, a, e)
        /\ \A e \in unneeded : Takes(cmd, AppOf[t], e)
    BY <1>1, <2>1, AreCommands DEF Touches, Takes, Gives, SAL_NS_Unsubscribe
  <2>3. Request(t, name, unneeded, cmd)
    BY <1>8
  <2> HIDE DEF cmd
  <2>4. \A a \in Apps, e \in Events :
          Wanted(a, e) => Wanted(a, e)' \/ Takes(cmd, a, e)
    BY <1>6, <2>2
  <2> QED BY <1>2, <2>2, <2>3, <2>4, RequestNeed
<1> QED BY <1>4, <1>7, <1>8

LEMMA ReturnNeed ==
  ASSUME RouteInv, RestType, NeedInv, NEW t \in Threads, Return(t) \/ ReplyLost(t)
  PROVE  NeedInv'
<1>1. /\ FlowType /\ t \in Clients /\ t # Nobody /\ t \notin Apps
      /\ AppOf[t] \in Apps /\ \A s \in Threads : AppOf[s] \in Apps /\ s # Nobody
      /\ \A a \in Apps : a \in Clients /\ ProcMan \in Apps
  BY Assumed DEF RouteInv
<1>2. /\ UNCHANGED <<routing_table, phase, kill, subscribed, residue>>
      /\ call[t] # NoCall /\ call'[t] = NoCall
      /\ \A s \in Threads \ {t} : call'[s] = call[s]
      /\ \A a \in Apps : property_mutex'[a] = IF a = AppOf[t] THEN Nobody
                                              ELSE property_mutex[a]
  BY <1>1 DEF Return, ReplyLost, Returned, tables, lives, RestType, FlowType
<1>3. ASSUME NEW s \in Threads PROVE MutexIsHeld(s)'
  <2>1. MutexIsHeld(s) /\ MutexIsHeld(t)
    BY DEF NeedInv
  <2> QED BY <1>1, <1>2, <2>1 DEF MutexIsHeld
<1>4. \A a \in Apps : Single(a) /\ Owned(a) /\ \A e \in Events : Needed(a, e)
  BY DEF NeedInv
<1>5. ASSUME NEW a \in Apps, NEW e \in Events
      PROVE  /\ Wanted(a, e) => Wanted(a, e)'
             /\ Watched(a, e)' /\ (failures' = failures) => Watched(a, e)
  BY <1>2 DEF Wanted, ThreadsOf, Watched, Live
<1>6. ASSUME NEW a \in Apps, NEW i \in DOMAIN backlog, Owner(a, backlog[i].client)
      PROVE  \/ backlog[i].client \in ThreadsOf(a)
             \/ backlog[i].client = a /\ phase'[a] = "unsubscribing"
             \/ /\ backlog[i].client = ProcMan
                /\ kill'[a] = "unsubscribing" \/ phase'[a] = "removing"
  BY <1>2, <1>6 DEF Owner
<1>7. \A a \in Apps : /\ phase[a] \notin Alive => phase'[a] \notin Alive
                      /\ phase[a] = "binding" => phase'[a] = "binding"
  BY <1>2
<1>8. CASE Return(t)
  <2>1. /\ UNCHANGED <<backlog, failures>>
        /\ \A a \in Apps : reply'[a] = reply[a]
    BY <1>1, <1>8 DEF Return, Answered, FlowType
  <2>2. failures \in Int /\ failures' \in Int /\ failures' >= failures
    BY <2>1 DEF RestType
  <2>3. \A a \in Apps : Single(a)'
    BY <1>4, <2>1 DEF Single
  <2>4. \A a \in Apps : Owned(a)'
    BY <1>4, <1>6, <1>7, <2>1, <2>2, SameOwned
  <2>5. \A a \in Apps, e \in Events : Needed(a, e)'
    BY <1>2, <1>4, <1>5, <2>1, SameNeeded
  <2> QED BY <1>3, <2>3, <2>4, <2>5 DEF NeedInv
<1>9. CASE ReplyLost(t)
  <2>1. Hang_Up({t}) /\ failures' = failures + 1
    BY <1>9 DEF ReplyLost
  <2>2. failures \in Int /\ failures' \in Int /\ failures' >= failures /\ failures' > 0
    BY <2>1 DEF RestType
  <2>3. \A a \in Apps : Single(a)'
    BY <1>1, <1>2, <1>4, <2>1, HangUpSingle
  <2>4. ASSUME NEW a \in Apps PROVE Owned(a)'
    <3>1. a \notin {t}
      BY <1>1
    <3> QED BY <1>1, <1>2, <1>4, <1>6, <1>7, <2>1, <2>2, <3>1, HangUpOwned
  <2>5. ASSUME NEW a \in Apps, NEW e \in Events PROVE Needed(a, e)'
    <3>1. ~Watched(a, e)'
      BY <2>2 DEF Watched
    <3> QED BY <3>1 DEF Needed
  <2> QED BY <1>3, <2>3, <2>4, <2>5 DEF NeedInv
<1> QED BY <1>8, <1>9

-----------------------------------------------------------------------------

LEMMA NextNeed == RouteInv /\ RestType /\ NeedInv /\ [Next]_vars => NeedInv'
<1> SUFFICES ASSUME RouteInv, RestType, NeedInv, [Next]_vars PROVE NeedInv'
  OBVIOUS
<1>1. CASE UNCHANGED vars
  <2>1. /\ UNCHANGED <<backlog, reply, phase, kill, routing_table, property_mutex,
                       call, residue, failures, subscribed>>
    BY <1>1 DEF vars, tables, transport, lives, history
  <2>2. \A a, e : Wanted(a, e) => Wanted(a, e)'
    BY <2>1 DEF Wanted, ThreadsOf
  <2> QED BY <2>1, <2>2, LocalNeed
<1>2. ASSUME NEW t \in Threads, NEW ids \in EventLists[t],
             SAL_Subscribe(t, ids) \/ SubscribeFails(t, ids) \/ SAL_Unsubscribe(t, ids)
      PROVE  NeedInv'
  <2>1. ids \in (SUBSET (Events \cup OtherIds)) \ {{}}
    BY SubscriptionsAssumption
  <2>2. CASE SAL_Unsubscribe(t, ids)
    <3>1. Withdraw(t, "unsubscribe", ids)
      BY <2>2 DEF SAL_Unsubscribe
    <3> QED BY <2>1, <3>1, WithdrawNeed
  <2> QED BY <1>2, <2>1, <2>2, SubscribeNeed
<1>3. ASSUME NEW t \in Threads,
             SAL_I_Unsubscribe_Thread_Events(t) \/ Return(t) \/ ReplyLost(t)
      PROVE  NeedInv'
  <2>1. CASE SAL_I_Unsubscribe_Thread_Events(t)
    <3>1. Withdraw(t, "end", subscribed[t])
      BY <2>1 DEF SAL_I_Unsubscribe_Thread_Events
    <3>2. subscribed[t] \in SUBSET (Events \cup OtherIds)
      BY DEF RouteInv, FlowType
    <3> QED BY <3>1, <3>2, WithdrawNeed
  <2> QED BY <1>3, <2>1, ReturnNeed
<1>4. ASSUME NEW a \in Apps \ {ProcMan},
             \/ Start(a) \/ Started(a) \/ Leave(a) \/ LeaveUnbind(a) \/ Exit(a)
             \/ Crash(a) \/ CleanUp(a) \/ CleanUpUnbind(a) \/ CleanedUp(a)
             \/ Kill(a) \/ KillUnbind(a) \/ KillSignal(a)
      PROVE  NeedInv'
  BY <1>4, LifeNeed
<1>5. CASE ServeNext
  BY <1>5, ServeNeed
<1> QED BY <1>1, <1>2, <1>3, <1>4, <1>5 DEF Next

-----------------------------------------------------------------------------
(* What a removed application leaves *)

\* A command that may bring an application into the tables.
Adds(cmd, a) == cmd.command \in {"BIND_CHANNEL", "SUBSCRIBE"} /\ cmd.app_id = a

NoneAdds(a) == \A i \in DOMAIN backlog : ~Adds(backlog[i].cmd, a)
Unrouted(a) == \A e \in Events : a \notin routing_table[e]
Closed(a) == \A i \in DOMAIN channels : channels[i].app_id # a

\* The process manager's request about the application is still to be served.
Asked(a, i, command) ==
  /\ backlog[i].client = ProcMan
  /\ backlog[i].cmd.command = command /\ backlog[i].cmd.app_id = a

\* While the process manager removes an application: what its dead threads still
\* ask for is served before the request that removes it, and nobody asks for
\* it anew.
RemovingInv(a) ==
  \/ \E i \in DOMAIN backlog :
       /\ Asked(a, i, "UNSUBSCRIBE_APP")
       /\ \A j \in DOMAIN backlog : Adds(backlog[j].cmd, a) => j < i
  \/ NoneAdds(a) /\ Unrouted(a)

ClosingInv(a) ==
  /\ NoneAdds(a) /\ Unrouted(a)
  /\ Closed(a) \/ \E i \in DOMAIN backlog : Asked(a, i, "UNBIND_APP")

RemovedInv(a) == NoneAdds(a) /\ Unrouted(a) /\ Closed(a)

CleanInv ==
  \A a \in Apps :
    /\ phase[a] = "removing" => RemovingInv(a)
    /\ phase[a] = "closing" => ClosingInv(a)
    /\ phase[a] = "removed" => RemovedInv(a)

LEMMA CleanImplies == CleanInv => RemovedLeavesNothing
BY DEF CleanInv, RemovedInv, Unrouted, Closed, RemovedLeavesNothing, LeftBehind

LEMMA InitClean == Init => CleanInv
BY DEF Init, CleanInv

\* No request of the process manager waits.
NoneAsked == \A i \in DOMAIN backlog : backlog[i].client # ProcMan

LEMMA AskClean ==
  ASSUME FlowType, CleanInv, NEW c \in Clients, NEW cmd \in Commands, Ask(c, cmd),
         UNCHANGED tables,
         \A a \in Apps : phase'[a] \in {"removing", "closing", "removed"} => ~Adds(cmd, a),
         \A a \in Apps : phase'[a] = "removing" =>
           \/ phase[a] = "removing"
           \/ c = ProcMan /\ cmd.command = "UNSUBSCRIBE_APP" /\ cmd.app_id = a,
         \A a \in Apps : phase'[a] = "closing" =>
           \/ phase[a] = "closing"
           \/ /\ phase[a] = "removing" /\ NoneAsked
              /\ c = ProcMan /\ cmd.command = "UNBIND_APP" /\ cmd.app_id = a,
         \A a \in Apps : phase'[a] = "removed" => phase[a] = "removed"
  PROVE  CleanInv'
<1> PICK n : n = Len(backlog) + 1
  OBVIOUS
<1>1. /\ DOMAIN backlog' = DOMAIN backlog \cup {n} /\ n \notin DOMAIN backlog
      /\ \A i \in DOMAIN backlog : backlog'[i] = backlog[i] /\ i < n
      /\ backlog'[n] = [client |-> c, cmd |-> cmd]
  BY AskAdds
<1>2. backlog'[n].client = c /\ backlog'[n].cmd = cmd
  BY <1>1
<1> SUFFICES ASSUME NEW a \in Apps
             PROVE  /\ phase'[a] = "removing" => RemovingInv(a)'
                    /\ phase'[a] = "closing" => ClosingInv(a)'
                    /\ phase'[a] = "removed" => RemovedInv(a)'
  BY DEF CleanInv
<1>3. (Unrouted(a) <=> Unrouted(a)') /\ (Closed(a) <=> Closed(a)')
  BY DEF tables, Unrouted, Closed
<1>4. ~Adds(cmd, a) /\ NoneAdds(a) => NoneAdds(a)'
  BY <1>1, <1>2 DEF NoneAdds
<1>5. CASE phase'[a] = "removing"
  <2>1. CASE phase[a] = "removing"
    <3>1. CASE NoneAdds(a) /\ Unrouted(a)
      BY <1>3, <1>4, <1>5, <3>1 DEF RemovingInv
    <3>2. ASSUME NEW i \in DOMAIN backlog, Asked(a, i, "UNSUBSCRIBE_APP"),
                 \A j \in DOMAIN backlog : Adds(backlog[j].cmd, a) => j < i
          PROVE  RemovingInv(a)'
      <4>1. i \in DOMAIN backlog' /\ Asked(a, i, "UNSUBSCRIBE_APP")'
        BY <1>1, <3>2 DEF Asked
      <4>2. \A j \in DOMAIN backlog' : Adds(backlog'[j].cmd, a) => j < i
        BY <1>1, <1>2, <1>5, <3>2
      <4> QED BY <4>1, <4>2 DEF RemovingInv
    <3> QED BY <1>5, <2>1, <3>1, <3>2 DEF CleanInv, RemovingInv
  <2>2. CASE c = ProcMan /\ cmd.command = "UNSUBSCRIBE_APP" /\ cmd.app_id = a
    <3>1. n \in DOMAIN backlog' /\ Asked(a, n, "UNSUBSCRIBE_APP")'
      BY <1>1, <1>2, <2>2 DEF Asked
    <3>2. \A j \in DOMAIN backlog' : Adds(backlog'[j].cmd, a) => j < n
      BY <1>1, <1>2, <1>5
    <3> QED BY <1>5, <3>1, <3>2 DEF RemovingInv
  <2> QED BY <1>5, <2>1, <2>2
<1>6. CASE phase'[a] = "closing"
  <2>1. CASE phase[a] = "closing"
    <3>1. ClosingInv(a)
      BY <2>1 DEF CleanInv
    <3>2. (\E i \in DOMAIN backlog : Asked(a, i, "UNBIND_APP")) =>
            \E i \in DOMAIN backlog' : Asked(a, i, "UNBIND_APP")'
      BY <1>1 DEF Asked
    <3> QED BY <1>3, <1>4, <1>6, <3>1, <3>2 DEF ClosingInv
  <2>2. CASE /\ phase[a] = "removing" /\ NoneAsked
             /\ c = ProcMan /\ cmd.command = "UNBIND_APP" /\ cmd.app_id = a
    <3>1. NoneAdds(a) /\ Unrouted(a)
      BY <2>2 DEF CleanInv, RemovingInv, NoneAsked, Asked
    <3>2. n \in DOMAIN backlog' /\ Asked(a, n, "UNBIND_APP")'
      BY <1>1, <1>2, <2>2 DEF Asked
    <3> QED BY <1>3, <1>4, <1>6, <3>1, <3>2 DEF ClosingInv
  <2> QED BY <1>6, <2>1, <2>2
<1>7. CASE phase'[a] = "removed"
  <2>1. RemovedInv(a)
    BY <1>7 DEF CleanInv
  <2> QED BY <1>3, <1>4, <1>7, <2>1 DEF RemovedInv
<1> QED BY <1>5, <1>6, <1>7

LEMMA HangUpClean ==
  ASSUME FlowType, CleanInv, NEW gone, Hang_Up(gone), UNCHANGED tables,
         ProcMan \in gone => NoneAsked,
         \A a \in Apps : phase'[a] \in {"removing", "closing", "removed"} =>
           phase'[a] = phase[a]
  PROVE  CleanInv'
<1>1. /\ DOMAIN backlog' = DOMAIN backlog
      /\ \A i \in DOMAIN backlog :
           /\ backlog'[i].cmd = backlog[i].cmd
           /\ backlog[i].client \notin gone => backlog'[i].client = backlog[i].client
  <2>1. UNCHANGED routing_table
    BY DEF tables
  <2> QED BY <2>1, HangUpFacts
<1> SUFFICES ASSUME NEW a \in Apps, phase'[a] = phase[a]
             PROVE  /\ phase'[a] = "removing" => RemovingInv(a)'
                    /\ phase'[a] = "closing" => ClosingInv(a)'
                    /\ phase'[a] = "removed" => RemovedInv(a)'
  BY DEF CleanInv
<1>2. (Unrouted(a) <=> Unrouted(a)') /\ (Closed(a) <=> Closed(a)')
  BY DEF tables, Unrouted, Closed
<1>3. NoneAdds(a) => NoneAdds(a)'
  BY <1>1 DEF NoneAdds
<1>4. ASSUME NEW i \in DOMAIN backlog, NEW command, Asked(a, i, command)
      PROVE  i \in DOMAIN backlog' /\ Asked(a, i, command)'
  <2>1. ProcMan \notin gone
    BY <1>4 DEF NoneAsked, Asked
  <2> QED BY <1>1, <1>4, <2>1 DEF Asked
<1>5. RemovingInv(a) => RemovingInv(a)'
  <2>1. ASSUME NEW i \in DOMAIN backlog, Asked(a, i, "UNSUBSCRIBE_APP"),
               \A j \in DOMAIN backlog : Adds(backlog[j].cmd, a) => j < i
        PROVE  RemovingInv(a)'
    BY <1>1, <1>4, <2>1 DEF RemovingInv
  <2> QED BY <1>2, <1>3, <2>1 DEF RemovingInv
<1>6. ClosingInv(a) => ClosingInv(a)'
  BY <1>2, <1>3, <1>4 DEF ClosingInv
<1>7. RemovedInv(a) => RemovedInv(a)'
  BY <1>2, <1>3 DEF RemovedInv
<1> QED BY <1>5, <1>6, <1>7 DEF CleanInv

LEMMA SameClean ==
  ASSUME CleanInv, UNCHANGED <<tables, backlog>>,
         \A a \in Apps : phase'[a] \in {"removing", "closing"} => phase'[a] = phase[a],
         \A a \in Apps : phase'[a] = "removed" =>
           phase[a] = "removed" \/ (phase[a] = "closing" /\ NoneAsked)
  PROVE  CleanInv'
<1> SUFFICES ASSUME NEW a \in Apps
             PROVE  /\ phase'[a] = "removing" => RemovingInv(a)'
                    /\ phase'[a] = "closing" => ClosingInv(a)'
                    /\ phase'[a] = "removed" => RemovedInv(a)'
  BY DEF CleanInv
<1>1. /\ Unrouted(a) <=> Unrouted(a)'
      /\ Closed(a) <=> Closed(a)'
      /\ NoneAdds(a) <=> NoneAdds(a)'
  BY DEF tables, Unrouted, Closed, NoneAdds
<1>2. RemovingInv(a) => RemovingInv(a)'
  BY <1>1 DEF RemovingInv, Asked
<1>3. ClosingInv(a) => ClosingInv(a)'
  BY <1>1 DEF ClosingInv, Asked
<1>4. RemovedInv(a) => RemovedInv(a)'
  BY <1>1 DEF RemovedInv
<1>5. ClosingInv(a) /\ NoneAsked => RemovedInv(a)
  BY DEF ClosingInv, RemovedInv, NoneAsked, Asked
<1> QED BY <1>2, <1>3, <1>4, <1>5 DEF CleanInv

\* What the server does for others leaves the application as it is.
LEMMA HandleGone ==
  ASSUME ServerInv, NEW cmd \in Commands, Handle(cmd), NEW a
  PROVE  /\ ~Adds(cmd, a) /\ Unrouted(a) => Unrouted(a)'
         /\ ~Adds(cmd, a) /\ Closed(a) => Closed(a)'
         /\ cmd.command = "UNSUBSCRIBE_APP" /\ cmd.app_id = a => Unrouted(a)'
         /\ cmd.command = "UNBIND_APP" /\ cmd.app_id = a => Closed(a)'
<1>1. Stays(cmd)
  BY HandleChannels
<1>2. \A e \in Events : a \in routing_table'[e] =>
        Gives(cmd, a, e) \/ (a \in routing_table[e] /\ ~Takes(cmd, a, e))
  BY HandleClears
<1>3. ASSUME ~Adds(cmd, a), Unrouted(a) PROVE Unrouted(a)'
  BY <1>2, <1>3 DEF Adds, Gives, Unrouted
<1>4. ASSUME ~Adds(cmd, a), Closed(a) PROVE Closed(a)'
  BY <1>1, <1>4 DEF Adds, Stays, Closed
<1>5. ASSUME cmd.command = "UNSUBSCRIBE_APP", cmd.app_id = a PROVE Unrouted(a)'
  BY <1>2, <1>5 DEF Gives, Takes, Unrouted
<1>6. ASSUME cmd.command = "UNBIND_APP", cmd.app_id = a PROVE Closed(a)'
  BY <1>1, <1>6 DEF Stays, Closed
<1> QED BY <1>3, <1>4, <1>5, <1>6

LEMMA ServeClean ==
  ASSUME FlowType, ServerInv, CleanInv, ServeNext
  PROVE  CleanInv'
<1> PICK head : head = Head(backlog)
  OBVIOUS
<1>1. /\ backlog # << >> /\ Handle(head.cmd) /\ backlog' = Tail(backlog) /\ phase' = phase
  BY DEF ServeNext, Serve, lives
<1>2. /\ 1 \in DOMAIN backlog /\ backlog[1] = head
      /\ \A i \in DOMAIN backlog : i \in Int /\ i >= 1
      /\ \A i \in DOMAIN backlog' : i \in Int /\ i >= 1
      /\ \A i \in DOMAIN backlog' :
           i + 1 \in DOMAIN backlog /\ backlog'[i] = backlog[i + 1]
      /\ \A i \in DOMAIN backlog : i # 1 =>
           i - 1 \in DOMAIN backlog' /\ backlog'[i - 1] = backlog[i]
  BY <1>1, TailFacts
<1>3. head.cmd \in Commands
  <2>1. backlog[1] \in Requests
    BY <1>2 DEF FlowType
  <2> QED BY <1>2, <2>1 DEF Requests
<1> SUFFICES ASSUME NEW a \in Apps
             PROVE  /\ phase[a] = "removing" => RemovingInv(a)'
                    /\ phase[a] = "closing" => ClosingInv(a)'
                    /\ phase[a] = "removed" => RemovedInv(a)'
  BY <1>1 DEF CleanInv
<1>4. /\ ~Adds(head.cmd, a) /\ Unrouted(a) => Unrouted(a)'
      /\ ~Adds(head.cmd, a) /\ Closed(a) => Closed(a)'
      /\ head.cmd.command = "UNSUBSCRIBE_APP" /\ head.cmd.app_id = a => Unrouted(a)'
      /\ head.cmd.command = "UNBIND_APP" /\ head.cmd.app_id = a => Closed(a)'
  BY <1>1, <1>3, HandleGone
<1>5. NoneAdds(a) => NoneAdds(a)' /\ ~Adds(head.cmd, a)
  BY <1>2 DEF NoneAdds
<1>6. ASSUME RemovingInv(a) PROVE RemovingInv(a)'
  <2>1. CASE NoneAdds(a) /\ Unrouted(a)
    BY <1>4, <1>5, <2>1 DEF RemovingInv
  <2>2. ASSUME NEW i \in DOMAIN backlog, Asked(a, i, "UNSUBSCRIBE_APP"),
               \A j \in DOMAIN backlog : Adds(backlog[j].cmd, a) => j < i
        PROVE  RemovingInv(a)'
    <3>1. CASE i = 1
      <4>1. NoneAdds(a)
        BY <1>2, <2>2, <3>1 DEF NoneAdds
      <4>2. Unrouted(a)'
        BY <1>2, <1>4, <2>2, <3>1 DEF Asked
      <4> QED BY <1>5, <4>1, <4>2 DEF RemovingInv
    <3>2. CASE i # 1
      <4>1. i - 1 \in DOMAIN backlog' /\ Asked(a, i - 1, "UNSUBSCRIBE_APP")'
        BY <1>2, <2>2, <3>2 DEF Asked
      <4>2. ASSUME NEW j \in DOMAIN backlog', Adds(backlog'[j].cmd, a) PROVE j < i - 1
        <5>1. j + 1 \in DOMAIN backlog /\ Adds(backlog[j + 1].cmd, a)
          BY <1>2, <4>2
        <5>2. j + 1 < i
          BY <2>2, <5>1
        <5> QED BY <1>2, <5>2
      <4> QED BY <4>1, <4>2 DEF RemovingInv
    <3> QED BY <3>1, <3>2
  <2> QED BY <1>6, <2>1, <2>2 DEF RemovingInv
<1>7. ASSUME ClosingInv(a) PROVE ClosingInv(a)'
  <2>1. NoneAdds(a)' /\ Unrouted(a)'
    BY <1>4, <1>5, <1>7 DEF ClosingInv
  <2>2. CASE Closed(a)
    BY <1>4, <1>5, <1>7, <2>1, <2>2 DEF ClosingInv
  <2>3. ASSUME NEW i \in DOMAIN backlog, Asked(a, i, "UNBIND_APP")
        PROVE  ClosingInv(a)'
    <3>1. CASE i = 1
      BY <1>2, <1>4, <2>1, <2>3, <3>1 DEF Asked, ClosingInv
    <3>2. CASE i # 1
      <4>1. i - 1 \in DOMAIN backlog' /\ Asked(a, i - 1, "UNBIND_APP")'
        BY <1>2, <2>3, <3>2 DEF Asked
      <4> QED BY <2>1, <4>1 DEF ClosingInv
    <3> QED BY <3>1, <3>2
  <2> QED BY <1>7, <2>2, <2>3 DEF ClosingInv
<1>8. ASSUME RemovedInv(a) PROVE RemovedInv(a)'
  BY <1>4, <1>5, <1>8 DEF RemovedInv
<1> QED BY <1>6, <1>7, <1>8 DEF CleanInv

LEMMA AnsweredNone ==
  ASSUME NeedInv, reply[ProcMan] # Pending
  PROVE  NoneAsked
BY Assumed DEF NeedInv, Single, NoneAsked

\* The requests of threads are about their own, running application.
LEMMA CallClean ==
  ASSUME RouteInv, RestType, CleanInv, NEW t \in Threads,
         NEW ids \in SUBSET (Events \cup OtherIds),
         \/ ids # {} /\ (SAL_Subscribe(t, ids) \/ SubscribeFails(t, ids))
         \/ \E name : Withdraw(t, name, ids)
  PROVE  CleanInv'
<1>1. FlowType /\ t \in Clients /\ AppOf[t] \in Apps
  BY Assumed DEF RouteInv
<1>2. Callable(t) /\ phase' = phase /\ UNCHANGED tables
  BY DEF SAL_Subscribe, SubscribeFails, Withdraw, Request, NoRequest, lives
<1>3. CASE UNCHANGED backlog
  BY <1>2, <1>3, SameClean
<1>4. ASSUME NEW cmd \in Commands, Ask(t, cmd), cmd.app_id = AppOf[t] PROVE CleanInv'
  <2>1. \A a \in Apps : phase'[a] \in {"removing", "closing", "removed"} => ~Adds(cmd, a)
    BY <1>2, <1>4 DEF Adds, Callable, Working, Alive
  <2> QED BY <1>1, <1>2, <1>4, <2>1, AskClean
<1>5. CASE ids # {} /\ SAL_Subscribe(t, ids)
  <2> PICK cmd : cmd = SAL_NS_Subscribe(AppOf[t], ids)
    OBVIOUS
  <2>1. cmd \in Commands /\ cmd.app_id = AppOf[t]
    BY <1>1, <1>5, AreCommands DEF SAL_NS_Subscribe
  <2>2. Ask(t, cmd)
    BY <1>5 DEF SAL_Subscribe, Request
  <2> QED BY <1>4, <2>1, <2>2
<1>6. CASE SubscribeFails(t, ids)
  BY <1>3, <1>6 DEF SubscribeFails, NoRequest, transport
<1>7. CASE \E name : Withdraw(t, name, ids)
  <2> PICK unneeded : unneeded = Unneeded(t, ids)
    OBVIOUS
  <2>1. UNCHANGED backlog \/
        (unneeded # {} /\ Ask(t, SAL_NS_Unsubscribe(AppOf[t], unneeded)))
    BY <1>7 DEF Withdraw, Request, NoRequest, transport
  <2>2. unneeded \in SUBSET (Events \cup OtherIds)
    BY DEF Unneeded
  <2> PICK cmd : cmd = SAL_NS_Unsubscribe(AppOf[t], unneeded)
    OBVIOUS
  <2>3. unneeded # {} => cmd \in Commands /\ cmd.app_id = AppOf[t]
    BY <1>1, <2>2, AreCommands DEF SAL_NS_Unsubscribe
  <2> QED BY <1>3, <1>4, <2>1, <2>3
<1> QED BY <1>5, <1>6, <1>7

LEMMA ReturnClean ==
  ASSUME RouteInv, RestType, CleanInv, NEW t \in Threads, Return(t) \/ ReplyLost(t)
  PROVE  CleanInv'
<1>1. phase' = phase /\ UNCHANGED tables /\ FlowType /\ t # ProcMan
  BY Assumed DEF RouteInv, Return, ReplyLost, Returned, lives
<1>2. CASE Return(t)
  <2>1. UNCHANGED backlog
    BY <1>2 DEF Return
  <2> QED BY <1>1, <2>1, SameClean
<1>3. CASE ReplyLost(t)
  <2>1. Hang_Up({t})
    BY <1>3 DEF ReplyLost
  <2> QED BY <1>1, <2>1, HangUpClean
<1> QED BY <1>2, <1>3

LEMMA LifeClean ==
  ASSUME RouteInv, RestType, NeedInv, CleanInv, NEW a \in Apps \ {ProcMan},
         \/ Start(a) \/ Started(a) \/ Leave(a) \/ LeaveUnbind(a) \/ Exit(a)
         \/ Crash(a) \/ CleanUp(a) \/ CleanUpUnbind(a) \/ CleanedUp(a)
         \/ Kill(a) \/ KillUnbind(a) \/ KillSignal(a)
  PROVE  CleanInv'
<1>1. /\ FlowType /\ a \in Clients /\ ProcMan \in Clients /\ a \in Apps
      /\ phase \in [Apps -> Phases]
  BY Assumed DEF RouteInv, RestType
<1>2. /\ SAL_NS_Bind_Channel(a, RouterPort, ChannelOf[a]) \in Commands
      /\ SAL_NS_Unsubscribe_App(a) \in Commands
      /\ SAL_NS_Unbind_App(a) \in Commands
  BY <1>1, AreCommands
<1>3. ASSUME NEW c \in Clients, NEW cmd \in Commands, Ask(c, cmd), UNCHANGED tables,
             NEW to, phase' = [phase EXCEPT ![a] = to],
             Adds(cmd, a) => to \notin {"removing", "closing", "removed"},
             \A b \in Apps : b # a => ~Adds(cmd, b),
             to = "removing" =>
               c = ProcMan /\ cmd.command = "UNSUBSCRIBE_APP" /\ cmd.app_id = a,
             to = "closing" =>
               /\ phase[a] = "removing" /\ NoneAsked
               /\ c = ProcMan /\ cmd.command = "UNBIND_APP" /\ cmd.app_id = a,
             to # "removed"
      PROVE  CleanInv'
  <2>1. phase'[a] = to /\ \A b \in Apps : b # a => phase'[b] = phase[b]
    BY <1>1, <1>3
  <2>2. \A b \in Apps : phase'[b] \in {"removing", "closing", "removed"} => ~Adds(cmd, b)
    BY <1>3, <2>1
  <2>3. \A b \in Apps : phase'[b] = "removing" =>
          \/ phase[b] = "removing"
          \/ c = ProcMan /\ cmd.command = "UNSUBSCRIBE_APP" /\ cmd.app_id = b
    BY <1>3, <2>1
  <2>4. \A b \in Apps : phase'[b] = "closing" =>
          \/ phase[b] = "closing"
          \/ /\ phase[b] = "removing" /\ NoneAsked
             /\ c = ProcMan /\ cmd.command = "UNBIND_APP" /\ cmd.app_id = b
    BY <1>3, <2>1
  <2>5. \A b \in Apps : phase'[b] = "removed" => phase[b] = "removed"
    BY <1>3, <2>1
  <2> QED BY <1>1, <1>3, <2>2, <2>3, <2>4, <2>5, AskClean
<1>4. CASE Start(a)
  <2> PICK cmd \in Commands : cmd = SAL_NS_Bind_Channel(a, RouterPort, ChannelOf[a])
    BY <1>2
  <2>1. \A b : Adds(cmd, b) => b = a
    BY DEF Adds, SAL_NS_Bind_Channel
  <2> QED BY <1>1, <1>3, <1>4, <2>1 DEF Start, MainAsks
<1>5. CASE Started(a)
  <2>1. UNCHANGED <<tables, backlog>>
    BY <1>5 DEF Started
  <2>2. \A b \in Apps : phase'[b] = phase[b] \/ phase'[b] \in {"running", "exited"}
    BY <1>1, <1>5 DEF Started, Advance
  <2>3. \A b \in Apps : phase'[b] \in {"removing", "closing", "removed"} => phase'[b] = phase[b]
    BY <2>2
  <2> QED BY <2>1, <2>3, SameClean
<1>6. CASE Leave(a)
  <2> PICK cmd \in Commands : cmd = SAL_NS_Unsubscribe_App(a)
    BY <1>2
  <2>1. \A b : ~Adds(cmd, b)
    BY DEF Adds, SAL_NS_Unsubscribe_App
  <2> QED BY <1>1, <1>3, <1>6, <2>1 DEF Leave, MainAsks, Advance
<1>7. CASE LeaveUnbind(a)
  <2> PICK cmd \in Commands : cmd = SAL_NS_Unbind_App(a)
    BY <1>2
  <2>1. \A b : ~Adds(cmd, b)
    BY DEF Adds, SAL_NS_Unbind_App
  <2> QED BY <1>1, <1>3, <1>7, <2>1 DEF LeaveUnbind, Quiet, Still, Advance
<1>8. ASSUME NEW to, NEW callers, Vanish(a, to, callers),
             to \in {"exited", "crashed", "killed"},
             callers = {a} \/ (callers = {a, ProcMan} /\ NoneAsked)
      PROVE  CleanInv'
  <2> PICK gone : gone = ThreadsOf(a) \cup callers
    OBVIOUS
  <2>1. Hang_Up(gone) /\ UNCHANGED tables
    BY <1>8 DEF Vanish
  <2>2. ProcMan \in gone => NoneAsked
    BY <1>8, Assumed DEF ThreadsOf
  <2>3. \A b \in Apps : phase'[b] \in {"removing", "closing", "removed"} => phase'[b] = phase[b]
    BY <1>1, <1>8 DEF Vanish
  <2> QED BY <1>1, <2>1, <2>2, <2>3, HangUpClean
<1>9. CASE Exit(a)
  BY <1>8, <1>9 DEF Exit
<1>10. CASE Crash(a)
  BY <1>8, <1>10 DEF Crash
<1>11. CASE CleanUp(a)
  <2> PICK cmd \in Commands : cmd = SAL_NS_Unsubscribe_App(a)
    BY <1>2
  <2>1. /\ \A b : ~Adds(cmd, b)
        /\ cmd.command = "UNSUBSCRIBE_APP" /\ cmd.app_id = a
    BY DEF Adds, SAL_NS_Unsubscribe_App
  <2> QED BY <1>1, <1>3, <1>11, <2>1 DEF CleanUp, MainAsks, Advance, Quiet, Still
<1>12. CASE CleanUpUnbind(a)
  <2> PICK cmd \in Commands : cmd = SAL_NS_Unbind_App(a)
    BY <1>2
  <2>1. /\ \A b : ~Adds(cmd, b)
        /\ cmd.command = "UNBIND_APP" /\ cmd.app_id = a
    BY DEF Adds, SAL_NS_Unbind_App
  <2>2. NoneAsked
    BY <1>12, AnsweredNone DEF CleanUpUnbind, Answered
  <2> QED BY <1>1, <1>3, <1>12, <2>1, <2>2 DEF CleanUpUnbind, Advance, Quiet, Still
<1>13. CASE CleanedUp(a)
  <2>1. NoneAsked /\ UNCHANGED <<tables, backlog>>
    BY <1>13, AnsweredNone DEF CleanedUp, Answered, Quiet, Still
  <2>2. /\ \A b \in Apps : phase'[b] \in {"removing", "closing"} => phase'[b] = phase[b]
        /\ \A b \in Apps : phase'[b] = "removed" => phase[b] = "removed" \/ phase[b] = "closing"
    BY <1>1, <1>13 DEF CleanedUp, Advance
  <2> QED BY <2>1, <2>2, SameClean
<1>14. ASSUME NEW cmd \in Commands, Ask(ProcMan, cmd), phase' = phase, UNCHANGED tables,
              \A b : ~Adds(cmd, b)
       PROVE  CleanInv'
  BY <1>1, <1>14, AskClean
<1>15. CASE Kill(a)
  <2> PICK cmd \in Commands : cmd = SAL_NS_Unsubscribe_App(a)
    BY <1>2
  <2>1. \A b : ~Adds(cmd, b)
    BY DEF Adds, SAL_NS_Unsubscribe_App
  <2> QED BY <1>14, <1>15, <2>1 DEF Kill, MainAsks, Still
<1>16. CASE KillUnbind(a)
  <2> PICK cmd \in Commands : cmd = SAL_NS_Unbind_App(a)
    BY <1>2
  <2>1. \A b : ~Adds(cmd, b)
    BY DEF Adds, SAL_NS_Unbind_App
  <2> QED BY <1>14, <1>16, <2>1 DEF KillUnbind, Still
<1>17. CASE KillSignal(a)
  <2>1. NoneAsked
    BY <1>17, AnsweredNone DEF KillSignal
  <2> QED BY <1>8, <1>17, <2>1 DEF KillSignal
<1> QED
  BY <1>4, <1>5, <1>6, <1>7, <1>9, <1>10, <1>11, <1>12, <1>13, <1>15, <1>16, <1>17

LEMMA NextServer == FlowType /\ ServerInv /\ [Next]_vars => ServerInv'
<1> SUFFICES ASSUME FlowType, ServerInv, [Next]_vars PROVE ServerInv'
  OBVIOUS
<1>1. CASE UNCHANGED tables
  BY <1>1 DEF tables, ServerInv, ServerTypeOK, PortsOnce
<1>2. CASE ServeNext
  <2>1. backlog # << >> /\ Handle(Head(backlog).cmd)
    BY <1>2 DEF ServeNext, Serve
  <2>2. Head(backlog) \in Requests
    BY <2>1 DEF FlowType
  <2>3. Head(backlog).cmd \in Commands
    BY <2>2 DEF Requests
  <2> QED BY <2>1, <2>3, HandleChannels
<1>3. CASE Next /\ ~ServeNext
  <2>1. UNCHANGED tables
    BY <1>3 DEF Next, SAL_Subscribe, SubscribeFails, SAL_Unsubscribe, Withdraw,
       SAL_I_Unsubscribe_Thread_Events, Request, NoRequest, Return, ReplyLost, Returned,
       Start, Started, Leave, LeaveUnbind, Exit, Crash, CleanUp, CleanUpUnbind,
       CleanedUp, Kill, KillUnbind, KillSignal, Vanish, Quiet, Still
  <2> QED BY <1>1, <2>1
<1> QED BY <1>1, <1>2, <1>3 DEF vars

LEMMA NextClean ==
  RouteInv /\ RestType /\ NeedInv /\ ServerInv /\ CleanInv /\ [Next]_vars => CleanInv'
<1> SUFFICES ASSUME RouteInv, RestType, NeedInv, ServerInv, CleanInv, [Next]_vars
             PROVE  CleanInv'
  OBVIOUS
<1>1. CASE UNCHANGED vars
  <2>1. UNCHANGED <<tables, backlog, phase>>
    BY <1>1 DEF vars, transport, lives
  <2> QED BY <2>1, SameClean
<1>2. ASSUME NEW t \in Threads, NEW ids \in EventLists[t],
             SAL_Subscribe(t, ids) \/ SubscribeFails(t, ids) \/ SAL_Unsubscribe(t, ids)
      PROVE  CleanInv'
  <2>1. ids \in SUBSET (Events \cup OtherIds) /\ ids # {}
    BY SubscriptionsAssumption
  <2> QED BY <1>2, <2>1, CallClean DEF SAL_Unsubscribe
<1>3. ASSUME NEW t \in Threads,
             SAL_I_Unsubscribe_Thread_Events(t) \/ Return(t) \/ ReplyLost(t)
      PROVE  CleanInv'
  <2>1. CASE SAL_I_Unsubscribe_Thread_Events(t)
    <3>1. Withdraw(t, "end", subscribed[t])
      BY <2>1 DEF SAL_I_Unsubscribe_Thread_Events
    <3>2. subscribed[t] \in SUBSET (Events \cup OtherIds)
      BY DEF RouteInv, FlowType
    <3> QED BY <3>1, <3>2, CallClean
  <2> QED BY <1>3, <2>1, ReturnClean
<1>4. ASSUME NEW a \in Apps \ {ProcMan},
             \/ Start(a) \/ Started(a) \/ Leave(a) \/ LeaveUnbind(a) \/ Exit(a)
             \/ Crash(a) \/ CleanUp(a) \/ CleanUpUnbind(a) \/ CleanedUp(a)
             \/ Kill(a) \/ KillUnbind(a) \/ KillSignal(a)
      PROVE  CleanInv'
  BY <1>4, LifeClean
<1>5. CASE ServeNext
  BY <1>5, ServeClean DEF RouteInv
<1> QED BY <1>1, <1>2, <1>3, <1>4, <1>5 DEF Next

LEMMA InitServer == Init => ServerInv
BY NameServerAssumption DEF Init, ServerInit, ServerInv, ServerTypeOK, PortsOnce

AllInv == RouteInv /\ RestType /\ NeedInv /\ ServerInv /\ CleanInv

LEMMA AllInvariant == Spec => []AllInv
<1>1. Init => AllInv
  BY InitRoute, InitRest, InitNeed, InitServer, InitClean DEF AllInv
<1>2. AllInv /\ [Next]_vars => AllInv'
  <2>1. RouteInv => FlowType
    BY DEF RouteInv
  <2> QED BY <2>1, NextRoute, NextRest, NextNeed, NextServer, NextClean DEF AllInv
<1> QED BY <1>1, <1>2, PTL DEF Spec

LEMMA TypeImplies == AllInv => TypeOK
<1> SUFFICES ASSUME AllInv PROVE TypeOK
  OBVIOUS
<1>1. /\ backlog \in Seq([client : Clients \cup {Nobody}, cmd : Commands])
      /\ DOMAIN reply = Clients
  BY DEF AllInv, RouteInv, FlowType, Requests
<1> QED BY <1>1 DEF AllInv, RouteInv, FlowType, RestType, Phases, Kills, ServerInv, TypeOK

\* The local tables of the applications, the routing table of the name server
\* and the requests on their way agree: what SAL_Subscribe granted is routed
\* until the thread takes it back, and while no call has failed and none is on
\* its way, a bit of a running application has a thread that wants the event,
\* whatever the processes that died before left in the backlog
\* (xsal_subscribe.c, xsal_unsubscribe.c, xsal_ns_thread.c).
THEOREM SubscriptionsCorrect == Spec => []SubscriptionsInv
<1>1. AllInv => SubscriptionsInv
  BY RouteImplies, NeedImplies, TypeImplies DEF AllInv, SubscriptionsInv
<1> QED BY <1>1, AllInvariant, PTL

\* An application that exited or crashed and that the process manager removed
\* has left nothing: no channel of it is bound, it is in no routing table and
\* no request that waits brings it back, although the requests of its dead
\* threads were served after its end (pm_main_thread.c, Process_App_Exit;
\* xsal_ns_thread.c; xsal_ns_proxy.c).
THEOREM RemovedIsGone == Spec => []RemovedLeavesNothing
<1>1. AllInv => RemovedLeavesNothing
  BY CleanImplies DEF AllInv
<1> QED BY <1>1, AllInvariant, PTL
=============================================================================
