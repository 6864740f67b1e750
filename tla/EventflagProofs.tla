-------------------------- MODULE EventflagProofs ---------------------------
(***************************************************************************)
(* The inductive invariant of the timer and the event flags, and what      *)
(* follows from it for every set of threads, every assignment of           *)
(* priorities and slices, and every program: the safety properties of      *)
(* MCTimer, and that the delta list implements independent deadlines.      *)
(*                                                                         *)
(* The first part is about the delta list alone: what chx_timer_insert,    *)
(* chx_timer_dequeue, chx_timer_expired and a tick of SysTick make of it,  *)
(* in terms of the time Left that each thread has.  An insertion gives one *)
(* thread its time, a removal takes it, and neither moves anybody else's;  *)
(* an expiry takes out exactly those who are due.                          *)
(***************************************************************************)
EXTENDS MCTimer, ListTheorems, FiniteSetTheorems

\* A timer list: every thread in it once, gaps and counter natural numbers.
IsTimer(T) ==
  /\ T = [q |-> T.q, v |-> T.v, tick |-> T.tick]
  /\ T.q \in Seq(Threads) /\ \A t \in Threads : Once(T.q, t)
  /\ T.v \in [Threads -> Nat] /\ T.tick \in Nat

\* g runs along the list T as the expiries do.
Sums(T, g, k) == /\ g \in [1..k -> Nat] /\ g[1] = T.tick
                  /\ \A i \in 1..(k-1) : g[i+1] = g[i] + T.v[T.q[i]]

\* The sums along a list exist, from the counter of SysTick to behind the last entry.
LEMMA SumsExist ==
  ASSUME NEW T, IsTimer(T), NEW n \in Nat, n = Len(T.q)
  PROVE  \E g : Sums(T, g, n + 1)
<1> DEFINE N == {k \in Nat \ {0} : k <= n + 1 /\ ~\E g : Sums(T, g, k)}
<1>1. SUFFICES N = {}
  <2>1. n + 1 \in Nat \ {0} /\ n + 1 <= n + 1
    OBVIOUS
  <2> QED BY <2>1
<1>2. SUFFICES ASSUME N # {} PROVE FALSE
  OBVIOUS
<1>3. PICK k \in N : \A m \in N : k <= m
  <2>1. N \in SUBSET Nat
    OBVIOUS
  <2> HIDE DEF N
  <2> QED BY <1>2, <2>1, LeastNat
<1>4. k \in Nat \ {0} /\ k <= n + 1 /\ ~\E g : Sums(T, g, k)
  OBVIOUS
<1>5. k # 1
  <2>1. Sums(T, [i \in 1..1 |-> T.tick], 1)
    BY DEF Sums, IsTimer
  <2> QED BY <1>4, <2>1
<1>6. PICK g : Sums(T, g, k - 1)
  <2>1. k - 1 \in Nat \ {0} /\ k - 1 <= n + 1 /\ k - 1 \notin N
    BY <1>3, <1>4, <1>5
  <2> QED BY <2>1
<1>7. DOMAIN T.q = 1..n /\ \A i \in 1..n : T.v[T.q[i]] \in Nat
  BY LenProperties, ElementOfSeq DEF IsTimer
<1> HIDE DEF N
<1> DEFINE h == [i \in 1..k |-> IF i = k THEN g[k-1] + T.v[T.q[k-1]] ELSE g[i]]
<1>8. Sums(T, h, k)
  <2>1. k - 1 \in 1..n
    BY <1>4, <1>5
  <2>2. h \in [1..k -> Nat]
    BY <1>4, <1>6, <1>7, <2>1, SMTT(60), ZenonT(60) DEF Sums
  <2>3. h[1] = T.tick
    BY <1>4, <1>5, <1>6 DEF Sums
  <2>4. ASSUME NEW i \in 1..(k-1) PROVE h[i+1] = h[i] + T.v[T.q[i]]
    <3>1. CASE i = k - 1
      BY <1>4, <2>1, <3>1
    <3>2. CASE i # k - 1
      <4>1. i \in 1..((k-1)-1) /\ i + 1 # k /\ i # k /\ i \in 1..k /\ i + 1 \in 1..k
        BY <1>4, <3>2
      <4> QED BY <1>6, <4>1 DEF Sums
    <3> QED BY <3>1, <3>2
  <2> QED BY <2>2, <2>3, <2>4 DEF Sums
<1> QED BY <1>4, <1>8

\* There is one such run of sums only.
LEMMA SumsUnique ==
  ASSUME NEW T, NEW n \in Nat, NEW g, Sums(T, g, n + 1),
         NEW e, e[1] = T.tick, \A i \in 1..n : e[i+1] = e[i] + T.v[T.q[i]]
  PROVE  \A i \in 1..(n+1) : e[i] = g[i]
<1> DEFINE N == {i \in 1..(n+1) : e[i] # g[i]}
<1>1. SUFFICES ASSUME N # {} PROVE FALSE
  OBVIOUS
<1>2. PICK k \in N : \A m \in N : k <= m
  <2>1. N \in SUBSET Nat
    OBVIOUS
  <2> HIDE DEF N
  <2> QED BY <1>1, <2>1, LeastNat
<1>3. k \in 1..(n+1) /\ e[k] # g[k]
  OBVIOUS
<1>4. k # 1
  BY <1>3 DEF Sums
<1>5. k - 1 \in 1..n /\ k - 1 \in 1..((n+1)-1) /\ (k - 1) + 1 = k /\ e[k-1] = g[k-1]
  <2>1. k - 1 \in 1..n /\ k - 1 \in 1..((n+1)-1) /\ (k - 1) + 1 = k /\ ~(k <= k - 1)
    BY <1>3, <1>4
  <2> QED BY <1>2, <2>1
<1>6. e[k] = e[k-1] + T.v[T.q[k-1]] /\ g[k] = g[k-1] + T.v[T.q[k-1]]
  BY <1>5 DEF Sums
<1> QED BY <1>3, <1>5, <1>6

\* The expiries are the running sums of the gaps, from the counter on; whatever runs along
\* the list as they do is equal to them.
LEMMA ExpirySums ==
  ASSUME NEW T, IsTimer(T), NEW n \in Nat, n = Len(T.q)
  PROVE  /\ Expiry(T, 1) = T.tick
         /\ \A i \in 1..n : Expiry(T, i + 1) = Expiry(T, i) + T.v[T.q[i]]
         /\ \A i \in 1..(n+1) : Expiry(T, i) \in Nat
<1> DEFINE P(g) == g = [i \in 1..(Len(T.q) + 1) |-> IF i = 1 THEN T.tick ELSE g[i-1] + T.v[T.q[i-1]]]
           e == CHOOSE g : P(g)
<1>1. ASSUME NEW i PROVE Expiry(T, i) = e[i]
  BY DEF Expiry
<1>2. PICK g : Sums(T, g, n + 1)
  BY SumsExist
<1>3. P(g)
  <2>1. ASSUME NEW i \in 1..(n+1), i # 1 PROVE g[i] = g[i-1] + T.v[T.q[i-1]]
    <3>1. i - 1 \in 1..((n+1)-1) /\ (i - 1) + 1 = i
      BY <2>1
    <3> QED BY <1>2, <3>1 DEF Sums
  <2> QED BY <1>2, <2>1 DEF Sums
<1>4. P(e)
  <2> HIDE DEF P
  <2> QED BY <1>3
<1> HIDE DEF e
<1>5. e[1] = T.tick /\ \A i \in 1..n : e[i+1] = e[i] + T.v[T.q[i]]
  <2>1. \A i \in 1..(n+1) : e[i] = IF i = 1 THEN T.tick ELSE e[i-1] + T.v[T.q[i-1]]
    BY <1>4
  <2>2. ASSUME NEW i \in 1..n PROVE e[i+1] = e[i] + T.v[T.q[i]]
    <3>1. i + 1 \in 1..(n+1) /\ i + 1 # 1 /\ (i + 1) - 1 = i
      OBVIOUS
    <3> QED BY <2>1, <3>1
  <2>3. 1 \in 1..(n+1)
    OBVIOUS
  <2> QED BY <2>1, <2>2, <2>3
<1>6. \A i \in 1..(n+1) : e[i] = g[i]
  BY <1>2, <1>5, SumsUnique
<1>7. \A i \in 1..(n+1) : e[i] \in Nat
  BY <1>2, <1>6 DEF Sums
<1> QED BY <1>1, <1>5, <1>7

\* A list is known by its sums: g gives the expiries of T.
LEMMA ExpiryKnown ==
  ASSUME NEW T, IsTimer(T), Len(T.q) > 0,
         NEW g, g[1] = T.tick, \A i \in 1..(Len(T.q)-1) : g[i+1] = g[i] + T.v[T.q[i]]
  PROVE  \A i \in 1..Len(T.q) : Expiry(T, i) = g[i]
<1> DEFINE n == Len(T.q)
<1>0. n \in Nat /\ n > 0 /\ n = Len(T.q)
  BY LenProperties DEF IsTimer
<1> HIDE DEF n
<1> DEFINE e == [i \in 1..n |-> Expiry(T, i)]
<1>1. \A i \in 1..n : e[i] = Expiry(T, i) /\ i \in 1..(n+1)
  BY <1>0
<1>2. PICK m \in Nat : n = m + 1
  <2>1. n - 1 \in Nat /\ n = (n - 1) + 1
    BY <1>0
  <2> QED BY <2>1
<1>3. /\ e \in [1..(m+1) -> Nat] /\ e[1] = T.tick
      /\ \A i \in 1..m : e[i+1] = e[i] + T.v[T.q[i]]
  <2>1. \A i \in 1..m : i \in 1..n /\ i + 1 \in 1..n
    BY <1>2
  <2>2. 1 \in 1..n
    BY <1>0
  <2> QED BY <1>1, <1>2, <2>1, <2>2, <1>0, ExpirySums
<1> HIDE DEF e
<1>4. Sums(T, e, m + 1)
  <2>1. (m + 1) - 1 = m
    OBVIOUS
  <2> QED BY <1>3, <2>1 DEF Sums
<1>5. \A i \in 1..m : g[i+1] = g[i] + T.v[T.q[i]]
  <2>1. n - 1 = m
    BY <1>2
  <2> QED BY <1>0, <2>1
<1>6. \A i \in 1..(m+1) : g[i] = e[i]
  BY <1>2, <1>4, <1>5, SumsUnique
<1> QED BY <1>0, <1>1, <1>2, <1>6

\* Expiries grow along the list.
LEMMA ExpiryMonotone ==
  ASSUME NEW T, IsTimer(T), NEW n \in Nat, n = Len(T.q)
  PROVE  \A i, j \in 1..(n+1) : i <= j => Expiry(T, i) <= Expiry(T, j)
<1> SUFFICES ASSUME NEW i \in 1..(n+1) PROVE \A j \in 1..(n+1) : i <= j => Expiry(T, i) <= Expiry(T, j)
  OBVIOUS
<1> DEFINE N == {j \in 1..(n+1) : i <= j /\ ~(Expiry(T, i) <= Expiry(T, j))}
<1>1. SUFFICES ASSUME N # {} PROVE FALSE
  OBVIOUS
<1>2. PICK k \in N : \A m \in N : k <= m
  <2>1. N \in SUBSET Nat
    OBVIOUS
  <2> HIDE DEF N
  <2> QED BY <1>1, <2>1, LeastNat
<1>3. k \in 1..(n+1) /\ i <= k /\ ~(Expiry(T, i) <= Expiry(T, k)) /\ i # k
  BY ExpirySums
<1>4. k - 1 \in 1..n /\ k - 1 \in 1..(n+1) /\ (k - 1) + 1 = k /\ i <= k - 1 /\ ~(k <= k - 1)
  BY <1>3
<1>5. Expiry(T, i) <= Expiry(T, k - 1)
  BY <1>2, <1>4
<1>6. Expiry(T, k) = Expiry(T, k - 1) + T.v[T.q[k-1]]
  BY <1>4, ExpirySums
<1>7. T.v[T.q[k-1]] \in Nat
  BY <1>4, LenProperties, ElementOfSeq DEF IsTimer
<1>8. Expiry(T, i) \in Nat /\ Expiry(T, k) \in Nat /\ Expiry(T, k - 1) \in Nat
  BY <1>3, <1>4, ExpirySums
<1> QED BY <1>3, <1>5, <1>6, <1>7, <1>8, SMTT(60), ZenonT(60)

-----------------------------------------------------------------------------
\* The time t has left in the list T; -1 when it is not in it.
Left(T) == [t \in Threads |-> IF t \in ToSet(T.q) THEN Remained(T, t) ELSE -1]

\* A thread is at one place of the list.
LEMMA PlaceIs ==
  ASSUME NEW T, IsTimer(T), NEW t \in ToSet(T.q)
  PROVE  /\ t \in Threads /\ Place(T, t) \in 1..Len(T.q) /\ T.q[Place(T, t)] = t
         /\ \A i \in 1..Len(T.q) : T.q[i] = t => i = Place(T, t)
<1>1. Len(T.q) \in Nat /\ DOMAIN T.q = 1..Len(T.q) /\ \A i \in 1..Len(T.q) : T.q[i] \in Threads
  BY LenProperties, ElementOfSeq DEF IsTimer
<1>2. \E i \in DOMAIN T.q : T.q[i] = t
  BY DEF ToSet
<1>3. Place(T, t) \in DOMAIN T.q /\ T.q[Place(T, t)] = t
  BY <1>2 DEF Place
<1> HIDE DEF Place
<1>4. t \in Threads /\ Once(T.q, t)
  BY <1>1, <1>3 DEF IsTimer
<1> QED BY <1>1, <1>3, <1>4 DEF Once

\* The time left of the thread at a place of the list is the expiry of that place.
LEMMA LeftAt ==
  ASSUME NEW T, IsTimer(T), NEW i \in 1..Len(T.q)
  PROVE  /\ T.q[i] \in ToSet(T.q) /\ T.q[i] \in Threads
         /\ Place(T, T.q[i]) = i /\ Left(T)[T.q[i]] = Expiry(T, i)
<1>1. Len(T.q) \in Nat /\ DOMAIN T.q = 1..Len(T.q) /\ T.q[i] \in Threads
  BY LenProperties, ElementOfSeq DEF IsTimer
<1>2. T.q[i] \in ToSet(T.q)
  BY <1>1 DEF ToSet
<1>3. Place(T, T.q[i]) = i
  BY <1>2, PlaceIs
<1> QED BY <1>1, <1>2, <1>3 DEF Left, Remained

\* Two lists have the same times if every thread of the one that stays has its expiry in the other.
LEMMA LeftOf ==
  ASSUME NEW T, IsTimer(T), NEW t \in Threads
  PROVE  /\ t \notin ToSet(T.q) => Left(T)[t] = -1
         /\ t \in ToSet(T.q) => \E i \in 1..Len(T.q) : T.q[i] = t /\ Left(T)[t] = Expiry(T, i)
         /\ Left(T)[t] \in Nat \cup {-1}
<1>1. Len(T.q) \in Nat
  BY LenProperties DEF IsTimer
<1>2. ASSUME t \in ToSet(T.q) 
      PROVE  Place(T, t) \in 1..Len(T.q) /\ T.q[Place(T, t)] = t /\ Left(T)[t] = Expiry(T, Place(T, t))
  BY <1>2, PlaceIs DEF Left, Remained
<1>3. \A i \in 1..Len(T.q) : Expiry(T, i) \in Nat
  BY <1>1, ExpirySums
<1>4. t \notin ToSet(T.q) => Left(T)[t] = -1
  BY DEF Left
<1> QED BY <1>2, <1>3, <1>4

\* The entries that expire till n are the first ones of the list.
LEMMA FirstEntries ==
  ASSUME NEW T, IsTimer(T), NEW n \in Nat
  PROVE  LET c == Cardinality({j \in DOMAIN T.q : Expiry(T, j) <= n})
         IN  /\ c \in 0..Len(T.q)
             /\ \A j \in 1..c : Expiry(T, j) <= n
             /\ \A j \in (c+1)..Len(T.q) : Expiry(T, j) > n
<1> DEFINE N == {j \in 1..Len(T.q) : Expiry(T, j) > n}
           E == {j \in DOMAIN T.q : Expiry(T, j) <= n}
<1>1. Len(T.q) \in Nat /\ DOMAIN T.q = 1..Len(T.q)
  BY LenProperties DEF IsTimer
<1>2. \A j \in 1..Len(T.q) : Expiry(T, j) \in Nat
  BY <1>1, ExpirySums
<1>3. \E c \in 0..Len(T.q) : /\ \A j \in 1..c : Expiry(T, j) <= n
                             /\ \A j \in (c+1)..Len(T.q) : Expiry(T, j) > n
  <2>1. CASE N = {}
    <3>1. \A j \in 1..Len(T.q) : Expiry(T, j) <= n
      BY <1>2, <2>1
    <3>2. Len(T.q) \in 0..Len(T.q) /\ (Len(T.q)+1)..Len(T.q) = {}
      BY <1>1
    <3> QED BY <3>1, <3>2
  <2>2. CASE N # {}
    <3>1. PICK k \in N : \A m \in N : k <= m
      <4>1. N \in SUBSET Nat
        BY <1>1
      <4> HIDE DEF N
      <4> QED BY <2>2, <4>1, LeastNat
    <3>2. k \in 1..Len(T.q) /\ Expiry(T, k) > n
      OBVIOUS
    <3>3. \A j \in 1..(k-1) : Expiry(T, j) <= n
      <4> TAKE j \in 1..(k-1)
      <4>1. j \in 1..Len(T.q) /\ ~(k <= j)
        BY <1>1, <3>2
      <4>2. j \notin N
        BY <3>1, <4>1
      <4> QED BY <1>2, <4>1, <4>2
    <3>4. \A j \in k..Len(T.q) : Expiry(T, j) > n
      <4> TAKE j \in k..Len(T.q)
      <4>1. j \in 1..(Len(T.q)+1) /\ k \in 1..(Len(T.q)+1) /\ k <= j /\ j \in 1..Len(T.q)
        BY <1>1, <3>2
      <4>2. Expiry(T, k) <= Expiry(T, j)
        BY <1>1, <4>1, ExpiryMonotone
      <4> QED BY <1>2, <3>2, <4>1, <4>2
    <3>5. k - 1 \in 0..Len(T.q) /\ (k - 1) + 1 = k
      BY <1>1, <3>2
    <3> QED BY <3>3, <3>4, <3>5
  <2> QED BY <2>1, <2>2
<1>4. PICK c \in 0..Len(T.q) : /\ \A j \in 1..c : Expiry(T, j) <= n
                               /\ \A j \in (c+1)..Len(T.q) : Expiry(T, j) > n
  BY <1>3
<1>5. E = 1..c
  <2>1. \A j \in 1..Len(T.q) : j \in 1..c \/ j \in (c+1)..Len(T.q)
    BY <1>1, <1>4
  <2>2. \A j \in 1..c : j \in 1..Len(T.q)
    BY <1>1, <1>4
  <2> QED BY <1>1, <1>2, <1>4, <2>1, <2>2
<1>6. Cardinality(1..c) = c
  BY <1>4, FS_Interval
<1> QED BY <1>4, <1>5, <1>6

-----------------------------------------------------------------------------
\* A timer list within its bounds: no entry expires later than the longest sleep, and the
\* gap behind the last one is at most one tick longer than what is left till then.
TimerOK(T) ==
  /\ IsTimer(T) /\ T.tick <= MaxTicks /\ \A t \in Threads : T.v[t] <= MaxTicks + 1
  /\ \A i \in 1..Len(T.q) : Expiry(T, i) <= MaxTicks
  /\ Expiry(T, Len(T.q) + 1) <= MaxTicks + 1

\* The longest time of the timer is a positive number of ticks.
LEMMA MaxTicksNat == MaxTicks \in Nat \ {0} /\ MaxUsec \in Nat \ {0} /\ MHZ \in Nat \ {0}
<1>1. MHZ \in Nat /\ MHZ > 0 /\ MaxUsec \in Nat /\ MaxUsec > 0
  BY TimerAssumption
<1>2. \A x, y \in Nat : x > 0 /\ y > 0 => x * y \in Nat /\ x * y > 0
  OBVIOUS
<1> QED BY <1>1, <1>2 DEF MaxTicks

\* chx_timer_insert with t at the place i.
InsertAs(T, t, n, i) ==
  [q |-> InsertAt(T.q, i, t),
   v |-> [u \in Threads |->
           IF u = t THEN (IF i <= Len(T.q) THEN Expiry(T, i) - n ELSE 1)
           ELSE IF i > 1 /\ u = T.q[i-1] THEN (IF i = 1 THEN n ELSE n - Expiry(T, i-1))
           ELSE T.v[u]],
   tick |-> IF i = 1 THEN (IF i = 1 THEN n ELSE n - Expiry(T, i-1)) ELSE T.tick]

\* The place that chx_timer_insert finds is behind those that expire till n.
InsertPlace(T, n, i) ==
  /\ i \in 1..(Len(T.q) + 1)
  /\ \A j \in 1..(i-1) : Expiry(T, j) <= n
  /\ \A j \in i..Len(T.q) : Expiry(T, j) > n

\* chx_timer_insert puts the thread at some place between those that expire before and after.
LEMMA InsertPlaced ==
  ASSUME NEW T, IsTimer(T), NEW t \in Threads, NEW n \in Nat
  PROVE  \E i : InsertPlace(T, n, i) /\ TimerInsert(T, t, n) = InsertAs(T, t, n, i)
<1> DEFINE c == Cardinality({j \in DOMAIN T.q : Expiry(T, j) <= n})
<1>1. TimerInsert(T, t, n) = InsertAs(T, t, n, 1 + c)
  BY DEF TimerInsert, InsertAs
<1>2. /\ c \in 0..Len(T.q)
      /\ \A j \in 1..c : Expiry(T, j) <= n
      /\ \A j \in (c+1)..Len(T.q) : Expiry(T, j) > n
  BY FirstEntries
<1>3. Len(T.q) \in Nat
  BY LenProperties DEF IsTimer
<1> HIDE DEF c
<1>4. InsertPlace(T, n, 1 + c)
  <2>1. (1 + c) - 1 = c /\ 1 + c = c + 1 /\ 1 + c \in 1..(Len(T.q) + 1)
    BY <1>2, <1>3
  <2> QED BY <1>2, <2>1 DEF InsertPlace
<1> QED BY <1>1, <1>4

\* The list with t at its place: the others keep their order, the gaps around t are split.
LEMMA InsertShape ==
  ASSUME NEW T, IsTimer(T), NEW t \in Threads, t \notin ToSet(T.q), NEW n \in Nat,
         NEW i, InsertPlace(T, n, i), NEW U, U = InsertAs(T, t, n, i)
  PROVE  /\ IsTimer(U) /\ Len(U.q) = Len(T.q) + 1 /\ ToSet(U.q) = ToSet(T.q) \cup {t}
         /\ U.q[i] = t
         /\ \A j \in 1..(i-1) : U.q[j] = T.q[j]
         /\ \A j \in (i+1)..(Len(T.q)+1) : U.q[j] = T.q[j-1]
<1> DEFINE L == Len(T.q)
           s == T.q
<1>0. L \in Nat /\ s \in Seq(Threads) /\ i \in 1..(L+1) /\ i \in 1..(Len(s)+1) /\ t \notin ToSet(s)
  BY LenProperties DEF IsTimer, InsertPlace
<1>1. U.q = InsertAt(s, i, t)
  BY DEF InsertAs
<1> HIDE DEF s
<1>2. /\ InsertAt(s, i, t) \in Seq(Threads) /\ Len(InsertAt(s, i, t)) = Len(s) + 1
      /\ InsertAt(s, i, t)[i] = t
      /\ \A j \in 1..(i-1) : InsertAt(s, i, t)[j] = s[j]
      /\ \A j \in (i+1)..(Len(s)+1) : InsertAt(s, i, t)[j] = s[j-1]
  BY <1>0, InsertAtFacts
<1>3. /\ ToSet(InsertAt(s, i, t)) = ToSet(s) \cup {t}
      /\ \A u \in Threads : Once(s, u) => Once(InsertAt(s, i, t), u)
  BY <1>0, InsertAtElements
<1>4. \A u \in Threads : Once(s, u)
  BY DEF IsTimer, s
<1>5. \A j \in 1..(L+1) : Expiry(T, j) \in Nat
  BY <1>0, ExpirySums
<1>6. ASSUME NEW u \in Threads
      PROVE (IF u = t THEN (IF i <= L THEN Expiry(T, i) - n ELSE 1)
             ELSE IF i > 1 /\ u = T.q[i-1] THEN (IF i = 1 THEN n ELSE n - Expiry(T, i-1))
             ELSE T.v[u]) \in Nat
  <2>1. T.v[u] \in Nat
    BY DEF IsTimer
  <2>2. i <= L => Expiry(T, i) - n \in Nat
    BY <1>0, <1>5 DEF InsertPlace
  <2>3. i > 1 => n - Expiry(T, i-1) \in Nat
    <3> SUFFICES ASSUME i > 1 PROVE n - Expiry(T, i-1) \in Nat
      OBVIOUS
    <3>1. i - 1 \in 1..(L+1) /\ i - 1 \in 1..(i-1)
      BY <1>0
    <3> QED BY <1>5, <3>1 DEF InsertPlace
  <2> QED BY <2>1, <2>2, <2>3, n \in Nat
<1>7. U.v \in [Threads -> Nat]
  <2>1. U.v = [u \in Threads |->
                IF u = t THEN (IF i <= L THEN Expiry(T, i) - n ELSE 1)
                ELSE IF i > 1 /\ u = T.q[i-1] THEN (IF i = 1 THEN n ELSE n - Expiry(T, i-1))
                ELSE T.v[u]]
    BY DEF InsertAs
  <2> QED BY <1>6, <2>1
<1>8. U.tick \in Nat
  <2>1. U.tick = IF i = 1 THEN n ELSE T.tick
    BY DEF InsertAs
  <2> QED BY <2>1 DEF IsTimer
<1>9. U = [q |-> U.q, v |-> U.v, tick |-> U.tick]
  BY DEF InsertAs
<1>10. IsTimer(U)
  <2>1. U.q \in Seq(Threads) /\ \A u \in Threads : Once(U.q, u)
    BY <1>1, <1>2, <1>3, <1>4
  <2> QED BY <1>7, <1>8, <1>9, <2>1 DEF IsTimer
<1> QED BY <1>1, <1>2, <1>3, <1>10 DEF s

\* The expiries after it: n for t, those of the others as they were.
LEMMA InsertExpiries ==
  ASSUME NEW T, IsTimer(T), NEW t \in Threads, t \notin ToSet(T.q), NEW n \in Nat,
         NEW i, InsertPlace(T, n, i), NEW U, U = InsertAs(T, t, n, i)
  PROVE  /\ \A j \in 1..(i-1) : Expiry(U, j) = Expiry(T, j)
         /\ Expiry(U, i) = n
         /\ \A j \in (i+1)..(Len(T.q)+1) : Expiry(U, j) = Expiry(T, j-1)
<1> DEFINE L == Len(T.q)
           g == [j \in 1..(L+1) |-> IF j < i THEN Expiry(T, j) ELSE IF j = i THEN n ELSE Expiry(T, j-1)]
<1>0. L \in Nat /\ T.q \in Seq(Threads) /\ i \in 1..(L+1)
  BY LenProperties DEF IsTimer, InsertPlace
<1>1. /\ IsTimer(U) /\ Len(U.q) = L + 1
      /\ U.q[i] = t
      /\ \A j \in 1..(i-1) : U.q[j] = T.q[j]
      /\ \A j \in (i+1)..(L+1) : U.q[j] = T.q[j-1]
  BY InsertShape
<1>2. \A u \in Threads : U.v[u] = 
                IF u = t THEN (IF i <= L THEN Expiry(T, i) - n ELSE 1)
                ELSE IF i > 1 /\ u = T.q[i-1] THEN n - Expiry(T, i-1)
                ELSE T.v[u]
  <2>1. U.v = [u \in Threads |->
                IF u = t THEN (IF i <= L THEN Expiry(T, i) - n ELSE 1)
                ELSE IF i > 1 /\ u = T.q[i-1] THEN (IF i = 1 THEN n ELSE n - Expiry(T, i-1))
                ELSE T.v[u]]
    BY DEF InsertAs
  <2>2. i > 1 => i # 1
    BY <1>0
  <2> QED BY <2>1, <2>2
<1>3. U.tick = IF i = 1 THEN n ELSE T.tick
  BY DEF InsertAs
<1>4. /\ Expiry(T, 1) = T.tick
      /\ \A j \in 1..L : Expiry(T, j+1) = Expiry(T, j) + T.v[T.q[j]]
      /\ \A j \in 1..(L+1) : Expiry(T, j) \in Nat
  BY <1>0, ExpirySums
<1>5. \A j \in 1..L : T.q[j] \in Threads /\ T.q[j] # t
  <2>1. DOMAIN T.q = 1..L
    BY <1>0, LenProperties
  <2> QED BY <1>0, <2>1, ElementOfSeq DEF ToSet
<1>6. \A j, k \in 1..L : T.q[j] = T.q[k] => j = k
  <2>1. DOMAIN T.q = 1..L
    BY <1>0, LenProperties
  <2> QED BY <1>5, <2>1 DEF IsTimer, Once
<1>7. g[1] = U.tick
  BY <1>0, <1>3, <1>4
<1>8. ASSUME NEW j \in 1..L PROVE g[j+1] = g[j] + U.v[U.q[j]]
  <2>0. j \in 1..(L+1) /\ j + 1 \in 1..(L+1) /\ (j + 1) - 1 = j
    BY <1>0
  <2>1. CASE j + 1 < i
    <3>1. j \in 1..(i-1) /\ j # i - 1
      BY <1>0, <2>1
    <3>2. U.q[j] = T.q[j] /\ U.v[T.q[j]] = T.v[T.q[j]]
      <4>1. i > 1 => i - 1 \in 1..L
        BY <1>0
      <4> QED BY <1>1, <1>2, <1>5, <1>6, <3>1, <4>1
    <3>3. g[j] = Expiry(T, j) /\ g[j+1] = Expiry(T, j+1)
      BY <1>0, <2>0, <2>1
    <3> QED BY <1>4, <3>2, <3>3
  <2>2. CASE j + 1 = i
    <3>1. j = i - 1 /\ j \in 1..(i-1) /\ i > 1
      BY <1>0, <2>2
    <3>2. U.q[j] = T.q[j] /\ U.v[T.q[j]] = n - Expiry(T, j)
      BY <1>1, <1>2, <1>5, <3>1
    <3>3. g[j] = Expiry(T, j) /\ g[j+1] = n
      BY <1>0, <2>0, <2>2
    <3> QED BY <1>4, <2>0, <3>2, <3>3
  <2>3. CASE j = i
    <3>1. U.v[U.q[j]] = Expiry(T, i) - n
      BY <1>0, <1>1, <1>2, <2>3
    <3>2. g[j] = n /\ g[j+1] = Expiry(T, i)
      BY <1>0, <2>0, <2>3
    <3> QED BY <1>4, <2>0, <2>3, <3>1, <3>2
  <2>4. CASE j > i
    <3>1. j \in (i+1)..(L+1) /\ j - 1 \in 1..L /\ j - 1 # i - 1 /\ (j - 1) + 1 = j
      BY <1>0, <2>4
    <3>2. U.q[j] = T.q[j-1] /\ U.v[T.q[j-1]] = T.v[T.q[j-1]]
      <4>1. i > 1 => i - 1 \in 1..L
        BY <1>0
      <4> QED BY <1>1, <1>2, <1>5, <1>6, <3>1, <4>1
    <3>3. g[j] = Expiry(T, j-1) /\ g[j+1] = Expiry(T, j)
      BY <1>0, <2>0, <2>4
    <3>4. Expiry(T, j) = Expiry(T, j-1) + T.v[T.q[j-1]]
      BY <1>4, <3>1
    <3> QED BY <3>2, <3>3, <3>4
  <2> QED BY <1>0, <2>1, <2>2, <2>3, <2>4
<1>9. \A j \in 1..(L+1) : Expiry(U, j) = g[j]
  <2>1. Len(U.q) = L + 1 /\ Len(U.q) > 0 /\ Len(U.q) - 1 = L
    BY <1>0, <1>1
  <2> HIDE DEF g
  <2>2. \A j \in 1..(Len(U.q)-1) : g[j+1] = g[j] + U.v[U.q[j]]
    BY <1>8, <2>1
  <2>3. \A j \in 1..Len(U.q) : Expiry(U, j) = g[j]
    <3>1. IsTimer(U)
      BY <1>1
    <3>2. g[1] = U.tick
      BY <1>7
    <3>3. Len(U.q) > 0
      BY <2>1
    <3> QED BY ONLY <3>1, <3>2, <3>3, <2>2, ExpiryKnown
  <2> QED BY <2>1, <2>3
<1>10. \A j \in 1..(i-1) : j \in 1..(L+1) /\ g[j] = Expiry(T, j)
  BY <1>0
<1>11. g[i] = n
  BY <1>0
<1>12. \A j \in (i+1)..(L+1) : j \in 1..(L+1) /\ g[j] = Expiry(T, j-1)
  BY <1>0
<1> HIDE DEF g
<1> QED BY <1>0, <1>9, <1>10, <1>11, <1>12

\* chx_timer_insert gives t the time n, and leaves everybody else's as it is.
LEMMA InsertTimer ==
  ASSUME NEW T, TimerOK(T), NEW t \in Threads, t \notin ToSet(T.q), NEW n \in 1..MaxTicks
  PROVE  /\ TimerOK(TimerInsert(T, t, n))
         /\ ToSet(TimerInsert(T, t, n).q) = ToSet(T.q) \cup {t}
         /\ Left(TimerInsert(T, t, n)) = [Left(T) EXCEPT ![t] = n]
         /\ T.tick > 0 \/ T.q = << >> => TimerInsert(T, t, n).tick > 0
         /\ \A u \in Threads \ ToSet(T.q) : u # t => TimerInsert(T, t, n).v[u] = T.v[u]
<1> DEFINE U == TimerInsert(T, t, n)
           L == Len(T.q)
<1>0. L \in Nat /\ T.q \in Seq(Threads) /\ n \in Nat /\ n > 0 /\ MaxTicks \in Nat /\ n <= MaxTicks
  BY LenProperties, MaxTicksNat DEF IsTimer, TimerOK
<1>t. IsTimer(T)
  BY DEF TimerOK
<1>1. PICK i : InsertPlace(T, n, i) /\ U = InsertAs(T, t, n, i)
  BY <1>0, <1>t, InsertPlaced
<1> HIDE DEF U
<1>2. /\ IsTimer(U) /\ Len(U.q) = L + 1 /\ ToSet(U.q) = ToSet(T.q) \cup {t}
      /\ U.q[i] = t
      /\ \A j \in 1..(i-1) : U.q[j] = T.q[j]
      /\ \A j \in (i+1)..(L+1) : U.q[j] = T.q[j-1]
  BY <1>0, <1>t, <1>1, InsertShape, SMTT(60), ZenonT(60)
<1>3. /\ \A j \in 1..(i-1) : Expiry(U, j) = Expiry(T, j)
      /\ Expiry(U, i) = n
      /\ \A j \in (i+1)..(L+1) : Expiry(U, j) = Expiry(T, j-1)
  BY <1>0, <1>t, <1>1, InsertExpiries
<1>4. i \in 1..(L+1)
  BY <1>1 DEF InsertPlace
<1>5. \A u \in Threads : U.v[u] =
                IF u = t THEN (IF i <= L THEN Expiry(T, i) - n ELSE 1)
                ELSE IF i > 1 /\ u = T.q[i-1] THEN n - Expiry(T, i-1)
                ELSE T.v[u]
  <2>1. U.v = [u \in Threads |->
                IF u = t THEN (IF i <= L THEN Expiry(T, i) - n ELSE 1)
                ELSE IF i > 1 /\ u = T.q[i-1] THEN (IF i = 1 THEN n ELSE n - Expiry(T, i-1))
                ELSE T.v[u]]
    BY <1>1 DEF InsertAs
  <2>2. i > 1 => i # 1
    BY <1>4
  <2> QED BY <2>1, <2>2
<1>6. U.tick = IF i = 1 THEN n ELSE T.tick
  BY <1>1 DEF InsertAs
<1>7. /\ Expiry(T, 1) = T.tick
      /\ \A j \in 1..L : Expiry(T, j+1) = Expiry(T, j) + T.v[T.q[j]]
      /\ \A j \in 1..(L+1) : Expiry(T, j) \in Nat
  BY <1>0, <1>t, ExpirySums
<1>8. /\ T.tick <= MaxTicks /\ Expiry(T, L+1) <= MaxTicks + 1
      /\ \A j \in 1..L : Expiry(T, j) <= MaxTicks
      /\ \A u \in Threads : T.v[u] \in Nat /\ T.v[u] <= MaxTicks + 1
      /\ T.tick \in Nat
  BY DEF TimerOK, IsTimer
<1>9. /\ \A j \in 1..(i-1) : Expiry(T, j) <= n
      /\ \A j \in i..L : Expiry(T, j) > n
  BY <1>1 DEF InsertPlace
<1>10. U.tick <= MaxTicks
  BY <1>0, <1>6, <1>8
<1>11. \A j \in 1..(L+1) : Expiry(U, j) <= MaxTicks
  <2> TAKE j \in 1..(L+1)
  <2>1. CASE j \in 1..(i-1)
    <3>1. j \in 1..L
      BY <1>0, <1>4, <2>1
    <3> QED BY <1>3, <1>8, <2>1, <3>1
  <2>2. CASE j = i
    BY <1>0, <1>3, <2>2
  <2>3. CASE j \in (i+1)..(L+1)
    <3>1. j - 1 \in 1..L
      BY <1>0, <1>4, <2>3
    <3> QED BY <1>3, <1>8, <2>3, <3>1
  <2> QED BY <1>0, <1>4, <2>1, <2>2, <2>3
<1>12. \A u \in Threads : U.v[u] <= MaxTicks + 1
  <2> TAKE u \in Threads
  <2>1. CASE u = t
    <3>1. CASE i <= L
      <4>1. i \in 1..L /\ i \in 1..(L+1)
        BY <1>0, <1>4, <3>1
      <4>2. Expiry(T, i) <= MaxTicks /\ Expiry(T, i) \in Nat
        BY <1>7, <1>8, <4>1
      <4> QED BY <1>0, <1>5, <2>1, <3>1, <4>2
    <3>2. CASE ~(i <= L)
      BY <1>0, <1>5, <2>1, <3>2
    <3> QED BY <3>1, <3>2
  <2>2. CASE u # t /\ i > 1 /\ u = T.q[i-1]
    <3>1. i - 1 \in 1..(L+1)
      BY <1>0, <1>4, <2>2
    <3>2. U.v[u] = n - Expiry(T, i-1) /\ Expiry(T, i-1) \in Nat
      BY <1>5, <1>7, <2>2, <3>1
    <3> QED BY <1>0, <3>2
  <2>3. CASE u # t /\ ~(i > 1 /\ u = T.q[i-1])
    BY <1>5, <1>8, <2>3
  <2> QED BY <2>1, <2>2, <2>3
<1>13. Expiry(U, L + 2) <= MaxTicks + 1
  <2>1. Expiry(U, L + 2) = Expiry(U, L + 1) + U.v[U.q[L+1]]
    <3>1. L + 1 \in Nat /\ L + 1 = Len(U.q) /\ L + 1 \in 1..(L+1) /\ (L + 1) + 1 = L + 2
      BY <1>0, <1>2
    <3> QED BY <1>2, <3>1, ExpirySums, ZenonT(60)
  <2>2. CASE i = L + 1
    <3>1. U.q[L+1] = t /\ ~(i <= L)
      BY <1>0, <1>2, <2>2
    <3>2. U.v[t] = 1
      BY <1>5, <3>1
    <3> QED BY <1>0, <1>3, <2>1, <2>2, <3>1, <3>2
  <2>3. CASE i # L + 1
    <3>1. L + 1 \in (i+1)..(L+1) /\ (L + 1) - 1 = L /\ L \in 1..L /\ L # i - 1
      BY <1>0, <1>4, <2>3
    <3>2. U.q[L+1] = T.q[L] /\ Expiry(U, L+1) = Expiry(T, L)
      BY <1>2, <1>3, <3>1
    <3>3. T.q[L] \in Threads /\ T.q[L] # t /\ (i > 1 => T.q[L] # T.q[i-1])
      <4>1. DOMAIN T.q = 1..L
        BY <1>0, LenProperties
      <4>2. i > 1 => i - 1 \in 1..L
        BY <1>0, <1>4
      <4>3. T.q[L] \in Threads /\ T.q[L] # t
        BY <1>0, <3>1, <4>1, ElementOfSeq DEF ToSet
      <4>4. Once(T.q, T.q[L])
        BY <1>t, <4>3 DEF IsTimer
      <4> QED BY <3>1, <4>1, <4>2, <4>3, <4>4 DEF Once
    <3>4. U.v[T.q[L]] = T.v[T.q[L]]
      BY <1>5, <3>3
    <3> QED BY <1>7, <1>8, <2>1, <3>1, <3>2, <3>4
  <2> QED BY <2>2, <2>3
<1>14. TimerOK(U)
  <2>1. Len(U.q) + 1 = L + 2
    BY <1>0, <1>2
  <2> QED BY <1>2, <1>10, <1>11, <1>12, <1>13, <2>1 DEF TimerOK
<1>15. ASSUME NEW u \in Threads PROVE Left(U)[u] = IF u = t THEN n ELSE Left(T)[u]
  <2>1. CASE u = t
    <3>1. i \in 1..Len(U.q)
      BY <1>2, <1>4
    <3> QED BY <1>2, <1>3, <2>1, <3>1, LeftAt
  <2>2. CASE u # t /\ u \notin ToSet(T.q)
    <3>1. u \notin ToSet(U.q)
      BY <1>2, <2>2
    <3> QED BY <2>2, <3>1 DEF Left
  <2>3. CASE u # t /\ u \in ToSet(T.q)
    <3>1. PICK k \in 1..L : T.q[k] = u /\ Left(T)[u] = Expiry(T, k)
      BY <1>t, <2>3, LeftOf
    <3>2. CASE k < i
      <4>1. k \in 1..(i-1) /\ k \in 1..Len(U.q)
        BY <1>0, <1>2, <1>4, <3>2
      <4>2. U.q[k] = u /\ Expiry(U, k) = Left(T)[u]
        BY <1>2, <1>3, <3>1, <4>1
      <4>3. Left(U)[u] = Expiry(U, k)
        BY <1>2, <4>1, <4>2, LeftAt
      <4> QED BY <2>3, <4>2, <4>3
    <3>3. CASE ~(k < i)
      <4>1. k + 1 \in (i+1)..(L+1) /\ k + 1 \in 1..Len(U.q) /\ (k + 1) - 1 = k
        BY <1>0, <1>2, <1>4, <3>3
      <4>2. U.q[k+1] = u /\ Expiry(U, k+1) = Left(T)[u]
        BY <1>2, <1>3, <3>1, <4>1
      <4>3. Left(U)[u] = Expiry(U, k+1)
        BY <1>2, <4>1, <4>2, LeftAt
      <4> QED BY <2>3, <4>2, <4>3
    <3> QED BY <3>2, <3>3
  <2> QED BY <2>1, <2>2, <2>3
<1>16. Left(U) = [Left(T) EXCEPT ![t] = n]
  BY <1>15 DEF Left
<1>17. T.tick > 0 \/ T.q = << >> => U.tick > 0
  <2>1. T.q = << >> => i = 1
    BY <1>4
  <2> QED BY <1>0, <1>6, <2>1
<1>18. \A u \in Threads \ ToSet(T.q) : u # t => U.v[u] = T.v[u]
  <2>1. i > 1 => T.q[i-1] \in ToSet(T.q)
    <3>1. i > 1 => i - 1 \in 1..L
      BY <1>0, <1>4
    <3>2. DOMAIN T.q = 1..L
      BY <1>0, LenProperties
    <3> QED BY <3>1, <3>2 DEF ToSet
  <2> QED BY <1>5, <2>1
<1> QED BY <1>2, <1>14, <1>16, <1>17, <1>18 DEF U

-----------------------------------------------------------------------------
\* What the entries of a list are: threads, each of them once.
LEMMA Entries ==
  ASSUME NEW T, IsTimer(T)
  PROVE  /\ Len(T.q) \in Nat /\ DOMAIN T.q = 1..Len(T.q)
         /\ \A j \in 1..Len(T.q) : T.q[j] \in Threads /\ T.q[j] \in ToSet(T.q)
         /\ \A j, k \in 1..Len(T.q) : T.q[j] = T.q[k] => j = k
         /\ T.q = << >> <=> Len(T.q) = 0
<1>1. T.q \in Seq(Threads)
  BY DEF IsTimer
<1>2. Len(T.q) \in Nat /\ DOMAIN T.q = 1..Len(T.q) /\ (T.q = << >> <=> Len(T.q) = 0)
  BY <1>1, LenProperties, EmptySeq
<1>3. \A j \in 1..Len(T.q) : T.q[j] \in Threads /\ T.q[j] \in ToSet(T.q)
  BY <1>1, <1>2, ElementOfSeq DEF ToSet
<1>4. \A j, k \in 1..Len(T.q) : T.q[j] = T.q[k] => j = k
  BY <1>2, <1>3 DEF IsTimer, Once
<1> QED BY <1>2, <1>3, <1>4

\* What chx_timer_dequeue makes of the list.
LEMMA DequeueShape ==
  ASSUME NEW T, IsTimer(T), NEW t \in ToSet(T.q), NEW U, U = TimerDequeue(T, t),
         NEW i, i = Place(T, t)
  PROVE  /\ IsTimer(U) /\ Len(U.q) = Len(T.q) - 1 /\ ToSet(U.q) = ToSet(T.q) \ {t}
         /\ \A j \in 1..(i-1) : U.q[j] = T.q[j]
         /\ \A j \in i..(Len(T.q)-1) : U.q[j] = T.q[j+1]
         /\ \A u \in Threads : U.v[u] = IF u = t THEN 0
                                        ELSE IF i > 1 /\ u = T.q[i-1] THEN T.v[u] + T.v[t] ELSE T.v[u]
         /\ U.tick = IF i > 1 THEN T.tick ELSE IF Len(T.q) = 1 THEN 0 ELSE T.tick + T.v[t]
<1> DEFINE L == Len(T.q)
           s == T.q
<1>0. /\ L \in Nat /\ s \in Seq(Threads) /\ i \in 1..L /\ i \in 1..Len(s) /\ t \in Threads
      /\ s[i] = t /\ Len(s) = L
  BY Entries, PlaceIs DEF IsTimer
<1>1. /\ U.q = RemoveAt(s, i) 
      /\ U.v = [u \in Threads |-> IF u = t THEN 0
                ELSE IF i > 1 /\ u = T.q[i-1] THEN T.v[u] + T.v[t] ELSE T.v[u]]
      /\ U.tick = IF i > 1 THEN T.tick ELSE IF L = 1 THEN 0 ELSE T.tick + T.v[t]
      /\ U = [q |-> U.q, v |-> U.v, tick |-> U.tick]
  BY DEF TimerDequeue
<1>2. \A u \in Threads : Once(s, u)
  BY DEF IsTimer
<1>3. \A u \in Threads : T.v[u] \in Nat
  BY DEF IsTimer
<1>4. ToSet(s) = ToSet(T.q)
  OBVIOUS
<1> HIDE DEF s
<1>5. /\ RemoveAt(s, i) \in Seq(Threads) /\ Len(RemoveAt(s, i)) = Len(s) - 1
      /\ \A j \in 1..(i-1) : RemoveAt(s, i)[j] = s[j]
      /\ \A j \in i..(Len(s)-1) : RemoveAt(s, i)[j] = s[j+1]
  BY <1>0, RemoveAtFacts
<1>6. /\ ToSet(RemoveAt(s, i)) \subseteq ToSet(s)
      /\ \A y \in ToSet(s) : y # t => y \in ToSet(RemoveAt(s, i))
      /\ \A y \in Threads : Once(RemoveAt(s, i), y)
      /\ t \notin ToSet(RemoveAt(s, i))
  BY <1>0, <1>2, RemoveAtElements
<1>7. U.v \in [Threads -> Nat] /\ U.tick \in Nat
  <2>1. T.tick \in Nat
    BY DEF IsTimer
  <2> QED BY <1>0, <1>1, <1>3, <2>1
<1>8. IsTimer(U)
  BY <1>1, <1>5, <1>6, <1>7 DEF IsTimer
<1>9. ToSet(U.q) = ToSet(T.q) \ {t}
  BY <1>1, <1>4, <1>6
<1>10. s = T.q
  BY DEF s
<1> QED BY <1>0, <1>1, <1>5, <1>8, <1>9, <1>10

\* The expiries after it: those of the others as they were.
LEMMA DequeueExpiries ==
  ASSUME NEW T, IsTimer(T), NEW t \in ToSet(T.q), NEW U, U = TimerDequeue(T, t),
         NEW i, i = Place(T, t)
  PROVE  \A j \in 1..(Len(T.q)-1) : Expiry(U, j) = IF j < i THEN Expiry(T, j) ELSE Expiry(T, j+1)
<1> DEFINE L == Len(T.q)
           g == [j \in 1..(L-1) |-> IF j < i THEN Expiry(T, j) ELSE Expiry(T, j+1)]
<1>0. /\ L \in Nat /\ i \in 1..L /\ t \in Threads /\ T.q[i] = t
      /\ \A j \in 1..L : T.q[j] \in Threads
      /\ \A j, k \in 1..L : T.q[j] = T.q[k] => j = k
  BY Entries, PlaceIs
<1>1. /\ IsTimer(U) /\ Len(U.q) = L - 1
      /\ \A j \in 1..(i-1) : U.q[j] = T.q[j]
      /\ \A j \in i..(L-1) : U.q[j] = T.q[j+1]
      /\ \A u \in Threads : U.v[u] = IF u = t THEN 0
                                     ELSE IF i > 1 /\ u = T.q[i-1] THEN T.v[u] + T.v[t] ELSE T.v[u]
      /\ U.tick = IF i > 1 THEN T.tick ELSE IF L = 1 THEN 0 ELSE T.tick + T.v[t]
  BY DequeueShape
<1>2. /\ Expiry(T, 1) = T.tick
      /\ \A j \in 1..L : Expiry(T, j+1) = Expiry(T, j) + T.v[T.q[j]]
      /\ \A j \in 1..(L+1) : Expiry(T, j) \in Nat
  BY <1>0, ExpirySums
<1>3. \A j \in 1..L : T.v[T.q[j]] \in Nat
  BY <1>0 DEF IsTimer
<1> SUFFICES ASSUME L - 1 > 0 PROVE \A j \in 1..(L-1) : Expiry(U, j) = g[j]
  <2>1. \A j \in 1..(L-1) : L - 1 > 0 /\ g[j] = IF j < i THEN Expiry(T, j) ELSE Expiry(T, j+1)
    BY <1>0
  <2> HIDE DEF g
  <2> QED BY <2>1
<1>4. g[1] = U.tick
  <2>0. 1 \in 1..(L-1) /\ 1 \in 1..L /\ 1 + 1 = 2
    BY <1>0
  <2>1. CASE i > 1
    BY <1>1, <1>2, <2>0, <2>1
  <2>2. CASE ~(i > 1)
    <3>1. i = 1 /\ ~(1 < i) /\ L # 1
      BY <1>0, <2>2
    <3>2. Expiry(T, 1 + 1) = T.tick + T.v[t]
      BY <1>0, <1>2, <2>0, <3>1
    <3>3. g[1] = Expiry(T, 1 + 1)
      BY <2>0, <3>1
    <3> QED BY <1>1, <3>1, <3>2, <3>3
  <2> QED BY <2>1, <2>2
<1>5. ASSUME NEW j \in 1..((L-1)-1) PROVE g[j+1] = g[j] + U.v[U.q[j]]
  <2>0. /\ j \in 1..(L-1) /\ j + 1 \in 1..(L-1) /\ j \in 1..L /\ j + 1 \in 1..L
        /\ (i > 1 => i - 1 \in 1..L)
    BY <1>0
  <2>1. CASE j + 1 < i
    <3>1. j \in 1..(i-1) /\ j # i - 1 /\ j # i /\ j < i
      BY <1>0, <2>1
    <3>2. U.q[j] = T.q[j] /\ T.q[j] # t /\ (i > 1 => T.q[j] # T.q[i-1])
      BY <1>0, <1>1, <2>0, <3>1, SMTT(60), ZenonT(60)
    <3>3. U.v[T.q[j]] = T.v[T.q[j]]
      BY <1>0, <1>1, <2>0, <3>2
    <3>4. g[j] = Expiry(T, j) /\ g[j+1] = Expiry(T, j+1)
      BY <2>0, <2>1, <3>1
    <3> QED BY <1>2, <2>0, <3>2, <3>3, <3>4
  <2>2. CASE j + 1 = i
    <3>1. j = i - 1 /\ j \in 1..(i-1) /\ i > 1 /\ j < i /\ ~(j + 1 < i) /\ j # i
      BY <1>0, <2>2
    <3>2. U.q[j] = T.q[j] /\ T.q[j] # t
      BY <1>0, <1>1, <2>0, <3>1
    <3>3. U.v[T.q[j]] = T.v[T.q[j]] + T.v[T.q[j+1]]
      BY <1>0, <1>1, <2>0, <2>2, <3>1, <3>2, SMTT(60), ZenonT(60)
    <3>4. g[j] = Expiry(T, j) /\ g[j+1] = Expiry(T, (j+1)+1)
      BY <2>0, <2>2, <3>1
    <3>5. /\ Expiry(T, j+1) = Expiry(T, j) + T.v[T.q[j]]
          /\ Expiry(T, (j+1)+1) = Expiry(T, j+1) + T.v[T.q[j+1]]
      BY <1>2, <2>0
    <3> HIDE DEF g
    <3>6. Expiry(T, j) \in Nat
      <4>1. j \in 1..(L+1)
        BY <1>0, <2>0
      <4> QED BY <1>2, <4>1
    <3>7. T.v[T.q[j]] \in Nat /\ T.v[T.q[j+1]] \in Nat
      BY <1>3, <2>0
    <3> QED BY <3>2, <3>3, <3>4, <3>5, <3>6, <3>7, SMTT(60), ZenonT(60)
  <2>3. CASE j >= i
    <3>1. j \in i..(L-1) /\ ~(j < i) /\ ~(j + 1 < i) /\ j + 1 # i /\ (i > 1 => j + 1 # i - 1)
      BY <1>0, <2>0, <2>3
    <3>2. U.q[j] = T.q[j+1] /\ T.q[j+1] # t /\ (i > 1 => T.q[j+1] # T.q[i-1])
      BY <1>0, <1>1, <2>0, <3>1, SMTT(60), ZenonT(60)
    <3>3. U.v[T.q[j+1]] = T.v[T.q[j+1]]
      BY <1>0, <1>1, <2>0, <3>2
    <3>4. g[j] = Expiry(T, j+1) /\ g[j+1] = Expiry(T, (j+1)+1)
      BY <2>0, <3>1
    <3> QED BY <1>2, <2>0, <3>2, <3>3, <3>4
  <2> QED BY <1>0, <2>1, <2>2, <2>3
<1>6. Len(U.q) > 0 /\ Len(U.q) - 1 = (L - 1) - 1 /\ Len(U.q) = L - 1
  BY <1>0, <1>1
<1> HIDE DEF g
<1>7. IsTimer(U) /\ \A j \in 1..(Len(U.q)-1) : g[j+1] = g[j] + U.v[U.q[j]]
  BY <1>1, <1>5, <1>6
<1>8. Len(U.q) > 0
  BY <1>6
<1>9. \A j \in 1..Len(U.q) : Expiry(U, j) = g[j]
  BY ONLY <1>4, <1>7, <1>8, ExpiryKnown
<1> QED BY <1>6, <1>9

\* chx_timer_dequeue takes t out, and leaves everybody else's time as it is.
LEMMA DequeueTimer ==
  ASSUME NEW T, TimerOK(T), NEW t \in ToSet(T.q)
  PROVE  /\ TimerOK(TimerDequeue(T, t))
         /\ ToSet(TimerDequeue(T, t).q) = ToSet(T.q) \ {t}
         /\ Left(TimerDequeue(T, t)) = [Left(T) EXCEPT ![t] = -1]
         /\ TimerDequeue(T, t).q = << >> => TimerDequeue(T, t).tick = 0
         /\ T.tick > 0 /\ TimerDequeue(T, t).q # << >> => TimerDequeue(T, t).tick > 0
         /\ \A u \in Threads \ ToSet(T.q) : TimerDequeue(T, t).v[u] = T.v[u]
         /\ Remained(T, t) \in 0..MaxTicks
<1> DEFINE U == TimerDequeue(T, t)
           i == Place(T, t)
<1>l. PICK L : L = Len(T.q)
  OBVIOUS
<1>t. IsTimer(T)
  BY DEF TimerOK
<1>0. /\ L \in Nat /\ i \in 1..L /\ t \in Threads /\ T.q[i] = t
      /\ \A j \in 1..L : T.q[j] \in Threads /\ T.q[j] \in ToSet(T.q)
      /\ \A j, k \in 1..L : T.q[j] = T.q[k] => j = k
      /\ MaxTicks \in Nat
  BY <1>l, <1>t, Entries, PlaceIs, MaxTicksNat
<1> HIDE DEF U, i
<1>i. L \in Nat /\ i \in Nat /\ i >= 1 /\ i <= L
  BY <1>0
<1>1. /\ IsTimer(U) /\ Len(U.q) = L - 1 /\ ToSet(U.q) = ToSet(T.q) \ {t}
      /\ \A j \in 1..(i-1) : U.q[j] = T.q[j]
      /\ \A j \in i..(L-1) : U.q[j] = T.q[j+1]
      /\ \A u \in Threads : U.v[u] = IF u = t THEN 0
                                     ELSE IF i > 1 /\ u = T.q[i-1] THEN T.v[u] + T.v[t] ELSE T.v[u]
      /\ U.tick = IF i > 1 THEN T.tick ELSE IF L = 1 THEN 0 ELSE T.tick + T.v[t]
  BY <1>l, <1>t, DequeueShape DEF U, i
<1>2. \A j \in 1..(L-1) : Expiry(U, j) = IF j < i THEN Expiry(T, j) ELSE Expiry(T, j+1)
  BY <1>l, <1>t, DequeueExpiries DEF U, i
<1>3. /\ Expiry(T, 1) = T.tick
      /\ \A j \in 1..L : Expiry(T, j+1) = Expiry(T, j) + T.v[T.q[j]]
      /\ \A j \in 1..(L+1) : Expiry(T, j) \in Nat
  BY <1>0, <1>l, <1>t, ExpirySums
<1>4. /\ T.tick <= MaxTicks /\ Expiry(T, L+1) <= MaxTicks + 1
      /\ \A j \in 1..L : Expiry(T, j) <= MaxTicks
      /\ \A u \in Threads : T.v[u] \in Nat /\ T.v[u] <= MaxTicks + 1
      /\ T.tick \in Nat
  BY <1>l DEF TimerOK, IsTimer
<1>5. \A j \in 1..(L-1) : Expiry(U, j) <= MaxTicks
  <2>1. \A j \in 1..(L-1) : j \in 1..L /\ j + 1 \in 1..L
    BY <1>0
  <2> QED BY <1>2, <1>4, <2>1
<1>6. U.tick <= MaxTicks
  <2>1. CASE i > 1 \/ L = 1
    BY <1>0, <1>1, <1>4, <2>1
  <2>2. CASE i = 1 /\ L > 1
    <3>1. i = 1 /\ 1 \in 1..L /\ 1 + 1 \in 1..L
      BY <1>i, <2>2
    <3>2. Expiry(T, 1 + 1) = T.tick + T.v[t]
      BY <1>0, <1>3, <3>1
    <3>3. ~(i > 1)
      BY <1>i, <2>2
    <3>4. ~(L = 1)
      BY <1>i, <2>2
    <3> QED BY <1>1, <1>4, <3>1, <3>2, <3>3, <3>4
  <2> QED BY <1>i, <2>1, <2>2
<1>7. \A u \in Threads : U.v[u] <= MaxTicks + 1
  <2> TAKE u \in Threads
  <2>1. CASE u # t /\ i > 1 /\ u = T.q[i-1]
    <3>1. i - 1 \in 1..L /\ (i - 1) + 1 = i /\ i \in 1..L /\ i - 1 \in 1..(L+1) /\ i + 1 \in 1..(L+1)
      BY <1>0, <2>1
    <3>2. Expiry(T, i) = Expiry(T, i-1) + T.v[u] /\ Expiry(T, i+1) = Expiry(T, i) + T.v[t]
      BY <1>0, <1>3, <2>1, <3>1
    <3>3. U.v[u] = T.v[u] + T.v[t]
      BY <1>1, <2>1
    <3>4. Expiry(T, i+1) <= MaxTicks + 1
      <4>1. i = L \/ i + 1 \in 1..L
        BY <1>0
      <4>2. i + 1 \in 1..L => Expiry(T, i+1) <= MaxTicks /\ Expiry(T, i+1) \in Nat
        BY <1>3, <1>4, <3>1
      <4> QED BY <1>0, <1>4, <4>1, <4>2
    <3>5. Expiry(T, i-1) \in Nat /\ T.v[u] \in Nat /\ T.v[t] \in Nat
      BY <1>0, <1>3, <1>4, <3>1
    <3> QED BY <1>0, <3>2, <3>3, <3>4, <3>5
  <2>2. CASE u = t
    BY <1>0, <1>1, <2>2
  <2>3. CASE u # t /\ ~(i > 1 /\ u = T.q[i-1])
    BY <1>1, <1>4, <2>3
  <2> QED BY <2>1, <2>2, <2>3
<1>8. Expiry(U, L) <= MaxTicks + 1
  <2>1. CASE L = 1
    <3>1. Expiry(U, 1) = U.tick
      <4>1. Len(U.q) \in Nat
        BY <1>1, Entries
      <4> QED BY <1>1, <4>1, ExpirySums
    <3> QED BY <1>0, <1>6, <2>1, <3>1, <1>1 DEF IsTimer
  <2>2. CASE L > 1
    <3>1. L - 1 \in Nat /\ L - 1 \in 1..(L-1) /\ (L - 1) + 1 = L /\ L \in 1..L /\ L - 1 \in 1..L
      BY <1>i, <2>2
    <3>2. Expiry(U, (L - 1) + 1) = Expiry(U, L - 1) + U.v[U.q[L-1]]
      BY <1>1, <3>1, ExpirySums
    <3>3. Expiry(T, L) = Expiry(T, L-1) + T.v[T.q[L-1]] /\ Expiry(T, L+1) = Expiry(T, L) + T.v[T.q[L]]
      BY <1>3, <3>1
    <3>4. CASE i = L
      <4>1. L - 1 < i /\ L - 1 \in 1..(i-1) /\ i > 1 /\ L - 1 = i - 1 /\ L - 1 # L
        BY <1>0, <3>1, <3>4
      <4>2. U.q[L-1] = T.q[L-1] /\ Expiry(U, L-1) = Expiry(T, L-1) /\ T.q[L-1] # t
        BY <1>0, <1>1, <1>2, <3>1, <3>4, <4>1
      <4>3. U.v[T.q[L-1]] = T.v[T.q[L-1]] + T.v[T.q[L]]
        BY <1>0, <1>1, <3>1, <3>4, <4>1, <4>2
      <4>4. T.v[T.q[L-1]] \in Nat /\ T.v[T.q[L]] \in Nat /\ Expiry(T, L-1) \in Nat
        <5>1. L - 1 \in 1..(L+1)
          BY <1>0, <3>1
        <5> QED BY <1>0, <1>3, <1>4, <3>1, <5>1
      <4>5. Expiry(U, L) = Expiry(T, L+1)
        BY <3>1, <3>2, <3>3, <4>2, <4>3, <4>4
      <4> QED BY <1>4, <4>5
    <3>5. CASE i # L
      <4>1. ~(L - 1 < i) /\ L - 1 \in i..(L-1) /\ L # i - 1
        BY <1>0, <3>1, <3>5
      <4>2. U.q[L-1] = T.q[L] /\ Expiry(U, L-1) = Expiry(T, L)
        BY <1>1, <1>2, <3>1, <4>1
      <4>3. U.v[T.q[L]] = T.v[T.q[L]]
        <5>1. T.q[L] # t /\ (i > 1 => T.q[L] # T.q[i-1])
          <6>1. i > 1 => i - 1 \in 1..L
            BY <1>0
          <6> QED BY <1>0, <3>1, <3>5, <4>1, <6>1
        <5> QED BY <1>0, <1>1, <3>1, <5>1
      <4>4. Expiry(U, L) = Expiry(T, L+1)
        BY <3>1, <3>2, <3>3, <4>2, <4>3
      <4> QED BY <1>4, <4>4
    <3> QED BY <3>4, <3>5
  <2>3. ASSUME ~(L > 1) PROVE L = 1
    BY <1>i, <2>3
  <2> QED BY <2>1, <2>2, <2>3
<1>9. TimerOK(U)
  <2>1. (L - 1) + 1 = L
    BY <1>0
  <2> QED BY <1>1, <1>5, <1>6, <1>7, <1>8, <2>1 DEF TimerOK
<1>10. ASSUME NEW u \in Threads PROVE Left(U)[u] = IF u = t THEN -1 ELSE Left(T)[u]
  <2>1. CASE u = t \/ u \notin ToSet(T.q)
    BY <1>1, <2>1 DEF Left
  <2>2. CASE u # t /\ u \in ToSet(T.q)
    <3>1. PICK k \in 1..L : T.q[k] = u /\ Left(T)[u] = Expiry(T, k)
      BY <1>l, <1>t, <2>2, LeftOf
    <3>2. CASE k < i
      <4>1. k \in 1..(i-1) /\ k \in 1..(L-1)
        BY <1>0, <3>2
      <4>2. U.q[k] = u /\ Expiry(U, k) = Left(T)[u]
        BY <1>1, <1>2, <3>1, <3>2, <4>1
      <4>3. Left(U)[u] = Expiry(U, k)
        BY <1>1, <4>1, <4>2, LeftAt
      <4> QED BY <2>2, <4>2, <4>3
    <3>3. CASE ~(k < i)
      <4>1. k # i
        BY <1>0, <2>2, <3>1
      <4>2. k - 1 \in i..(L-1) /\ k - 1 \in 1..(L-1) /\ (k - 1) + 1 = k /\ ~(k - 1 < i)
        BY <1>0, <3>3, <4>1
      <4>3. U.q[k-1] = u /\ Expiry(U, k-1) = Left(T)[u]
        BY <1>1, <1>2, <3>1, <4>2
      <4>4. Left(U)[u] = Expiry(U, k-1)
        BY <1>1, <4>2, <4>3, LeftAt
      <4> QED BY <2>2, <4>3, <4>4
    <3> QED BY <3>2, <3>3
  <2> QED BY <2>1, <2>2
<1>11. Left(U) = [Left(T) EXCEPT ![t] = -1]
  BY <1>10 DEF Left
<1>12. U.q = << >> => U.tick = 0
  <2>1. U.q = << >> => L = 1
    BY <1>0, <1>1
  <2> QED BY <1>0, <1>1, <2>1
<1>13. T.tick > 0 /\ U.q # << >> => U.tick > 0
  <2>1. U.q # << >> => L # 1
    BY <1>0, <1>1, Entries
  <2> QED BY <1>0, <1>1, <1>4, <2>1
<1>14. \A u \in Threads \ ToSet(T.q) : U.v[u] = T.v[u]
  <2>1. i > 1 => i - 1 \in 1..L
    BY <1>0
  <2> QED BY <1>0, <1>1, <2>1
<1>15. Remained(T, t) \in 0..MaxTicks
  <2>1. i \in 1..(L+1)
    BY <1>0
  <2> QED BY <1>0, <1>3, <1>4, <2>1 DEF Remained, i
<1> QED BY <1>1, <1>9, <1>11, <1>12, <1>13, <1>14, <1>15 DEF U

-----------------------------------------------------------------------------
\* What chx_timer_expired pops: the head, and the entries that follow without a gap.
LEMMA PoppedIs ==
  ASSUME NEW T, IsTimer(T), T.q # << >>, NEW L, L = Len(T.q)
  PROVE  /\ Popped(T) \in 1..L /\ (Popped(T) = L \/ T.v[T.q[Popped(T)]] # 0)
         /\ \A j \in 1..(Popped(T) - 1) : T.v[T.q[j]] = 0
<1> DEFINE N == {j \in 1..L : j = L \/ T.v[T.q[j]] # 0}
           P(k) == /\ k = Len(T.q) \/ T.v[T.q[k]] # 0
                   /\ \A j \in 1..(k-1) : T.v[T.q[j]] = 0
<1>0. L \in Nat /\ L > 0 /\ DOMAIN T.q = 1..L
  BY Entries
<1>1. PICK k \in N : \A m \in N : k <= m
  <2>1. N \in SUBSET Nat /\ L \in N
    BY <1>0
  <2> HIDE DEF N
  <2> QED BY <2>1, LeastNat
<1>2. k \in 1..L /\ (k = L \/ T.v[T.q[k]] # 0)
  OBVIOUS
<1>3. \A j \in 1..(k-1) : T.v[T.q[j]] = 0
  <2> TAKE j \in 1..(k-1)
  <2>1. j \in 1..L /\ j # L /\ ~(k <= j)
    BY <1>0, <1>2
  <2> QED BY <1>1, <2>1
<1>4. \E x \in DOMAIN T.q : P(x)
  BY <1>0, <1>2, <1>3
<1>5. Popped(T) = CHOOSE x \in DOMAIN T.q : P(x)
  BY DEF Popped
<1>6. Popped(T) \in DOMAIN T.q /\ P(Popped(T))
  <2> HIDE DEF P
  <2> QED BY <1>4, <1>5
<1> QED BY <1>0, <1>6

\* The entries it pops expire now, and those it leaves later.
LEMMA PoppedExpire ==
  ASSUME NEW T, IsTimer(T), T.q # << >>, NEW L, L = Len(T.q)
  PROVE  /\ \A j \in 1..Popped(T) : Expiry(T, j) = T.tick
         /\ \A j \in (Popped(T)+1)..L : Expiry(T, j) > T.tick
<1> DEFINE k == Popped(T)
           N == {j \in 1..k : Expiry(T, j) # T.tick}
<1>0. L \in Nat /\ \A j \in 1..L : T.v[T.q[j]] \in Nat
  BY Entries DEF IsTimer
<1>1. /\ k \in 1..L /\ (k = L \/ T.v[T.q[k]] # 0)
      /\ \A j \in 1..(k - 1) : T.v[T.q[j]] = 0
  BY PoppedIs
<1>2. /\ Expiry(T, 1) = T.tick
      /\ \A j \in 1..L : Expiry(T, j+1) = Expiry(T, j) + T.v[T.q[j]]
      /\ \A j \in 1..(L+1) : Expiry(T, j) \in Nat
  BY <1>0, ExpirySums
<1> HIDE DEF k
<1>3. N = {}
  <2> SUFFICES ASSUME N # {} PROVE FALSE
    OBVIOUS
  <2>1. PICK m \in N : \A x \in N : m <= x
    <3>1. N \in SUBSET Nat
      BY <1>0, <1>1
    <3> HIDE DEF N
    <3> QED BY <3>1, LeastNat
  <2>2. m \in 1..k /\ Expiry(T, m) # T.tick /\ m # 1
    BY <1>2
  <2>3. m - 1 \in 1..(k-1) /\ m - 1 \in 1..k /\ m - 1 \in 1..L /\ (m - 1) + 1 = m /\ ~(m <= m - 1)
    BY <1>0, <1>1, <2>2
  <2>4. Expiry(T, m - 1) = T.tick
    BY <2>1, <2>3
  <2>5. Expiry(T, m) = Expiry(T, m - 1) + 0
    BY <1>1, <1>2, <2>3
  <2>6. m - 1 \in 1..(L+1)
    BY <1>0, <2>3
  <2> QED BY <1>2, <2>2, <2>4, <2>5, <2>6
<1>4. \A j \in 1..k : Expiry(T, j) = T.tick
  BY <1>3
<1>5. \A j \in (k+1)..L : Expiry(T, j) > T.tick
  <2> TAKE j \in (k+1)..L
  <2>1. /\ k \in 1..k /\ k + 1 \in 1..(L+1) /\ j \in 1..(L+1) /\ k + 1 <= j /\ k # L /\ k \in 1..L
        /\ k \in 1..(L+1)
    BY <1>0, <1>1
  <2>2. Expiry(T, k+1) <= Expiry(T, j)
    BY <1>0, <2>1, ExpiryMonotone
  <2>3. Expiry(T, k+1) = T.tick + T.v[T.q[k]] /\ T.v[T.q[k]] \in Nat /\ T.v[T.q[k]] # 0
    BY <1>0, <1>1, <1>2, <1>4, <2>1
  <2>4. T.tick \in Nat /\ Expiry(T, j) \in Nat
    BY <1>2, <2>1 DEF IsTimer
  <2> QED BY <2>2, <2>3, <2>4
<1> QED BY <1>4, <1>5 DEF k

\* The threads of the first k places.
FirstOf(s, k, first) == \A x : x \in first <=> \E j \in 1..k : x = s[j]

\* U is the list that stays of T, L entries long, when the first k are gone: its expiries are
\* as they were but for the ticks the head has counted.
ExpiredTo(T, U, L, k, gone) ==
  /\ IsTimer(U) /\ Len(U.q) = L - k
  /\ \A j \in 1..(L-k) : U.q[j] = T.q[k+j]
  /\ ToSet(U.q) = ToSet(T.q) \ gone
  /\ \A u \in Threads : U.v[u] = IF u \in gone THEN 0 ELSE T.v[u]
  /\ U.tick = IF k < L THEN T.v[T.q[k]] ELSE T.tick
  /\ \A j \in 1..(L-k) : Expiry(U, j) = Expiry(T, k+j) - T.tick

\* chx_timer_expired leaves the list without its first k entries, and with their ->v cleared.
LEMMA ExpiredShape ==
  ASSUME NEW T, IsTimer(T), T.q # << >>, NEW L, L = Len(T.q), NEW k, k = Popped(T),
         NEW U, U = Expired(T),
         NEW gone, FirstOf(T.q, k, gone)
  PROVE  ExpiredTo(T, U, L, k, gone)
<1>0. /\ L \in Nat /\ DOMAIN T.q = 1..L /\ T.q \in Seq(Threads)
      /\ \A j \in 1..L : T.q[j] \in Threads
      /\ \A i, j \in 1..L : T.q[i] = T.q[j] => i = j
  BY Entries DEF IsTimer
<1>1. k \in 1..L /\ (k = L \/ T.v[T.q[k]] # 0)
  BY PoppedIs
<1>2. /\ U.q = SubSeq(T.q, k + 1, L)
      /\ U.v = [u \in Threads |-> IF u \in gone THEN 0 ELSE T.v[u]]
      /\ U.tick = IF k < L THEN T.v[T.q[k]] ELSE T.tick
      /\ U = [q |-> U.q, v |-> U.v, tick |-> U.tick]
  <2>1. gone = {T.q[j] : j \in 1..k}
    BY DEF FirstOf
  <2> QED BY <2>1 DEF Expired
<1>u. U.tick = IF k < L THEN T.v[T.q[k]] ELSE T.tick
  BY <1>2
<1>3. /\ SubSeq(T.q, k + 1, L) \in Seq(Threads) /\ Len(SubSeq(T.q, k + 1, L)) = L - k
      /\ \A j \in 1..(L-k) : SubSeq(T.q, k + 1, L)[j] = T.q[k+j]
  <2> DEFINE s == T.q
  <2>1. s \in Seq(Threads) /\ k + 1 \in 1..(L+1) /\ L = Len(s) /\ k \in Nat /\ L \in Nat
    BY <1>0, <1>1
  <2> HIDE DEF s
  <2>2. SubSeq(s, k + 1, L) \in Seq(Threads) /\ Len(SubSeq(s, k + 1, L)) = L - k
    BY <1>1, <2>1
  <2>3. \A j \in 1..(L-k) : SubSeq(s, k + 1, L)[j] = s[k+j]
    BY <1>1, <2>1
  <2> QED BY <2>2, <2>3 DEF s
<1>4. U.q \in Seq(Threads) /\ Len(U.q) = L - k /\ \A j \in 1..(L-k) : U.q[j] = T.q[k+j]
  BY <1>2, <1>3
<1>5. DOMAIN U.q = 1..(L-k)
  BY <1>4, LenProperties
<1>6. ToSet(U.q) = ToSet(T.q) \ gone
  <2>1. ToSet(U.q) = {U.q[j] : j \in 1..(L-k)} /\ ToSet(T.q) = {T.q[j] : j \in 1..L}
    BY <1>0, <1>5 DEF ToSet
  <2>2. ASSUME NEW j \in 1..(L-k) PROVE U.q[j] \in ToSet(T.q) /\ U.q[j] \notin gone
    <3>1. k + j \in 1..L /\ \A i \in 1..k : i \in 1..L /\ i # k + j
      BY <1>0, <1>1
    <3>2. U.q[j] = T.q[k+j] /\ \A i \in 1..k : T.q[i] # T.q[k+j]
      BY <1>0, <1>4, <3>1
    <3> QED BY <2>1, <3>1, <3>2 DEF FirstOf
  <2>3. ASSUME NEW i \in 1..L, T.q[i] \notin gone PROVE T.q[i] \in ToSet(U.q)
    <3>1. i \notin 1..k
      BY <2>3 DEF FirstOf
    <3>2. i - k \in 1..(L-k) /\ k + (i - k) = i
      BY <1>0, <1>1, <3>1
    <3>3. U.q[i-k] = T.q[i]
      BY <1>4, <3>2
    <3> QED BY <2>1, <3>2, <3>3
  <2> QED BY <2>1, <2>2, <2>3
<1>7. IsTimer(U)
  <2>1. \A u \in Threads : T.v[u] \in Nat /\ T.tick \in Nat
    BY DEF IsTimer
  <2>2. T.tick \in Nat
    BY DEF IsTimer
  <2>3. U.v \in [Threads -> Nat]
    BY <1>2, <2>1
  <2>4. U.tick \in Nat
    BY <1>0, <1>1, <1>2, <2>1, <2>2
  <2>5. \A i, j \in 1..(L-k) : U.q[i] = U.q[j] => i = j
    <3> TAKE i, j \in 1..(L-k)
    <3>1. k + i \in 1..L /\ k + j \in 1..L /\ (k + i = k + j => i = j)
      BY <1>0, <1>1, SMTT(60), ZenonT(60)
    <3> QED BY <1>0, <1>4, <3>1
  <2>6. \A u \in Threads : Once(U.q, u)
    BY <1>5, <2>5 DEF Once
  <2> QED BY <1>2, <1>4, <2>3, <2>4, <2>6 DEF IsTimer
<1>8. /\ Expiry(T, 1) = T.tick
      /\ \A j \in 1..L : Expiry(T, j+1) = Expiry(T, j) + T.v[T.q[j]]
      /\ \A j \in 1..(L+1) : Expiry(T, j) \in Nat
  BY <1>0, ExpirySums
<1>9. \A j \in 1..(L-k) : Expiry(U, j) = Expiry(T, k+j) - T.tick
  <2> SUFFICES ASSUME L - k > 0 PROVE \A j \in 1..(L-k) : Expiry(U, j) = Expiry(T, k+j) - T.tick
    BY <1>0, <1>1
  <2> DEFINE g == [j \in 1..(L-k) |-> Expiry(T, k+j) - T.tick]
  <2>0. T.tick \in Nat /\ k < L
    BY <1>0, <1>1 DEF IsTimer
  <2>1. g[1] = U.tick
    <3>1. 1 \in 1..(L-k) /\ k \in 1..L /\ k \in 1..k
      BY <1>0, <1>1
    <3>2. Expiry(T, k+1) = T.tick + T.v[T.q[k]]
      BY <1>8, <3>1, PoppedExpire
    <3>3. T.v[T.q[k]] \in Nat
      BY <1>0, <1>1 DEF IsTimer
    <3>4. g[1] = Expiry(T, k+1) - T.tick
      BY <3>1
    <3> HIDE DEF g
    <3> QED BY <1>u, <2>0, <3>2, <3>3, <3>4
  <2>2. ASSUME NEW j \in 1..((L-k)-1) PROVE g[j+1] = g[j] + U.v[U.q[j]]
    <3>1. /\ j \in 1..(L-k) /\ j + 1 \in 1..(L-k) /\ k + j \in 1..L /\ k + (j + 1) = (k + j) + 1
          /\ (k + j) + 1 \in 1..(L+1) /\ k + j \in 1..(L+1)
          /\ \A i \in 1..k : i \in 1..L /\ i # k + j
      <4>1. L \in Nat /\ k \in Nat /\ 1 <= k /\ j \in Nat /\ 1 <= j /\ k + j + 1 <= L
        BY <1>0, <1>1
      <4>2. \A i \in 1..k : i \in 1..L /\ i # k + j
        BY <4>1
      <4> QED BY <4>1, <4>2, SMTT(60), ZenonT(60)
    <3>2. U.q[j] = T.q[k+j] /\ T.q[k+j] \notin gone /\ T.q[k+j] \in Threads
      <4>1. \A i \in 1..k : T.q[i] # T.q[k+j]
        BY <1>0, <3>1
      <4>2. T.q[k+j] \notin gone
        BY <4>1 DEF FirstOf
      <4> QED BY <1>0, <1>4, <3>1, <4>2
    <3>3. U.v[U.q[j]] = T.v[T.q[k+j]]
      BY <1>2, <3>2, ZenonT(60)
    <3>4. Expiry(T, (k+j)+1) = Expiry(T, k+j) + T.v[T.q[k+j]]
      BY <1>8, <3>1
    <3>5. Expiry(T, k+j) \in Nat /\ T.v[T.q[k+j]] \in Nat
      BY <1>8, <3>1, <3>2 DEF IsTimer
    <3>6. g[j] = Expiry(T, k+j) - T.tick /\ g[j+1] = Expiry(T, (k+j)+1) - T.tick
      BY <3>1
    <3> HIDE DEF g
    <3> QED BY <2>0, <3>3, <3>4, <3>5, <3>6
  <2>3. \A j \in 1..(L-k) : g[j] = Expiry(T, k+j) - T.tick
    OBVIOUS
  <2> HIDE DEF g
  <2>4. Len(U.q) > 0 /\ \A j \in 1..(Len(U.q)-1) : g[j+1] = g[j] + U.v[U.q[j]]
    BY <1>4, <2>2
  <2>5. \A j \in 1..Len(U.q) : Expiry(U, j) = g[j]
    BY ONLY <1>7, <2>1, <2>4, ExpiryKnown
  <2> QED BY <1>4, <2>3, <2>5
<1>10. \A u \in Threads : U.v[u] = IF u \in gone THEN 0 ELSE T.v[u]
  BY <1>2
<1> QED BY <1>u, <1>4, <1>6, <1>7, <1>9, <1>10 DEF ExpiredTo

\* The threads in gone, who were due in the list T, are not in U, and the time till then is over.
JumpTo(T, U, gone) ==
  /\ TimerOK(U) /\ ToSet(U.q) = ToSet(T.q) \ gone /\ gone \subseteq ToSet(T.q)
  /\ gone = {u \in Threads : Left(T)[u] = T.tick} /\ gone # {}
  /\ Left(U) = [u \in Threads |-> IF Left(T)[u] > T.tick THEN Left(T)[u] - T.tick ELSE -1]
  /\ U.q # << >> => U.tick > 0
  /\ U.q = << >> => U.tick = T.tick
  /\ \A u \in Threads : U.v[u] = IF u \in gone THEN 0 ELSE T.v[u]
  /\ \A u \in ToSet(T.q) : Left(T)[u] >= T.tick

\* chx_timer_expired takes out those who are due, and all the others go on by as much.
LEMMA ExpiredTimer ==
  ASSUME NEW T, TimerOK(T), T.q # << >>, NEW gone, FirstOf(T.q, Popped(T), gone),
         NEW U, U = Expired(T)
  PROVE  JumpTo(T, U, gone)
<1>t. IsTimer(T) /\ T.tick \in Nat
  BY DEF TimerOK, IsTimer
<1>l. PICK L, k : L = Len(T.q) /\ k = Popped(T)
  OBVIOUS
<1>0. /\ L \in Nat /\ MaxTicks \in Nat
      /\ \A j \in 1..L : T.q[j] \in Threads /\ T.q[j] \in ToSet(T.q)
      /\ \A i, j \in 1..L : T.q[i] = T.q[j] => i = j
  BY <1>t, <1>l, Entries, MaxTicksNat
<1>1. k \in 1..L /\ (k = L \/ T.v[T.q[k]] # 0)
  BY <1>t, <1>l, PoppedIs
<1>2. /\ \A j \in 1..k : Expiry(T, j) = T.tick
      /\ \A j \in (k+1)..L : Expiry(T, j) > T.tick
  BY <1>t, <1>l, PoppedExpire
<1>3. FirstOf(T.q, k, gone)
  BY <1>l
<1>4. /\ IsTimer(U) /\ Len(U.q) = L - k
      /\ \A j \in 1..(L-k) : U.q[j] = T.q[k+j]
      /\ ToSet(U.q) = ToSet(T.q) \ gone
      /\ \A u \in Threads : U.v[u] = IF u \in gone THEN 0 ELSE T.v[u]
      /\ U.tick = IF k < L THEN T.v[T.q[k]] ELSE T.tick
      /\ \A j \in 1..(L-k) : Expiry(U, j) = Expiry(T, k+j) - T.tick
  <2>1. IsTimer(T) /\ T.q # << >> /\ U = Expired(T)
    BY <1>t
  <2>2. ExpiredTo(T, U, L, k, gone)
    BY ONLY <2>1, <1>l, <1>3, ExpiredShape
  <2> QED BY ONLY <2>2 DEF ExpiredTo
<1>5. /\ Expiry(T, 1) = T.tick
      /\ \A j \in 1..L : Expiry(T, j+1) = Expiry(T, j) + T.v[T.q[j]]
      /\ \A j \in 1..(L+1) : Expiry(T, j) \in Nat
  BY <1>0, <1>l, <1>t, ExpirySums
<1>6. /\ T.tick <= MaxTicks /\ Expiry(T, L+1) <= MaxTicks + 1
      /\ \A j \in 1..L : Expiry(T, j) <= MaxTicks
      /\ \A u \in Threads : T.v[u] \in Nat /\ T.v[u] <= MaxTicks + 1
  BY <1>l DEF TimerOK, IsTimer
<1>7. \A u \in Threads : u \in gone <=> Left(T)[u] = T.tick
  <2> TAKE u \in Threads
  <2>1. CASE u \notin ToSet(T.q)
    <3>1. Left(T)[u] = -1
      BY <1>t, <2>1, LeftOf
    <3>2. u \notin gone
      <4>1. \A j \in 1..k : j \in 1..L
        BY <1>0, <1>1
      <4>2. \A j \in 1..k : T.q[j] # u
        BY <1>0, <2>1, <4>1
      <4> QED BY <1>3, <4>2 DEF FirstOf
    <3> QED BY <1>t, <3>1, <3>2
  <2>2. CASE u \in ToSet(T.q)
    <3>1. PICK j \in 1..L : T.q[j] = u /\ Left(T)[u] = Expiry(T, j)
      BY <1>l, <1>t, <2>2, LeftOf
    <3>2. CASE j <= k
      <4>1. j \in 1..k
        BY <1>0, <1>1, <3>2
      <4> QED BY <1>2, <1>3, <3>1, <4>1 DEF FirstOf
    <3>3. CASE ~(j <= k)
      <4>1. j \in (k+1)..L /\ j \in 1..(L+1) /\ \A i \in 1..k : i \in 1..L /\ i # j
        BY <1>0, <1>1, <3>3
      <4>2. Expiry(T, j) > T.tick /\ Expiry(T, j) \in Nat
        BY <1>2, <1>5, <4>1
      <4>3. u \notin gone
        <5>1. \A i \in 1..k : T.q[i] # u
          BY <1>0, <3>1, <4>1
        <5> QED BY <1>3, <5>1 DEF FirstOf
      <4> QED BY <1>t, <3>1, <4>2, <4>3
    <3> QED BY <3>2, <3>3
  <2> QED BY <2>1, <2>2
<1>8. gone \subseteq ToSet(T.q) /\ gone \subseteq Threads /\ gone # {}
  <2>1. \A j \in 1..k : j \in 1..L
    BY <1>0, <1>1
  <2>2. 1 \in 1..k
    BY <1>0, <1>1
  <2>3. \A u \in gone : \E j \in 1..L : u = T.q[j]
    BY <1>3, <2>1 DEF FirstOf
  <2>4. T.q[1] \in gone
    BY <1>3, <2>2 DEF FirstOf
  <2> QED BY <1>0, <2>3, <2>4
<1>9. gone = {u \in Threads : Left(T)[u] = T.tick}
  BY <1>7, <1>8
<1>10. ASSUME NEW u \in ToSet(T.q) PROVE u \in Threads /\ Left(T)[u] \in Nat /\ Left(T)[u] >= T.tick
  <2>1. u \in Threads
    BY <1>t, PlaceIs
  <2>2. PICK j \in 1..L : T.q[j] = u /\ Left(T)[u] = Expiry(T, j)
    BY <1>l, <1>t, <2>1, LeftOf
  <2>3. 1 \in 1..(L+1) /\ j \in 1..(L+1) /\ 1 <= j
    BY <1>0
  <2>4. Expiry(T, 1) <= Expiry(T, j)
    BY <1>0, <1>l, <1>t, <2>3, ExpiryMonotone
  <2> QED BY <1>t, <1>5, <2>1, <2>2, <2>3, <2>4
<1>11. ASSUME NEW u \in Threads
       PROVE  Left(U)[u] = IF Left(T)[u] > T.tick THEN Left(T)[u] - T.tick ELSE -1
  <2>1. CASE u \notin ToSet(T.q)
    <3>1. Left(T)[u] = -1 /\ Left(U)[u] = -1
      BY <1>t, <1>4, <2>1, LeftOf
    <3> QED BY <1>t, <3>1
  <2>2. CASE u \in gone
    <3>1. Left(T)[u] = T.tick /\ Left(U)[u] = -1
      BY <1>4, <1>7, <2>2, LeftOf
    <3> QED BY <1>t, <3>1
  <2>3. CASE u \in ToSet(T.q) \ gone
    <3>1. Left(T)[u] > T.tick
      BY <1>t, <1>7, <1>10, <2>3
    <3>2. PICK j \in 1..(L-k) : U.q[j] = u /\ Left(U)[u] = Expiry(U, j)
      BY <1>4, <2>3, LeftOf
    <3>3. k + j \in 1..L
      BY <1>0, <1>1
    <3>4. T.q[k+j] = u /\ Expiry(U, j) = Expiry(T, k+j) - T.tick
      BY <1>4, <3>2
    <3>5. Left(T)[u] = Expiry(T, k+j)
      BY <1>l, <1>t, <3>3, <3>4, LeftAt
    <3> QED BY <3>1, <3>2, <3>4, <3>5
  <2> QED BY <2>1, <2>2, <2>3
<1>12. Left(U) = [u \in Threads |-> IF Left(T)[u] > T.tick THEN Left(T)[u] - T.tick ELSE -1]
  BY <1>11 DEF Left
<1>13. U.q # << >> => U.tick > 0
  <2> SUFFICES ASSUME U.q # << >> PROVE U.tick > 0
    OBVIOUS
  <2>1. Len(U.q) \in Nat /\ ~(Len(U.q) = 0)
    BY <1>4, Entries
  <2>2. k # L
    BY <1>0, <1>4, <2>1
  <2>3. k < L /\ T.v[T.q[k]] \in Nat /\ T.v[T.q[k]] # 0
    BY <1>0, <1>1, <1>6, <2>2
  <2> QED BY <1>4, <2>3
<1>14. U.q = << >> => U.tick = T.tick
  <2>1. U.q = << >> => Len(U.q) = 0
    OBVIOUS
  <2> QED BY <1>0, <1>1, <1>4, <2>1
<1>15. U.tick <= MaxTicks
  <2>1. CASE k < L
    <3>1. k \in 1..L /\ k + 1 \in 1..L /\ k \in 1..k
      BY <1>0, <1>1, <2>1
    <3>2. Expiry(T, k+1) = T.tick + T.v[T.q[k]] /\ Expiry(T, k+1) <= MaxTicks /\ T.v[T.q[k]] \in Nat
      BY <1>0, <1>2, <1>5, <1>6, <3>1
    <3> QED BY <1>0, <1>t, <1>4, <2>1, <3>2
  <2>2. CASE ~(k < L)
    BY <1>4, <1>6, <2>2
  <2> QED BY <2>1, <2>2
<1>16. \A u \in Threads : U.v[u] <= MaxTicks + 1
  <2> TAKE u \in Threads
  <2>1. U.v[u] = 0 \/ U.v[u] = T.v[u]
    BY <1>4
  <2> QED BY <1>0, <1>6, <2>1
<1>17. \A j \in 1..(L-k) : Expiry(U, j) <= MaxTicks
  <2> TAKE j \in 1..(L-k)
  <2>1. k + j \in 1..L /\ k + j \in 1..(L+1)
    BY <1>0, <1>1
  <2>2. Expiry(T, k+j) <= MaxTicks /\ Expiry(T, k+j) \in Nat
    BY <1>5, <1>6, <2>1
  <2>3. Expiry(U, j) = Expiry(T, k+j) - T.tick
    BY <1>4
  <2> QED BY <1>0, <1>t, <2>2, <2>3
<1>18. Expiry(U, (L-k)+1) <= MaxTicks + 1
  <2>1. CASE k = L
    <3>1. (L-k)+1 = 1 /\ Len(U.q) = 0 /\ 0 \in Nat
      BY <1>0, <1>4, <2>1
    <3>2. Expiry(U, 1) = U.tick
      BY <1>4, <3>1, ExpirySums
    <3>3. U.tick \in Nat
      BY <1>4 DEF IsTimer
    <3> QED BY <1>0, <1>15, <3>1, <3>2, <3>3
  <2>2. CASE k # L
    <3>1. /\ L - k \in Nat /\ L - k \in 1..(L-k) /\ k + (L - k) = L /\ L \in 1..L /\ L \in 1..(L+1)
          /\ L + 1 \in 1..(L+1) /\ \A i \in 1..k : i \in 1..L /\ i # L
      BY <1>0, <1>1, <2>2
    <3>2. Expiry(U, (L-k)+1) = Expiry(U, L-k) + U.v[U.q[L-k]]
      BY <1>4, <3>1, ExpirySums
    <3>3. U.q[L-k] = T.q[L] /\ Expiry(U, L-k) = Expiry(T, L) - T.tick
      BY <1>4, <3>1
    <3>4. T.q[L] \notin gone /\ T.q[L] \in Threads
      BY <1>0, <1>3, <3>1 DEF FirstOf
    <3>5. U.v[T.q[L]] = T.v[T.q[L]] /\ T.v[T.q[L]] \in Nat
      BY <1>4, <1>6, <3>4
    <3>6. Expiry(T, L+1) = Expiry(T, L) + T.v[T.q[L]] /\ Expiry(T, L) \in Nat
      BY <1>5, <3>1
    <3> QED BY <1>0, <1>t, <1>6, <3>2, <3>3, <3>5, <3>6, SMTT(60), ZenonT(60)
  <2> QED BY <2>1, <2>2
<1>19. TimerOK(U)
  BY <1>4, <1>15, <1>16, <1>17, <1>18 DEF TimerOK
<1> QED BY <1>4, <1>8, <1>9, <1>10, <1>12, <1>13, <1>14, <1>19 DEF JumpTo

-----------------------------------------------------------------------------
\* The result left in ->v of a thread that is not in the list changes nothing in the list.
LEMMA ResultTimer ==
  ASSUME NEW T, TimerOK(T), NEW t \in Threads, t \notin ToSet(T.q), NEW n \in 0..(MaxTicks + 1),
         NEW U, U = [T EXCEPT !.v[t] = n]
  PROVE  /\ TimerOK(U) /\ U.q = T.q /\ U.tick = T.tick /\ Left(U) = Left(T)
         /\ \A u \in Threads : u # t => U.v[u] = T.v[u]
<1>t. IsTimer(T) /\ T.tick \in Nat /\ MaxTicks \in Nat
  BY MaxTicksNat DEF TimerOK, IsTimer
<1>l. PICK L : L = Len(T.q)
  OBVIOUS
<1>0. /\ L \in Nat
      /\ \A j \in 1..L : T.q[j] \in Threads /\ T.q[j] \in ToSet(T.q)
      /\ (T.q = << >> <=> L = 0)
  BY <1>t, <1>l, Entries
<1>1. U.q = T.q /\ U.tick = T.tick /\ U.v = [T.v EXCEPT ![t] = n] /\ U = [q |-> U.q, v |-> U.v, tick |-> U.tick]
  <2>1. T = [q |-> T.q, v |-> T.v, tick |-> T.tick]
    BY <1>t DEF IsTimer
  <2>2. U = [q |-> T.q, v |-> [T.v EXCEPT ![t] = n], tick |-> T.tick]
    BY <2>1
  <2> QED BY <2>2
<1>2. T.v \in [Threads -> Nat] /\ n \in Nat /\ n <= MaxTicks + 1
  BY <1>t DEF IsTimer
<1>3. U.v \in [Threads -> Nat] /\ \A u \in Threads : U.v[u] = IF u = t THEN n ELSE T.v[u]
  BY <1>1, <1>2
<1>4. IsTimer(U)
  BY <1>t, <1>1, <1>3 DEF IsTimer
<1>5. /\ Expiry(T, 1) = T.tick
      /\ \A j \in 1..L : Expiry(T, j+1) = Expiry(T, j) + T.v[T.q[j]]
      /\ \A j \in 1..(L+1) : Expiry(T, j) \in Nat
  BY <1>0, <1>l, <1>t, ExpirySums
<1>6. /\ Expiry(U, 1) = T.tick
      /\ \A j \in 1..L : Expiry(U, j+1) = Expiry(U, j) + U.v[T.q[j]]
  <2>1. L = Len(U.q) /\ L \in Nat
    BY <1>0, <1>l, <1>1
  <2>2. /\ Expiry(U, 1) = U.tick
        /\ \A j \in 1..L : Expiry(U, j+1) = Expiry(U, j) + U.v[U.q[j]]
    BY ONLY <1>4, <2>1, ExpirySums
  <2> QED BY ONLY <1>1, <2>2
<1>7. \A j \in 1..L : U.v[T.q[j]] = T.v[T.q[j]]
  BY <1>0, <1>3
<1>8. \A j \in 1..(L+1) : Expiry(U, j) = Expiry(T, j)
  <2> DEFINE g == [j \in 1..(L+1) |-> Expiry(T, j)]
             e == [j \in 1..(L+1) |-> Expiry(U, j)]
  <2>1. Sums(T, g, L + 1)
    <3>1. (L + 1) - 1 = L /\ 1 \in 1..(L+1) /\ \A j \in 1..L : j \in 1..(L+1) /\ j + 1 \in 1..(L+1)
      BY <1>0
    <3> QED BY <1>5, <3>1 DEF Sums
  <2>2. e[1] = T.tick /\ \A j \in 1..L : e[j+1] = e[j] + T.v[T.q[j]]
    <3>1. 1 \in 1..(L+1) /\ \A j \in 1..L : j \in 1..(L+1) /\ j + 1 \in 1..(L+1)
      BY <1>0
    <3> QED BY <1>6, <1>7, <3>1
  <2>3. \A j \in 1..(L+1) : e[j] = Expiry(U, j) /\ g[j] = Expiry(T, j)
    OBVIOUS
  <2> HIDE DEF e, g
  <2>4. \A j \in 1..(L+1) : e[j] = g[j]
    BY ONLY <1>0, <2>1, <2>2, SumsUnique
  <2> QED BY <2>3, <2>4
<1>9. TimerOK(U)
  <2>1. /\ T.tick <= MaxTicks /\ \A u \in Threads : T.v[u] <= MaxTicks + 1
        /\ \A j \in 1..L : Expiry(T, j) <= MaxTicks
        /\ Expiry(T, L+1) <= MaxTicks + 1
    BY <1>l DEF TimerOK
  <2>2. \A u \in Threads : U.v[u] <= MaxTicks + 1
    BY <1>2, <1>3, <2>1
  <2>3. \A j \in 1..L : j \in 1..(L+1)
    BY <1>0
  <2>4. L + 1 \in 1..(L+1)
    BY <1>0
  <2>5. /\ \A j \in 1..L : Expiry(U, j) <= MaxTicks
        /\ Expiry(U, L+1) <= MaxTicks + 1
    BY <1>8, <2>1, <2>3, <2>4
  <2> QED BY <1>l, <1>1, <1>4, <2>1, <2>2, <2>5 DEF TimerOK
<1>10. ASSUME NEW u \in Threads PROVE Left(U)[u] = Left(T)[u]
  <2>1. CASE u \notin ToSet(T.q)
    BY <1>1, <2>1 DEF Left
  <2>2. CASE u \in ToSet(T.q)
    <3>1. PICK j \in 1..L : T.q[j] = u /\ Left(T)[u] = Expiry(T, j)
      BY <1>l, <1>t, <2>2, LeftOf
    <3>2. j \in 1..(L+1) /\ j \in 1..Len(U.q) /\ U.q[j] = u
      BY <1>0, <1>l, <1>1, <3>1
    <3>3. Left(U)[u] = Expiry(U, j)
      BY <1>4, <3>2, LeftAt
    <3> QED BY <1>8, <3>1, <3>2, <3>3
  <2> QED BY <2>1, <2>2
<1>11. Left(U) = Left(T)
  BY <1>10 DEF Left
<1> QED BY <1>1, <1>3, <1>9, <1>11

\* A tick of the clock brings every deadline nearer.
LEMMA TickTimer ==
  ASSUME NEW T, TimerOK(T), T.tick > 0, NEW U, U = [T EXCEPT !.tick = @ - 1]
  PROVE  /\ TimerOK(U) /\ U.q = T.q /\ U.v = T.v /\ U.tick = T.tick - 1
         /\ \A t \in Threads : Left(U)[t] = IF t \in ToSet(T.q) THEN Left(T)[t] - 1 ELSE -1
<1>t. IsTimer(T) /\ T.tick \in Nat /\ MaxTicks \in Nat
  BY MaxTicksNat DEF TimerOK, IsTimer
<1>l. PICK L : L = Len(T.q)
  OBVIOUS
<1>0. /\ L \in Nat
      /\ \A j \in 1..L : T.q[j] \in Threads /\ T.q[j] \in ToSet(T.q)
      /\ (T.q = << >> <=> L = 0)
  BY <1>t, <1>l, Entries
<1>1. U.q = T.q /\ U.v = T.v /\ U.tick = T.tick - 1 /\ U = [q |-> U.q, v |-> U.v, tick |-> U.tick]
  <2>1. T = [q |-> T.q, v |-> T.v, tick |-> T.tick]
    BY <1>t DEF IsTimer
  <2>2. U = [q |-> T.q, v |-> T.v, tick |-> T.tick - 1]
    BY <2>1
  <2> QED BY <2>2
<1>2. IsTimer(U)
  BY <1>t, <1>1 DEF IsTimer
<1>3. /\ Expiry(T, 1) = T.tick
      /\ \A j \in 1..L : Expiry(T, j+1) = Expiry(T, j) + T.v[T.q[j]]
      /\ \A j \in 1..(L+1) : Expiry(T, j) \in Nat
  BY <1>0, <1>l, <1>t, ExpirySums
<1>4. /\ Expiry(U, 1) = T.tick - 1
      /\ \A j \in 1..L : Expiry(U, j+1) = Expiry(U, j) + T.v[T.q[j]]
      /\ \A j \in 1..(L+1) : Expiry(U, j) \in Nat
  BY <1>0, <1>l, <1>1, <1>2, ExpirySums
<1>5. \A j \in 1..(L+1) : Expiry(U, j) = Expiry(T, j) - 1
  <2> DEFINE g == [j \in 1..(L+1) |-> Expiry(T, j)]
             e == [j \in 1..(L+1) |-> Expiry(U, j) + 1]
  <2>0. 1 \in 1..(L+1) /\ \A j \in 1..L : j \in 1..(L+1) /\ j + 1 \in 1..(L+1)
    BY <1>0
  <2>1. Sums(T, g, L + 1)
    <3>1. (L + 1) - 1 = L
      BY <1>0
    <3> QED BY <1>3, <2>0, <3>1 DEF Sums
  <2>2. e[1] = T.tick
    BY <1>t, <1>4, <2>0
  <2>3. ASSUME NEW j \in 1..L PROVE e[j+1] = e[j] + T.v[T.q[j]]
    <3>1. Expiry(U, j+1) = Expiry(U, j) + T.v[T.q[j]] /\ Expiry(U, j) \in Nat /\ T.v[T.q[j]] \in Nat
      BY <1>t, <1>0, <1>4, <2>0 DEF IsTimer
    <3>2. e[j+1] = Expiry(U, j+1) + 1 /\ e[j] = Expiry(U, j) + 1
      BY <2>0
    <3> HIDE DEF e
    <3> QED BY <3>1, <3>2
  <2>4. \A j \in 1..(L+1) : e[j] = Expiry(U, j) + 1 /\ g[j] = Expiry(T, j)
    OBVIOUS
  <2> HIDE DEF e, g
  <2>5. \A j \in 1..(L+1) : e[j] = g[j]
    BY ONLY <1>0, <2>1, <2>2, <2>3, SumsUnique
  <2> QED BY <1>3, <1>4, <2>4, <2>5
<1>6. TimerOK(U)
  <2>1. /\ T.tick <= MaxTicks /\ \A u \in Threads : T.v[u] <= MaxTicks + 1
        /\ \A j \in 1..L : Expiry(T, j) <= MaxTicks
        /\ Expiry(T, L+1) <= MaxTicks + 1
    BY <1>l DEF TimerOK
  <2>2. (\A j \in 1..L : j \in 1..(L+1)) /\ L + 1 \in 1..(L+1)
    BY <1>0
  <2>3. /\ \A j \in 1..L : Expiry(U, j) <= MaxTicks
        /\ Expiry(U, L+1) <= MaxTicks + 1
    BY <1>t, <1>3, <1>5, <2>1, <2>2
  <2>4. U.tick <= MaxTicks
    BY <1>t, <1>1, <2>1
  <2> QED BY <1>l, <1>1, <1>2, <2>1, <2>3, <2>4 DEF TimerOK
<1>7. ASSUME NEW t \in Threads PROVE Left(U)[t] = IF t \in ToSet(T.q) THEN Left(T)[t] - 1 ELSE -1
  <2>1. CASE t \notin ToSet(T.q)
    BY <1>1, <2>1 DEF Left
  <2>2. CASE t \in ToSet(T.q)
    <3>1. PICK j \in 1..L : T.q[j] = t /\ Left(T)[t] = Expiry(T, j)
      BY <1>l, <1>t, <2>2, LeftOf
    <3>2. j \in 1..(L+1) /\ j \in 1..Len(U.q) /\ U.q[j] = t
      BY <1>0, <1>l, <1>1, <3>1
    <3>3. Left(U)[t] = Expiry(U, j)
      BY <1>2, <3>2, LeftAt
    <3> QED BY <1>5, <2>2, <3>1, <3>2, <3>3
  <2> QED BY <2>1, <2>2
<1> QED BY <1>1, <1>6, <1>7

-----------------------------------------------------------------------------
(* The invariant of the whole.                                               *)

PCs == {"user", "usleep", "slept", "ev_wait", "ev_poll", "ev_polled", "ev_clean", "ev_get"}
States == {"READY", "RUNNING", "WAIT_TIME", "WAIT_POLL", "WAIT_CND"}

CallTypes ==
  /\ pc \in [Threads -> PCs] /\ usec \in [Threads -> Nat] /\ todo \in [Threads -> Nat]
  /\ flags \subseteq UNION Masks /\ IsFiniteSet(flags) /\ mask \in Masks \cup {UNION Masks}
  /\ cond \in Seq(Threads) /\ counter \in [Threads -> 0..1] /\ burst \in BOOLEAN
  /\ pendsv \in BOOLEAN
Types ==
  /\ CallTypes
  /\ alarm \in {"no", "raised", "due"} /\ running \in Threads \cup {None}
  /\ state \in [Threads -> States]

\* The threads that belong in the timer list when st is the ->state of them all.
Listed(st) == {t \in Threads : st[t] \in {"WAIT_TIME", "WAIT_POLL"} \/ (t \in RR /\ st[t] = "RUNNING")}

\* The list is in its bounds, has who belongs in it, and the clock is running for them.
TimerInv == TimerOK(timer) /\ ToSet(timer.q) = Listed(state) /\ ClockRuns

\* The thread on the CPU is RUNNING, or its slice has expired; nobody else is RUNNING.
CpuInv == /\ \A t \in Threads : state[t] = "RUNNING" => running = t
          /\ running # None => state[running] \in {"RUNNING", "READY"}

\* Who sleeps is in the call that put it to sleep.
SleepOf(t) == /\ state[t] = "WAIT_TIME" => pc[t] = "slept"
              /\ state[t] = "WAIT_POLL" => pc[t] = "ev_polled"
              /\ state[t] = "WAIT_CND" => pc[t] = "ev_wait"
SleepInv == \A t \in Threads : SleepOf(t)

\* The queue of the condition variable: who waits, once, and every proxy not signalled.
CondOf(t) == /\ t \in ToSet(cond) => \/ pc[t] = "ev_wait" /\ state[t] = "WAIT_CND"
                                     \/ Polls(t) /\ counter[t] = 0
             /\ Polls(t) /\ counter[t] = 0 => t \in ToSet(cond)
CondInv == /\ \A x : Once(cond, x)
           /\ \A t \in Threads : CondOf(t)

\* The ticks a thread has still to sleep when its round of chopstx_usec_wait has ended.
Rest(t) == (usec[t] - Slept(usec[t])) * MHZ

\* What is left of a chopstx_usec_wait is covered: by its rounds to come, and by its
\* deadline in the list.
RestOf(t) ==
  /\ pc[t] = "usleep" => todo[t] <= usec[t] * MHZ
  /\ pc[t] = "slept" /\ state[t] = "WAIT_TIME" => todo[t] <= Left(timer)[t] + Rest(t)
  /\ pc[t] = "slept" /\ state[t] # "WAIT_TIME" => timer.v[t] = 0 /\ todo[t] <= Rest(t)
RestInv == \A t \in Threads \ RR : RestOf(t)

IInv == Types /\ TimerInv /\ CpuInv /\ SleepInv /\ CondInv /\ RestInv /\ FlagsServed

-----------------------------------------------------------------------------
OnCpu == {"READY", "RUNNING"}

\* T is what a section that the thread on the CPU runs has made of the timer list so far.
Section(T) ==
  /\ TimerOK(T)
  /\ T.q # << >> => T.tick > 0 \/ alarm # "no"
  /\ T.q = << >> => (T.tick > 0 <=> timer.q = << >> /\ timer.tick > 0)
  /\ \A t \in Threads : \/ Left(T)[t] \in {Left(timer)[t], -1}
                        \/ t = running /\ Left(T)[t] \in 1..MaxTicks

\* The step does to the deadlines what Deadlines allows.
Resets ==
  /\ \A t \in Threads : \/ Left(timer')[t] \in {Left(timer)[t], -1}
                        \/ t \in {running, running'} /\ Left(timer')[t] \in 1..MaxTicks
  /\ timer'.q = << >> => (timer'.tick > 0 <=> timer.q = << >> /\ timer.tick > 0)

\* The section ends with the list T and the threads in st, and someone of them is on the CPU.
Settled(T, st) ==
  /\ TimerInv' /\ CpuInv' /\ Resets
  /\ alarm' \in {"no", "raised", "due"} /\ (alarm' = "no" <=> alarm = "no")
  /\ running' \in Threads \cup {None} /\ state' \in [Threads -> States]
  /\ \A t \in Threads : st[t] \in OnCpu => state'[t] \in OnCpu
  /\ \A t \in Threads : st[t] \notin OnCpu => state'[t] = st[t] /\ Left(timer')[t] = Left(T)[t]
  /\ \A t \in Threads \ RR : t \notin ToSet(T.q) => timer'.v[t] = T.v[t]

\* A slice, and a round of a sleep, are within the longest time of the timer.
LEMMA SliceTicks == SliceUsec * MHZ \in 1..MaxTicks
<1>1. SliceUsec \in Nat /\ SliceUsec > 0 /\ MaxUsec \in Nat /\ SliceUsec <= MaxUsec /\ MHZ \in Nat /\ MHZ > 0
  BY TimerAssumption
<1>2. \A x, y, z \in Nat : x > 0 /\ x <= y /\ z > 0 => x * z \in Nat /\ x * z > 0 /\ x * z <= z * y /\ z * y \in Nat
  OBVIOUS
<1> QED BY <1>1, <1>2 DEF MaxTicks

\* A round of chx_snooze is within the longest time of the timer, and what is left after it adds
\* up to the whole: nothing of the time is lost between the rounds.
LEMMA SleepTicks ==
  ASSUME NEW u \in Nat
  PROVE  /\ Slept(u) \in Nat /\ Slept(u) <= u /\ u - Slept(u) \in Nat
         /\ u > 0 => Slept(u) * MHZ \in 1..MaxTicks
         /\ u * MHZ = (u - Slept(u)) * MHZ + Slept(u) * MHZ
         /\ (u - Slept(u)) * MHZ \in Nat
<1>1. MaxUsec \in Nat /\ MaxUsec > 0 /\ MHZ \in Nat /\ MHZ > 0
  BY TimerAssumption
<1>2. Slept(u) \in Nat /\ Slept(u) <= u /\ Slept(u) <= MaxUsec /\ (u > 0 => Slept(u) > 0)
  BY <1>1 DEF Slept
<1> HIDE DEF Slept
<1>3. \A x, y, z \in Nat : x > 0 /\ x <= y /\ z > 0 => x * z \in Nat /\ x * z > 0 /\ x * z <= z * y /\ z * y \in Nat
  OBVIOUS
<1>4. u > 0 => Slept(u) * MHZ \in 1..MaxTicks
  BY <1>1, <1>2, <1>3 DEF MaxTicks
<1>5. PICK w \in Nat : u = w + Slept(u)
  <2>1. u - Slept(u) \in Nat /\ u = (u - Slept(u)) + Slept(u)
    BY <1>2
  <2> QED BY <2>1
<1>6. w = u - Slept(u)
  BY <1>2, <1>5
<1>7. \A x, y, z \in Nat : (x + y) * z = x * z + y * z /\ x * z \in Nat
  OBVIOUS
<1>8. u * MHZ = w * MHZ + Slept(u) * MHZ /\ w * MHZ \in Nat
  BY <1>1, <1>2, <1>5, <1>7
<1> QED BY <1>2, <1>4, <1>5, <1>6, <1>8

\* Leaving a section keeps an exception of SysTick.
LEMMA LeaveAlarm ==
  ASSUME NEW T, Leave(T), alarm \in {"no", "raised", "due"}
  PROVE  timer' = T /\ alarm' \in {"no", "raised", "due"} /\ (alarm' = "no" <=> alarm = "no")
BY DEF Leave

\* A section that leaves the CPU to who runs on it.
LEMMA LeaveSettled ==
  ASSUME Types, CpuInv, NEW T, Section(T), NEW st \in [Threads -> States],
         ToSet(T.q) = Listed(st),
         \A t \in Threads : st[t] = "RUNNING" => running = t,
         running # None => st[running] \in OnCpu,
         Leave(T), state' = st, running' = running
  PROVE  Settled(T, st)
<1>1. timer' = T /\ alarm' \in {"no", "raised", "due"} /\ (alarm' = "no" <=> alarm = "no")
  BY LeaveAlarm DEF Types
<1>2. TimerInv'
  <2>1. ToSet(timer'.q) = Listed(state') /\ TimerOK(timer')
    BY <1>1 DEF Section
  <2>2. ClockRuns'
    BY <1>1 DEF Section, ClockRuns
  <2>3. Listed(state)' = Listed(state')
    BY DEF Listed
  <2>4. TimerOK(timer)' = TimerOK(timer')
    BY DEF TimerOK, IsTimer, Expiry, Once
  <2> QED BY <2>1, <2>2, <2>3, <2>4 DEF TimerInv
<1>3. CpuInv'
  BY DEF CpuInv, OnCpu
<1>4. Resets
  BY <1>1 DEF Section, Resets
<1> QED BY <1>1, <1>2, <1>3, <1>4 DEF Settled, Types

\* chx_ready_pop, and the slice of the thread it gives the CPU to.
LEMMA DispatchSettled ==
  ASSUME Types, NEW T, Section(T), NEW st \in [Threads -> States],
         ToSet(T.q) = Listed(st),
         \A t \in Threads : st[t] # "RUNNING",
         Dispatch(T, st)
  PROVE  Settled(T, st)
<1>1. CASE running' = None /\ state' = st /\ Leave(T)
  <2>1. timer' = T /\ alarm' \in {"no", "raised", "due"} /\ (alarm' = "no" <=> alarm = "no")
    BY <1>1, LeaveAlarm DEF Types
  <2>2. TimerInv'
    BY <1>1, <2>1 DEF TimerInv, Section, ClockRuns
  <2>3. CpuInv'
    BY <1>1 DEF CpuInv
  <2>4. Resets
    BY <2>1 DEF Section, Resets
  <2> QED BY <1>1, <2>1, <2>2, <2>3, <2>4 DEF Settled
<1>2. ASSUME NEW t \in Threads, st[t] = "READY", running' = t, state' = [st EXCEPT ![t] = "RUNNING"],
             Leave(IF t \in RR THEN TimerInsert(T, t, SliceUsec * MHZ) ELSE T)
      PROVE  Settled(T, st)
  <2> DEFINE U == IF t \in RR THEN TimerInsert(T, t, SliceUsec * MHZ) ELSE T
  <2>1. timer' = U /\ alarm' \in {"no", "raised", "due"} /\ (alarm' = "no" <=> alarm = "no")
    BY <1>2, LeaveAlarm DEF Types
  <2>2. t \notin ToSet(T.q)
    BY <1>2 DEF Listed
  <2>3. TimerOK(T)
    BY DEF Section
  <2>4. t \in RR => SliceUsec * MHZ \in 1..MaxTicks
    BY SliceTicks
  <2>5. /\ TimerOK(U) /\ ToSet(U.q) = ToSet(T.q) \cup (IF t \in RR THEN {t} ELSE {})
        /\ \A u \in Threads : Left(U)[u] = IF u = t /\ t \in RR THEN SliceUsec * MHZ ELSE Left(T)[u]
        /\ T.tick > 0 \/ T.q = << >> => U.tick > 0 \/ U = T
        /\ \A u \in Threads \ ToSet(T.q) : u = t \/ U.v[u] = T.v[u]
        /\ t \notin RR => U = T
    <3>1. CASE t \in RR
      <4>1. /\ TimerOK(U)
            /\ ToSet(U.q) = ToSet(T.q) \cup {t}
            /\ Left(U) = [Left(T) EXCEPT ![t] = SliceUsec * MHZ]
            /\ T.tick > 0 \/ T.q = << >> => U.tick > 0
            /\ \A u \in Threads \ ToSet(T.q) : u # t => U.v[u] = T.v[u]
        BY <2>2, <2>3, <2>4, <3>1, InsertTimer, SMTT(60), ZenonT(60)
      <4>2. \A u \in Threads : Left(U)[u] = IF u = t THEN SliceUsec * MHZ ELSE Left(T)[u]
        BY <4>1 DEF Left
      <4> QED BY <3>1, <4>1, <4>2
    <3>2. CASE t \notin RR
      BY <2>3, <3>2
    <3> QED BY <3>1, <3>2
  <2> HIDE DEF U
  <2>6. U.q = << >> => U = T
    <3>1. U.q = << >> => ToSet(U.q) = {}
      BY DEF ToSet
    <3> QED BY <2>5, <3>1
  <2>7. U.q # << >> => U.tick > 0 \/ alarm # "no"
    BY <2>5 DEF Section
  <2>8. ToSet(U.q) = Listed(state')
    BY <1>2, <2>5 DEF Listed
  <2>9. TimerInv'
    BY <2>1, <2>5, <2>7, <2>8 DEF TimerInv, ClockRuns
  <2>10. CpuInv'
    BY <1>2 DEF CpuInv
  <2>11. Resets
    <3>1. ASSUME NEW u \in Threads
          PROVE \/ Left(timer')[u] \in {Left(timer)[u], -1}
                \/ u \in {running, running'} /\ Left(timer')[u] \in 1..MaxTicks
      <4>1. CASE u = t /\ t \in RR
        BY <1>2, <2>1, <2>4, <2>5, <4>1
      <4>2. CASE ~(u = t /\ t \in RR)
        BY <2>1, <2>5, <4>2 DEF Section
      <4> QED BY <4>1, <4>2
    <3>2. timer'.q = << >> => (timer'.tick > 0 <=> timer.q = << >> /\ timer.tick > 0)
      BY <2>1, <2>6 DEF Section
    <3> QED BY <3>1, <3>2 DEF Resets
  <2>12. state' \in [Threads -> States]
    BY <1>2 DEF States
  <2>13. \A u \in Threads : st[u] \in OnCpu => state'[u] \in OnCpu
    BY <1>2 DEF OnCpu
  <2>14. \A u \in Threads : st[u] \notin OnCpu => state'[u] = st[u] /\ Left(timer')[u] = Left(T)[u]
    BY <1>2, <2>1, <2>5 DEF OnCpu
  <2>15. \A u \in Threads \ RR : u \notin ToSet(T.q) => timer'.v[u] = T.v[u]
    BY <2>1, <2>5
  <2> QED BY <1>2, <2>1, <2>9, <2>10, <2>11, <2>12, <2>13, <2>14, <2>15 DEF Settled
<1> QED BY <1>1, <1>2 DEF Dispatch

-----------------------------------------------------------------------------
\* What the sections make of the list.

\* The list as it is.
LEMMA SectionStarts ==
  ASSUME TimerInv
  PROVE  Section(timer)
BY DEF TimerInv, ClockRuns, Section

\* The slice of the thread on the CPU ends.
LEMMA StopSliceSection ==
  ASSUME NEW T, Section(T), running \in Threads, running \in ToSet(T.q) <=> running \in RR,
         ToSet(T.q) \subseteq ToSet(timer.q), NEW U, U = StopSlice(T, running)
  PROVE  /\ Section(U) /\ ToSet(U.q) = ToSet(T.q) \ {running}
         /\ \A u \in Threads : u # running => Left(U)[u] = Left(T)[u]
         /\ \A u \in Threads \ ToSet(T.q) : U.v[u] = T.v[u]
<1>1. CASE running \notin RR
  BY <1>1 DEF StopSlice
<1>2. CASE running \in RR
  <2>1. U = TimerDequeue(T, running) /\ TimerOK(T) /\ running \in ToSet(T.q)
    BY <1>2 DEF StopSlice, Section
  <2>2. /\ TimerOK(U)
        /\ ToSet(U.q) = ToSet(T.q) \ {running}
        /\ Left(U) = [Left(T) EXCEPT ![running] = -1]
        /\ U.q = << >> => U.tick = 0
        /\ T.tick > 0 /\ U.q # << >> => U.tick > 0
        /\ \A u \in Threads \ ToSet(T.q) : U.v[u] = T.v[u]
    BY <2>1, DequeueTimer
  <2>3. \A u \in Threads : Left(U)[u] = IF u = running THEN -1 ELSE Left(T)[u]
    BY <2>2 DEF Left
  <2>4. T.q # << >>
    BY <2>1 DEF ToSet
  <2>5. U.q = << >> => (U.tick > 0 <=> timer.q = << >> /\ timer.tick > 0)
    <3>1. timer.q # << >>
      BY <2>1 DEF ToSet
    <3> QED BY <2>2, <3>1
  <2>6. Section(U)
    BY <2>2, <2>3, <2>4, <2>5 DEF Section
  <2> QED BY <2>2, <2>3, <2>6
<1> QED BY <1>1, <1>2

\* The list when the waiter h of the condition variable is off it and has its result.
Woken(h) == IF state[h] = "WAIT_CND" THEN [timer EXCEPT !.v[h] = 1]
            ELSE [TimerDequeue(timer, h) EXCEPT !.v[h] = Remained(timer, h)]

\* A waiter of the condition variable, off the timer list, is given its result.
LEMMA WakeSection ==
  ASSUME TimerInv, NEW h \in Threads, h # running, state[h] \in {"WAIT_CND", "WAIT_POLL"},
         NEW U, U = Woken(h)
  PROVE  /\ Section(U) /\ ToSet(U.q) = ToSet(timer.q) \ {h}
         /\ \A u \in Threads : u # h => Left(U)[u] = Left(timer)[u]
         /\ \A u \in Threads \ ToSet(timer.q) : u # h => U.v[u] = timer.v[u]
<1>0. TimerOK(timer) /\ ToSet(timer.q) = Listed(state) /\ ClockRuns /\ MaxTicks \in Nat
  BY MaxTicksNat DEF TimerInv
<1>1. CASE state[h] = "WAIT_CND"
  <2>1. h \notin ToSet(timer.q) /\ U = [timer EXCEPT !.v[h] = 1] /\ 1 \in 0..(MaxTicks + 1)
    BY <1>0, <1>1 DEF Listed, Woken
  <2>2. /\ TimerOK(U) /\ U.q = timer.q /\ U.tick = timer.tick /\ Left(U) = Left(timer)
        /\ \A u \in Threads : u # h => U.v[u] = timer.v[u]
    BY ONLY <1>0, <2>1, h \in Threads, ResultTimer
  <2>3. Section(U)
    BY <1>0, <2>2 DEF Section, ClockRuns
  <2> QED BY <2>1, <2>2, <2>3
<1>2. CASE state[h] = "WAIT_POLL"
  <2>v. PICK V, n : V = TimerDequeue(timer, h) /\ n = Remained(timer, h)
    OBVIOUS
  <2>1. h \in ToSet(timer.q) /\ U = [V EXCEPT !.v[h] = n]
    BY <1>0, <1>2, <2>v DEF Listed, Woken
  <2>2. /\ TimerOK(V)
        /\ ToSet(V.q) = ToSet(timer.q) \ {h}
        /\ Left(V) = [Left(timer) EXCEPT ![h] = -1]
        /\ V.q = << >> => V.tick = 0
        /\ timer.tick > 0 /\ V.q # << >> => V.tick > 0
        /\ \A u \in Threads \ ToSet(timer.q) : V.v[u] = timer.v[u]
        /\ n \in 0..MaxTicks
    BY <1>0, <2>1, <2>v, DequeueTimer
  <2>3. n \in 0..(MaxTicks + 1) /\ h \notin ToSet(V.q)
    BY <1>0, <2>2
  <2>4. /\ TimerOK(U) /\ U.q = V.q /\ U.tick = V.tick /\ Left(U) = Left(V)
        /\ \A u \in Threads : u # h => U.v[u] = V.v[u]
    <3>1. TimerOK(V) /\ U = [V EXCEPT !.v[h] = n] /\ n \in 0..(MaxTicks + 1) /\ h \notin ToSet(V.q)
      BY <2>1, <2>2, <2>3
    <3> QED BY ONLY <3>1, h \in Threads, ResultTimer
  <2>5. \A u \in Threads : Left(U)[u] = IF u = h THEN -1 ELSE Left(timer)[u]
    BY <2>2, <2>4 DEF Left
  <2>6. timer.q # << >>
    BY <2>1 DEF ToSet
  <2>7. Section(U)
    <3>1. U.q # << >> => U.tick > 0 \/ alarm # "no"
      BY <1>0, <2>2, <2>4, <2>6 DEF ClockRuns
    <3>2. U.q = << >> => (U.tick > 0 <=> timer.q = << >> /\ timer.tick > 0)
      BY <2>2, <2>4, <2>6
    <3> QED BY <2>4, <2>5, <3>1, <3>2 DEF Section
  <2> QED BY <2>2, <2>4, <2>5, <2>7
<1> QED BY <1>1, <1>2

\* The thread on the CPU goes to sleep for a time.
LEMMA SleepSection ==
  ASSUME TimerInv, running \in Threads, state[running] = "RUNNING", NEW n \in 1..MaxTicks,
         NEW U, U = TimerInsert(StopSlice(timer, running), running, n)
  PROVE  /\ Section(U) /\ ToSet(U.q) = ToSet(timer.q) \cup {running}
         /\ Left(U)[running] = n
         /\ \A u \in Threads : u # running => Left(U)[u] = Left(timer)[u]
         /\ \A u \in Threads \ ToSet(timer.q) : u # running => U.v[u] = timer.v[u]
<1> DEFINE T == StopSlice(timer, running)
<1>0. running \in ToSet(timer.q) <=> running \in RR
  BY DEF TimerInv, Listed
<1>1. /\ Section(T) /\ ToSet(T.q) = ToSet(timer.q) \ {running}
      /\ \A u \in Threads : u # running => Left(T)[u] = Left(timer)[u]
      /\ \A u \in Threads \ ToSet(timer.q) : T.v[u] = timer.v[u]
  BY <1>0, SectionStarts, StopSliceSection
<1> HIDE DEF T
<1>2. U = TimerInsert(T, running, n)
  BY DEF T
<1>3. TimerOK(T) /\ running \notin ToSet(T.q)
  BY <1>1 DEF Section
<1>4. /\ TimerOK(U)
      /\ ToSet(U.q) = ToSet(T.q) \cup {running}
      /\ Left(U) = [Left(T) EXCEPT ![running] = n]
      /\ T.tick > 0 \/ T.q = << >> => U.tick > 0
      /\ \A u \in Threads \ ToSet(T.q) : u # running => U.v[u] = T.v[u]
  BY <1>2, <1>3, InsertTimer
<1>5. \A u \in Threads : Left(U)[u] = IF u = running THEN n ELSE Left(T)[u]
  BY <1>4 DEF Left
<1>6. U.q # << >>
  BY <1>4 DEF ToSet
<1>7. Section(U)
  <2>1. U.q # << >> => U.tick > 0 \/ alarm # "no"
    BY <1>1, <1>4 DEF Section
  <2>2. \A u \in Threads : \/ Left(U)[u] \in {Left(timer)[u], -1}
                           \/ u = running /\ Left(U)[u] \in 1..MaxTicks
    BY <1>1, <1>5
  <2> QED BY <1>4, <1>6, <2>1, <2>2 DEF Section
<1> QED BY <1>1, <1>4, <1>5, <1>7

-----------------------------------------------------------------------------
\* What the steps do to the threads: those in W may be woken up, and the thread on the CPU
\* may be put to sleep or off it; all others are where they were, with the deadline they had.
Effects(W) ==
  /\ TimerInv' /\ CpuInv' /\ Resets
  /\ alarm' \in {"no", "raised", "due"} /\ (alarm' = "no" <=> alarm = "no")
  /\ running' \in Threads \cup {None} /\ state' \in [Threads -> States]
  /\ \A t \in W : state'[t] \in OnCpu
  /\ \A t \in Threads \ W : t # running =>
       /\ state[t] \in OnCpu => state'[t] \in OnCpu
       /\ state[t] \notin OnCpu => state'[t] = state[t] /\ Left(timer')[t] = Left(timer)[t]
  /\ \A t \in Threads \ (W \cup RR) : t # running /\ t \notin ToSet(timer.q) => timer'.v[t] = timer.v[t]
  /\ \A t \in Threads \ RR : t = running /\ state'[t] \in OnCpu => timer'.v[t] = timer.v[t]

\* A step that leaves the scheduling alone.
LEMMA NoEffects ==
  ASSUME Types, TimerInv, CpuInv, UNCHANGED <<timerVars, running, state>>
  PROVE  Effects({}) /\ (running \in Threads => state'[running] = state[running])
<1>0. timer' = timer /\ alarm' = alarm /\ running' = running /\ state' = state
  BY DEF timerVars
<1>1. TimerInv' /\ CpuInv'
  <2>1. Listed(state)' = Listed(state)
    BY <1>0 DEF Listed
  <2>2. TimerOK(timer)' = TimerOK(timer)
    BY <1>0 DEF TimerOK, IsTimer, Expiry, Once
  <2>3. ToSet(timer.q)' = ToSet(timer.q)
    BY <1>0 DEF ToSet
  <2>4. ClockRuns' = ClockRuns
    BY <1>0 DEF ClockRuns
  <2> QED BY <1>0, <2>1, <2>2, <2>3, <2>4 DEF TimerInv, CpuInv
<1>2. Resets
  BY DEF Resets, timerVars
<1> QED BY <1>1, <1>2 DEF Effects, Types, timerVars

\* preempt.
LEMMA PreemptEffects ==
  ASSUME Types, TimerInv, CpuInv, Preempt
  PROVE  Effects({}) /\ (running \in Threads => state'[running] \in OnCpu)
<1>1. CASE running = None \/ state[running] = "READY"
  <2>1. Dispatch(timer, state) /\ \A t \in Threads : state[t] # "RUNNING"
    BY <1>1, TimerAssumption DEF Preempt, CpuInv
  <2>2. Settled(timer, state)
    BY <2>1, SectionStarts, DispatchSettled DEF TimerInv, Types
  <2>3. running \in Threads => running \notin ToSet(timer.q) /\ state[running] = "READY"
    BY <1>1, TimerAssumption DEF TimerInv, Listed
  <2> QED BY <1>1, <2>2, <2>3, TimerAssumption DEF Settled, Effects, OnCpu, Types
<1>2. CASE ~(running = None \/ state[running] = "READY")
  <2> DEFINE T == StopSlice(timer, running)
             st == [state EXCEPT ![running] = "READY"]
  <2>1. Dispatch(T, st) /\ running \in Threads /\ state[running] = "RUNNING"
    BY <1>2 DEF Preempt, CpuInv, Types
  <2>2. running \in ToSet(timer.q) <=> running \in RR
    BY <2>1 DEF TimerInv, Listed
  <2>3. /\ Section(T) /\ ToSet(T.q) = ToSet(timer.q) \ {running}
        /\ \A u \in Threads : u # running => Left(T)[u] = Left(timer)[u]
        /\ \A u \in Threads \ ToSet(timer.q) : T.v[u] = timer.v[u]
    BY <2>1, <2>2, SectionStarts, StopSliceSection
  <2> HIDE DEF T
  <2>4. /\ st \in [Threads -> States] /\ ToSet(T.q) = Listed(st)
        /\ \A t \in Threads : st[t] # "RUNNING"
    BY <2>1, <2>3 DEF Types, States, TimerInv, Listed, CpuInv
  <2>5. \A t \in Threads : st[t] = IF t = running THEN "READY" ELSE state[t]
    BY DEF Types
  <2> HIDE DEF st
  <2>6. Settled(T, st)
    BY <2>1, <2>3, <2>4, DispatchSettled
  <2> QED BY <2>1, <2>2, <2>3, <2>5, <2>6 DEF Settled, Effects, OnCpu
<1> QED BY <1>1, <1>2

\* chx_sched puts the thread on the CPU to sleep in the state s.
LEMMA SleepEffects ==
  ASSUME Types, TimerInv, CpuInv, running \in Threads, state[running] = "RUNNING",
         NEW s \in {"WAIT_TIME", "WAIT_POLL", "WAIT_CND"}, NEW T, Section(T),
         \A u \in Threads : u # running => Left(T)[u] = Left(timer)[u],
         \A u \in Threads \ ToSet(timer.q) : u # running => T.v[u] = timer.v[u],
         ToSet(T.q) = IF s = "WAIT_CND" THEN ToSet(timer.q) \ {running}
                                        ELSE ToSet(timer.q) \cup {running},
         Sleep(running, s, T)
  PROVE  Effects({}) /\ state'[running] = s /\ Left(timer')[running] = Left(T)[running]
<1> DEFINE st == [state EXCEPT ![running] = s]
<1>1. Dispatch(T, st)
  BY DEF Sleep
<1>2. st \in [Threads -> States]
  BY DEF Types, States
<1>3. \A t \in Threads : st[t] = IF t = running THEN s ELSE state[t]
  BY DEF Types
<1>4. ToSet(T.q) = Listed(st) /\ \A t \in Threads : st[t] # "RUNNING"
  BY <1>3 DEF TimerInv, Listed, CpuInv
<1> HIDE DEF st
<1>5. Settled(T, st)
  BY <1>1, <1>2, <1>4, DispatchSettled
<1> QED BY <1>3, <1>5 DEF Settled, Effects, OnCpu

\* chopstx_cond_signal wakes h up, and yields to it when it is of higher priority.
LEMMA WakeEffects ==
  ASSUME Types, TimerInv, CpuInv, running \in Threads, state[running] = "RUNNING",
         NEW h \in Threads, state[h] \in {"WAIT_CND", "WAIT_POLL"},
         NEW T, T = Woken(h),
         WakeFrom(T, h)
  PROVE  Effects({h}) /\ state'[running] \in OnCpu
<1>0. h # running
  OBVIOUS
<1>1. /\ Section(T) /\ ToSet(T.q) = ToSet(timer.q) \ {h}
      /\ \A u \in Threads : u # h => Left(T)[u] = Left(timer)[u]
      /\ \A u \in Threads \ ToSet(timer.q) : u # h => T.v[u] = timer.v[u]
  BY <1>0, WakeSection
<1> DEFINE st == [state EXCEPT ![h] = "READY"]
<1>2. st \in [Threads -> States] /\ \A t \in Threads : st[t] = IF t = h THEN "READY" ELSE state[t]
  BY DEF Types, States
<1>3. ToSet(T.q) = Listed(st)
  BY <1>1, <1>2 DEF TimerInv, Listed
<1>w. IF Prio[h] > Prio[running]
      THEN Dispatch(StopSlice(T, running), [st EXCEPT ![running] = "READY"])
      ELSE Leave(T) /\ state' = st /\ UNCHANGED running
  BY DEF WakeFrom
<1> HIDE DEF st
<1>4. CASE Prio[h] > Prio[running]
  <2> DEFINE U == StopSlice(T, running)
             ss == [st EXCEPT ![running] = "READY"]
  <2>1. Dispatch(U, ss)
    BY <1>w, <1>4
  <2>2. /\ running \in ToSet(T.q) <=> running \in RR
        /\ ToSet(T.q) \subseteq ToSet(timer.q)
    BY <1>0, <1>1 DEF TimerInv, Listed
  <2>3. /\ Section(U) /\ ToSet(U.q) = ToSet(T.q) \ {running}
        /\ \A u \in Threads : u # running => Left(U)[u] = Left(T)[u]
        /\ \A u \in Threads \ ToSet(T.q) : U.v[u] = T.v[u]
    BY <1>1, <2>2, StopSliceSection
  <2>4. ss \in [Threads -> States] /\ \A t \in Threads : ss[t] = IF t = running THEN "READY" ELSE st[t]
    BY <1>2 DEF States
  <2> HIDE DEF U, ss
  <2>5. ToSet(U.q) = Listed(ss) /\ \A t \in Threads : ss[t] # "RUNNING"
    BY <1>2, <1>3, <2>3, <2>4 DEF Listed, CpuInv
  <2>6. Settled(U, ss)
    BY <2>1, <2>3, <2>4, <2>5, DispatchSettled
  <2>7. \A t \in Threads : Left(U)[t] = Left(timer)[t] \/ t = h \/ t = running
    BY <1>1, <2>3
  <2>8. \A t \in Threads : ss[t] = IF t = h \/ t = running THEN "READY" ELSE state[t]
    BY <1>2, <2>4
  <2>9. \A t \in Threads \ RR : t # h /\ t \notin ToSet(timer.q) => t \notin ToSet(U.q) /\ U.v[t] = timer.v[t]
    BY <1>1, <2>3
  <2>10. running \in RR \/ running \notin ToSet(timer.q)
    BY DEF TimerInv, Listed
  <2>11. /\ \A t \in {h} : state'[t] \in OnCpu
         /\ \A t \in Threads \ {h} : t # running =>
              /\ state[t] \in OnCpu => state'[t] \in OnCpu
              /\ state[t] \notin OnCpu => state'[t] = state[t] /\ Left(timer')[t] = Left(timer)[t]
         /\ state'[running] \in OnCpu
    BY <2>6, <2>7, <2>8 DEF Settled, OnCpu
  <2>12. \A t \in Threads \ RR : t # h /\ t \notin ToSet(timer.q) => timer'.v[t] = timer.v[t]
    BY <2>6, <2>9 DEF Settled
  <2> QED BY <1>0, <2>6, <2>10, <2>11, <2>12 DEF Settled, Effects
<1>5. CASE ~(Prio[h] > Prio[running])
  <2>1. Leave(T) /\ state' = st /\ running' = running
    BY <1>w, <1>5
  <2>2. /\ \A t \in Threads : st[t] = "RUNNING" => running = t
        /\ running # None => st[running] \in OnCpu
    BY <1>0, <1>2 DEF CpuInv, OnCpu
  <2>3. Settled(T, st)
    BY <1>1, <1>2, <1>3, <2>1, <2>2, LeaveSettled
  <2>4. timer' = T
    BY <2>1 DEF Leave
  <2>5. running \in RR \/ running \notin ToSet(timer.q)
    BY DEF TimerInv, Listed
  <2>6. /\ \A t \in {h} : state'[t] \in OnCpu
        /\ \A t \in Threads \ {h} : t # running =>
              /\ state[t] \in OnCpu => state'[t] \in OnCpu
              /\ state[t] \notin OnCpu => state'[t] = state[t] /\ Left(timer')[t] = Left(timer)[t]
        /\ state'[running] \in OnCpu
    BY <1>0, <1>1, <1>2, <2>3, <2>4 DEF Settled, OnCpu
  <2>7. \A t \in Threads \ RR : t # h /\ t \notin ToSet(timer.q) => timer'.v[t] = timer.v[t]
    BY <1>1, <2>4
  <2> QED BY <1>0, <2>3, <2>5, <2>6, <2>7 DEF Settled, Effects
<1> QED BY <1>4, <1>5

-----------------------------------------------------------------------------
\* Threads that keep what they had to do.

\* Thread u is where it was, in the call it was in.
Kept(u) == /\ pc'[u] = pc[u] /\ usec'[u] = usec[u] /\ todo'[u] = todo[u]
           /\ u = running => state'[u] \in OnCpu

\* A thread that is kept sleeps in the call that put it to sleep.
LEMMA SleepKept ==
  ASSUME Types, SleepInv, NEW W, Effects(W), NEW u \in Threads, Kept(u)
  PROVE  SleepOf(u)'
BY DEF Effects, Kept, SleepInv, SleepOf, OnCpu

\* The time of a thread that is kept is still covered.
LEMMA RestKept ==
  ASSUME Types, TimerInv, CpuInv, SleepInv, RestInv, NEW W, Effects(W), NEW u \in Threads \ RR, Kept(u),
         u \in W => pc[u] \notin {"usleep", "slept"}
  PROVE  RestOf(u)'
<1>1. RestOf(u) /\ SleepOf(u)
  BY DEF RestInv, SleepInv
<1>2. Rest(u)' = Rest(u)
  BY DEF Kept, Rest, Slept
<1>3. ASSUME pc[u] = "usleep" PROVE RestOf(u)'
  BY <1>1, <1>3 DEF Kept, RestOf
<1>4. ASSUME pc[u] = "slept" PROVE RestOf(u)'
  <2>0. u \notin W
    BY <1>4
  <2>1. CASE state[u] = "WAIT_TIME" /\ u # running
    <3>1. state'[u] = "WAIT_TIME" /\ Left(timer')[u] = Left(timer)[u]
      BY <2>0, <2>1 DEF Effects, OnCpu
    <3>2. Left(timer)'[u] = Left(timer')[u]
      BY DEF Left, Remained, Place, Expiry
    <3> QED BY <1>1, <1>2, <1>4, <2>1, <3>1, <3>2 DEF Kept, RestOf
  <2>2. CASE ~(state[u] = "WAIT_TIME" /\ u # running)
    <3>1. state'[u] # "WAIT_TIME"
      BY <1>1, <1>4, <2>0, <2>2 DEF Effects, OnCpu, Kept
    <3>2. timer'.v[u] = timer.v[u]
      <4>1. CASE u = running
        BY <4>1 DEF Effects, Kept
      <4>2. CASE u # running
        <5>1. u \notin ToSet(timer.q)
          BY <1>1, <1>4, <2>2, <4>2 DEF TimerInv, Listed, SleepOf
        <5> QED BY <2>0, <4>2, <5>1 DEF Effects
      <4> QED BY <4>1, <4>2
    <3>3. state[u] # "WAIT_TIME"
      BY <2>2, TimerAssumption DEF CpuInv
    <3> QED BY <1>1, <1>2, <1>4, <3>1, <3>2, <3>3 DEF Kept, RestOf
  <2> QED BY <2>1, <2>2
<1> QED BY <1>3, <1>4 DEF Kept, RestOf

\* A thread that is kept is in the queue of the condition variable if it has to be.
LEMMA CondKept ==
  ASSUME Types, CondInv, NEW W, Effects(W), NEW u \in Threads, Kept(u),
         counter'[u] = counter[u], u \in ToSet(cond') <=> u \in ToSet(cond),
         u \in W => pc[u] # "ev_wait", u = running => state[u] \in OnCpu
  PROVE  CondOf(u)'
<1>1. CondOf(u)
  BY DEF CondInv
<1>2. Polls(u)' <=> Polls(u)
  BY DEF Polls, Kept
<1>3. pc[u] = "ev_wait" /\ state[u] = "WAIT_CND" => state'[u] = "WAIT_CND"
  BY DEF Effects, OnCpu
<1>4. ToSet(cond)' = ToSet(cond')
  BY DEF ToSet
<1> QED BY <1>1, <1>2, <1>3, <1>4 DEF CondOf, Kept

-----------------------------------------------------------------------------
\* The queue of the condition variable.

\* A list is empty when it has no elements.
LEMMA EmptyByElements ==
  ASSUME NEW S, NEW s \in Seq(S)
  PROVE  s = << >> <=> ToSet(s) = {}
<1>1. Len(s) \in Nat /\ DOMAIN s = 1..Len(s)
  BY LenProperties
<1>2. CASE s = << >>
  BY <1>2 DEF ToSet
<1>3. CASE s # << >>
  <2>1. Len(s) # 0
    BY <1>3, EmptySeq
  <2>2. 1 \in DOMAIN s
    BY <1>1, <2>1
  <2>3. s[1] \in ToSet(s)
    BY <2>2 DEF ToSet
  <2> QED BY <1>3, <2>3
<1> QED BY <1>2, <1>3

\* ll_prio_enqueue adds one waiter to the queue.
LEMMA EnqueueCond ==
  ASSUME NEW s \in Seq(Threads), \A x : Once(s, x), NEW t \in Threads, t \notin ToSet(s)
  PROVE  /\ Enqueue(s, t) \in Seq(Threads) /\ \A x : Once(Enqueue(s, t), x)
         /\ ToSet(Enqueue(s, t)) = ToSet(s) \cup {t}
<1> DEFINE E == {i \in DOMAIN s : Prio[s[i]] >= Prio[t]}
<1>1. Len(s) \in Nat /\ DOMAIN s = 1..Len(s) /\ E \subseteq 1..Len(s)
  BY LenProperties
<1> HIDE DEF E
<1>2. IsFiniteSet(1..Len(s)) /\ Cardinality(1..Len(s)) = Len(s)
  <2>1. PICK n : n = Len(s)
    OBVIOUS
  <2>2. n \in Int /\ 1 \in Int /\ n >= 0
    BY <1>1, <2>1
  <2>3. IsFiniteSet(1..n) /\ Cardinality(1..n) = IF 1 > n THEN 0 ELSE n - 1 + 1
    BY ONLY <2>2, FS_Interval
  <2> QED BY <2>1, <2>2, <2>3
<1>3. Cardinality(E) <= Len(s) /\ Cardinality(E) \in Nat
  <2>1. IsFiniteSet(E) /\ Cardinality(E) <= Cardinality(1..Len(s))
    BY <1>1, <1>2, FS_Subset
  <2>2. Cardinality(E) \in Nat
    BY <2>1, FS_CardinalityType
  <2> QED BY <1>2, <2>1, <2>2
<1>4. PICK i : i = 1 + Cardinality(E)
  OBVIOUS
<1>5. i \in 1..(Len(s) + 1) /\ Enqueue(s, t) = InsertAt(s, i, t)
  BY <1>1, <1>3, <1>4 DEF Enqueue, E
<1>6. InsertAt(s, i, t) \in Seq(Threads)
  BY ONLY <1>5, s \in Seq(Threads), t \in Threads, InsertAtFacts
<1>7. /\ ToSet(InsertAt(s, i, t)) = ToSet(s) \cup {t}
      /\ \A y : y # t /\ Once(s, y) => Once(InsertAt(s, i, t), y)
      /\ t \notin ToSet(s) => Once(InsertAt(s, i, t), t)
  BY ONLY <1>5, s \in Seq(Threads), t \in Threads, InsertAtElements
<1> QED BY <1>5, <1>6, <1>7

\* The end of chopstx_poll takes the proxy out of the queue: afterwards it is not there, whether
\* somebody has signalled it or not.
LEMMA TakenBackCond ==
  ASSUME Types, CondInv, NEW t \in Threads, Polls(t)
  PROVE  /\ TakenBack(t) \in Seq(Threads) /\ \A x : Once(TakenBack(t), x)
         /\ ToSet(TakenBack(t)) = ToSet(cond) \ {t}
<1>1. CondOf(t) /\ cond \in Seq(Threads) /\ \A x : Once(cond, x)
  BY DEF CondInv, Types, CallTypes
<1>2. pc[t] # "ev_wait"
  BY DEF Polls
<1>3. CASE counter[t] > 0
  BY <1>1, <1>2, <1>3 DEF TakenBack, CondOf, Types, CallTypes
<1>4. CASE ~(counter[t] > 0)
  <2>1. t \in ToSet(cond)
    BY <1>1, <1>4 DEF CondOf, Types, CallTypes
  <2>2. PICK i : i = CHOOSE j \in DOMAIN cond : cond[j] = t
    OBVIOUS
  <2>3. i \in DOMAIN cond /\ cond[i] = t
    BY <2>1, <2>2 DEF ToSet
  <2>4. i \in 1..Len(cond) /\ TakenBack(t) = RemoveAt(cond, i)
    BY <1>1, <1>4, <2>2, <2>3, LenProperties DEF TakenBack
  <2>5. RemoveAt(cond, i) \in Seq(Threads)
    BY <1>1, <2>4, RemoveAtFacts
  <2>6. /\ ToSet(RemoveAt(cond, i)) \subseteq ToSet(cond)
        /\ \A y \in ToSet(cond) : y # t => y \in ToSet(RemoveAt(cond, i))
        /\ \A y : Once(cond, y) => Once(RemoveAt(cond, i), y)
        /\ Once(cond, t) => t \notin ToSet(RemoveAt(cond, i))
    BY <1>1, <2>3, <2>4, RemoveAtElements
  <2> QED BY <1>1, <2>4, <2>5, <2>6
<1> QED BY <1>3, <1>4

\* chopstx_cond_signal takes the first waiter out of the queue.
LEMMA TailCond ==
  ASSUME NEW s \in Seq(Threads), \A x : Once(s, x), s # << >>
  PROVE  /\ Tail(s) \in Seq(Threads) /\ \A x : Once(Tail(s), x)
         /\ Head(s) \in Threads /\ Head(s) \in ToSet(s)
         /\ ToSet(Tail(s)) = ToSet(s) \ {Head(s)}
BY TailElements

-----------------------------------------------------------------------------
\* Counting flags, and the threads on their way to take one.

LEMMA Counted ==
  ASSUME Types
  PROVE  /\ IsFiniteSet(Wanted) /\ Cardinality(Wanted) \in Nat
         /\ \A S \in SUBSET Threads : IsFiniteSet(S) /\ Cardinality(S) \in Nat
         /\ OnTheWay \in SUBSET Threads
<1>1. Wanted \in SUBSET flags /\ IsFiniteSet(flags)
  BY DEF Types, CallTypes, Wanted
<1>2. IsFiniteSet(Wanted)
  BY <1>1, FS_Subset
<1>3. ASSUME NEW S \in SUBSET Threads PROVE IsFiniteSet(S) /\ Cardinality(S) \in Nat
  <2>1. IsFiniteSet(S)
    BY TimerAssumption, FS_Subset
  <2> QED BY <2>1, FS_CardinalityType
<1> QED BY <1>2, <1>3, FS_CardinalityType DEF OnTheWay

\* When no flag is wanted nobody can miss one.
LEMMA NoneWanted ==
  ASSUME IInv, Wanted' = {}
  PROVE  FlagsServed'
<1>1. Cardinality(Wanted') = 0
  BY FS_EmptySet
<1>2. OnTheWay' \in SUBSET Threads
  BY DEF OnTheWay
<1>3. Cardinality(OnTheWay') \in Nat
  BY <1>2, Counted DEF IInv
<1>4. Cardinality(Wanted') <= Cardinality(OnTheWay')
  BY <1>1, <1>3
<1> QED BY <1>4 DEF FlagsServed

\* Nobody leaves who is on the way.
LEMMA MoreServed ==
  ASSUME IInv, flags' = flags, mask' = mask, burst' = burst, cond' # << >> => cond # << >>,
         OnTheWay \subseteq OnTheWay'
  PROVE  FlagsServed'
<1>1. OnTheWay' \in SUBSET Threads
  BY DEF OnTheWay
<1>2. IsFiniteSet(OnTheWay') /\ Cardinality(OnTheWay') \in Nat
  BY <1>1, Counted DEF IInv
<1>3. Cardinality(OnTheWay) \in Nat /\ Cardinality(Wanted) \in Nat
  BY Counted DEF IInv
<1>4. Cardinality(OnTheWay) <= Cardinality(OnTheWay')
  BY <1>2, FS_Subset
<1>5. Wanted' = Wanted
  BY DEF Wanted
<1>6. cond # << >> /\ ~burst => Cardinality(Wanted) <= Cardinality(OnTheWay)
  BY DEF IInv, FlagsServed
<1>7. cond' # << >> /\ ~burst' => Cardinality(Wanted') <= Cardinality(OnTheWay')
  BY <1>2, <1>3, <1>4, <1>5, <1>6
<1> QED BY <1>7 DEF FlagsServed

\* A set that has one element more at most is larger by one at most.
LEMMA AddedOne ==
  ASSUME NEW S, IsFiniteSet(S), NEW T, IsFiniteSet(T), ~(Cardinality(T \ S) > 1)
  PROVE  Cardinality(T) <= Cardinality(S) + 1 /\ Cardinality(T) \in Nat /\ Cardinality(S) \in Nat
<1>1. IsFiniteSet(T \ S) /\ Cardinality(T \ S) \in Nat
  <2>1. T \ S \in SUBSET T
    OBVIOUS
  <2> QED BY <2>1, FS_Subset, FS_CardinalityType
<1>2. Cardinality(T) \in Nat /\ Cardinality(S) \in Nat
  BY FS_CardinalityType
<1>3. CASE T \ S = {}
  <2>1. T \in SUBSET S
    BY <1>3
  <2>2. Cardinality(T) <= Cardinality(S)
    BY <2>1, FS_Subset
  <2> QED BY <1>2, <2>2
<1>4. CASE T \ S # {}
  <2>1. Cardinality(T \ S) = 1
    <3>1. Cardinality(T \ S) # 0
      BY <1>1, <1>4, FS_EmptySet
    <3> QED BY <1>1, <3>1
  <2>2. PICK x : T \ S = {x}
    BY <1>1, <2>1, FS_Singleton
  <2>3. T \in SUBSET (S \cup {x})
    BY <2>2
  <2>4. IsFiniteSet(S \cup {x}) /\ Cardinality(S \cup {x}) <= Cardinality(S) + 1
    BY <1>2, FS_AddElement
  <2>5. Cardinality(T) <= Cardinality(S \cup {x}) /\ Cardinality(S \cup {x}) \in Nat
    BY <2>3, <2>4, FS_Subset, FS_CardinalityType
  <2> QED BY <1>2, <2>4, <2>5
<1> QED BY <1>3, <1>4

\* __builtin_ffs finds a wanted flag when there is one.
LEMMA LeastWanted ==
  ASSUME Types, Wanted # {}
  PROVE  \E n \in Wanted : Least(Wanted) = {n}
<1>1. Wanted \in SUBSET Nat
  BY EventAssumption DEF Types, CallTypes, Wanted
<1>2. \E n \in Wanted : \A m \in Wanted : n <= m
  BY <1>1, LeastNat
<1> QED BY <1>2 DEF Least

-----------------------------------------------------------------------------
\* What a step has to show: the rest follows from what becomes of the threads.
LEMMA StepInv ==
  ASSUME IInv, NEW W, Effects(W), \A u \in Threads : u # running => Kept(u),
         \A u \in W : pc[u] \notin {"usleep", "slept"},
         CallTypes',
         \A u \in Threads : u = running => SleepOf(u)' /\ (u \notin RR => RestOf(u)'),
         \A x : Once(cond', x), \A u \in Threads : CondOf(u)', FlagsServed'
  PROVE  IInv'
<1>1. Types'
  BY DEF Types, Effects
<1>2. TimerInv' /\ CpuInv'
  BY DEF Effects
<1>3. SleepInv'
  <2>1. ASSUME NEW u \in Threads PROVE SleepOf(u)'
    <3>1. CASE u = running
      BY <3>1
    <3>2. CASE u # running
      <4>1. Types /\ SleepInv /\ Effects(W) /\ Kept(u)
        BY <3>2 DEF IInv
      <4> QED BY ONLY <4>1, u \in Threads, SleepKept
    <3> QED BY <3>1, <3>2
  <2> QED BY <2>1 DEF SleepInv
<1>4. RestInv'
  <2>1. ASSUME NEW u \in Threads \ RR PROVE RestOf(u)'
    <3>1. CASE u = running
      BY <3>1
    <3>2. CASE u # running
      <4>1. /\ Types /\ TimerInv /\ CpuInv /\ SleepInv /\ RestInv /\ Effects(W) /\ Kept(u)
            /\ u \in W => pc[u] \notin {"usleep", "slept"}
        BY <3>2 DEF IInv
      <4> QED BY ONLY <4>1, u \in Threads \ RR, RestKept
    <3> QED BY <3>1, <3>2
  <2> QED BY <2>1 DEF RestInv
<1>5. CondInv'
  <2>1. \A x : Once(cond, x)'
    BY DEF Once
  <2> QED BY <2>1 DEF CondInv
<1> QED BY <1>1, <1>2, <1>3, <1>4, <1>5 DEF IInv

\* A step that leaves the event flag alone, and keeps the thread that makes it on its way.
LEMMA QuietStepInv ==
  ASSUME IInv, Effects({}), \A u \in Threads : u # running => Kept(u),
         CallTypes', UNCHANGED evVars,
         \A u \in Threads : u = running =>
           /\ SleepOf(u)' /\ (u \notin RR => RestOf(u)') /\ (Polls(u)' <=> Polls(u))
           /\ pc[u] = "ev_wait" <=> pc'[u] = "ev_wait"
           /\ pc[u] = "ev_get" => pc'[u] = "ev_get"
  PROVE  IInv'
<1>0. flags' = flags /\ mask' = mask /\ cond' = cond /\ counter' = counter /\ burst' = burst
  BY DEF evVars
<1>1. \A x : Once(cond', x)
  BY <1>0 DEF IInv, CondInv
<1>2. ASSUME NEW u \in Threads PROVE CondOf(u)'
  <2>1. CASE u # running
    <3>1. /\ Types /\ CondInv /\ Effects({}) /\ Kept(u)
          /\ counter'[u] = counter[u] /\ (u \in ToSet(cond') <=> u \in ToSet(cond))
          /\ (u \in {} => pc[u] # "ev_wait") /\ (u = running => state[u] \in OnCpu)
      BY <1>0, <2>1 DEF IInv
    <3> QED BY ONLY <3>1, u \in Threads, CondKept
  <2>2. CASE u = running
    <3>1. CondOf(u) /\ ToSet(cond)' = ToSet(cond)
      BY <1>0 DEF IInv, CondInv
    <3>2. ~(pc[u] = "ev_wait" /\ u \in ToSet(cond))
      <4>1. state[u] \in OnCpu
        BY <2>2, TimerAssumption DEF IInv, CpuInv, OnCpu
      <4> QED BY <3>1, <4>1 DEF CondOf, OnCpu, Polls
    <3> QED BY <1>0, <2>2, <3>1, <3>2 DEF CondOf
  <2> QED BY <2>1, <2>2
<1>3. OnTheWay \subseteq OnTheWay'
  <2> SUFFICES ASSUME NEW u \in OnTheWay PROVE u \in OnTheWay'
    OBVIOUS
  <2>1. u \in Threads
    BY DEF OnTheWay
  <2>2. CASE u # running
    BY <1>0, <2>1, <2>2 DEF OnTheWay, Kept, Polls
  <2>3. CASE u = running
    BY <1>0, <2>1, <2>3 DEF OnTheWay
  <2> QED BY <2>2, <2>3
<1>4. FlagsServed'
  BY <1>0, <1>3, MoreServed
<1> QED BY <1>1, <1>2, <1>4, StepInv

-----------------------------------------------------------------------------
\* The steps, one by one: each keeps the invariant, and resets deadlines as it may.
Keeps == IInv' /\ Resets /\ (alarm' = "no" <=> alarm = "no")

\* preempt.
LEMMA PreemptKeeps ==
  ASSUME IInv, Kernel(Preempt)
  PROVE  Keeps
<1>1. Preempt /\ pendsv' = FALSE /\ pc' = pc /\ usec' = usec /\ todo' = todo /\ UNCHANGED evVars
  BY DEF Kernel, Preempt, callVars
<1>2. Effects({}) /\ (running \in Threads => state'[running] \in OnCpu)
  BY <1>1, PreemptEffects DEF IInv
<1>3. \A u \in Threads : Kept(u)
  BY <1>1, <1>2 DEF Kept
<1>4. CallTypes'
  BY <1>1 DEF IInv, Types, CallTypes, evVars
<1>5. ASSUME NEW u \in Threads
      PROVE  /\ SleepOf(u)' /\ (u \notin RR => RestOf(u)') /\ (Polls(u)' <=> Polls(u))
             /\ pc[u] = "ev_wait" <=> pc'[u] = "ev_wait"
             /\ pc[u] = "ev_get" => pc'[u] = "ev_get"
  <2>1. SleepOf(u)'
    BY <1>2, <1>3, SleepKept DEF IInv
  <2>2. u \notin RR => RestOf(u)'
    BY <1>2, <1>3, RestKept DEF IInv
  <2> QED BY <1>1, <2>1, <2>2 DEF Polls
<1>6. IInv'
  BY <1>1, <1>2, <1>3, <1>4, <1>5, QuietStepInv
<1> QED BY <1>2, <1>6 DEF Keeps, Effects

\* The call of chopstx_usec_wait.
LEMMA UsecWaitKeeps ==
  ASSUME IInv, NEW t \in Threads, Kernel(UsecWait(t))
  PROVE  Keeps
<1>1. PICK n \in Usecs : usec' = [usec EXCEPT ![t] = n] /\ todo' = [todo EXCEPT ![t] = n * MHZ]
  BY DEF Kernel, UsecWait
<1>2. /\ running = t /\ state[t] = "RUNNING" /\ pc[t] = "user" /\ pc' = [pc EXCEPT ![t] = "usleep"]
      /\ UNCHANGED <<timerVars, running, state>> /\ pendsv' = pendsv /\ UNCHANGED evVars
  BY DEF Kernel, UsecWait, Runs, schedVars
<1>3. Effects({}) /\ state'[t] = "RUNNING"
  BY <1>2, NoEffects DEF IInv
<1>4. n \in Nat /\ n * MHZ \in Nat
  <2>1. \A x, y \in Nat : x * y \in Nat
    OBVIOUS
  <2> QED BY <2>1, TimerAssumption
<1>5. CallTypes'
  BY <1>1, <1>2, <1>4 DEF IInv, Types, CallTypes, evVars, PCs
<1>6. \A u \in Threads : u # running => Kept(u)
  BY <1>1, <1>2 DEF Kept, IInv, Types, CallTypes
<1>7. pc'[t] = "usleep" /\ usec'[t] = n /\ todo'[t] = n * MHZ
  BY <1>1, <1>2 DEF IInv, Types, CallTypes
<1>8. n * MHZ <= n * MHZ
  BY <1>4
<1>9. \A u \in Threads : u = running =>
        /\ SleepOf(u)' /\ (u \notin RR => RestOf(u)') /\ (Polls(u)' <=> Polls(u))
        /\ pc[u] = "ev_wait" <=> pc'[u] = "ev_wait"
        /\ pc[u] = "ev_get" => pc'[u] = "ev_get"
  BY <1>2, <1>3, <1>7, <1>8 DEF SleepOf, RestOf, Polls
<1>10. IInv'
  BY <1>2, <1>3, <1>5, <1>6, <1>9, QuietStepInv
<1> QED BY <1>3, <1>10 DEF Keeps, Effects

\* A round of chopstx_usec_wait; the call ends here only when all of its time is over.
LEMMA UsecSnoozeKeeps ==
  ASSUME IInv, NEW t \in Threads, Kernel(UsecSnooze(t))
  PROVE  Keeps /\ (t \notin RR /\ pc'[t] = "user" => todo[t] = 0)
<1>1. /\ running = t /\ state[t] = "RUNNING" /\ pc[t] = "usleep"
      /\ pendsv' = pendsv /\ usec' = usec /\ UNCHANGED evVars
  BY DEF Kernel, UsecSnooze, Runs
<1>2. pc \in [Threads -> PCs] /\ usec \in [Threads -> Nat] /\ todo \in [Threads -> Nat]
  BY DEF IInv, Types, CallTypes
<1>3. CASE usec[t] = 0 /\ pc' = [pc EXCEPT ![t] = "user"] /\ todo' = [todo EXCEPT ![t] = 0]
           /\ UNCHANGED <<timerVars, running, state>>
  <2>1. Effects({}) /\ state'[t] = "RUNNING"
    BY <1>1, <1>3, NoEffects DEF IInv
  <2>2. CallTypes'
    BY <1>1, <1>2, <1>3 DEF IInv, Types, CallTypes, evVars, PCs
  <2>3. \A u \in Threads : u # running => Kept(u)
    BY <1>1, <1>2, <1>3 DEF Kept
  <2>4. pc'[t] = "user"
    BY <1>2, <1>3
  <2>5. \A u \in Threads : u = running =>
          /\ SleepOf(u)' /\ (u \notin RR => RestOf(u)') /\ (Polls(u)' <=> Polls(u))
          /\ pc[u] = "ev_wait" <=> pc'[u] = "ev_wait"
          /\ pc[u] = "ev_get" => pc'[u] = "ev_get"
    BY <1>1, <2>1, <2>4 DEF SleepOf, RestOf, Polls
  <2>6. IInv'
    BY <1>1, <2>1, <2>2, <2>3, <2>5, QuietStepInv
  <2>7. t \notin RR => todo[t] = 0
    <3>1. 0 * MHZ = 0
      BY MaxTicksNat
    <3>2. t \notin RR => todo[t] <= usec[t] * MHZ
      BY <1>1 DEF IInv, RestInv, RestOf
    <3>3. t \notin RR => todo[t] <= 0
      BY <1>3, <3>1, <3>2
    <3> QED BY <1>2, <3>3
  <2> QED BY <2>1, <2>6, <2>7 DEF Keeps, Effects
<1>4. CASE usec[t] > 0 /\ Snooze(t, "WAIT_TIME") /\ pc' = [pc EXCEPT ![t] = "slept"] /\ todo' = todo
  <2>1. PICK n : n = Slept(usec[t]) * MHZ
    OBVIOUS
  <2>2. n \in 1..MaxTicks /\ usec[t] * MHZ = Rest(t) + n /\ Rest(t) \in Nat
    BY <1>2, <1>4, <2>1, SleepTicks DEF Rest
  <2>3. PICK T : T = TimerInsert(StopSlice(timer, running), running, n)
    OBVIOUS
  <2>4. Sleep(running, "WAIT_TIME", T)
    BY <1>1, <1>4, <2>1, <2>3 DEF Snooze
  <2>5. /\ Section(T) /\ ToSet(T.q) = ToSet(timer.q) \cup {running} /\ Left(T)[running] = n
        /\ \A u \in Threads : u # running => Left(T)[u] = Left(timer)[u]
        /\ \A u \in Threads \ ToSet(timer.q) : u # running => T.v[u] = timer.v[u]
    BY <1>1, <2>2, <2>3, SleepSection DEF IInv
  <2>6. Effects({}) /\ state'[running] = "WAIT_TIME" /\ Left(timer')[running] = Left(T)[running]
    BY <1>1, <2>4, <2>5, SleepEffects DEF IInv
  <2>7. CallTypes'
    BY <1>1, <1>2, <1>4 DEF IInv, Types, CallTypes, evVars, PCs
  <2>8. \A u \in Threads : u # running => Kept(u)
    BY <1>1, <1>2, <1>4 DEF Kept
  <2>9. pc'[t] = "slept" /\ state'[t] = "WAIT_TIME" /\ Left(timer)'[t] = n /\ Rest(t)' = Rest(t)
    <3>1. Left(timer)' = Left(timer')
      BY DEF Left, Remained, Place, Expiry
    <3> QED BY <1>1, <1>2, <1>4, <2>5, <2>6, <3>1 DEF Rest, Slept
  <2>10. t \notin RR => todo'[t] <= Left(timer)'[t] + Rest(t)'
    <3>1. t \notin RR => todo[t] <= usec[t] * MHZ
      BY <1>1 DEF IInv, RestInv, RestOf
    <3> QED BY <1>2, <1>4, <2>2, <2>9, <3>1
  <2>11. \A u \in Threads : u = running =>
          /\ SleepOf(u)' /\ (u \notin RR => RestOf(u)') /\ (Polls(u)' <=> Polls(u))
          /\ pc[u] = "ev_wait" <=> pc'[u] = "ev_wait"
          /\ pc[u] = "ev_get" => pc'[u] = "ev_get"
    BY <1>1, <2>9, <2>10 DEF SleepOf, RestOf, Polls
  <2>12. IInv'
    BY <1>1, <2>6, <2>7, <2>8, <2>11, QuietStepInv
  <2> QED BY <2>6, <2>9, <2>12 DEF Keeps, Effects
<1> QED BY <1>3, <1>4 DEF Kernel, UsecSnooze

\* What chx_snooze leaves in *usec_p never is negative.
LEMMA UsecLeftNat ==
  ASSUME IInv, NEW t \in Threads
  PROVE  /\ UsecLeft(t) \in Nat
         /\ Result(t) = 0 => UsecLeft(t) = usec[t] - Slept(usec[t])
<1>1. usec[t] \in Nat /\ timer.v[t] \in Nat
  BY DEF IInv, Types, CallTypes, TimerInv, TimerOK, IsTimer
<1>2. Slept(usec[t]) \in Nat /\ usec[t] - Slept(usec[t]) \in Nat
  BY <1>1, SleepTicks
<1>3. PICK d : d = timer.v[t] \div MHZ
  OBVIOUS
<1>4. \A x \in Nat, y \in Nat \ {0} : x \div y \in Nat /\ (x = 0 => x \div y = 0)
  OBVIOUS
<1>5. d \in Nat /\ (timer.v[t] = 0 => d = 0)
  BY <1>1, <1>3, <1>4, MaxTicksNat
<1> QED BY <1>1, <1>2, <1>3, <1>5 DEF UsecLeft, Result

\* The end of a round; but for a round-robin thread the call does not end here.
LEMMA UsecSleptKeeps ==
  ASSUME IInv, NEW t \in Threads, Kernel(UsecSlept(t))
  PROVE  Keeps /\ (t \notin RR => pc'[t] # "user")
<1>1. /\ running = t /\ state[t] = "RUNNING" /\ pc[t] = "slept"
      /\ UNCHANGED <<timerVars, running, state>> /\ pendsv' = pendsv /\ UNCHANGED evVars
  BY DEF Kernel, UsecSlept, Runs, schedVars
<1>2. pc \in [Threads -> PCs] /\ usec \in [Threads -> Nat] /\ todo \in [Threads -> Nat]
  BY DEF IInv, Types, CallTypes
<1>3. \/ /\ Result(t) = 0 /\ usec' = [usec EXCEPT ![t] = UsecLeft(t)]
         /\ pc' = [pc EXCEPT ![t] = "usleep"] /\ todo' = todo
      \/ /\ Result(t) # 0 /\ usec' = [usec EXCEPT ![t] = 0]
         /\ pc' = [pc EXCEPT ![t] = "user"] /\ todo' = [todo EXCEPT ![t] = 0]
  BY DEF Kernel, UsecSlept
<1>4. t \notin RR => Result(t) = 0 /\ todo[t] <= Rest(t)
  BY <1>1 DEF IInv, RestInv, RestOf, Result
<1>5. Effects({}) /\ state'[t] = "RUNNING"
  BY <1>1, NoEffects DEF IInv
<1>6. UsecLeft(t) \in Nat /\ (Result(t) = 0 => UsecLeft(t) * MHZ = Rest(t))
  BY UsecLeftNat DEF Rest
<1>7. CallTypes'
  <2>1. pc' \in [Threads -> PCs] /\ usec' \in [Threads -> Nat] /\ todo' \in [Threads -> Nat]
    BY <1>2, <1>3, <1>6 DEF PCs
  <2> QED BY <1>1, <2>1 DEF IInv, Types, CallTypes, evVars
<1>8. \A u \in Threads : u # running => Kept(u)
  BY <1>1, <1>2, <1>3 DEF Kept
<1>9. pc'[t] \in {"usleep", "user"}
  BY <1>2, <1>3
<1>10. t \notin RR => pc'[t] = "usleep" /\ todo'[t] <= usec'[t] * MHZ
  BY <1>2, <1>3, <1>4, <1>6
<1>11. \A u \in Threads : u = running =>
         /\ SleepOf(u)' /\ (u \notin RR => RestOf(u)') /\ (Polls(u)' <=> Polls(u))
         /\ pc[u] = "ev_wait" <=> pc'[u] = "ev_wait"
         /\ pc[u] = "ev_get" => pc'[u] = "ev_get"
  BY <1>1, <1>5, <1>9, <1>10 DEF SleepOf, RestOf, Polls
<1>12. IInv'
  BY <1>1, <1>5, <1>7, <1>8, <1>11, QuietStepInv
<1> QED BY <1>5, <1>10, <1>12 DEF Keeps, Effects

\* A round of the poll in eventflag_wait_timeout.
LEMMA EvPollKeeps ==
  ASSUME IInv, NEW t \in Threads, EvPoll(t)
  PROVE  Keeps
<1>1. /\ running = t /\ state[t] = "RUNNING" /\ pc[t] = "ev_poll"
      /\ pendsv' = pendsv /\ usec' = usec /\ todo' = todo /\ UNCHANGED evVars
  BY DEF EvPoll, Runs
<1>2. pc \in [Threads -> PCs] /\ usec \in [Threads -> Nat]
  BY DEF IInv, Types, CallTypes
<1>3. CASE pc' = [pc EXCEPT ![t] = "ev_clean"] /\ UNCHANGED <<timerVars, running, state>>
  <2>1. Effects({}) /\ state'[t] = "RUNNING"
    BY <1>1, <1>3, NoEffects DEF IInv
  <2>2. CallTypes'
    BY <1>1, <1>2, <1>3 DEF IInv, Types, CallTypes, evVars, PCs
  <2>3. \A u \in Threads : u # running => Kept(u)
    BY <1>1, <1>2, <1>3 DEF Kept
  <2>4. pc'[t] = "ev_clean"
    BY <1>2, <1>3
  <2>5. \A u \in Threads : u = running =>
          /\ SleepOf(u)' /\ (u \notin RR => RestOf(u)') /\ (Polls(u)' <=> Polls(u))
          /\ pc[u] = "ev_wait" <=> pc'[u] = "ev_wait"
          /\ pc[u] = "ev_get" => pc'[u] = "ev_get"
    BY <1>1, <2>1, <2>4 DEF SleepOf, RestOf, Polls
  <2>6. IInv'
    BY <1>1, <2>1, <2>2, <2>3, <2>5, QuietStepInv
  <2> QED BY <2>1, <2>6 DEF Keeps, Effects
<1>4. CASE ~PollEnds(t) /\ Snooze(t, "WAIT_POLL") /\ pc' = [pc EXCEPT ![t] = "ev_polled"]
  <2>1. PICK n : n = Slept(usec[t]) * MHZ
    OBVIOUS
  <2>2. n \in 1..MaxTicks
    <3>1. usec[t] \in Nat /\ usec[t] > 0
      BY <1>2, <1>4 DEF PollEnds
    <3> QED BY <2>1, <3>1, SleepTicks
  <2>3. PICK T : T = TimerInsert(StopSlice(timer, running), running, n)
    OBVIOUS
  <2>4. Sleep(running, "WAIT_POLL", T)
    BY <1>1, <1>4, <2>1, <2>3 DEF Snooze
  <2>5. /\ Section(T) /\ ToSet(T.q) = ToSet(timer.q) \cup {running} /\ Left(T)[running] = n
        /\ \A u \in Threads : u # running => Left(T)[u] = Left(timer)[u]
        /\ \A u \in Threads \ ToSet(timer.q) : u # running => T.v[u] = timer.v[u]
    BY <1>1, <2>2, <2>3, SleepSection DEF IInv
  <2>6. Effects({}) /\ state'[running] = "WAIT_POLL" /\ Left(timer')[running] = Left(T)[running]
    BY <1>1, <2>4, <2>5, SleepEffects DEF IInv
  <2>7. CallTypes'
    BY <1>1, <1>2, <1>4 DEF IInv, Types, CallTypes, evVars, PCs
  <2>8. \A u \in Threads : u # running => Kept(u)
    BY <1>1, <1>2, <1>4 DEF Kept
  <2>9. pc'[t] = "ev_polled" /\ state'[t] = "WAIT_POLL"
    BY <1>1, <1>2, <1>4, <2>6
  <2>10. \A u \in Threads : u = running =>
          /\ SleepOf(u)' /\ (u \notin RR => RestOf(u)') /\ (Polls(u)' <=> Polls(u))
          /\ pc[u] = "ev_wait" <=> pc'[u] = "ev_wait"
          /\ pc[u] = "ev_get" => pc'[u] = "ev_get"
    BY <1>1, <2>9 DEF SleepOf, RestOf, Polls
  <2>11. IInv'
    BY <1>1, <2>6, <2>7, <2>8, <2>10, QuietStepInv
  <2> QED BY <2>6, <2>11 DEF Keeps, Effects
<1> QED BY <1>3, <1>4 DEF EvPoll

\* The end of a round of the poll.
LEMMA EvPolledKeeps ==
  ASSUME IInv, NEW t \in Threads, EvPolled(t)
  PROVE  Keeps
<1>1. /\ running = t /\ state[t] = "RUNNING" /\ pc[t] = "ev_polled"
      /\ UNCHANGED <<timerVars, running, state>> /\ pendsv' = pendsv /\ todo' = todo
      /\ UNCHANGED evVars
  BY DEF EvPolled, Runs, schedVars
<1>2. pc \in [Threads -> PCs] /\ usec \in [Threads -> Nat]
  BY DEF IInv, Types, CallTypes
<1>3. /\ usec' = [usec EXCEPT ![t] = UsecLeft(t)]
      /\ pc' = [pc EXCEPT ![t] = IF Result(t) = 0 THEN "ev_poll" ELSE "ev_clean"]
  BY DEF EvPolled
<1>4. Effects({}) /\ state'[t] = "RUNNING"
  BY <1>1, NoEffects DEF IInv
<1>5. CallTypes'
  BY <1>1, <1>2, <1>3, UsecLeftNat DEF IInv, Types, CallTypes, evVars, PCs
<1>6. \A u \in Threads : u # running => Kept(u)
  BY <1>1, <1>2, <1>3 DEF Kept
<1>7. pc'[t] \in {"ev_poll", "ev_clean"}
  BY <1>2, <1>3
<1>8. \A u \in Threads : u = running =>
        /\ SleepOf(u)' /\ (u \notin RR => RestOf(u)') /\ (Polls(u)' <=> Polls(u))
        /\ pc[u] = "ev_wait" <=> pc'[u] = "ev_wait"
        /\ pc[u] = "ev_get" => pc'[u] = "ev_get"
  BY <1>1, <1>4, <1>7 DEF SleepOf, RestOf, Polls
<1>9. IInv'
  BY <1>1, <1>4, <1>5, <1>6, <1>8, QuietStepInv
<1> QED BY <1>4, <1>9 DEF Keeps, Effects

-----------------------------------------------------------------------------
\* A call that sets flags or the mask, and signals the condition variable.

\* The waiter at the head of the queue is signalled; those in W are woken up.
Signalled(W) ==
  /\ cond # << >> /\ cond' = Tail(cond) /\ W \subseteq {Head(cond)}
  /\ counter' = IF Polls(Head(cond)) THEN [counter EXCEPT ![Head(cond)] = 1] ELSE counter

\* chopstx_cond_signal wakes nobody up, or the head of the queue.
LEMMA SignalEffects ==
  ASSUME IInv, running \in Threads, state[running] = "RUNNING", SignalCond
  PROVE  \E W : /\ Effects(W) /\ state'[running] \in OnCpu
                /\ \/ W = {} /\ cond' = cond /\ counter' = counter /\ (Wanted' = {} \/ cond = << >>)
                   \/ Signalled(W) /\ Wanted' # {}
<1> USE DEF IInv
<1>1. CASE Wanted' = {} \/ cond = << >>
  <2>1. UNCHANGED <<cond, counter, timerVars, running, state>>
    BY <1>1 DEF SignalCond
  <2>2. Effects({}) /\ state'[running] \in OnCpu
    BY <2>1, NoEffects DEF OnCpu
  <2> QED BY <1>1, <2>1, <2>2
<1>2. CASE ~(Wanted' = {} \/ cond = << >>)
  <2>h. PICK h : h = Head(cond)
    OBVIOUS
  <2>1. /\ cond' = Tail(cond)
        /\ counter' = IF Polls(h) THEN [counter EXCEPT ![h] = 1] ELSE counter
    BY <1>2, <2>h DEF SignalCond
  <2>2. h \in Threads
    BY <1>2, <2>h, TailElements DEF Types, CallTypes
  <2>3. CASE state[h] = "WAIT_CND"
    <3>1. WakeFrom(Woken(h), h)
      BY <1>2, <2>h, <2>3 DEF SignalCond, Woken
    <3>2. Effects({h}) /\ state'[running] \in OnCpu
      BY <2>2, <2>3, <3>1, WakeEffects
    <3> QED BY <1>2, <2>h, <2>1, <3>2 DEF Signalled
  <2>4. CASE state[h] = "WAIT_POLL"
    <3>1. WakeFrom(Woken(h), h)
      BY <1>2, <2>h, <2>4 DEF SignalCond, Woken
    <3>2. Effects({h}) /\ state'[running] \in OnCpu
      BY <2>2, <2>4, <3>1, WakeEffects
    <3> QED BY <1>2, <2>h, <2>1, <3>2 DEF Signalled
  <2>5. CASE state[h] \notin {"WAIT_CND", "WAIT_POLL"}
    <3>1. UNCHANGED <<timerVars, running, state>>
      BY <1>2, <2>h, <2>5 DEF SignalCond
    <3>2. Effects({}) /\ state'[running] \in OnCpu
      BY <3>1, NoEffects DEF OnCpu
    <3> QED BY <1>2, <2>h, <2>1, <3>2 DEF Signalled
  <2> QED BY <2>3, <2>4, <2>5
<1> QED BY <1>1, <1>2

\* One more wanted flag, and one more thread on its way: the balance of FlagsServed holds.
LEMMA SignalKeeps ==
  ASSUME IInv, NEW t \in Threads, Runs(t, "user"), SignalCond, Burst,
         flags' \subseteq UNION Masks, IsFiniteSet(flags'), mask' \in Masks \cup {UNION Masks},
         pendsv' = pendsv, UNCHANGED callVars
  PROVE  Keeps
<1>1. /\ running = t /\ state[t] = "RUNNING" /\ pc[t] = "user"
      /\ pc' = pc /\ usec' = usec /\ todo' = todo
  BY DEF Runs, callVars
<1>2. PICK W : /\ Effects(W) /\ state'[t] \in OnCpu
               /\ \/ W = {} /\ cond' = cond /\ counter' = counter /\ (Wanted' = {} \/ cond = << >>)
                  \/ Signalled(W) /\ Wanted' # {}
  BY <1>1, SignalEffects
<1>3. /\ cond \in Seq(Threads) /\ (\A x : Once(cond, x)) /\ \A u \in Threads : CondOf(u)
      /\ counter \in [Threads -> 0..1]
  BY DEF IInv, Types, CallTypes, CondInv
<1>4. PICK h : h = Head(cond)
  OBVIOUS
<1>5. Signalled(W) => /\ h \in Threads /\ h \in ToSet(cond) /\ cond' \in Seq(Threads)
                      /\ (\A x : Once(cond', x)) /\ ToSet(cond') = ToSet(cond) \ {h}
                      /\ counter' = IF Polls(h) THEN [counter EXCEPT ![h] = 1] ELSE counter
                      /\ W \subseteq {h} /\ cond # << >>
  BY <1>3, <1>4, TailCond DEF Signalled
<1>6. t \notin ToSet(cond) /\ (Signalled(W) => h # t /\ pc[h] \notin {"usleep", "slept", "user"})
  BY <1>1, <1>3, <1>5 DEF CondOf, Polls
<1>7. \A u \in Threads : Kept(u)
  BY <1>1, <1>2 DEF Kept
<1>8. CallTypes'
  <2>1. burst' \in BOOLEAN
    BY DEF Burst
  <2>2. cond' \in Seq(Threads) /\ counter' \in [Threads -> 0..1]
    BY <1>2, <1>3, <1>5
  <2> QED BY <1>1, <2>1, <2>2 DEF IInv, Types, CallTypes
<1>9. \A u \in Threads : u = running => SleepOf(u)' /\ (u \notin RR => RestOf(u)')
  BY <1>1, <1>2 DEF SleepOf, RestOf, OnCpu
<1>10. \A x : Once(cond', x)
  BY <1>2, <1>3, <1>5
<1>11. ASSUME NEW u \in Threads PROVE CondOf(u)'
  <2>1. CASE u # h \/ ~Signalled(W)
    <3>1. counter'[u] = counter[u] /\ (u \in ToSet(cond') <=> u \in ToSet(cond))
      BY <1>2, <1>3, <1>5, <2>1
    <3>2. (u \in W => pc[u] # "ev_wait") /\ (u = running => state[u] \in OnCpu)
      BY <1>1, <1>2, <1>5, <2>1 DEF OnCpu
    <3>3. Types /\ CondInv /\ Effects(W) /\ Kept(u)
      BY <1>2, <1>7 DEF IInv
    <3> QED BY ONLY <3>1, <3>2, <3>3, u \in Threads, CondKept
  <2>2. CASE u = h /\ Signalled(W)
    <3>1. Polls(u)' <=> Polls(u)
      BY <1>1 DEF Polls
    <3>2. u \notin ToSet(cond)' /\ (Polls(u) => counter'[u] = 1)
      BY <1>3, <1>5, <2>2 DEF ToSet
    <3> QED BY <3>1, <3>2 DEF CondOf
  <2> QED BY <2>1, <2>2
<1>12. FlagsServed'
  <2> SUFFICES ASSUME cond' # << >>, ~burst', Wanted' # {}
               PROVE  Cardinality(Wanted') <= Cardinality(OnTheWay')
    BY NoneWanted DEF FlagsServed
  <2>1. Signalled(W) \/ cond = << >>
    BY <1>2
  <2>2. cond # << >> /\ Signalled(W)
    BY <1>2, <1>5, <2>1
  <2>3. ~burst /\ ~(Cardinality(Wanted' \ Wanted) > 1)
    BY <2>2 DEF Burst
  <2>4. IsFiniteSet(Wanted') /\ IsFiniteSet(Wanted) /\ Cardinality(Wanted) \in Nat
    <3>1. Wanted' \in SUBSET flags'
      BY DEF Wanted
    <3> QED BY <3>1, FS_Subset, Counted DEF IInv
  <2>5. Cardinality(Wanted') <= Cardinality(Wanted) + 1 /\ Cardinality(Wanted') \in Nat
    BY <2>3, <2>4, AddedOne
  <2>6. OnTheWay \cup {h} \subseteq OnTheWay' /\ h \notin OnTheWay
    <3>1. h \notin OnTheWay
      BY <1>3, <1>5, <2>2 DEF CondOf, OnTheWay, Polls
    <3>2. h \in OnTheWay'
      <4>1. h \notin ToSet(cond)' /\ (Polls(h) => counter'[h] > 0)
        BY <1>3, <1>5, <2>2 DEF ToSet
      <4>2. (Polls(h)' <=> Polls(h)) /\ pc'[h] = pc[h]
        BY <1>1 DEF Polls
      <4>3. pc[h] = "ev_wait" \/ Polls(h)
        BY <1>3, <1>5, <2>2 DEF CondOf
      <4> QED BY <1>5, <2>2, <4>1, <4>2, <4>3 DEF OnTheWay
    <3>3. ASSUME NEW u \in OnTheWay PROVE u \in OnTheWay'
      <4>1. u \in Threads /\ u # h
        BY <3>1, <3>3 DEF OnTheWay
      <4>2. (u \in ToSet(cond)' => u \in ToSet(cond)) /\ counter'[u] = counter[u]
        BY <1>3, <1>5, <2>2, <4>1 DEF ToSet
      <4>3. (Polls(u)' <=> Polls(u)) /\ pc'[u] = pc[u]
        BY <1>1 DEF Polls
      <4> QED BY <3>3, <4>1, <4>2, <4>3 DEF OnTheWay
    <3> QED BY <3>1, <3>2, <3>3
  <2>7. Cardinality(OnTheWay) \in Nat /\ IsFiniteSet(OnTheWay)
        /\ Cardinality(OnTheWay') \in Nat /\ IsFiniteSet(OnTheWay')
    <3>1. OnTheWay' \in SUBSET Threads /\ OnTheWay \in SUBSET Threads
      BY DEF OnTheWay
    <3> QED BY <3>1, Counted DEF IInv
  <2>8. Cardinality(OnTheWay) + 1 <= Cardinality(OnTheWay')
    <3>1. Cardinality(OnTheWay \cup {h}) = Cardinality(OnTheWay) + 1
      BY <2>6, <2>7, FS_AddElement
    <3>2. Cardinality(OnTheWay \cup {h}) <= Cardinality(OnTheWay')
      BY <2>6, <2>7, FS_Subset
    <3> QED BY <3>1, <3>2
  <2>9. Cardinality(Wanted) <= Cardinality(OnTheWay)
    BY <2>2, <2>3 DEF IInv, FlagsServed
  <2> QED BY <2>4, <2>5, <2>7, <2>8, <2>9
<1>13. \A u \in W : pc[u] \notin {"usleep", "slept"}
  BY <1>2, <1>5, <1>6
<1>14. IInv'
  BY <1>2, <1>7, <1>8, <1>9, <1>10, <1>11, <1>12, <1>13, StepInv
<1> QED BY <1>2, <1>14 DEF Keeps, Effects

\* eventflag_signal.
LEMMA EvSignalKeeps ==
  ASSUME IInv, NEW t \in Threads, EvSignal(t)
  PROVE  Keeps
<1>1. PICK m \in Masks : flags' = flags \cup m
  BY DEF EvSignal
<1>2. flags' \subseteq UNION Masks /\ IsFiniteSet(flags')
  <2>1. IsFiniteSet(m) /\ m \subseteq UNION Masks
    BY EventAssumption
  <2>2. IsFiniteSet(flags) /\ flags \subseteq UNION Masks
    BY DEF IInv, Types, CallTypes
  <2>3. IsFiniteSet(flags \cup m)
    BY <2>1, <2>2, FS_Union
  <2> QED BY <1>1, <2>1, <2>2, <2>3
<1>3. /\ Runs(t, "user") /\ SignalCond /\ Burst /\ mask' \in Masks \cup {UNION Masks}
      /\ pendsv' = pendsv /\ UNCHANGED callVars
  BY DEF EvSignal, IInv, Types, CallTypes
<1> QED BY <1>2, <1>3, SignalKeeps

\* eventflag_set_mask.
LEMMA EvSetMaskKeeps ==
  ASSUME IInv, NEW t \in Threads, EvSetMask(t)
  PROVE  Keeps
<1>1. flags' \subseteq UNION Masks /\ IsFiniteSet(flags') /\ mask' \in Masks \cup {UNION Masks}
  BY DEF EvSetMask, IInv, Types, CallTypes
<1>2. Runs(t, "user") /\ SignalCond /\ Burst /\ pendsv' = pendsv /\ UNCHANGED callVars
  BY DEF EvSetMask
<1> QED BY <1>1, <1>2, SignalKeeps

-----------------------------------------------------------------------------
\* The calls that take a flag, or wait for one.

\* What a thread that takes a flag and leaves does to the balance.
LEMMA TakeServed ==
  ASSUME IInv, NEW t \in Threads, Take, mask' = mask, cond' = cond, t \notin ToSet(cond),
         counter'[t] = 0 \/ ~Polls(t), pc'[t] = "user",
         \A u \in Threads \ {t} : pc'[u] = pc[u] /\ counter'[u] = counter[u]
  PROVE  FlagsServed' /\ IsFiniteSet(flags') /\ flags' \subseteq flags /\ burst' \in BOOLEAN
<1>1. IsFiniteSet(Wanted) /\ Cardinality(Wanted) \in Nat /\ IsFiniteSet(flags)
  BY Counted DEF IInv, Types, CallTypes
<1>2. flags' \subseteq flags /\ IsFiniteSet(flags')
  <2>1. flags' \in SUBSET flags
    BY DEF Take
  <2> QED BY <1>1, <2>1, FS_Subset
<1>3. burst' = (burst /\ Wanted' # {}) /\ burst' \in BOOLEAN
  BY DEF Take, IInv, Types, CallTypes
<1>4. OnTheWay' = OnTheWay \ {t}
  <2>1. t \notin OnTheWay'
    BY DEF OnTheWay, Polls
  <2>2. ASSUME NEW u \in Threads \ {t} PROVE u \in OnTheWay' <=> u \in OnTheWay
    BY DEF OnTheWay, Polls
  <2>3. OnTheWay \subseteq Threads /\ OnTheWay' \subseteq Threads
    BY DEF OnTheWay
  <2> QED BY <2>1, <2>2, <2>3
<1>5. IsFiniteSet(OnTheWay) /\ Cardinality(OnTheWay) \in Nat
  BY Counted DEF IInv
<1>6. /\ Cardinality(OnTheWay') \in Nat
      /\ Cardinality(OnTheWay') >= Cardinality(OnTheWay) - 1
  <2>1. IsFiniteSet(OnTheWay \ {t})
        /\ Cardinality(OnTheWay \ {t}) = IF t \in OnTheWay THEN Cardinality(OnTheWay) - 1
                                                           ELSE Cardinality(OnTheWay)
    BY <1>5, FS_RemoveElement
  <2>2. Cardinality(OnTheWay \ {t}) \in Nat
    BY <2>1, FS_CardinalityType
  <2> QED BY <1>4, <1>5, <2>1, <2>2
<1>7. CASE Wanted = {}
  <2>1. Wanted' = {}
    BY <1>2, <1>7 DEF Wanted
  <2>2. Cardinality(Wanted') = 0
    BY <2>1, FS_EmptySet
  <2>3. Cardinality(Wanted') <= Cardinality(OnTheWay')
    BY <1>6, <2>2
  <2> QED BY <1>2, <1>3, <2>3 DEF FlagsServed
<1>8. CASE Wanted # {}
  <2>1. PICK n \in Wanted : Least(Wanted) = {n}
    BY <1>8, LeastWanted DEF IInv
  <2>2. Wanted' = Wanted \ {n}
    BY <1>8, <2>1 DEF Take, Wanted
  <2>3. Cardinality(Wanted') = Cardinality(Wanted) - 1
    BY <1>1, <2>1, <2>2, FS_RemoveElement
  <2>4. CASE burst
    <3>1. ~burst' => Cardinality(Wanted') = 0
      BY <1>3, <2>4, FS_EmptySet
    <3> QED BY <1>2, <1>3, <1>6, <3>1 DEF FlagsServed
  <2>5. CASE ~burst
    <3>1. cond # << >> => Cardinality(Wanted) <= Cardinality(OnTheWay)
      BY <2>5 DEF IInv, FlagsServed
    <3>2. cond' # << >> => Cardinality(Wanted') <= Cardinality(OnTheWay')
      BY <1>1, <1>5, <1>6, <2>3, <3>1
    <3> QED BY <1>2, <1>3, <3>2 DEF FlagsServed
  <2> QED BY <2>4, <2>5
<1> QED BY <1>7, <1>8

\* eventflag_get.
LEMMA EvGetKeeps ==
  ASSUME IInv, NEW t \in Threads, EvGet(t)
  PROVE  Keeps
<1>1. /\ running = t /\ state[t] = "RUNNING" /\ pc[t] \in {"user", "ev_get"}
      /\ mask' = mask /\ Take /\ pendsv' = pendsv /\ todo' = todo /\ cond' = cond
      /\ UNCHANGED <<timerVars, running, state>>
  BY DEF EvGet, Runs, schedVars
<1>2. /\ pc' = [pc EXCEPT ![t] = "user"] /\ usec' = [usec EXCEPT ![t] = 0]
      /\ counter' = [counter EXCEPT ![t] = 0]
  BY DEF EvGet
<1>3. /\ pc \in [Threads -> PCs] /\ usec \in [Threads -> Nat] /\ counter \in [Threads -> 0..1]
      /\ CondOf(t)
  BY DEF IInv, Types, CallTypes, CondInv
<1>4. t \notin ToSet(cond) /\ pc'[t] = "user" /\ counter'[t] = 0
  BY <1>1, <1>2, <1>3 DEF CondOf, Polls
<1>5. Effects({}) /\ state'[t] = "RUNNING"
  BY <1>1, NoEffects DEF IInv
<1>6. FlagsServed' /\ IsFiniteSet(flags') /\ flags' \subseteq flags /\ burst' \in BOOLEAN
  <2>1. \A u \in Threads \ {t} : pc'[u] = pc[u] /\ counter'[u] = counter[u]
    BY <1>2, <1>3
  <2> QED BY <1>1, <1>4, <2>1, TakeServed
<1>7. CallTypes'
  <2>1. pc' \in [Threads -> PCs] /\ usec' \in [Threads -> Nat] /\ counter' \in [Threads -> 0..1]
    BY <1>2, <1>3 DEF PCs
  <2> QED BY <1>1, <1>6, <2>1 DEF IInv, Types, CallTypes
<1>8. \A u \in Threads : u # running => Kept(u)
  BY <1>1, <1>2, <1>3 DEF Kept
<1>9. \A u \in Threads : u = running => SleepOf(u)' /\ (u \notin RR => RestOf(u)')
  BY <1>1, <1>4, <1>5 DEF SleepOf, RestOf
<1>10. ASSUME NEW u \in Threads PROVE CondOf(u)'
  <2>1. CASE u # running
    <3>1. Types /\ CondInv /\ Effects({}) /\ Kept(u)
      BY <1>5, <1>8, <2>1 DEF IInv
    <3>2. /\ counter'[u] = counter[u] /\ (u \in ToSet(cond') <=> u \in ToSet(cond))
          /\ (u \in {} => pc[u] # "ev_wait") /\ (u = running => state[u] \in OnCpu)
      BY <1>1, <1>2, <1>3, <2>1
    <3> QED BY ONLY <3>1, <3>2, u \in Threads, CondKept
  <2>2. CASE u = running
    <3>1. u = t /\ ToSet(cond)' = ToSet(cond)
      BY <1>1, <2>2 DEF ToSet
    <3> QED BY <1>4, <3>1 DEF CondOf, Polls
  <2> QED BY <2>1, <2>2
<1>11. \A x : Once(cond', x)
  BY <1>1 DEF IInv, CondInv
<1>12. IInv'
  BY <1>5, <1>6, <1>7, <1>8, <1>9, <1>10, <1>11, StepInv
<1> QED BY <1>5, <1>12 DEF Keeps, Effects

\* eventflag_wait.
LEMMA EvWaitKeeps ==
  ASSUME IInv, NEW t \in Threads, EvWait(t)
  PROVE  Keeps
<1>1. /\ running = t /\ state[t] = "RUNNING" /\ pc[t] \in {"user", "ev_wait"}
      /\ mask' = mask /\ pendsv' = pendsv /\ usec' = usec /\ todo' = todo /\ counter' = counter
  BY DEF EvWait, Runs
<1>2. /\ pc \in [Threads -> PCs] /\ counter \in [Threads -> 0..1] /\ cond \in Seq(Threads)
      /\ CondOf(t) /\ \A x : Once(cond, x)
  BY DEF IInv, Types, CallTypes, CondInv
<1>3. t \notin ToSet(cond) /\ ~Polls(t)
  BY <1>1, <1>2 DEF CondOf, Polls
<1>4. CASE /\ Take /\ pc' = [pc EXCEPT ![t] = "user"] /\ cond' = cond
           /\ UNCHANGED <<timerVars, running, state>>
  <2>1. Effects({}) /\ state'[t] = "RUNNING"
    BY <1>1, <1>4, NoEffects DEF IInv
  <2>2. pc'[t] = "user" /\ \A u \in Threads \ {t} : pc'[u] = pc[u] /\ counter'[u] = counter[u]
    BY <1>1, <1>2, <1>4
  <2>3. FlagsServed' /\ IsFiniteSet(flags') /\ flags' \subseteq flags /\ burst' \in BOOLEAN
    BY <1>1, <1>3, <1>4, <2>2, TakeServed
  <2>4. CallTypes'
    <3>1. pc' \in [Threads -> PCs]
      BY <1>2, <1>4 DEF PCs
    <3> QED BY <1>1, <1>4, <2>3, <3>1 DEF IInv, Types, CallTypes
  <2>5. \A u \in Threads : u # running => Kept(u)
    BY <1>1, <2>2 DEF Kept
  <2>6. \A u \in Threads : u = running => SleepOf(u)' /\ (u \notin RR => RestOf(u)')
    BY <1>1, <2>1, <2>2 DEF SleepOf, RestOf
  <2>7. ASSUME NEW u \in Threads PROVE CondOf(u)'
    <3>1. CASE u # running
      <4>1. Types /\ CondInv /\ Effects({}) /\ Kept(u)
        BY <2>1, <2>5, <3>1 DEF IInv
      <4>2. /\ counter'[u] = counter[u] /\ (u \in ToSet(cond') <=> u \in ToSet(cond))
            /\ (u \in {} => pc[u] # "ev_wait") /\ (u = running => state[u] \in OnCpu)
        BY <1>1, <1>4, <3>1
      <4> QED BY ONLY <4>1, <4>2, u \in Threads, CondKept
    <3>2. CASE u = running
      <4>1. u = t /\ ToSet(cond)' = ToSet(cond)
        BY <1>1, <1>4, <3>2 DEF ToSet
      <4> QED BY <1>3, <2>2, <4>1 DEF CondOf, Polls
    <3> QED BY <3>1, <3>2
  <2>8. \A x : Once(cond', x)
    BY <1>2, <1>4
  <2>9. IInv'
    BY <2>1, <2>3, <2>4, <2>5, <2>6, <2>7, <2>8, StepInv
  <2> QED BY <2>1, <2>9 DEF Keeps, Effects
<1>5. CASE /\ Wanted = {} /\ cond' = Enqueue(cond, t) /\ pc' = [pc EXCEPT ![t] = "ev_wait"]
           /\ Sleep(t, "WAIT_CND", StopSlice(timer, t)) /\ flags' = flags /\ burst' = burst
  <2>1. PICK T : T = StopSlice(timer, running)
    OBVIOUS
  <2>2. /\ Section(T) /\ ToSet(T.q) = ToSet(timer.q) \ {running}
        /\ \A u \in Threads : u # running => Left(T)[u] = Left(timer)[u]
        /\ \A u \in Threads \ ToSet(timer.q) : T.v[u] = timer.v[u]
    <3>1. Section(timer) /\ running \in Threads /\ (running \in ToSet(timer.q) <=> running \in RR)
          /\ ToSet(timer.q) \subseteq ToSet(timer.q)
      BY <1>1, SectionStarts DEF IInv, TimerInv, Listed
    <3> QED BY ONLY <2>1, <3>1, StopSliceSection
  <2>3. Sleep(running, "WAIT_CND", T)
    BY <1>1, <1>5, <2>1
  <2>4. Effects({}) /\ state'[running] = "WAIT_CND"
    BY <1>1, <2>2, <2>3, SleepEffects DEF IInv
  <2>5. /\ cond' \in Seq(Threads) /\ (\A x : Once(cond', x))
        /\ ToSet(cond') = ToSet(cond) \cup {t}
    BY <1>2, <1>3, <1>5, EnqueueCond
  <2>6. pc'[t] = "ev_wait" /\ \A u \in Threads \ {t} : pc'[u] = pc[u]
    BY <1>2, <1>5
  <2>7. CallTypes'
    <3>1. pc' \in [Threads -> PCs]
      BY <1>2, <1>5 DEF PCs
    <3> QED BY <1>1, <1>5, <2>5, <3>1 DEF IInv, Types, CallTypes
  <2>8. \A u \in Threads : u # running => Kept(u)
    BY <1>1, <2>6 DEF Kept
  <2>9. \A u \in Threads : u = running => SleepOf(u)' /\ (u \notin RR => RestOf(u)')
    BY <1>1, <2>4, <2>6 DEF SleepOf, RestOf
  <2>10. ASSUME NEW u \in Threads PROVE CondOf(u)'
    <3>1. CASE u # running
      <4>1. Types /\ CondInv /\ Effects({}) /\ Kept(u)
        BY <2>4, <2>8, <3>1 DEF IInv
      <4>2. /\ counter'[u] = counter[u] /\ (u \in ToSet(cond') <=> u \in ToSet(cond))
            /\ (u \in {} => pc[u] # "ev_wait") /\ (u = running => state[u] \in OnCpu)
        BY <1>1, <2>5, <3>1
      <4> QED BY ONLY <4>1, <4>2, u \in Threads, CondKept
    <3>2. CASE u = running
      BY <1>1, <2>4, <2>6, <3>2 DEF CondOf, Polls
    <3> QED BY <3>1, <3>2
  <2>11. FlagsServed'
    <3>1. Wanted' = {}
      BY <1>1, <1>5 DEF Wanted
    <3> QED BY <3>1, NoneWanted
  <2>12. IInv'
    BY <2>4, <2>5, <2>7, <2>8, <2>9, <2>10, <2>11, StepInv
  <2> QED BY <2>4, <2>12 DEF Keeps, Effects
<1> QED BY <1>4, <1>5 DEF EvWait

\* The start of eventflag_wait_timeout.
LEMMA EvWaitTimeoutKeeps ==
  ASSUME IInv, NEW t \in Threads, EvWaitTimeout(t)
  PROVE  Keeps
<1>1. PICK n \in Usecs : usec' = [usec EXCEPT ![t] = n]
  BY DEF EvWaitTimeout
<1>2. /\ running = t /\ state[t] = "RUNNING" /\ pc[t] = "user"
      /\ pc' = [pc EXCEPT ![t] = "ev_poll"]
      /\ counter' = [counter EXCEPT ![t] = IF Wanted # {} THEN 1 ELSE 0]
      /\ cond' = IF Wanted # {} THEN cond ELSE Enqueue(cond, t)
      /\ UNCHANGED <<timerVars, running, state>> /\ pendsv' = pendsv /\ todo' = todo
      /\ flags' = flags /\ mask' = mask /\ burst' = burst
  BY DEF EvWaitTimeout, Runs, schedVars
<1>3. /\ pc \in [Threads -> PCs] /\ counter \in [Threads -> 0..1] /\ cond \in Seq(Threads)
      /\ usec \in [Threads -> Nat] /\ CondOf(t) /\ \A x : Once(cond, x)
  BY DEF IInv, Types, CallTypes, CondInv
<1>4. t \notin ToSet(cond)
  BY <1>2, <1>3 DEF CondOf, Polls
<1>5. Effects({}) /\ state'[t] = "RUNNING"
  BY <1>2, NoEffects DEF IInv
<1>6. /\ cond' \in Seq(Threads) /\ (\A x : Once(cond', x))
      /\ ToSet(cond') = IF Wanted # {} THEN ToSet(cond) ELSE ToSet(cond) \cup {t}
  BY <1>2, <1>3, <1>4, EnqueueCond
<1>7. /\ pc'[t] = "ev_poll" /\ counter'[t] = IF Wanted # {} THEN 1 ELSE 0
      /\ \A u \in Threads \ {t} : pc'[u] = pc[u] /\ counter'[u] = counter[u] /\ usec'[u] = usec[u]
  BY <1>1, <1>2, <1>3
<1>8. CallTypes'
  <2>1. pc' \in [Threads -> PCs] /\ counter' \in [Threads -> 0..1] /\ usec' \in [Threads -> Nat]
    BY <1>1, <1>2, <1>3, TimerAssumption DEF PCs
  <2> QED BY <1>2, <1>6, <2>1 DEF IInv, Types, CallTypes
<1>9. \A u \in Threads : u # running => Kept(u)
  BY <1>2, <1>7 DEF Kept
<1>10. \A u \in Threads : u = running => SleepOf(u)' /\ (u \notin RR => RestOf(u)')
  BY <1>2, <1>5, <1>7 DEF SleepOf, RestOf
<1>11. ASSUME NEW u \in Threads PROVE CondOf(u)'
  <2>1. CASE u # running
    <3>1. Types /\ CondInv /\ Effects({}) /\ Kept(u)
      BY <1>5, <1>9, <2>1 DEF IInv
    <3>2. /\ counter'[u] = counter[u] /\ (u \in ToSet(cond') <=> u \in ToSet(cond))
          /\ (u \in {} => pc[u] # "ev_wait") /\ (u = running => state[u] \in OnCpu)
      BY <1>2, <1>6, <1>7, <2>1
    <3> QED BY ONLY <3>1, <3>2, u \in Threads, CondKept
  <2>2. CASE u = running
    <3>1. u = t /\ ToSet(cond)' = ToSet(cond')
      BY <1>2, <2>2 DEF ToSet
    <3> QED BY <1>4, <1>6, <1>7, <3>1 DEF CondOf, Polls
  <2> QED BY <2>1, <2>2
<1>12. FlagsServed'
  <2>1. CASE Wanted = {}
    <3>1. Wanted' = {}
      BY <1>2, <2>1 DEF Wanted
    <3> QED BY <3>1, NoneWanted
  <2>2. CASE Wanted # {}
    <3>1. cond' = cond /\ pc[t] = "user"
      BY <1>2, <2>2
    <3>2. ASSUME NEW u \in OnTheWay PROVE u \in OnTheWay'
      <4>1. u \in Threads /\ u # t
        BY <3>1, <3>2 DEF OnTheWay, Polls
      <4> QED BY <1>7, <3>1, <3>2, <4>1 DEF OnTheWay, Polls
    <3> QED BY <1>2, <3>1, <3>2, MoreServed
  <2> QED BY <2>1, <2>2
<1>13. IInv'
  BY <1>5, <1>6, <1>8, <1>9, <1>10, <1>11, <1>12, StepInv
<1> QED BY <1>5, <1>13 DEF Keeps, Effects

\* The end of the poll in eventflag_wait_timeout.
LEMMA EvCleanKeeps ==
  ASSUME IInv, NEW t \in Threads, EvClean(t)
  PROVE  Keeps
<1>1. /\ running = t /\ state[t] = "RUNNING" /\ pc[t] = "ev_clean"
      /\ pc' = [pc EXCEPT ![t] = "ev_get"] /\ cond' = TakenBack(t)
      /\ UNCHANGED <<timerVars, running, state>> /\ pendsv' = pendsv /\ usec' = usec /\ todo' = todo
      /\ flags' = flags /\ mask' = mask /\ counter' = counter /\ burst' = burst
  BY DEF EvClean, Runs, schedVars
<1>2. pc \in [Threads -> PCs] /\ cond \in Seq(Threads)
  BY DEF IInv, Types, CallTypes
<1>3. Effects({}) /\ state'[t] = "RUNNING"
  BY <1>1, NoEffects DEF IInv
<1>4. /\ cond' \in Seq(Threads) /\ (\A x : Once(cond', x)) /\ ToSet(cond') = ToSet(cond) \ {t}
  <2>1. Polls(t)
    BY <1>1 DEF Polls
  <2> QED BY <1>1, <2>1, TakenBackCond DEF IInv
<1>5. pc'[t] = "ev_get" /\ \A u \in Threads \ {t} : pc'[u] = pc[u]
  BY <1>1, <1>2
<1>6. CallTypes'
  <2>1. pc' \in [Threads -> PCs]
    BY <1>1, <1>2 DEF PCs
  <2> QED BY <1>1, <1>4, <2>1 DEF IInv, Types, CallTypes
<1>7. \A u \in Threads : u # running => Kept(u)
  BY <1>1, <1>5 DEF Kept
<1>8. \A u \in Threads : u = running => SleepOf(u)' /\ (u \notin RR => RestOf(u)')
  BY <1>1, <1>3, <1>5 DEF SleepOf, RestOf
<1>9. ASSUME NEW u \in Threads PROVE CondOf(u)'
  <2>1. CASE u # running
    <3>1. Types /\ CondInv /\ Effects({}) /\ Kept(u)
      BY <1>3, <1>7, <2>1 DEF IInv
    <3>2. /\ counter'[u] = counter[u] /\ (u \in ToSet(cond') <=> u \in ToSet(cond))
          /\ (u \in {} => pc[u] # "ev_wait") /\ (u = running => state[u] \in OnCpu)
      BY <1>1, <1>4, <2>1
    <3> QED BY ONLY <3>1, <3>2, u \in Threads, CondKept
  <2>2. CASE u = running
    <3>1. u = t /\ ToSet(cond)' = ToSet(cond')
      BY <1>1, <2>2 DEF ToSet
    <3> QED BY <1>4, <1>5, <3>1 DEF CondOf, Polls
  <2> QED BY <2>1, <2>2
<1>10. FlagsServed'
  <2>1. cond' # << >> => cond # << >>
    BY <1>4, EmptyByElements, <1>2
  <2>2. ASSUME NEW u \in OnTheWay PROVE u \in OnTheWay'
    <3>1. u \in Threads
      BY <2>2 DEF OnTheWay
    <3>2. CASE u = t
      BY <1>5, <3>1, <3>2 DEF OnTheWay
    <3>3. CASE u # t
      <4>1. pc'[u] = pc[u] /\ counter' = counter /\ (u \in ToSet(cond)' => u \in ToSet(cond))
        BY <1>1, <1>4, <1>5, <3>1, <3>3 DEF ToSet
      <4> QED BY <2>2, <3>1, <4>1 DEF OnTheWay, Polls
    <3> QED BY <3>2, <3>3
  <2> QED BY <1>1, <2>1, <2>2, MoreServed
<1>11. IInv'
  BY <1>3, <1>4, <1>6, <1>7, <1>8, <1>9, <1>10, StepInv
<1> QED BY <1>3, <1>11 DEF Keeps, Effects

-----------------------------------------------------------------------------
\* SysTick.

\* What is left of the list T: the counter is the least of it.
LEMMA LeastLeft ==
  ASSUME NEW T, TimerOK(T)
  PROVE  /\ \A u \in Threads : Left(T)[u] \in Nat \cup {-1} /\ (u \in ToSet(T.q) <=> Left(T)[u] # -1)
         /\ \A u \in ToSet(T.q) : u \in Threads /\ Left(T)[u] >= T.tick
         /\ T.q # << >> => \E u \in ToSet(T.q) : Left(T)[u] = T.tick
         /\ T.tick \in Nat
<1>1. IsTimer(T) /\ T.tick \in Nat
  BY DEF TimerOK, IsTimer
<1>2. \A u \in Threads : Left(T)[u] \in Nat \cup {-1} /\ (u \in ToSet(T.q) <=> Left(T)[u] # -1)
  BY <1>1, LeftOf, ExpirySums
<1>3. CASE T.q = << >>
  BY <1>1, <1>2, <1>3 DEF ToSet
<1>4. CASE T.q # << >>
  <2>1. PICK gone : FirstOf(T.q, Popped(T), gone)
    <3>1. FirstOf(T.q, Popped(T), {T.q[j] : j \in 1..Popped(T)})
      BY DEF FirstOf
    <3> QED BY <3>1
  <2>2. PICK U : U = Expired(T)
    OBVIOUS
  <2>3. /\ gone \subseteq ToSet(T.q) /\ gone = {u \in Threads : Left(T)[u] = T.tick} /\ gone # {}
        /\ \A u \in ToSet(T.q) : Left(T)[u] >= T.tick
    <3>1. JumpTo(T, U, gone)
      BY <1>4, <2>1, <2>2, ExpiredTimer
    <3> QED BY <3>1 DEF JumpTo
  <2>4. \A u \in ToSet(T.q) : u \in Threads
    BY <1>1, PlaceIs
  <2> QED BY <1>1, <1>2, <2>3, <2>4
<1> QED BY <1>3, <1>4

\* The deadlines are what the list has left for its threads.
LEMMA DeadlinesAre ==
  ASSUME TRUE
  PROVE  /\ Deadline = Left(timer) /\ Deadline' = Left(timer') /\ Left(timer)' = Left(timer')
         /\ D!Sleepers = {t \in Threads : Left(timer)[t] >= 0}
         /\ D!Sleepers' = {t \in Threads : Left(timer')[t] >= 0}
         /\ D!Due = {t \in Threads : Left(timer)[t] = 0}
         /\ D!Due' = {t \in Threads : Left(timer')[t] = 0}
<1>1. Deadline = Left(timer) /\ Deadline' = Left(timer') /\ Left(timer)' = Left(timer')
  BY DEF Deadline, Left, Remained, Place, Expiry
<1> QED BY <1>1 DEF D!Sleepers, D!Due

\* Who sleeps has a deadline; after the step too.
LEMMA SleepersListed ==
  ASSUME NEW T, TimerOK(T)
  PROVE  {t \in Threads : Left(T)[t] >= 0} = ToSet(T.q)
BY LeastLeft

\* A tick of the clock brings every deadline nearer by one.
LEMMA TickKeeps ==
  ASSUME IInv, Kernel(Tick)
  PROVE  IInv' /\ (D!Tick \/ D!Stray \/ UNCHANGED D!vars)
<1>1. /\ timer.tick > 0 /\ running' = running /\ pendsv' = pendsv /\ state' = state
      /\ pc' = pc /\ usec' = usec /\ UNCHANGED evVars
      /\ alarm' = IF timer.tick = 1 /\ alarm = "no" THEN "raised" ELSE alarm
      /\ todo' = [t \in Threads |-> Down(todo[t], 1)]
  BY DEF Kernel, Tick, schedVars
<1>2. PICK U : U = timer' /\ U = [timer EXCEPT !.tick = @ - 1]
  BY DEF Kernel, Tick
<1>t. TimerOK(timer) /\ timer.tick > 0 /\ timer.tick \in Nat
  BY <1>1, LeastLeft DEF IInv, TimerInv
<1>3. /\ TimerOK(U) /\ U.q = timer.q /\ U.v = timer.v /\ U.tick = timer.tick - 1
      /\ \A t \in Threads : Left(U)[t] = IF t \in ToSet(timer.q) THEN Left(timer)[t] - 1 ELSE -1
  BY ONLY <1>2, <1>t, TickTimer
<1>4. /\ \A u \in Threads : Left(timer)[u] \in Nat \cup {-1} /\ (u \in ToSet(timer.q) <=> Left(timer)[u] # -1)
      /\ \A u \in ToSet(timer.q) : u \in Threads /\ Left(timer)[u] >= timer.tick
      /\ timer.q # << >> => \E u \in ToSet(timer.q) : Left(timer)[u] = timer.tick
  BY <1>t, LeastLeft
<1>5. \A t \in Threads : todo[t] \in Nat /\ todo'[t] = (IF todo[t] > 1 THEN todo[t] - 1 ELSE 0)
  BY <1>1 DEF IInv, Types, CallTypes, Down
<1>6. Types'
  <2>1. todo' \in [Threads -> Nat]
    BY <1>1, <1>5
  <2> QED BY <1>1, <2>1 DEF IInv, Types, CallTypes, evVars
<1>7. TimerInv'
  <2>1. TimerOK(timer)' /\ ToSet(timer.q)' = ToSet(timer.q) /\ Listed(state)' = Listed(state)
    BY <1>1, <1>2, <1>3 DEF TimerOK, IsTimer, Expiry, Once, Listed, ToSet
  <2>2. ClockRuns'
    BY <1>1, <1>2, <1>3, <1>t DEF ClockRuns, IInv, Types
  <2> QED BY <2>1, <2>2 DEF IInv, TimerInv
<1>8. CpuInv' /\ SleepInv'
  BY <1>1 DEF IInv, CpuInv, SleepInv, SleepOf
<1>9. CondInv' /\ FlagsServed'
  BY <1>1 DEF IInv, CondInv, CondOf, FlagsServed, evVars, Polls, OnTheWay, Wanted, Once, ToSet
<1>10. RestInv'
  <2> SUFFICES ASSUME NEW t \in Threads \ RR PROVE RestOf(t)'
    BY DEF RestInv
  <2>1. RestOf(t)
    BY DEF IInv, RestInv
  <2>2. Left(timer)'[t] = Left(U)[t] /\ Rest(t)' = Rest(t) /\ timer'.v[t] = timer.v[t]
    BY <1>1, <1>2, <1>3, DeadlinesAre DEF Rest, Slept
  <2>3. usec[t] * MHZ \in Nat /\ Rest(t) \in Nat
    <3>1. usec[t] \in Nat
      BY DEF IInv, Types, CallTypes
    <3>2. usec[t] - Slept(usec[t]) \in Nat
      BY <3>1, SleepTicks
    <3>3. \A x, y \in Nat : x * y \in Nat
      OBVIOUS
    <3> QED BY <3>1, <3>2, <3>3, MaxTicksNat DEF Rest
  <2>4. todo'[t] <= todo[t] /\ todo[t] \in Nat /\ todo'[t] \in Nat
    BY <1>5
  <2>5. CASE pc[t] = "slept" /\ state[t] = "WAIT_TIME"
    <3>1. t \in ToSet(timer.q)
      BY <2>5 DEF IInv, TimerInv, Listed
    <3>2. Left(U)[t] = Left(timer)[t] - 1 /\ Left(timer)[t] \in Nat /\ Left(timer)[t] > 0
      BY <1>3, <1>4, <1>t, <3>1
    <3>3. todo'[t] <= Left(U)[t] + Rest(t)
      BY <1>5, <2>1, <2>3, <2>5, <3>2 DEF RestOf
    <3> QED BY <1>1, <2>2, <2>5, <3>3 DEF RestOf
  <2>6. CASE ~(pc[t] = "slept" /\ state[t] = "WAIT_TIME")
    BY <1>1, <2>1, <2>2, <2>3, <2>4, <2>6 DEF RestOf
  <2> QED BY <2>5, <2>6
<1>11. D!Tick \/ D!Stray \/ UNCHANGED D!vars
  <2>1. /\ D!Sleepers = ToSet(timer.q) /\ D!Due = {}
        /\ D!Due' = {t \in Threads : Left(U)[t] = 0} /\ Deadline' = Left(U) /\ Deadline = Left(timer)
    <3>1. {u \in Threads : Left(timer)[u] >= 0} = ToSet(timer.q)
      BY <1>t, SleepersListed
    <3>2. {u \in Threads : Left(timer)[u] = 0} = {}
      BY <1>4, <1>t
    <3> QED BY <1>2, <3>1, <3>2, DeadlinesAre
  <2>2. CASE timer.q # << >>
    <3>1. ToSet(timer.q) # {}
      BY <1>4, <2>2
    <3>2. Deadline' = [t \in Threads |-> IF t \in ToSet(timer.q) THEN Left(timer)[t] - 1 ELSE -1]
      BY <1>3, <2>1 DEF Left
    <3>3. D!Due' # {} <=> timer.tick = 1
      BY <1>3, <1>4, <1>t, <2>1, <2>2
    <3>4. alarm' # "no" <=> alarm # "no" \/ D!Due' # {}
      BY <1>1, <3>3
    <3>5. D!Tick
      BY <1>1, <1>2, <1>3, <2>1, <2>2, <3>1, <3>2, <3>4 DEF D!Tick
    <3> QED BY <3>5
  <2>3. CASE timer.q = << >>
    <3>1. Deadline' = Deadline
      BY <1>3, <1>4, <2>1, <2>3 DEF Left, ToSet
    <3>2. CASE timer.tick = 1
      BY <1>1, <1>2, <1>3, <2>3, <3>1, <3>2 DEF D!Stray
    <3>3. CASE timer.tick # 1
      BY <1>1, <1>2, <1>3, <1>t, <2>3, <3>1, <3>3 DEF D!vars
    <3> QED BY <3>2, <3>3
  <2> QED BY <2>2, <2>3
<1> QED BY <1>6, <1>7, <1>8, <1>9, <1>10, <1>11 DEF IInv

\* chx_timer_expired wakes up those who are due.
LEMMA TimerExpiredKeeps ==
  ASSUME IInv, Kernel(TimerExpired)
  PROVE  IInv' /\ D!Wake
<1>1. /\ alarm # "no" /\ alarm' = "no" /\ running' = running
      /\ pc' = pc /\ usec' = usec /\ UNCHANGED evVars
  BY DEF Kernel, TimerExpired
<1>2. /\ TimerOK(timer) /\ ToSet(timer.q) = Listed(state) /\ timer.tick \in Nat
      /\ todo \in [Threads -> Nat] /\ state \in [Threads -> States]
      /\ running \in Threads \cup {None} /\ running' \in Threads \cup {None}
  BY <1>1, LeastLeft DEF IInv, TimerInv, Types, CallTypes
<1>3. CASE timer.q = << >>
  <2>1. timer' = timer /\ state' = state /\ pendsv' = pendsv /\ todo' = todo
    BY <1>3 DEF Kernel, TimerExpired
  <2>2. Types' /\ CpuInv' /\ SleepInv'
    BY <1>1, <2>1 DEF IInv, Types, CallTypes, evVars, CpuInv, SleepInv, SleepOf
  <2>3. TimerInv'
    <3>0. TimerOK(timer)' = TimerOK(timer')
      BY DEF TimerOK, IsTimer, Expiry, Once
    <3>1. TimerOK(timer)' /\ ToSet(timer.q)' = ToSet(timer.q) /\ Listed(state)' = Listed(state)
      BY <1>2, <2>1, <3>0 DEF Listed, ToSet
    <3>2. ClockRuns'
      BY <1>3, <2>1 DEF ClockRuns
    <3> QED BY <1>2, <3>1, <3>2 DEF TimerInv
  <2>4. CondInv' /\ FlagsServed'
    BY <1>1, <2>1 DEF IInv, CondInv, CondOf, FlagsServed, evVars, Polls, OnTheWay, Wanted, Once, ToSet
  <2>5. RestInv'
    <3>1. Left(timer)' = Left(timer)
      BY <2>1, DeadlinesAre
    <3> QED BY <1>1, <2>1, <3>1 DEF IInv, RestInv, RestOf, Rest, Slept
  <2>6. D!Sleepers = {}
    <3>1. ToSet(timer.q) = {}
      BY <1>3 DEF ToSet
    <3> QED BY <1>2, <3>1, SleepersListed, DeadlinesAre
  <2>7. Deadline' = Deadline
    BY <2>1, DeadlinesAre
  <2>8. D!Wake
    BY <1>1, <2>1, <2>6, <2>7 DEF D!Wake
  <2> QED BY <2>2, <2>3, <2>4, <2>5, <2>8 DEF IInv
<1>4. CASE timer.q # << >>
  <2>1. PICK gone : gone = {timer.q[j] : j \in 1..Popped(timer)}
    OBVIOUS
  <2>2. PICK U : U = Expired(timer)
    OBVIOUS
  <2>3. /\ timer' = U /\ pendsv' \in BOOLEAN
        /\ state' = [t \in Threads |-> IF t \in gone THEN "READY" ELSE state[t]]
        /\ todo' = [t \in Threads |-> Down(todo[t], timer.tick)]
    BY <1>4, <2>1, <2>2 DEF Kernel, TimerExpired
  <2>4. JumpTo(timer, U, gone)
    <3>1. FirstOf(timer.q, Popped(timer), gone)
      BY <2>1 DEF FirstOf
    <3> QED BY <1>2, <1>4, <2>2, <3>1, ExpiredTimer
  <2>5. /\ TimerOK(U) /\ ToSet(U.q) = ToSet(timer.q) \ gone /\ gone \subseteq ToSet(timer.q)
        /\ gone = {u \in Threads : Left(timer)[u] = timer.tick}
        /\ \A u \in Threads : Left(U)[u] = IF Left(timer)[u] > timer.tick THEN Left(timer)[u] - timer.tick ELSE -1
        /\ U.q # << >> => U.tick > 0
        /\ U.q = << >> => U.tick = timer.tick
        /\ \A u \in Threads : U.v[u] = IF u \in gone THEN 0 ELSE timer.v[u]
        /\ \A u \in ToSet(timer.q) : Left(timer)[u] >= timer.tick
    BY <2>4 DEF JumpTo
  <2>6. /\ \A u \in Threads : Left(timer)[u] \in Nat \cup {-1} /\ (u \in ToSet(timer.q) <=> Left(timer)[u] # -1)
        /\ \A u \in ToSet(timer.q) : u \in Threads
        /\ \E u \in ToSet(timer.q) : Left(timer)[u] = timer.tick
    BY <1>2, <1>4, LeastLeft
  <2>7. \A t \in Threads : state'[t] = IF t \in gone THEN "READY" ELSE state[t]
    BY <2>3
  <2>8. Types'
    <3>1. state' \in [Threads -> States]
      BY <1>2, <2>3 DEF States
    <3>2. \A t \in Threads : Down(todo[t], timer.tick) \in Nat
      BY <1>2 DEF Down
    <3>3. todo' \in [Threads -> Nat]
      BY <2>3, <3>2
    <3> QED BY <1>1, <1>2, <2>3, <3>1, <3>3 DEF IInv, Types, CallTypes, evVars
  <2>9. TimerInv'
    <3>1. TimerOK(timer)' /\ ToSet(timer.q)' = ToSet(U.q)
      BY <2>3, <2>5 DEF TimerOK, IsTimer, Expiry, Once, ToSet
    <3>2. Listed(state)' = Listed(state) \ gone
      BY <1>2, <2>7 DEF Listed
    <3>3. ClockRuns'
      BY <2>3, <2>5 DEF ClockRuns
    <3> QED BY <1>2, <2>5, <3>1, <3>2, <3>3 DEF TimerInv
  <2>10. CpuInv'
    BY <1>1, <1>2, <2>7 DEF IInv, CpuInv
  <2>11. SleepInv'
    BY <1>1, <2>7 DEF IInv, SleepInv, SleepOf
  <2>12. CondInv' /\ FlagsServed'
    <3>1. \A t \in gone : state[t] # "WAIT_CND"
      BY <1>2, <2>5 DEF Listed
    <3>2. ASSUME NEW t \in Threads PROVE CondOf(t)'
      <4>1. CondOf(t) /\ (Polls(t)' <=> Polls(t)) /\ ToSet(cond)' = ToSet(cond) /\ counter' = counter
        BY <1>1 DEF IInv, CondInv, Polls, ToSet, evVars
      <4> QED BY <1>1, <2>7, <3>1, <4>1 DEF CondOf
    <3>3. \A x : Once(cond, x)'
      BY <1>1 DEF IInv, CondInv, Once, evVars
    <3>4. FlagsServed'
      BY <1>1 DEF IInv, FlagsServed, evVars, Polls, OnTheWay, Wanted, ToSet
    <3> QED BY <3>2, <3>3, <3>4 DEF CondInv
  <2>13. RestInv'
    <3> SUFFICES ASSUME NEW t \in Threads \ RR PROVE RestOf(t)'
      BY DEF RestInv
    <3>1. RestOf(t) /\ SleepOf(t)
      BY DEF IInv, RestInv, SleepInv
    <3>2. Left(timer)'[t] = Left(U)[t] /\ Rest(t)' = Rest(t)
      BY <1>1, <2>3, DeadlinesAre DEF Rest, Slept
    <3>3. usec[t] * MHZ \in Nat /\ Rest(t) \in Nat
      <4>1. usec[t] \in Nat
        BY DEF IInv, Types, CallTypes
      <4>2. usec[t] - Slept(usec[t]) \in Nat
        BY <4>1, SleepTicks
      <4>3. \A x, y \in Nat : x * y \in Nat
        OBVIOUS
      <4> QED BY <4>1, <4>2, <4>3, MaxTicksNat DEF Rest
    <3>4. /\ todo[t] \in Nat /\ todo'[t] = (IF todo[t] > timer.tick THEN todo[t] - timer.tick ELSE 0)
      BY <1>2, <2>3 DEF Down
    <3>5. todo'[t] <= todo[t] /\ todo'[t] \in Nat
      BY <1>2, <3>4
    <3>6. CASE pc[t] = "slept" /\ state[t] = "WAIT_TIME"
      <4>1. t \in ToSet(timer.q)
        BY <1>2, <3>6 DEF Listed
      <4>2. todo[t] <= Left(timer)[t] + Rest(t) /\ Left(timer)[t] \in Nat /\ Left(timer)[t] >= timer.tick
        BY <2>5, <2>6, <3>1, <3>6, <4>1 DEF RestOf
      <4>3. CASE t \in gone
        <5>1. state'[t] # "WAIT_TIME" /\ timer'.v[t] = 0 /\ Left(timer)[t] = timer.tick
          BY <2>3, <2>5, <2>7, <4>3
        <5>2. todo'[t] <= Rest(t)
          BY <1>2, <3>3, <3>4, <4>2, <5>1
        <5> QED BY <1>1, <3>2, <3>6, <5>1, <5>2 DEF RestOf
      <4>4. CASE t \notin gone
        <5>1. Left(timer)[t] > timer.tick /\ state'[t] = "WAIT_TIME"
          BY <1>2, <2>5, <2>7, <3>6, <4>2, <4>4
        <5>2. todo'[t] <= Left(U)[t] + Rest(t)
          BY <1>2, <2>5, <3>3, <3>4, <4>2, <5>1
        <5> QED BY <1>1, <3>2, <3>6, <5>1, <5>2 DEF RestOf
      <4> QED BY <4>3, <4>4
    <3>7. CASE ~(pc[t] = "slept" /\ state[t] = "WAIT_TIME")
      <4>1. state'[t] = "WAIT_TIME" => state[t] = "WAIT_TIME"
        BY <2>7
      <4>2. timer'.v[t] = 0 \/ timer'.v[t] = timer.v[t]
        BY <2>3, <2>5
      <4> QED BY <1>1, <3>1, <3>2, <3>3, <3>4, <3>5, <3>7, <4>1, <4>2 DEF RestOf
    <3> QED BY <3>6, <3>7
  <2>14. D!Wake
    <3>1. /\ Deadline = Left(timer) /\ Deadline' = Left(U)
          /\ D!Sleepers = ToSet(timer.q) /\ D!Sleepers' = ToSet(U.q)
      BY <1>2, <2>3, <2>5, DeadlinesAre, SleepersListed
    <3>2. D!Min({Deadline[t] : t \in D!Sleepers}) = timer.tick
      <4> DEFINE S == {Left(timer)[t] : t \in ToSet(timer.q)}
      <4>1. timer.tick \in S /\ \A x \in S : x \in Nat /\ timer.tick <= x
        BY <1>2, <2>5, <2>6
      <4> HIDE DEF S
      <4>2. D!Min(S) = timer.tick
        BY <1>2, <4>1 DEF D!Min
      <4> QED BY <3>1, <4>2 DEF S
    <3>3. Deadline' = [t \in Threads |-> IF Deadline[t] > timer.tick THEN Deadline[t] - timer.tick ELSE -1]
      BY <2>4, <3>1 DEF JumpTo
    <3>4. U.q = << >> <=> D!Sleepers' = {}
      <4>1. U.q \in Seq(Threads)
        BY <2>5 DEF TimerOK, IsTimer
      <4> QED BY <3>1, <4>1, EmptyByElements
    <3>5. (timer'.q = << >> /\ timer'.tick > 0) <=> (timer.tick > 0 /\ D!Sleepers' = {})
      BY <2>3, <2>5, <3>4
    <3>6. D!Sleepers # {}
      BY <2>6, <3>1
    <3> QED BY <1>1, <3>2, <3>3, <3>5, <3>6 DEF D!Wake
  <2> QED BY <2>8, <2>9, <2>10, <2>11, <2>12, <2>13, <2>14 DEF IInv
<1> QED BY <1>3, <1>4

-----------------------------------------------------------------------------
\* What every step that is not the clock's does to the deadlines.
LEMMA ResetStep ==
  ASSUME IInv, Keeps
  PROVE  D!Reset
<1>1. TimerOK(timer) /\ TimerOK(timer')
  <2>1. TimerOK(timer)' = TimerOK(timer')
    BY DEF TimerOK, IsTimer, Expiry, Once
  <2> QED BY <2>1 DEF Keeps, IInv, TimerInv
<1>2. /\ Deadline = Left(timer) /\ Deadline' = Left(timer')
      /\ D!Sleepers' = ToSet(timer'.q)
  BY <1>1, DeadlinesAre, SleepersListed
<1>3. ASSUME NEW t \in Threads
      PROVE  \/ Deadline'[t] \in {Deadline[t], -1}
             \/ Deadline'[t] \in 1..MaxTicks /\ (Deadline[t] = -1 \/ t \in {running, running'})
  BY <1>2 DEF Keeps, Resets
<1>4. timer'.q = << >> <=> D!Sleepers' = {}
  <2>1. timer'.q \in Seq(Threads)
    BY <1>1 DEF TimerOK, IsTimer
  <2> QED BY <1>2, <2>1, EmptyByElements
<1>5. (timer'.q = << >> /\ timer'.tick > 0) <=> ((timer.q = << >> /\ timer.tick > 0) /\ D!Sleepers' = {})
  BY <1>4 DEF Keeps, Resets
<1>6. (alarm # "no")' = (alarm # "no")
  BY DEF Keeps
<1> QED BY <1>3, <1>5, <1>6 DEF D!Reset

\* The invariant at the start.
THEOREM TimerInit == Init => IInv
<1> SUFFICES ASSUME Init PROVE IInv
  OBVIOUS
<1>1. /\ timer = [q |-> << >>, v |-> [t \in Threads |-> 0], tick |-> 0]
      /\ alarm = "no" /\ running = None /\ pendsv = TRUE
      /\ state = [t \in Threads |-> "READY"] /\ pc = [t \in Threads |-> "user"]
      /\ usec = [t \in Threads |-> 0] /\ todo = [t \in Threads |-> 0]
      /\ flags = {} /\ mask = UNION Masks /\ cond = << >>
      /\ counter = [t \in Threads |-> 0] /\ burst = FALSE
  BY DEF Init
<1>2. << >> \in Seq(Threads) /\ Len(<< >>) = 0 /\ DOMAIN << >> = {} /\ ToSet(<< >>) = {}
  BY DEF ToSet
<1>3. Types
  <2>1. IsFiniteSet(flags) /\ flags \subseteq UNION Masks
    BY <1>1, FS_EmptySet
  <2>2. pc \in [Threads -> PCs] /\ state \in [Threads -> States]
    BY <1>1 DEF PCs, States
  <2>3. usec \in [Threads -> Nat] /\ todo \in [Threads -> Nat] /\ counter \in [Threads -> 0..1]
    BY <1>1
  <2> QED BY <1>1, <1>2, <2>1, <2>2, <2>3 DEF Types, CallTypes
<1>4. TimerInv
  <2>1. IsTimer(timer) /\ Len(timer.q) = 0 /\ timer.tick = 0 /\ \A t \in Threads : timer.v[t] = 0
    BY <1>1, <1>2 DEF IsTimer, Once
  <2>2. PICK n : n = Len(timer.q)
    OBVIOUS
  <2>3. n \in Nat /\ n = 0
    BY <2>1, <2>2
  <2>4. Expiry(timer, 1) = 0
    BY <2>1, <2>2, <2>3, ExpirySums
  <2>5. TimerOK(timer)
    <3>1. MaxTicks \in Nat
      BY MaxTicksNat
    <3>2. Expiry(timer, Len(timer.q) + 1) <= MaxTicks + 1
      BY <2>1, <2>4, <3>1
    <3>3. \A i \in 1..Len(timer.q) : Expiry(timer, i) <= MaxTicks
      BY <2>1
    <3> QED BY <2>1, <3>1, <3>2, <3>3 DEF TimerOK
  <2>6. ToSet(timer.q) = Listed(state)
    BY <1>1, <1>2 DEF Listed
  <2> QED BY <1>1, <2>5, <2>6 DEF TimerInv, ClockRuns
<1>5. CpuInv /\ SleepInv /\ RestInv
  BY <1>1 DEF CpuInv, SleepInv, SleepOf, RestInv, RestOf
<1>6. CondInv /\ FlagsServed
  BY <1>1, <1>2 DEF CondInv, CondOf, Once, Polls, FlagsServed
<1> QED BY <1>3, <1>4, <1>5, <1>6 DEF IInv

\* Every step of a thread keeps the invariant, and resets deadlines as it may.
LEMMA StepKeeps ==
  ASSUME IInv, NEW t \in Threads, Step(t)
  PROVE  Keeps
<1> USE DEF Step
<1>1. CASE "sleep" \in May[t] /\ Kernel(UsecWait(t))
  BY <1>1, UsecWaitKeeps
<1>2. CASE Kernel(UsecSnooze(t))
  BY <1>2, UsecSnoozeKeeps
<1>3. CASE Kernel(UsecSlept(t))
  BY <1>3, UsecSleptKeeps
<1>4. CASE EvSignal(t)
  BY <1>4, EvSignalKeeps
<1>5. CASE EvSetMask(t)
  BY <1>5, EvSetMaskKeeps
<1>6. CASE EvGet(t)
  BY <1>6, EvGetKeeps
<1>7. CASE EvWait(t)
  BY <1>7, EvWaitKeeps
<1>8. CASE EvWaitTimeout(t)
  BY <1>8, EvWaitTimeoutKeeps
<1>9. CASE EvPoll(t)
  BY <1>9, EvPollKeeps
<1>10. CASE EvPolled(t)
  BY <1>10, EvPolledKeeps
<1>11. CASE EvClean(t)
  BY <1>11, EvCleanKeeps
<1> QED BY <1>1, <1>2, <1>3, <1>4, <1>5, <1>6, <1>7, <1>8, <1>9, <1>10, <1>11

\* Every step keeps the invariant and is a step of the deadlines.
LEMMA NextKeeps ==
  ASSUME IInv, [Next]_allVars
  PROVE  IInv' /\ [D!Next]_(D!vars)
<1>1. CASE UNCHANGED allVars
  <2>0. /\ timer' = timer /\ alarm' = alarm /\ running' = running /\ pendsv' = pendsv /\ state' = state
        /\ pc' = pc /\ usec' = usec /\ todo' = todo /\ UNCHANGED evVars
    BY <1>1 DEF allVars, vars, timerVars, schedVars, callVars
  <2>1. Effects({}) /\ (running \in Threads => state'[running] \in OnCpu)
    <3>1. UNCHANGED <<timerVars, running, state>>
      BY <2>0 DEF timerVars
    <3> QED BY <3>1, NoEffects, TimerAssumption DEF IInv, CpuInv, OnCpu
  <2>2. \A u \in Threads : Kept(u)
    BY <2>0, <2>1 DEF Kept
  <2>3. CallTypes'
    BY <2>0 DEF IInv, Types, CallTypes, evVars
  <2>4. ASSUME NEW u \in Threads
        PROVE  /\ SleepOf(u)' /\ (u \notin RR => RestOf(u)') /\ (Polls(u)' <=> Polls(u))
               /\ pc[u] = "ev_wait" <=> pc'[u] = "ev_wait"
               /\ pc[u] = "ev_get" => pc'[u] = "ev_get"
    <3>1. SleepOf(u)'
      BY <2>1, <2>2, SleepKept DEF IInv
    <3>2. u \notin RR => RestOf(u)'
      BY <2>1, <2>2, RestKept DEF IInv
    <3> QED BY <2>0, <3>1, <3>2 DEF Polls
  <2>5. IInv'
    BY <2>0, <2>1, <2>2, <2>3, <2>4, QuietStepInv
  <2>6. UNCHANGED D!vars
    BY <2>0, DeadlinesAre DEF D!vars
  <2> QED BY <2>5, <2>6
<1>2. CASE Kernel(Tick)
  BY <1>2, TickKeeps DEF D!Next
<1>3. CASE Kernel(TimerExpired)
  BY <1>3, TimerExpiredKeeps DEF D!Next
<1>4. CASE Kernel(Preempt)
  <2>1. Keeps
    BY <1>4, PreemptKeeps
  <2> QED BY <2>1, ResetStep DEF D!Next, Keeps
<1>5. ASSUME NEW t \in Threads, Step(t) PROVE IInv' /\ [D!Next]_(D!vars)
  <2>1. Keeps
    BY <1>5, StepKeeps
  <2> QED BY <2>1, ResetStep DEF D!Next, Keeps
<1> QED BY <1>1, <1>2, <1>3, <1>4, <1>5 DEF Next

-----------------------------------------------------------------------------
\* The invariant holds in every state of every behaviour.
THEOREM TimerInvariant == Spec => []IInv
<1>1. IInv /\ [Next]_allVars => IInv'
  BY NextKeeps
<1> QED BY <1>1, TimerInit, PTL DEF Spec

\* The delta list and the one-shot SysTick keep a deadline of its own for every sleeper.
THEOREM TimerImplementsDeadlines == Spec => ImplementsDeadlines
<1>1. Init => D!Init
  <2> SUFFICES ASSUME Init PROVE D!Init
    OBVIOUS
  <2>1. Deadline = [t \in Threads |-> -1]
    <3>1. ToSet(timer.q) = {}
      BY DEF Init, ToSet
    <3> QED BY <3>1 DEF Deadline
  <2> QED BY <2>1, TimerAssumption DEF Init, D!Init
<1>2. IInv /\ [Next]_allVars => [D!Next]_(D!vars)
  BY NextKeeps
<1> QED BY <1>1, <1>2, TimerInvariant, PTL DEF Spec, ImplementsDeadlines, D!Spec

\* The safety properties of the timer and the event flags.
THEOREM TimerTypes == Spec => []TimerTypeOK
<1>1. IInv => TimerTypeOK
  <2> SUFFICES ASSUME IInv PROVE TimerTypeOK
    OBVIOUS
  <2>1. TimerOK(timer) /\ ToSet(timer.q) = Listed(state) /\ MaxTicks \in Nat
    BY MaxTicksNat DEF IInv, TimerInv
  <2>2. timer.v \in [Threads -> 0..(MaxTicks + 1)] /\ timer.tick \in 0..MaxTicks
    BY <2>1 DEF TimerOK, IsTimer
  <2>3. ToSet(timer.q) \subseteq Threads /\ ToSet(cond) \subseteq Threads
    <3>1. \A t \in ToSet(cond) : t \in Threads
      BY ElementOfSeq, LenProperties DEF IInv, Types, CallTypes, ToSet
    <3> QED BY <2>1, <3>1 DEF Listed
  <2> QED BY <2>2, <2>3 DEF TimerTypeOK, IInv, Types, CallTypes, States
<1> QED BY <1>1, TimerInvariant, PTL

\* A thread is in the timer list exactly while it sleeps for a time or runs a slice: insertions
\* and removals (chx_timer_insert, chx_timer_dequeue, chx_timer_expired) are always paired.
THEOREM TimerListMatches == Spec => []ListMatchesStates
<1>1. IInv => ListMatchesStates
  <2> SUFFICES ASSUME IInv PROVE ListMatchesStates
    OBVIOUS
  <2>1. IsTimer(timer) /\ ToSet(timer.q) = Listed(state)
    BY DEF IInv, TimerInv, TimerOK
  <2>2. \A i, j \in DOMAIN timer.q : timer.q[i] = timer.q[j] => i = j
    BY <2>1, ElementOfSeq, LenProperties DEF IsTimer, Once
  <2> QED BY <2>1, <2>2 DEF ListMatchesStates, Listed
<1> QED BY <1>1, TimerInvariant, PTL

\* SysTick counts, or its exception is pending, while somebody waits for the time.
THEOREM TimerClockRuns == Spec => []ClockRuns
<1>1. IInv => ClockRuns
  BY DEF IInv, TimerInv
<1> QED BY <1>1, TimerInvariant, PTL

\* No wake-up is lost: nobody sleeps on more wanted flags than there are threads to take them.
THEOREM EventflagServed == Spec => []FlagsServed
<1>1. IInv => FlagsServed
  BY DEF IInv
<1> QED BY <1>1, TimerInvariant, PTL

\* The proxy of eventflag_wait_timeout does not stay in the queue when the call returns.
THEOREM EventflagNoStaleProxy == Spec => []NoStaleProxy
<1>1. IInv => NoStaleProxy
  <2> SUFFICES ASSUME IInv PROVE NoStaleProxy
    OBVIOUS
  <2>1. (\A x : Once(cond, x)) /\ \A t \in Threads : CondOf(t)
    BY DEF IInv, CondInv
  <2>2. \A t \in ToSet(cond) : t \in Threads
    BY ElementOfSeq, LenProperties DEF IInv, Types, CallTypes, ToSet
  <2> QED BY <2>1, <2>2 DEF NoStaleProxy, CondOf, Once
<1> QED BY <1>1, TimerInvariant, PTL

\* chopstx_usec_wait is not early.
THEOREM UsecWaitNeverEarly == Spec => NeverEarly
<1> DEFINE Early == \A t \in Threads \ RR :
             pc[t] \in {"usleep", "slept"} /\ pc'[t] = "user" => todo[t] = 0
<1>1. IInv /\ [Next]_allVars => [Early]_allVars
  <2> SUFFICES ASSUME IInv, Next, NEW t \in Threads \ RR,
                      pc[t] \in {"usleep", "slept"}, pc'[t] = "user"
               PROVE  todo[t] = 0
    OBVIOUS
  <2>1. pc'[t] # pc[t] /\ pc \in [Threads -> PCs]
    BY DEF IInv, Types, CallTypes
  <2>2. PICK u \in Threads : Step(u)
    BY <2>1 DEF Next, Kernel, Tick, TimerExpired, Preempt, callVars
  <2>3. \A x \in Threads : \A l : pc' = [pc EXCEPT ![x] = l] => x = t
    BY <2>1
  <2>4. CASE Kernel(UsecSnooze(u))
    <3>1. u = t
      BY <2>3, <2>4 DEF Kernel, UsecSnooze
    <3> QED BY <2>4, <3>1, UsecSnoozeKeeps
  <2>5. CASE Kernel(UsecSlept(u))
    <3>1. u = t
      BY <2>3, <2>5 DEF Kernel, UsecSlept
    <3> QED BY <2>5, <3>1, UsecSleptKeeps
  <2>6. CASE ~Kernel(UsecSnooze(u)) /\ ~Kernel(UsecSlept(u))
    <3>1. pc[t] \notin {"user", "ev_wait", "ev_poll", "ev_polled", "ev_clean", "ev_get"}
      OBVIOUS
    <3>2. CASE "sleep" \in May[u] /\ Kernel(UsecWait(u))
      BY <2>3, <3>1, <3>2 DEF Kernel, UsecWait, Runs
    <3>3. CASE EvSignal(u) \/ EvSetMask(u)
      BY <2>1, <3>3 DEF EvSignal, EvSetMask, callVars
    <3>4. CASE EvGet(u) \/ EvWait(u) \/ EvWaitTimeout(u) \/ EvPoll(u) \/ EvPolled(u) \/ EvClean(u)
      <4>1. pc[u] \in {"user", "ev_wait", "ev_poll", "ev_polled", "ev_clean", "ev_get"}
        BY <3>4 DEF EvGet, EvWait, EvWaitTimeout, EvPoll, EvPolled, EvClean, Runs
      <4>2. \E l : pc' = [pc EXCEPT ![u] = l]
        BY <3>4 DEF EvGet, EvWait, EvWaitTimeout, EvPoll, EvPolled, EvClean
      <4> QED BY <2>3, <3>1, <4>1, <4>2
    <3> QED BY <2>2, <2>6, <3>2, <3>3, <3>4 DEF Step
  <2> QED BY <2>4, <2>5, <2>6
<1> QED BY <1>1, TimerInvariant, PTL DEF Spec, NeverEarly
=============================================================================
