---------------------------- MODULE ChxLinkProofs ----------------------------
(***************************************************************************)
(* What the queue operations of the kernel do to the lists: each changes   *)
(* the place of one node, and keeps the lists well-formed.  Then, the      *)
(* lists and the fields of the threads agree after each of the steps the   *)
(* sections are made of: unlinking a thread, linking it elsewhere with     *)
(* another state, linking and unlinking a proxy, dispatching, waking up.   *)
(* Last, the steps that only move a thread on.                             *)
(***************************************************************************)
EXTENDS ChxInvariant, ListTheorems, FiniteSetTheorems

\* ListsOK, with the threads' single occurrence stated by Once.
LEMMA ListsOnce ==
  ASSUME NEW Q
  PROVE  ListsOK(Q) <=> /\ Q \in [Queues -> Seq(Nodes)]
                        /\ \A n \in Queues, t \in Threads : Once(Q[n], t)
                        /\ \A p \in Pds, n \in {"ready", "timer"} \cup Mutexes : p \notin ToSet(Q[n])
BY DEF ListsOK, Once

\* Q1 is Q but for the links of x.
OthersKept(Q, Q1, x) == \A y \in Nodes : y # x => Where(Q1, y) = Where(Q, y)

\* ll_prio_enqueue and ll_prio_push stop at a place of the list, or at its end.
LEMMA LeadingRange ==
  ASSUME NEW S, NEW s \in Seq(S), NEW I, I \subseteq DOMAIN s
  PROVE  1 + Cardinality(I) \in 1..(Len(s) + 1)
<1>1. Len(s) \in Nat /\ DOMAIN s = 1..Len(s)
  BY LenProperties
<1>2. IsFiniteSet(1..Len(s)) /\ Cardinality(1..Len(s)) = Len(s)
  <2>1. 1 \in Int /\ Len(s) \in Int
    BY <1>1
  <2>2. /\ IsFiniteSet(1..Len(s))
        /\ Cardinality(1..Len(s)) = IF 1 > Len(s) THEN 0 ELSE Len(s) - 1 + 1
    BY <2>1, FS_Interval
  <2> QED BY <1>1, <2>2
<1>3. IsFiniteSet(I) /\ Cardinality(I) <= Len(s)
  BY <1>1, <1>2, FS_Subset
<1>4. Cardinality(I) \in Nat
  BY <1>3, FS_CardinalityType
<1> QED BY <1>1, <1>3, <1>4

\* Where the two searches of the lists by priority stop.
LEMMA PlaceRange ==
  ASSUME NEW S, NEW s \in Seq(S), NEW prios, NEW pr
  PROVE  EnqueueAt(s, prios, pr) \in 1..(Len(s) + 1) /\ PushAt(s, prios, pr) \in 1..(Len(s) + 1)
BY LeadingRange DEF EnqueueAt, PushAt

\* Linking x into queue n.
LEMMA LinkLists ==
  ASSUME NEW Q, ListsOK(Q), NEW n \in Queues, NEW x \in Nodes, NEW i \in 1..(Len(Q[n]) + 1),
         x \in Threads => n \notin Where(Q, x),
         x \in Pds => n \notin {"ready", "timer"} \cup Mutexes
  PROVE  LET Q1 == [Q EXCEPT ![n] = InsertAt(@, i, x)]
         IN  /\ ListsOK(Q1)
             /\ Where(Q1, x) = Where(Q, x) \cup {n}
             /\ OthersKept(Q, Q1, x)
<1> DEFINE r == InsertAt(Q[n], i, x)
           Q1 == [Q EXCEPT ![n] = r]
<1>1. Q \in [Queues -> Seq(Nodes)] /\ Q[n] \in Seq(Nodes)
  BY DEF ListsOK
<1>2. r \in Seq(Nodes)
  BY <1>1, InsertAtFacts
<1>3. ToSet(r) = ToSet(Q[n]) \cup {x} /\ \A y : y # x /\ Once(Q[n], y) => Once(r, y)
  BY <1>1, InsertAtElements
<1>4. x \in Threads => Once(r, x)
  BY <1>1, InsertAtElements DEF Where
<1> HIDE DEF r
<1>5. Q1 \in [Queues -> Seq(Nodes)] /\ Q1[n] = r /\ \A k \in Queues : k # n => Q1[k] = Q[k]
  BY <1>1, <1>2
<1> HIDE DEF Q1
<1>6. ListsOK(Q1)
  <2>1. \A k \in Queues, t \in Threads : Once(Q[k], t)
    BY ListsOnce
  <2>2. \A k \in Queues, t \in Threads : Once(Q1[k], t)
    BY <1>3, <1>4, <1>5, <2>1
  <2>3. \A p \in Pds, k \in {"ready", "timer"} \cup Mutexes : p \notin ToSet(Q1[k])
    BY <1>3, <1>5 DEF ListsOK, Queues, Objects
  <2> QED BY <1>5, <2>2, <2>3, ListsOnce
<1>7. Where(Q1, x) = Where(Q, x) \cup {n}
  BY <1>3, <1>5 DEF Where
<1>8. OthersKept(Q, Q1, x)
  BY <1>3, <1>5 DEF Where, OthersKept
<1> QED BY <1>6, <1>7, <1>8 DEF Q1, r

\* The list r is s without one occurrence of x.
Lacks(r, s, x) ==
  /\ ToSet(r) \subseteq ToSet(s)
  /\ \A y \in ToSet(s) : y # x => y \in ToSet(r)
  /\ \A y : Once(s, y) => Once(r, y)
  /\ Once(s, x) => x \notin ToSet(r)

\* Taking one occurrence of x out of queue n.
LEMMA UnlinkLists ==
  ASSUME NEW Q, ListsOK(Q), NEW n \in Queues, NEW x,
         NEW Q1 \in [Queues -> Seq(Nodes)], Lacks(Q1[n], Q[n], x),
         \A k \in Queues : k # n => Q1[k] = Q[k]
  PROVE  /\ ListsOK(Q1)
         /\ x \in Threads => Where(Q1, x) = Where(Q, x) \ {n}
         /\ OthersKept(Q, Q1, x)
<1>1. ListsOK(Q1)
  <2>1. \A k \in Queues, t \in Threads : Once(Q[k], t)
    BY ListsOnce
  <2>2. \A k \in Queues, t \in Threads : Once(Q1[k], t)
    BY <2>1 DEF Lacks
  <2>3. \A p \in Pds, k \in {"ready", "timer"} \cup Mutexes : p \notin ToSet(Q1[k])
    BY DEF ListsOK, Queues, Objects, Lacks
  <2> QED BY <2>2, <2>3, ListsOnce
<1>2. x \in Threads => x \notin ToSet(Q1[n])
  BY ListsOnce DEF Lacks
<1>3. x \in Threads => Where(Q1, x) = Where(Q, x) \ {n}
  BY <1>2 DEF Where, Lacks
<1>4. OthersKept(Q, Q1, x)
  BY DEF Where, Lacks, OthersKept
<1> QED BY <1>1, <1>3, <1>4

\* ll_dequeue of x: a thread linked in one queue at most is linked nowhere then.
LEMMA DequeueLists ==
  ASSUME NEW Q, ListsOK(Q), NEW x \in Nodes
  PROVE  /\ ListsOK(Dequeue(Q, x))
         /\ x \in Threads /\ (\E n : Where(Q, x) \subseteq {n}) => Where(Dequeue(Q, x), x) = {}
         /\ OthersKept(Q, Dequeue(Q, x), x)
<1>1. CASE \A n \in Queues : x \notin ToSet(Q[n])
  BY <1>1 DEF Dequeue, Where, OthersKept
<1>2. CASE \E n \in Queues : x \in ToSet(Q[n])
  <2> DEFINE n == CHOOSE k \in Queues : x \in ToSet(Q[k])
             i == CHOOSE k \in DOMAIN Q[n] : Q[n][k] = x
             r == RemoveAt(Q[n], i)
  <2>1. n \in Queues /\ x \in ToSet(Q[n])
    BY <1>2
  <2>2. Dequeue(Q, x) = [Q EXCEPT ![n] = r]
    BY <1>2 DEF Dequeue, Without
  <2> HIDE DEF n
  <2>3. Q[n] \in Seq(Nodes)
    BY <2>1 DEF ListsOK
  <2>4. i \in DOMAIN Q[n] /\ Q[n][i] = x
    BY <2>1 DEF ToSet
  <2>5. i \in 1..Len(Q[n])
    BY <2>3, <2>4, LenProperties
  <2> HIDE DEF i
  <2>6. r \in Seq(Nodes) /\ Lacks(r, Q[n], x)
    BY <2>3, <2>4, <2>5, RemoveAtFacts, RemoveAtElements DEF Lacks
  <2> HIDE DEF r
  <2> DEFINE Q1 == [Q EXCEPT ![n] = r]
  <2>a. /\ Q1 = [Q EXCEPT ![n] = r] /\ Q1 \in [Queues -> Seq(Nodes)] /\ Q1[n] = r
        /\ \A k \in Queues : k # n => Q1[k] = Q[k]
    BY <2>1, <2>6 DEF ListsOK
  <2> HIDE DEF Q1
  <2>7. /\ ListsOK(Q1)
        /\ x \in Threads => Where(Q1, x) = Where(Q, x) \ {n}
        /\ OthersKept(Q, Q1, x)
    BY <2>1, <2>6, <2>a, UnlinkLists
  <2>8. n \in Where(Q, x)
    BY <2>1 DEF Where
  <2> QED BY <2>2, <2>7, <2>8, <2>a
<1> QED BY <1>1, <1>2

\* A pop of queue n.
LEMMA PopLists ==
  ASSUME NEW Q, ListsOK(Q), NEW n \in Queues, Q[n] # << >>
  PROVE  LET Q1 == [Q EXCEPT ![n] = Tail(@)]
             x  == Head(Q[n])
         IN  /\ x \in Nodes
             /\ n \in Where(Q, x)
             /\ n \in {"ready", "timer"} \cup Mutexes => x \in Threads
             /\ ListsOK(Q1)
             /\ x \in Threads => Where(Q1, x) = Where(Q, x) \ {n}
             /\ OthersKept(Q, Q1, x)
<1>1. Q[n] \in Seq(Nodes)
  BY DEF ListsOK
<1> DEFINE r == Tail(Q[n])
           x == Head(Q[n])
<1>2. /\ r \in Seq(Nodes) /\ x \in Nodes /\ x \in ToSet(Q[n])
      /\ Lacks(r, Q[n], x)
  BY <1>1, TailElements DEF Lacks
<1> HIDE DEF r, x
<1> DEFINE Q1 == [Q EXCEPT ![n] = r]
<1>a. /\ Q1 = [Q EXCEPT ![n] = r] /\ Q1 \in [Queues -> Seq(Nodes)] /\ Q1[n] = r
      /\ \A k \in Queues : k # n => Q1[k] = Q[k]
  BY <1>2 DEF ListsOK
<1> HIDE DEF Q1
<1>3. /\ ListsOK(Q1)
      /\ x \in Threads => Where(Q1, x) = Where(Q, x) \ {n}
      /\ OthersKept(Q, Q1, x)
  BY <1>2, <1>a, UnlinkLists
<1>4. n \in Where(Q, x)
  BY <1>2 DEF Where
<1>5. n \in {"ready", "timer"} \cup Mutexes => x \in Threads
  BY <1>2 DEF ListsOK, Nodes
<1> QED BY <1>2, <1>3, <1>4, <1>5 DEF r, x, Q1

-----------------------------------------------------------------------------
\* Q0 is Q with the thread x linked nowhere.
Unlinked(Q, Q0, x) == ListsOK(Q0) /\ OthersKept(Q, Q0, x) /\ Where(Q0, x) = {}

\* The fields of the threads have their types, and only those of x differ.
FieldsOf(x, st, pa, vv, st1, pa1, vv1) ==
  /\ st1 \in [Threads -> States]
  /\ pa1 \in [Threads -> Queues \cup {None}]
  /\ vv1 \in [Threads -> Threads \cup {-1, 0, 1}]
  /\ \A y \in Threads : y # x => st1[y] = st[y] /\ pa1[y] = pa[y] /\ vv1[y] = vv[y]

\* A thread x that got new fields, in lists where it is linked as they tell.
LEMMA Relink ==
  ASSUME NEW Q, NEW st, NEW pa, NEW vv, Linkage(Q, st, pa, vv), NEW x \in Threads,
         NEW Q1, ListsOK(Q1), OthersKept(Q, Q1, x),
         NEW st1, NEW pa1, NEW vv1, FieldsOf(x, st, pa, vv, st1, pa1, vv1),
         Where(Q1, x) = Places(x, st1[x], pa1[x]), StateOK(x, st1[x], pa1[x], vv1[x])
  PROVE  Linkage(Q1, st1, pa1, vv1)
<1> SUFFICES ASSUME NEW t \in Threads
             PROVE  Where(Q1, t) = Places(t, st1[t], pa1[t]) /\ StateOK(t, st1[t], pa1[t], vv1[t])
  BY DEF Linkage, FieldsOf
<1>1. CASE t = x
  BY <1>1
<1>2. CASE t # x
  <2>1. Where(Q1, t) = Where(Q, t)
    BY <1>2 DEF OthersKept, Nodes
  <2> QED BY <1>2, <2>1 DEF Linkage, FieldsOf
<1> QED BY <1>1, <1>2

\* An unlinked thread is linked in the queue its new fields tell.
LEMMA LinkIn ==
  ASSUME NEW Q, NEW st, NEW pa, NEW vv, Linkage(Q, st, pa, vv), NEW x \in Threads,
         NEW Q0, Unlinked(Q, Q0, x), NEW n \in Queues, NEW i \in 1..(Len(Q0[n]) + 1),
         NEW st1, NEW pa1, NEW vv1, FieldsOf(x, st, pa, vv, st1, pa1, vv1),
         Places(x, st1[x], pa1[x]) = {n}, StateOK(x, st1[x], pa1[x], vv1[x])
  PROVE  Linkage([Q0 EXCEPT ![n] = InsertAt(@, i, x)], st1, pa1, vv1)
<1> DEFINE Q1 == [Q0 EXCEPT ![n] = InsertAt(@, i, x)]
<1>1. ListsOK(Q0) /\ x \in Nodes /\ n \notin Where(Q0, x) /\ x \notin Pds
  <2>1. ListsOK(Q0) /\ Where(Q0, x) = {}
    BY DEF Unlinked
  <2>2. x \in Nodes /\ x \notin Pds
    BY AddressAssumption DEF Nodes
  <2> QED BY <2>1, <2>2
<1>2. ListsOK(Q1) /\ Where(Q1, x) = Where(Q0, x) \cup {n} /\ OthersKept(Q0, Q1, x)
  BY <1>1, LinkLists, ZenonT(30)
<1> HIDE DEF Q1
<1>3. OthersKept(Q, Q1, x)
  BY <1>2 DEF OthersKept, Unlinked
<1>4. Where(Q1, x) = {n}
  BY <1>2 DEF Unlinked
<1>5. Linkage(Q1, st1, pa1, vv1)
  BY <1>2, <1>3, <1>4, Relink
<1> QED BY <1>5 DEF Q1

\* The same for the place that ll_prio_enqueue, or ll_prio_push, finds.
LEMMA LinkEnqueue ==
  ASSUME NEW Q, NEW st, NEW pa, NEW vv, Linkage(Q, st, pa, vv), NEW x \in Threads,
         NEW Q0, Unlinked(Q, Q0, x), NEW n \in Queues, NEW prios,
         NEW st1, NEW pa1, NEW vv1, FieldsOf(x, st, pa, vv, st1, pa1, vv1),
         Places(x, st1[x], pa1[x]) = {n}, StateOK(x, st1[x], pa1[x], vv1[x])
  PROVE  /\ Linkage(PrioEnqueue(Q0, n, x, prios), st1, pa1, vv1)
         /\ Linkage(PrioPush(Q0, n, x, prios), st1, pa1, vv1)
<1>1. Q0 \in [Queues -> Seq(Nodes)] /\ Q0[n] \in Seq(Nodes)
  BY DEF Unlinked, ListsOK
<1> DEFINE i == EnqueueAt(Q0[n], prios, prios[x])
           j == PushAt(Q0[n], prios, prios[x])
<1>2. i \in 1..(Len(Q0[n]) + 1) /\ j \in 1..(Len(Q0[n]) + 1)
  BY <1>1, PlaceRange
<1>3. /\ PrioEnqueue(Q0, n, x, prios) = [Q0 EXCEPT ![n] = InsertAt(@, i, x)]
      /\ PrioPush(Q0, n, x, prios) = [Q0 EXCEPT ![n] = InsertAt(@, j, x)]
  BY <1>1 DEF PrioEnqueue, PrioPush
<1> HIDE DEF i, j
<1>4. Linkage([Q0 EXCEPT ![n] = InsertAt(@, i, x)], st1, pa1, vv1)
  BY <1>2, LinkIn
<1>5. Linkage([Q0 EXCEPT ![n] = InsertAt(@, j, x)], st1, pa1, vv1)
  BY <1>2, LinkIn
<1> QED BY <1>3, <1>4, <1>5

\* The same for chx_timer_insert.
LEMMA LinkTimer ==
  ASSUME NEW Q, NEW st, NEW pa, NEW vv, Linkage(Q, st, pa, vv), NEW x \in Threads,
         NEW Q0, Unlinked(Q, Q0, x), NEW i \in TimerPlaces(Q0),
         NEW st1, NEW pa1, NEW vv1, FieldsOf(x, st, pa, vv, st1, pa1, vv1),
         Places(x, st1[x], pa1[x]) = {"timer"}, StateOK(x, st1[x], pa1[x], vv1[x])
  PROVE  Linkage(TimerInsert(Q0, x, i), st1, pa1, vv1)
<1>1. "timer" \in Queues /\ i \in 1..(Len(Q0["timer"]) + 1)
  BY DEF Queues, TimerPlaces
<1>2. TimerInsert(Q0, x, i) = [Q0 EXCEPT !["timer"] = InsertAt(@, i, x)]
  BY DEF TimerInsert
<1>3. Linkage([Q0 EXCEPT !["timer"] = InsertAt(@, i, x)], st1, pa1, vv1)
  BY <1>1, LinkIn
<1> QED BY <1>2, <1>3

\* An unlinked thread whose new fields tell no queue.
LEMMA LinkOut ==
  ASSUME NEW Q, NEW st, NEW pa, NEW vv, Linkage(Q, st, pa, vv), NEW x \in Threads,
         NEW Q0, Unlinked(Q, Q0, x),
         NEW st1, NEW pa1, NEW vv1, FieldsOf(x, st, pa, vv, st1, pa1, vv1),
         Places(x, st1[x], pa1[x]) = {}, StateOK(x, st1[x], pa1[x], vv1[x])
  PROVE  Linkage(Q0, st1, pa1, vv1)
BY Relink DEF Unlinked

-----------------------------------------------------------------------------
\* The ways a thread is unlinked.
LEMMA OnePlace ==
  ASSUME NEW t, NEW st, NEW pa
  PROVE  \E n : Places(t, st, pa) \subseteq {n}
BY DEF Places

\* ll_dequeue unlinks a thread wherever it was linked.
LEMMA DequeueUnlinks ==
  ASSUME NEW Q, NEW st, NEW pa, NEW vv, Linkage(Q, st, pa, vv), NEW x \in Threads
  PROVE  Unlinked(Q, Dequeue(Q, x), x)
<1>1. ListsOK(Q) /\ Where(Q, x) = Places(x, st[x], pa[x]) /\ x \in Nodes
  BY DEF Linkage, Nodes
<1>2. \E n : Where(Q, x) \subseteq {n}
  BY <1>1, OnePlace
<1> QED BY <1>1, <1>2, DequeueLists DEF Unlinked

\* A thread that is linked nowhere as it is.
LEMMA NowhereUnlinked ==
  ASSUME NEW Q, NEW st, NEW pa, NEW vv, Linkage(Q, st, pa, vv), NEW x \in Threads,
         Places(x, st[x], pa[x]) = {}
  PROVE  Unlinked(Q, Q, x)
BY DEF Linkage, Unlinked, OthersKept

\* The running thread is linked for its slice only, which leaving the CPU takes back.
LEMMA StopSliceUnlinks ==
  ASSUME NEW Q, NEW st, NEW pa, NEW vv, Linkage(Q, st, pa, vv), NEW x \in Threads,
         st[x] = "RUNNING"
  PROVE  Unlinked(Q, StopSlice(Q, x), x)
<1>1. CASE x \in RR
  BY <1>1, DequeueUnlinks DEF StopSlice
<1>2. CASE x \notin RR
  BY <1>2, NowhereUnlinked DEF StopSlice, Places
<1> QED BY <1>1, <1>2

\* A pop of a list unlinks the thread that was its head.
LEMMA PopUnlinks ==
  ASSUME NEW Q, NEW st, NEW pa, NEW vv, Linkage(Q, st, pa, vv),
         NEW n \in Queues, Q[n] # << >>, Head(Q[n]) \in Threads
  PROVE  /\ Unlinked(Q, [Q EXCEPT ![n] = Tail(@)], Head(Q[n]))
         /\ Places(Head(Q[n]), st[Head(Q[n])], pa[Head(Q[n])]) = {n}
<1> DEFINE x  == Head(Q[n])
           Q1 == [Q EXCEPT ![n] = Tail(@)]
<1>1. ListsOK(Q) /\ Where(Q, x) = Places(x, st[x], pa[x])
  BY DEF Linkage
<1>2. /\ n \in Where(Q, x) /\ ListsOK(Q1) /\ OthersKept(Q, Q1, x)
      /\ Where(Q1, x) = Where(Q, x) \ {n}
  BY <1>1, PopLists
<1> HIDE DEF x, Q1
<1>3. Where(Q, x) = {n}
  BY <1>1, <1>2, OnePlace
<1>4. Unlinked(Q, Q1, x) /\ Places(x, st[x], pa[x]) = {n}
  BY <1>1, <1>2, <1>3 DEF Unlinked
<1> QED BY <1>4 DEF x, Q1

\* A thread that is in a queue has to be there.
LEMMA LinkedPlace ==
  ASSUME NEW Q, NEW st, NEW pa, NEW vv, Linkage(Q, st, pa, vv), NEW x \in Threads,
         NEW n \in Where(Q, x)
  PROVE  Places(x, st[x], pa[x]) = {n}
<1>1. n \in Places(x, st[x], pa[x])
  BY DEF Linkage
<1> QED BY <1>1, OnePlace

\* What the queue of a linked thread says of its state.
LEMMA StateOfPlace ==
  ASSUME NEW Q, NEW st, NEW pa, NEW vv, Linkage(Q, st, pa, vv), NEW x \in Threads,
         NEW n \in Queues, Places(x, st[x], pa[x]) = {n}
  PROVE  /\ n = "ready" => st[x] = "READY"
         /\ n = "timer" => st[x] \in {"WAIT_TIME", "WAIT_POLL"} \/ (st[x] = "RUNNING" /\ x \in RR)
         /\ n = "join" => st[x] = "WAIT_EXIT"
         /\ n \in Mutexes => st[x] = "WAIT_MTX"
         /\ n \in Conds => st[x] = "WAIT_CND"
         /\ n # "intr"
<1>1. StateOK(x, st[x], pa[x], vv[x]) /\ st[x] \in States
  BY DEF Linkage
<1>2. /\ \A m \in Mutexes : m \notin Conds /\ m \notin {"ready", "timer", "join", "intr"}
      /\ \A c \in Conds : c \notin {"ready", "timer", "join", "intr"}
  BY AddressAssumption DEF Objects
<1> QED BY <1>1, <1>2 DEF Places, StateOK, States

-----------------------------------------------------------------------------
\* Proxies come and go, and no thread notices.
LEMMA ProxyMoves ==
  ASSUME NEW Q, NEW st, NEW pa, NEW vv, Linkage(Q, st, pa, vv), NEW p \in Pds,
         NEW Q1, ListsOK(Q1), OthersKept(Q, Q1, p)
  PROVE  Linkage(Q1, st, pa, vv)
<1>1. ASSUME NEW t \in Threads PROVE Where(Q1, t) = Where(Q, t)
  BY AddressAssumption DEF OthersKept, Nodes
<1> QED BY <1>1 DEF Linkage

\* A proxy leaves its list, as in the clean-up of chopstx_poll.
LEMMA ProxyDequeue ==
  ASSUME NEW Q, NEW st, NEW pa, NEW vv, Linkage(Q, st, pa, vv), NEW p \in Pds
  PROVE  Linkage(Dequeue(Q, p), st, pa, vv)
<1>1. ListsOK(Q) /\ p \in Nodes
  BY DEF Linkage, Nodes
<1> QED BY <1>1, DequeueLists, ProxyMoves

\* A proxy at the head of a list is popped, as by chopstx_cond_signal.
LEMMA ProxyPop ==
  ASSUME NEW Q, NEW st, NEW pa, NEW vv, Linkage(Q, st, pa, vv),
         NEW n \in Queues, Q[n] # << >>, Head(Q[n]) \in Pds
  PROVE  Linkage([Q EXCEPT ![n] = Tail(@)], st, pa, vv)
<1>1. ListsOK(Q)
  BY DEF Linkage
<1>2. ListsOK([Q EXCEPT ![n] = Tail(@)]) /\ OthersKept(Q, [Q EXCEPT ![n] = Tail(@)], Head(Q[n]))
  BY <1>1, PopLists
<1> QED BY <1>2, ProxyMoves

\* A hook of chopstx_poll links a proxy.
LEMMA ProxyEnqueue ==
  ASSUME NEW Q, NEW st, NEW pa, NEW vv, Linkage(Q, st, pa, vv), NEW p \in Pds,
         NEW n \in Conds \cup {"intr", "join"}, NEW prios
  PROVE  Linkage(PrioEnqueue(Q, n, p, prios), st, pa, vv)
<1>1. /\ ListsOK(Q) /\ p \in Nodes /\ n \in Queues /\ p \notin Threads
      /\ n \notin {"ready", "timer"} \cup Mutexes
  BY AddressAssumption DEF Linkage, Nodes, Queues, Objects
<1>2. Q[n] \in Seq(Nodes)
  BY <1>1 DEF ListsOK
<1> DEFINE i == EnqueueAt(Q[n], prios, prios[p])
           Q1 == [Q EXCEPT ![n] = InsertAt(@, i, p)]
<1>3. i \in 1..(Len(Q[n]) + 1)
  BY <1>2, PlaceRange
<1>4. PrioEnqueue(Q, n, p, prios) = Q1
  BY DEF PrioEnqueue
<1> HIDE DEF i
<1>5. ListsOK(Q1) /\ OthersKept(Q, Q1, p)
  BY <1>1, <1>3, LinkLists
<1> QED BY <1>4, <1>5, ProxyMoves

-----------------------------------------------------------------------------
\* chx_ready_enqueue of a thread that was taken off its queue.
LEMMA ReadyLinks ==
  ASSUME NEW Q, NEW st, NEW pa, NEW vv, Linkage(Q, st, pa, vv), NEW x \in Threads,
         NEW Q0, Unlinked(Q, Q0, x), NEW prios, NEW w \in {-1, 0, 1}
  PROVE  /\ Linkage(PrioEnqueue(Q0, "ready", x, prios), [st EXCEPT ![x] = "READY"],
                    [pa EXCEPT ![x] = "ready"], [vv EXCEPT ![x] = w])
         /\ Linkage(PrioPush(Q0, "ready", x, prios), [st EXCEPT ![x] = "READY"],
                    [pa EXCEPT ![x] = "ready"], [vv EXCEPT ![x] = w])
<1> DEFINE st1 == [st EXCEPT ![x] = "READY"]
           pa1 == [pa EXCEPT ![x] = "ready"]
           vv1 == [vv EXCEPT ![x] = w]
<1>1. "ready" \in Queues
  BY DEF Queues
<1>2. FieldsOf(x, st, pa, vv, st1, pa1, vv1) /\ st1[x] = "READY" /\ pa1[x] = "ready" /\ vv1[x] = w
  BY <1>1 DEF Linkage, FieldsOf, States
<1> HIDE DEF st1, pa1, vv1
<1>3. Places(x, st1[x], pa1[x]) = {"ready"} /\ StateOK(x, st1[x], pa1[x], vv1[x])
  BY <1>2, AddressAssumption DEF Places, StateOK
<1>4. /\ Linkage(PrioEnqueue(Q0, "ready", x, prios), st1, pa1, vv1)
      /\ Linkage(PrioPush(Q0, "ready", x, prios), st1, pa1, vv1)
  BY <1>1, <1>2, <1>3, LinkEnqueue
<1> QED BY <1>4 DEF st1, pa1, vv1

\* chx_ready_pop: the head of the ready list, if any, is the running thread.
LEMMA DispatchLinks ==
  ASSUME NEW Q, NEW st, NEW pa, NEW vv, Linkage(Q, st, pa, vv),
         \A t \in Threads : st[t] # "RUNNING", Dispatch(Q, st, pa, vv)
  PROVE  /\ Linkage(q', state', parent', v')
         /\ running' \in Threads \cup {None}
         /\ \A t \in Threads : t # running' => state'[t] = st[t] /\ v'[t] = vv[t]
         /\ running' # None => /\ st[running'] = "READY" /\ state'[running'] = "RUNNING"
                               /\ running' \notin RR => v'[running'] = vv[running']
<1> DEFINE h  == Head(Q["ready"])
           Q1 == [Q EXCEPT !["ready"] = Tail(@)]
<1>1. CASE Q["ready"] = << >>
  <2>1. running' = None /\ q' = Q /\ state' = st /\ parent' = pa /\ v' = vv
    BY <1>1 DEF Dispatch
  <2> QED BY <2>1
<1>2. CASE Q["ready"] # << >>
  <2>1. "ready" \in Queues /\ ListsOK(Q)
    BY DEF Queues, Linkage
  <2>2. h \in Threads
    BY <1>2, <2>1, PopLists
  <2>3. Unlinked(Q, Q1, h) /\ Places(h, st[h], pa[h]) = {"ready"}
    BY <1>2, <2>1, <2>2, PopUnlinks
  <2>4. st[h] = "READY"
    BY <2>1, <2>2, <2>3, StateOfPlace
  <2>5. /\ pa[h] = "ready" /\ vv[h] \notin Threads /\ vv \in [Threads -> Threads \cup {-1, 0, 1}]
        /\ st \in [Threads -> States] /\ pa \in [Threads -> Queues \cup {None}]
    BY <2>2, <2>4 DEF Linkage, StateOK
  <2>6. running' = h /\ state' = [st EXCEPT ![h] = "RUNNING"]
    BY <1>2 DEF Dispatch
  <2>7. CASE h \notin RR
    <3>1. q' = Q1 /\ parent' = pa /\ v' = vv
      BY <1>2, <2>7 DEF Dispatch
    <3> HIDE DEF h, Q1
    <3>2. FieldsOf(h, st, pa, vv, state', parent', v')
      BY <2>2, <2>5, <2>6, <3>1 DEF FieldsOf, States
    <3>3. Places(h, state'[h], parent'[h]) = {} /\ StateOK(h, state'[h], parent'[h], v'[h])
      BY <2>2, <2>5, <2>6, <2>7, <3>1 DEF Places, StateOK
    <3>4. Linkage(Q1, state', parent', v')
      BY <2>2, <2>3, <3>2, <3>3, LinkOut
    <3> QED BY <2>2, <2>4, <2>5, <2>6, <3>1, <3>4
  <2>8. CASE h \in RR
    <3>1. /\ \E i \in TimerPlaces(Q1) : q' = TimerInsert(Q1, h, i)
          /\ parent' = [pa EXCEPT ![h] = "timer"] /\ v' = [vv EXCEPT ![h] = 1]
      BY <1>2, <2>8 DEF Dispatch
    <3> HIDE DEF h, Q1
    <3>2. FieldsOf(h, st, pa, vv, state', parent', v')
      BY <2>2, <2>5, <2>6, <3>1 DEF FieldsOf, States, Queues
    <3>3. Places(h, state'[h], parent'[h]) = {"timer"} /\ StateOK(h, state'[h], parent'[h], v'[h])
      BY <2>2, <2>5, <2>6, <2>8, <3>1, AddressAssumption DEF Places, StateOK
    <3>a. PICK i \in TimerPlaces(Q1) : q' = TimerInsert(Q1, h, i)
      BY <3>1
    <3>b. Linkage(TimerInsert(Q1, h, i), state', parent', v')
      BY <2>2, <2>3, <3>2, <3>3, LinkTimer
    <3>4. Linkage(q', state', parent', v')
      BY <3>a, <3>b
    <3> QED BY <2>2, <2>4, <2>5, <2>6, <2>8, <3>1, <3>4
  <2> QED BY <2>7, <2>8
<1> QED BY <1>1, <1>2

-----------------------------------------------------------------------------
(* The parts of KernelInv, and the steps that move a thread on without       *)
(* touching another: they preserve it.                                       *)

\* The types of what is neither the processor's, nor a list, nor control.
ResourceTypes ==
  /\ prio \in [Nodes -> Prios]
  /\ prio_orig \in [Threads -> Prios]
  /\ got_cancel \in [Threads -> BOOLEAN]
  /\ cancelable \in [Threads -> BOOLEAN]
  /\ join_req \in [Threads -> BOOLEAN]
  /\ clp \in [Threads -> Nat]
  /\ owner \in [Mutexes -> Threads \cup {None}]
  /\ list \in [Mutexes -> Mutexes \cup {None}]
  /\ mutex_list \in [Threads -> Mutexes \cup {None}]
  /\ ready \in [Pds -> {0, 1}]
  /\ counter \in [Threads -> Nat]
  /\ irq_enabled \in [Irqs -> BOOLEAN]
  /\ irq_pending \in [Irqs -> BOOLEAN]

ProcessorTypes ==
  /\ running \in Threads \cup {None}
  /\ cpu \in {"user", "lock", "sleep", "yield"}
  /\ pendsv \in BOOLEAN

ControlOK ==
  /\ pc \in [Threads -> Labels] /\ fr \in [Threads -> Frame]
  /\ \A t \in Threads : FrameOK(t, pc[t], fr[t])

\* KernelInv, regrouped by what the steps change together.
LEMMA KernelParts ==
  KernelInv <=> /\ ProcessorTypes /\ ResourceTypes /\ ProcessorOK /\ ControlOK
                /\ Linkage(q, state, parent, v)
                /\ \A t \in Threads : JoinOK(t)
<1>1. Linkage(q, state, parent, v) =>
        /\ q \in [Queues -> Seq(Nodes)] /\ state \in [Threads -> States]
        /\ parent \in [Threads -> Queues \cup {None}] /\ v \in [Threads -> Threads \cup {-1, 0, 1}]
  BY DEF Linkage, ListsOK
<1> QED BY <1>1 DEF KernelInv, TypeOK, ProcessorTypes, ResourceTypes, ControlOK

\* The same for the next state.
LEMMA KernelPartsNext ==
  ASSUME ProcessorTypes', ResourceTypes', ProcessorOK', ControlOK', Linkage(q, state, parent, v)',
         \A t \in Threads : JoinOK(t)'
  PROVE  KernelInv'
<1>1. /\ q' \in [Queues -> Seq(Nodes)] /\ state' \in [Threads -> States]
      /\ parent' \in [Threads -> Queues \cup {None}] /\ v' \in [Threads -> Threads \cup {-1, 0, 1}]
  BY DEF Linkage, ListsOK
<1> QED BY <1>1 DEF KernelInv, TypeOK, ProcessorTypes, ResourceTypes, ControlOK

\* Thread t goes to label l with locals f.
LEMMA ControlMoves ==
  ASSUME ControlOK, NEW t \in Threads, NEW l \in Labels, NEW f \in Frame, FrameOK(t, l, f),
         pc' = [pc EXCEPT ![t] = l], fr' = [fr EXCEPT ![t] = f]
  PROVE  ControlOK' /\ pc'[t] = l /\ \A u \in Threads : u # t => pc'[u] = pc[u]
BY DEF ControlOK

\* A step that leaves the processor and the threads' fields alone; of the lists it may
\* change those of the proxies.
LEMMA ProxyStepInv ==
  ASSUME KernelInv, NEW t \in Threads, cpu = "user", UNCHANGED <<cpuVars, state, parent, v>>,
         ResourceTypes', Linkage(q', state, parent, v),
         NEW l \in Labels, l # "join_woken", NEW f \in Frame, FrameOK(t, l, f),
         pc' = [pc EXCEPT ![t] = l], fr' = [fr EXCEPT ![t] = f]
  PROVE  KernelInv'
<1>1. ControlOK' /\ pc'[t] = l /\ \A u \in Threads : u # t => pc'[u] = pc[u]
  BY KernelParts, ControlMoves
<1>2. Linkage(q, state, parent, v)'
  OBVIOUS
<1>3. ProcessorTypes' /\ ProcessorOK'
  BY KernelParts DEF cpuVars, ProcessorTypes, ProcessorOK
<1>4. \A u \in Threads : JoinOK(u)'
  BY <1>1, KernelParts DEF JoinOK
<1> QED BY <1>1, <1>2, <1>3, <1>4, KernelPartsNext

\* A step that leaves the processor and the lists alone.
LEMMA QuietInv ==
  ASSUME KernelInv, NEW t \in Threads, cpu = "user", UNCHANGED <<cpuVars, queueVars>>, ResourceTypes',
         NEW l \in Labels, l # "join_woken", NEW f \in Frame, FrameOK(t, l, f),
         pc' = [pc EXCEPT ![t] = l], fr' = [fr EXCEPT ![t] = f]
  PROVE  KernelInv'
<1>1. Linkage(q', state, parent, v) /\ UNCHANGED <<cpuVars, state, parent, v>>
  BY KernelParts DEF queueVars
<1> QED BY <1>1, ProxyStepInv

\* What a thread may rely on.
LEMMA ThreadFacts ==
  ASSUME KernelInv, NEW t \in Threads
  PROVE  /\ fr[t] \in Frame /\ pc[t] \in Labels /\ FrameOK(t, pc[t], fr[t])
         /\ fr = [fr EXCEPT ![t] = fr[t]] /\ pc = [pc EXCEPT ![t] = pc[t]]
         /\ ResourceTypes
         /\ (UNCHANGED <<prioVars, flagVars, mutexVars, pollVars, irqVars>> => ResourceTypes')
<1>1. /\ fr[t] \in Frame /\ pc[t] \in Labels /\ FrameOK(t, pc[t], fr[t])
      /\ fr = [fr EXCEPT ![t] = fr[t]] /\ pc = [pc EXCEPT ![t] = pc[t]]
  BY KernelParts DEF ControlOK
<1>2. ResourceTypes
  BY KernelParts
<1> QED BY <1>1, <1>2 DEF ResourceTypes, prioVars, flagVars, mutexVars, pollVars, irqVars

\* A thread that runs outside of a section is in state RUNNING.
LEMMA RunsFacts ==
  ASSUME KernelInv, NEW t \in Threads, NEW l, Runs(t, l)
  PROVE  /\ running = t /\ cpu = "user" /\ ~pendsv /\ pc[t] = l /\ FrameOK(t, l, fr[t])
         /\ state[t] = "RUNNING" /\ v[t] \in {-1, 0, 1} /\ (t \in RR => v[t] = 1)
<1>1. /\ running = t /\ cpu = "user" /\ ~pendsv /\ pc[t] = l /\ FrameOK(t, l, fr[t])
      /\ t # None
  BY ThreadFacts, AddressAssumption DEF Runs, Nodes
<1>2. state[t] = "RUNNING"
  BY <1>1, KernelParts DEF ProcessorOK
<1> QED BY <1>1, <1>2, KernelParts DEF Linkage, StateOK

-----------------------------------------------------------------------------
(* Mutexes.                                                                  *)

\* The call of chopstx_mutex_lock: the mutex goes into the locals.
LEMMA LockCallInv ==
  ASSUME KernelInv, NEW t \in Threads, NEW m \in Mutexes, LockCall(t, m)
  PROVE  KernelInv'
<1> DEFINE f == [fr[t] EXCEPT !.mtx = m, !.then = "user"]
<1>1. f \in Frame /\ f.mtx = m /\ f.then = "user"
  <2>1. fr[t] \in Frame
    BY ThreadFacts
  <2>2. "user" \in Labels
    BY DEF Labels
  <2> QED BY <2>1, <2>2 DEF Frame
<1>2. fr' = [fr EXCEPT ![t] = f]
  BY DEF LockCall
<1> HIDE DEF f
<1>3. FrameOK(t, "mtx_lock", f)
  BY <1>1 DEF FrameOK, PollLabels
<1>4. "mtx_lock" \in Labels
  BY DEF Labels
<1> QED BY <1>1, <1>2, <1>3, <1>4, ThreadFacts, QuietInv DEF LockCall, Calls, Runs, Goto

\* A free mutex is acquired; the thread goes on where the call returns to.
LEMMA LockAcquireInv ==
  ASSUME KernelInv, NEW t \in Threads, LockAcquire(t)
  PROVE  KernelInv'
<1> DEFINE f == [fr[t] EXCEPT !.mtx = None, !.then = "user"]
           l == fr[t].then
<1>1. f \in Frame /\ f.idx = fr[t].idx /\ f.timed = fr[t].timed
  <2>1. fr[t] \in Frame
    BY ThreadFacts
  <2>2. "user" \in Labels
    BY DEF Labels
  <2> QED BY <2>1, <2>2 DEF Frame
<1>2. fr' = [fr EXCEPT ![t] = f] /\ pc' = [pc EXCEPT ![t] = l] /\ pc[t] = "mtx_lock" /\ cpu = "user"
  BY DEF LockAcquire, Goto, Runs
<1>3. /\ fr[t].mtx \in Mutexes /\ l \in {"user", "cond_relocked", "hook_check"}
      /\ l = "hook_check" => fr[t].idx \in DOMAIN PollArray[t]
      /\ t \in RR /\ l \in PollLabels => fr[t].timed
  BY <1>2, ThreadFacts DEF FrameOK
<1>4. PollArray[t] \in Seq(Pds)
  BY ConstantsAssumption
<1> HIDE DEF f, l
<1>5. FrameOK(t, l, f) /\ l \in Labels /\ l # "join_woken"
  BY <1>1, <1>3, <1>4 DEF FrameOK, PollLabels, Labels
<1>6. ResourceTypes'
  BY <1>3, ThreadFacts DEF LockAcquire, ResourceTypes, prioVars, flagVars, pollVars, irqVars
<1> QED BY <1>1, <1>2, <1>5, <1>6, QuietInv DEF LockAcquire

-----------------------------------------------------------------------------
(* Steps that only move a thread on.                                         *)

\* The labels that rely on no local.
PlainLabels == {"user", "exit", "usleep", "snooze", "handlers", "release", "fatal", "cond_woken",
                "cond_relocked"}

\* A step to such a label.
LEMMA PlainInv ==
  ASSUME KernelInv, NEW t \in Threads, cpu = "user", UNCHANGED <<cpuVars, queueVars>>, ResourceTypes',
         NEW l \in PlainLabels, NEW f \in Frame,
         pc' = [pc EXCEPT ![t] = l], fr' = [fr EXCEPT ![t] = f]
  PROVE  KernelInv'
<1>1. l \in Labels /\ l # "join_woken" /\ FrameOK(t, l, f)
  BY DEF PlainLabels, Labels, FrameOK, PollLabels
<1> QED BY <1>1, QuietInv

\* The locals of a thread that is in no call.
LEMMA NoFrameType == NoFrame \in Frame
BY DEF NoFrame, Frame, Labels

\* The steps of chopstx_cond_wait outside of its section.
LEMMA CondQuietInv ==
  ASSUME KernelInv, NEW t \in Threads,
         \/ \E c \in Conds, m \in Mutexes \cup {None} : WaitCall(t, c, m)
         \/ WaitWoken(t) \/ WaitReturn(t)
  PROVE  KernelInv'
<1>1. ASSUME NEW c \in Conds, NEW m \in Mutexes \cup {None}, WaitCall(t, c, m) PROVE KernelInv'
  <2> USE <1>1
  <2>1. cpu = "user" /\ ResourceTypes' /\ UNCHANGED <<cpuVars, queueVars>>
    BY ThreadFacts DEF WaitCall, Calls, Runs
  <2>2. CASE Canceled(t)
    <3>1. pc' = [pc EXCEPT ![t] = "exit"] /\ fr' = [fr EXCEPT ![t] = fr[t]] /\ "exit" \in PlainLabels
      BY <2>2, ThreadFacts DEF WaitCall, Goto, PlainLabels
    <3> QED BY <2>1, <3>1, ThreadFacts, PlainInv
  <2>3. CASE ~Canceled(t)
    <3> DEFINE f == [fr[t] EXCEPT !.cnd = c, !.mtx = m]
    <3>1. f \in Frame /\ f.cnd = c
      BY ThreadFacts DEF Frame
    <3>2. pc' = [pc EXCEPT ![t] = "cond_wait"] /\ fr' = [fr EXCEPT ![t] = f]
      BY <2>3 DEF WaitCall, Goto
    <3> HIDE DEF f
    <3>3. FrameOK(t, "cond_wait", f) /\ "cond_wait" \in Labels
      BY <3>1 DEF FrameOK, Labels, PollLabels
    <3> QED BY <2>1, <3>1, <3>2, <3>3, QuietInv
  <2> QED BY <2>2, <2>3
<1>2. CASE WaitWoken(t)
  <2> USE <1>2
  <2> DEFINE l == IF fr[t].mtx = None THEN "cond_relocked" ELSE "mtx_lock"
             th == IF fr[t].mtx = None THEN "user" ELSE "cond_relocked"
             f == [fr[t] EXCEPT !.r = v[t], !.cnd = None, !.then = th]
  <2>1. cpu = "user" /\ ResourceTypes' /\ UNCHANGED <<cpuVars, queueVars>>
    BY ThreadFacts, RunsFacts DEF WaitWoken
  <2>a. v[t] \in Int
    BY RunsFacts DEF WaitWoken
  <2>2. th \in Labels
    BY DEF Labels
  <2> HIDE DEF th
  <2>3. f \in Frame /\ f.mtx = fr[t].mtx /\ f.then = th
    BY <2>a, <2>2, ThreadFacts DEF Frame
  <2>4. fr[t].mtx \in Mutexes \cup {None}
    BY ThreadFacts DEF Frame
  <2>5. pc' = [pc EXCEPT ![t] = l] /\ fr' = [fr EXCEPT ![t] = f]
    BY DEF WaitWoken, Goto, th
  <2> HIDE DEF f
  <2>6. FrameOK(t, l, f) /\ l \in Labels /\ l # "join_woken"
    BY <2>3, <2>4 DEF FrameOK, Labels, PollLabels, th
  <2> QED BY <2>1, <2>3, <2>5, <2>6, QuietInv
<1>3. CASE WaitReturn(t)
  <2> USE <1>3
  <2>1. cpu = "user" /\ ResourceTypes' /\ UNCHANGED <<cpuVars, queueVars>>
    BY ThreadFacts DEF WaitReturn, Runs
  <2>2. fr' = [fr EXCEPT ![t] = NoFrame] /\ \E l \in PlainLabels : pc' = [pc EXCEPT ![t] = l]
    BY DEF WaitReturn, Goto, PlainLabels
  <2> QED BY <2>1, <2>2, NoFrameType, PlainInv
<1> QED BY <1>1, <1>2, <1>3

\* Steps of sleeping, clean-ups and exit that keep the locals, or start with new ones.
LEMMA ThreadQuietInv ==
  ASSUME KernelInv, NEW t \in Threads,
         \/ \E n \in 0..MaxSleep : SleepCall(t, n)
         \/ SleepLoop(t) \/ SleepWoken(t)
         \/ CleanupPush(t) \/ CleanupPop(t) \/ TestCancelCall(t)
         \/ \E enable \in BOOLEAN : SetCancelStateCall(t, enable)
         \/ ExitCall(t) \/ ExitBegin(t) \/ ExitHandler(t) \/ ExitHandlersDone(t) \/ JoinFatal(t)
  PROVE  KernelInv'
<1>1. ASSUME NEW n \in 0..MaxSleep, SleepCall(t, n) PROVE KernelInv'
  <2> USE <1>1
  <2>1. cpu = "user" /\ ResourceTypes' /\ UNCHANGED <<cpuVars, queueVars>>
    BY ThreadFacts DEF SleepCall, Calls, Runs
  <2>2. n \in Nat
    BY ConstantsAssumption
  <2>3. [fr[t] EXCEPT !.left = n] \in Frame
    BY <2>2, ThreadFacts DEF Frame
  <2>4. fr' = [fr EXCEPT ![t] = [fr[t] EXCEPT !.left = n]] /\ pc' = [pc EXCEPT ![t] = "usleep"]
    BY DEF SleepCall, Goto
  <2> QED BY <2>1, <2>3, <2>4, PlainInv DEF PlainLabels
<1>2. CASE SleepLoop(t)
  <2> USE <1>2
  <2>1. cpu = "user" /\ ResourceTypes' /\ UNCHANGED <<cpuVars, queueVars>>
    BY ThreadFacts DEF SleepLoop, Runs
  <2>2. fr' = [fr EXCEPT ![t] = fr[t]] /\ \E l \in PlainLabels : pc' = [pc EXCEPT ![t] = l]
    BY ThreadFacts DEF SleepLoop, Goto, PlainLabels
  <2> QED BY <2>1, <2>2, ThreadFacts, PlainInv
<1>3. CASE SleepWoken(t)
  <2> USE <1>3
  <2>1. cpu = "user" /\ ResourceTypes' /\ UNCHANGED <<cpuVars, queueVars>>
    BY ThreadFacts DEF SleepWoken, Runs
  <2>2. CASE SnoozeResult(t) = 0
    <3>1. fr[t].left \in Nat /\ fr[t].left > 0
      <4>1. fr[t].r = 1 \/ (fr[t].r = 0 /\ fr[t].left > 0)
        BY RunsFacts DEF SleepWoken, FrameOK
      <4> QED BY <2>2, <4>1, ThreadFacts DEF SnoozeResult, Frame
    <3>2. fr[t].left - 1 \in Nat
      BY <3>1
    <3>3. [fr[t] EXCEPT !.left = fr[t].left - 1] \in Frame
      BY <3>2, ThreadFacts DEF Frame
    <3>4. /\ fr' = [fr EXCEPT ![t] = [fr[t] EXCEPT !.left = fr[t].left - 1]]
          /\ pc' = [pc EXCEPT ![t] = "usleep"]
      BY <2>2 DEF SleepWoken, Goto
    <3> QED BY <2>1, <3>3, <3>4, PlainInv DEF PlainLabels
  <2>3. CASE SnoozeResult(t) # 0
    <3>1. fr' = [fr EXCEPT ![t] = NoFrame] /\ pc' = [pc EXCEPT ![t] = "user"]
      BY <2>3 DEF SleepWoken, Goto
    <3> QED BY <2>1, <3>1, NoFrameType, PlainInv DEF PlainLabels
  <2> QED BY <2>2, <2>3
<1>4. CASE CleanupPush(t) \/ CleanupPop(t)
  <2>1. cpu = "user" /\ UNCHANGED <<cpuVars, queueVars>> /\ pc[t] = "user"
    BY <1>4 DEF CleanupPush, CleanupPop, Calls, Runs
  <2>2. ResourceTypes'
    BY <1>4, ThreadFacts DEF CleanupPush, CleanupPop, ResourceTypes, prioVars, mutexVars, pollVars, irqVars
  <2>3. fr' = [fr EXCEPT ![t] = fr[t]] /\ pc' = [pc EXCEPT ![t] = "user"]
    BY <1>4, <2>1, ThreadFacts DEF CleanupPush, CleanupPop
  <2> QED BY <2>1, <2>2, <2>3, ThreadFacts, PlainInv DEF PlainLabels
<1>5. CASE TestCancelCall(t) \/ ExitCall(t) \/ JoinFatal(t)
  <2>1. cpu = "user" /\ ResourceTypes' /\ UNCHANGED <<cpuVars, queueVars>>
    BY <1>5, ThreadFacts DEF TestCancelCall, ExitCall, JoinFatal, Calls, Runs
  <2>2. fr' = [fr EXCEPT ![t] = fr[t]] /\ \E l \in PlainLabels : pc' = [pc EXCEPT ![t] = l]
    BY <1>5, ThreadFacts DEF TestCancelCall, ExitCall, JoinFatal, Goto, PlainLabels
  <2> QED BY <2>1, <2>2, ThreadFacts, PlainInv
<1>6. ASSUME NEW enable \in BOOLEAN, SetCancelStateCall(t, enable) PROVE KernelInv'
  <2>1. cpu = "user" /\ UNCHANGED <<cpuVars, queueVars>>
    BY <1>6 DEF SetCancelStateCall, Calls, Runs
  <2>2. ResourceTypes'
    BY <1>6, ThreadFacts DEF SetCancelStateCall, ResourceTypes, prioVars, mutexVars, pollVars, irqVars
  <2>3. fr' = [fr EXCEPT ![t] = fr[t]] /\ \E l \in PlainLabels : pc' = [pc EXCEPT ![t] = l]
    BY <1>6, ThreadFacts DEF SetCancelStateCall, Goto, PlainLabels
  <2> QED BY <2>1, <2>2, <2>3, ThreadFacts, PlainInv
<1>7. CASE ExitBegin(t)
  <2> DEFINE f == [NoFrame EXCEPT !.idx = clp[t]]
  <2>1. cpu = "user" /\ UNCHANGED <<cpuVars, queueVars>>
    BY <1>7 DEF ExitBegin, Runs
  <2>2. ResourceTypes'
    BY <1>7, ThreadFacts DEF ExitBegin, ResourceTypes, prioVars, mutexVars, pollVars, irqVars
  <2>3. clp[t] \in Nat
    BY ThreadFacts DEF ResourceTypes
  <2>4. f \in Frame
    BY <2>3, NoFrameType DEF Frame
  <2>5. fr' = [fr EXCEPT ![t] = f] /\ pc' = [pc EXCEPT ![t] = "handlers"]
    BY <1>7 DEF ExitBegin, Goto
  <2> QED BY <2>1, <2>2, <2>4, <2>5, PlainInv DEF PlainLabels
<1>8. CASE ExitHandler(t)
  <2> USE <1>8
  <2>1. cpu = "user" /\ ResourceTypes' /\ UNCHANGED <<cpuVars, queueVars>>
    BY ThreadFacts DEF ExitHandler, Runs
  <2>2. CASE Goto(t, "handlers") /\ fr' = [fr EXCEPT ![t].idx = @ - 1]
    <3>1. fr[t].idx - 1 \in Nat
      BY ThreadFacts DEF ExitHandler, Frame
    <3>2. [fr[t] EXCEPT !.idx = fr[t].idx - 1] \in Frame
      BY <3>1, ThreadFacts DEF Frame
    <3>3. /\ fr' = [fr EXCEPT ![t] = [fr[t] EXCEPT !.idx = fr[t].idx - 1]]
          /\ pc' = [pc EXCEPT ![t] = "handlers"]
      BY <2>2 DEF Goto
    <3> QED BY <2>1, <3>2, <3>3, PlainInv DEF PlainLabels
  <2>3. CASE Goto(t, "exit") /\ UNCHANGED fr
    <3>1. fr' = [fr EXCEPT ![t] = fr[t]] /\ pc' = [pc EXCEPT ![t] = "exit"]
      BY <2>3, ThreadFacts DEF Goto
    <3> QED BY <2>1, <3>1, ThreadFacts, PlainInv DEF PlainLabels
  <2> QED BY <2>2, <2>3 DEF ExitHandler
<1>9. CASE ExitHandlersDone(t)
  <2>1. cpu = "user" /\ ResourceTypes' /\ UNCHANGED <<cpuVars, queueVars>>
    BY <1>9, ThreadFacts DEF ExitHandlersDone, Runs
  <2>2. mutex_list[t] \in Mutexes \cup {None}
    BY ThreadFacts DEF ResourceTypes
  <2>3. [fr[t] EXCEPT !.mtx = mutex_list[t]] \in Frame
    BY <2>2, ThreadFacts DEF Frame
  <2>4. /\ fr' = [fr EXCEPT ![t] = [fr[t] EXCEPT !.mtx = mutex_list[t]]]
        /\ pc' = [pc EXCEPT ![t] = "release"]
    BY <1>9 DEF ExitHandlersDone, Goto
  <2> QED BY <2>1, <2>3, <2>4, PlainInv DEF PlainLabels
<1> QED BY <1>1, <1>2, <1>3, <1>4, <1>5, <1>6, <1>7, <1>8, <1>9

\* A step to a cancellation's exit, which keeps the locals.
LEMMA ToExitInv ==
  ASSUME KernelInv, NEW t \in Threads, cpu = "user", UNCHANGED <<cpuVars, queueVars>>, ResourceTypes',
         Goto(t, "exit"), UNCHANGED fr
  PROVE  KernelInv'
<1>1. fr' = [fr EXCEPT ![t] = fr[t]] /\ pc' = [pc EXCEPT ![t] = "exit"]
  BY ThreadFacts DEF Goto
<1> QED BY <1>1, ThreadFacts, PlainInv DEF PlainLabels

\* The call of chopstx_join.
LEMMA JoinCallInv ==
  ASSUME KernelInv, NEW t \in Threads, NEW u \in Threads, JoinCall(t, u)
  PROVE  KernelInv'
<1>1. cpu = "user" /\ ResourceTypes' /\ UNCHANGED <<cpuVars, queueVars>>
  BY ThreadFacts DEF JoinCall, Calls, Runs
<1>2. CASE Canceled(t)
  BY <1>1, <1>2, ToExitInv DEF JoinCall
<1>3. CASE ~Canceled(t)
  <2> DEFINE f == [fr[t] EXCEPT !.tgt = u]
  <2>1. f \in Frame /\ f.tgt = u
    BY ThreadFacts DEF Frame
  <2>2. fr' = [fr EXCEPT ![t] = f] /\ pc' = [pc EXCEPT ![t] = "join"]
    BY <1>3 DEF JoinCall, Goto
  <2> HIDE DEF f
  <2>3. FrameOK(t, "join", f) /\ "join" \in Labels
    BY <2>1 DEF FrameOK, Labels, PollLabels
  <2> QED BY <1>1, <2>1, <2>2, <2>3, QuietInv
<1> QED BY <1>2, <1>3

-----------------------------------------------------------------------------
(* chopstx_poll: the steps that only move the thread on.                     *)

\* A step inside chopstx_poll.
LEMMA PollMoveInv ==
  ASSUME KernelInv, NEW t \in Threads, cpu = "user", UNCHANGED <<cpuVars, queueVars>>, ResourceTypes',
         NEW l \in PollLabels, NEW f \in Frame, FrameOK(t, l, f),
         pc' = [pc EXCEPT ![t] = l], fr' = [fr EXCEPT ![t] = f]
  PROVE  KernelInv'
<1>1. l \in Labels /\ l # "join_woken"
  BY DEF PollLabels, Labels
<1> QED BY <1>1, QuietInv

\* The call of chopstx_poll: the proxies get the caller's priority.
LEMMA PollCallInv ==
  ASSUME KernelInv, NEW t \in Threads, NEW timed \in BOOLEAN, NEW n \in 0..MaxSleep,
         PollCall(t, timed, n)
  PROVE  KernelInv'
<1>1. cpu = "user" /\ UNCHANGED <<cpuVars, queueVars>>
  BY DEF PollCall, Calls, Runs
<1>2. CASE Canceled(t)
  <2>1. ResourceTypes'
    BY <1>2, ThreadFacts DEF PollCall, ResourceTypes, flagVars, mutexVars, irqVars
  <2> QED BY <1>1, <1>2, <2>1, ToExitInv DEF PollCall
<1>3. CASE ~Canceled(t)
  <2> DEFINE f == [fr[t] EXCEPT !.idx = 1, !.timed = timed, !.left = n]
  <2>1. n \in Nat
    BY ConstantsAssumption
  <2>2. f \in Frame /\ f.idx = 1 /\ f.timed = timed
    BY <2>1, ThreadFacts DEF Frame
  <2>3. fr' = [fr EXCEPT ![t] = f] /\ pc' = [pc EXCEPT ![t] = "hook"]
    BY <1>3 DEF PollCall, Goto
  <2>4. t \in RR => timed
    BY DEF PollCall
  <2> HIDE DEF f
  <2>5. FrameOK(t, "hook", f) /\ "hook" \in PollLabels
    BY <2>2, <2>4 DEF FrameOK, PollLabels
  <2>6. prio' \in [Nodes -> Prios] /\ counter' \in [Threads -> Nat]
    <3>1. prio[t] \in Prios /\ prio \in [Nodes -> Prios] /\ counter \in [Threads -> Nat]
      BY ThreadFacts DEF ResourceTypes, Nodes
    <3> QED BY <1>3, <3>1 DEF PollCall
  <2>7. ResourceTypes'
    BY <2>6, ThreadFacts DEF PollCall, ResourceTypes, flagVars, mutexVars, irqVars
  <2> QED BY <1>1, <2>2, <2>3, <2>5, <2>7, PollMoveInv
<1> QED BY <1>2, <1>3

\* The descriptor the index points to, and what it waits for.
LEMMA PdFacts ==
  ASSUME NEW t \in Threads, fr[t].idx \in DOMAIN PollArray[t]
  PROVE  /\ Pd(t) \in Pds /\ PdMutex[Pd(t)] \in Mutexes \cup {None}
         /\ PdKind[Pd(t)] = "cond" => PdObj[Pd(t)] \in Conds
         /\ PdKind[Pd(t)] = "intr" => PdObj[Pd(t)] \in Irqs
         /\ PdKind[Pd(t)] = "join" => PdObj[Pd(t)] \in Threads
BY ConstantsAssumption DEF Pd

\* A hook starts inside the array, and may lock the mutex of its descriptor.
LEMMA HookBeginInv ==
  ASSUME KernelInv, NEW t \in Threads, HookBegin(t)
  PROVE  KernelInv'
<1>1. cpu = "user" /\ ResourceTypes' /\ UNCHANGED <<cpuVars, queueVars>>
  BY ThreadFacts DEF HookBegin, Runs
<1>2. fr[t].idx \in Nat /\ fr[t].idx >= 1 /\ (t \in RR => fr[t].timed) /\ MorePds(t)
  <2>1. FrameOK(t, "hook", fr[t])
    BY RunsFacts DEF HookBegin
  <2> QED BY <2>1, ThreadFacts DEF HookBegin, FrameOK, PollLabels, Frame
<1>3. fr[t].idx \in DOMAIN PollArray[t]
  <2>1. PollArray[t] \in Seq(Pds)
    BY ConstantsAssumption
  <2> QED BY <1>2, <2>1 DEF MorePds
<1>4. CASE Canceled(t)
  BY <1>1, <1>4, ToExitInv DEF HookBegin
<1>5. CASE ~Canceled(t) /\ PdKind[Pd(t)] = "cond" /\ PdMutex[Pd(t)] # None
  <2> DEFINE f == [fr[t] EXCEPT !.mtx = PdMutex[Pd(t)], !.then = "hook_check"]
  <2>1. PdMutex[Pd(t)] \in Mutexes
    BY <1>3, <1>5, PdFacts
  <2>2. "hook_check" \in Labels /\ "mtx_lock" \in Labels
    BY DEF Labels
  <2>3. f \in Frame /\ f.mtx = PdMutex[Pd(t)] /\ f.then = "hook_check" /\ f.idx = fr[t].idx
        /\ f.timed = fr[t].timed
    BY <2>1, <2>2, ThreadFacts DEF Frame
  <2>4. fr' = [fr EXCEPT ![t] = f] /\ pc' = [pc EXCEPT ![t] = "mtx_lock"]
    BY <1>5 DEF HookBegin, Goto
  <2> HIDE DEF f
  <2>5. FrameOK(t, "mtx_lock", f)
    BY <1>2, <1>3, <2>1, <2>3 DEF FrameOK, PollLabels
  <2> QED BY <1>1, <2>2, <2>3, <2>4, <2>5, QuietInv
<1>6. CASE ~Canceled(t) /\ ~(PdKind[Pd(t)] = "cond" /\ PdMutex[Pd(t)] # None)
  <2>1. PICK l \in {"hook_check", "hook_reg"} : Goto(t, l) /\ UNCHANGED fr
    BY <1>6 DEF HookBegin
  <2>2. fr' = [fr EXCEPT ![t] = fr[t]] /\ pc' = [pc EXCEPT ![t] = l]
    BY <2>1, ThreadFacts DEF Goto
  <2>3. FrameOK(t, l, fr[t]) /\ l \in PollLabels
    BY <1>2, <1>3 DEF FrameOK, PollLabels
  <2> QED BY <1>1, <2>2, <2>3, ThreadFacts, PollMoveInv
<1> QED BY <1>4, <1>5, <1>6

\* The check of chx_cond_hook reads the counter, which is a natural number.
LEMMA HookCheckInv ==
  ASSUME KernelInv, NEW t \in Threads, NEW met \in BOOLEAN, HookCheck(t, met)
  PROVE  KernelInv'
<1>1. cpu = "user" /\ UNCHANGED <<cpuVars, queueVars>>
  BY DEF HookCheck, Runs
<1>2. fr[t].idx \in DOMAIN PollArray[t] /\ fr[t].idx >= 1 /\ (t \in RR => fr[t].timed)
  BY RunsFacts DEF HookCheck, FrameOK, PollLabels
<1>3. Pd(t) \in Pds
  BY <1>2, PdFacts
<1>4. ResourceTypes'
  BY <1>3, ThreadFacts DEF HookCheck, ResourceTypes, prioVars, flagVars, mutexVars, irqVars
<1>5. CASE met
  <2> DEFINE f == [fr[t] EXCEPT !.r = counter[t]]
  <2>1. counter[t] \in Nat /\ counter[t] \in Int
    BY ThreadFacts DEF ResourceTypes
  <2>2. f \in Frame /\ f.r = counter[t] /\ f.idx = fr[t].idx /\ f.timed = fr[t].timed
    BY <2>1, ThreadFacts DEF Frame
  <2>3. fr' = [fr EXCEPT ![t] = f] /\ pc' = [pc EXCEPT ![t] = "hook_count"]
    BY <1>5 DEF HookCheck, Goto
  <2> HIDE DEF f
  <2>4. FrameOK(t, "hook_count", f) /\ "hook_count" \in PollLabels
    BY <1>2, <2>1, <2>2 DEF FrameOK, PollLabels
  <2> QED BY <1>1, <1>4, <2>2, <2>3, <2>4, PollMoveInv
<1>6. CASE ~met
  <2>1. fr' = [fr EXCEPT ![t] = fr[t]] /\ pc' = [pc EXCEPT ![t] = "hook_reg"]
    BY <1>6, ThreadFacts DEF HookCheck, Goto
  <2>2. FrameOK(t, "hook_reg", fr[t]) /\ "hook_reg" \in PollLabels
    BY <1>2 DEF FrameOK, PollLabels
  <2> QED BY <1>1, <1>4, <2>1, <2>2, ThreadFacts, PollMoveInv
<1> QED BY <1>5, <1>6

\* chx_cond_hook writes the counter back, incremented.
LEMMA HookCountInv ==
  ASSUME KernelInv, NEW t \in Threads, HookCount(t)
  PROVE  KernelInv'
<1>1. cpu = "user" /\ UNCHANGED <<cpuVars, queueVars>>
  BY DEF HookCount, Runs
<1>2. /\ fr[t].idx \in DOMAIN PollArray[t] /\ fr[t].idx >= 1 /\ (t \in RR => fr[t].timed)
      /\ fr[t].r >= 0
  BY RunsFacts DEF HookCount, FrameOK, PollLabels
<1>3. Pd(t) \in Pds
  BY <1>2, PdFacts
<1>4. fr[t].r + 1 \in Nat
  BY <1>2, ThreadFacts DEF Frame
<1>5. ResourceTypes'
  BY <1>3, <1>4, ThreadFacts DEF HookCount, ResourceTypes, prioVars, flagVars, mutexVars, irqVars
<1> DEFINE f == [fr[t] EXCEPT !.r = 0]
<1>6. f \in Frame /\ f.idx = fr[t].idx /\ f.timed = fr[t].timed
  BY ThreadFacts DEF Frame
<1>7. fr' = [fr EXCEPT ![t] = f] /\ pc' = [pc EXCEPT ![t] = "hook_unlock"]
  BY DEF HookCount, Goto
<1> HIDE DEF f
<1>8. FrameOK(t, "hook_unlock", f) /\ "hook_unlock" \in PollLabels
  BY <1>2, <1>6 DEF FrameOK, PollLabels
<1> QED BY <1>1, <1>5, <1>6, <1>7, <1>8, PollMoveInv

\* A step to a label of chopstx_poll that needs no more of the locals than they are.
LEMMA PollQuietInv ==
  ASSUME KernelInv, NEW t \in Threads,
         HookFatal(t) \/ HooksDone(t) \/ PollWoken(t) \/ PollLoop(t) \/ PollSnoozed(t) \/ PollReturn(t)
  PROVE  KernelInv'
<1> USE DEF Goto
<1>1. CASE HookFatal(t)
  <2>1. cpu = "user" /\ ResourceTypes' /\ UNCHANGED <<cpuVars, queueVars>>
    BY <1>1, ThreadFacts DEF HookFatal, Runs
  <2>2. fr' = [fr EXCEPT ![t] = fr[t]] /\ pc' = [pc EXCEPT ![t] = "fatal"]
    BY <1>1, ThreadFacts DEF HookFatal
  <2> QED BY <2>1, <2>2, ThreadFacts, PlainInv DEF PlainLabels
<1>2. CASE HooksDone(t)
  <2> DEFINE f == [fr[t] EXCEPT !.idx = 1]
  <2>1. cpu = "user" /\ ResourceTypes' /\ UNCHANGED <<cpuVars, queueVars>>
    BY <1>2, ThreadFacts DEF HooksDone, Runs
  <2>2. t \in RR => fr[t].timed
    BY <1>2, RunsFacts DEF HooksDone, FrameOK, PollLabels
  <2>3. f \in Frame /\ f.idx = 1 /\ f.timed = fr[t].timed
    BY ThreadFacts DEF Frame
  <2>4. fr' = [fr EXCEPT ![t] = f] /\ pc' = [pc EXCEPT ![t] = "poll"]
    BY <1>2 DEF HooksDone
  <2> HIDE DEF f
  <2>5. FrameOK(t, "poll", f) /\ "poll" \in PollLabels
    BY <2>2, <2>3 DEF FrameOK, PollLabels
  <2> QED BY <2>1, <2>3, <2>4, <2>5, PollMoveInv
<1>3. CASE PollWoken(t)
  <2> DEFINE f == [fr[t] EXCEPT !.r = v[t]]
  <2>1. cpu = "user" /\ ResourceTypes' /\ UNCHANGED <<cpuVars, queueVars>>
    BY <1>3, ThreadFacts DEF PollWoken, Runs
  <2>2. (t \in RR => fr[t].timed) /\ fr[t].idx >= 1
    BY <1>3, RunsFacts DEF PollWoken, FrameOK, PollLabels
  <2>3. v[t] \in Int
    BY <1>3, RunsFacts DEF PollWoken
  <2>4. f \in Frame /\ f.idx = fr[t].idx /\ f.timed = fr[t].timed
    BY <2>3, ThreadFacts DEF Frame
  <2>5. fr' = [fr EXCEPT ![t] = f] /\ pc' = [pc EXCEPT ![t] = "poll_clean"]
    BY <1>3 DEF PollWoken
  <2> HIDE DEF f
  <2>6. FrameOK(t, "poll_clean", f) /\ "poll_clean" \in PollLabels
    BY <2>2, <2>4 DEF FrameOK, PollLabels
  <2> QED BY <2>1, <2>4, <2>5, <2>6, PollMoveInv
<1>4. CASE PollLoop(t)
  <2>1. cpu = "user" /\ ResourceTypes' /\ UNCHANGED <<cpuVars, queueVars>>
    BY <1>4, ThreadFacts DEF PollLoop, Runs
  <2>2. CASE Canceled(t)
    BY <1>4, <2>1, <2>2, ToExitInv DEF PollLoop
  <2>3. CASE ~Canceled(t)
    <3>1. (t \in RR => fr[t].timed) /\ fr[t].idx >= 1
      BY <1>4, RunsFacts DEF PollLoop, FrameOK, PollLabels
    <3>2. fr' = [fr EXCEPT ![t] = fr[t]] /\ pc' = [pc EXCEPT ![t] = "poll_snooze"]
      BY <1>4, <2>3, ThreadFacts DEF PollLoop
    <3>3. FrameOK(t, "poll_snooze", fr[t]) /\ "poll_snooze" \in PollLabels
      BY <3>1 DEF FrameOK, PollLabels
    <3> QED BY <2>1, <3>2, <3>3, ThreadFacts, PollMoveInv
  <2> QED BY <2>2, <2>3
<1>5. CASE PollSnoozed(t)
  <2>1. cpu = "user" /\ ResourceTypes' /\ UNCHANGED <<cpuVars, queueVars>>
    BY <1>5, ThreadFacts DEF PollSnoozed, Runs
  <2>2. /\ (t \in RR => fr[t].timed) /\ fr[t].idx >= 1
        /\ fr[t].r = 1 \/ (fr[t].r = 0 /\ fr[t].left > 0)
    BY <1>5, RunsFacts DEF PollSnoozed, FrameOK, PollLabels
  <2>3. CASE SnoozeResult(t) = 0
    <3> DEFINE f == [fr[t] EXCEPT !.left = fr[t].left - 1]
    <3>1. fr[t].left - 1 \in Nat
      BY <2>2, <2>3, ThreadFacts DEF SnoozeResult, Frame
    <3>2. f \in Frame /\ f.idx = fr[t].idx /\ f.timed = fr[t].timed
      BY <3>1, ThreadFacts DEF Frame
    <3>3. fr' = [fr EXCEPT ![t] = f] /\ pc' = [pc EXCEPT ![t] = "poll_timed"]
      BY <1>5, <2>3 DEF PollSnoozed
    <3> HIDE DEF f
    <3>4. FrameOK(t, "poll_timed", f) /\ "poll_timed" \in PollLabels
      BY <2>2, <3>2 DEF FrameOK, PollLabels
    <3> QED BY <2>1, <3>2, <3>3, <3>4, PollMoveInv
  <2>4. CASE SnoozeResult(t) # 0
    <3> DEFINE f == [fr[t] EXCEPT !.r = SnoozeResult(t)]
    <3>1. SnoozeResult(t) \in Int
      BY <1>5, RunsFacts DEF SnoozeResult, PollSnoozed
    <3>2. f \in Frame /\ f.idx = fr[t].idx /\ f.timed = fr[t].timed
      BY <3>1, ThreadFacts DEF Frame
    <3>3. fr' = [fr EXCEPT ![t] = f] /\ pc' = [pc EXCEPT ![t] = "poll_clean"]
      BY <1>5, <2>4 DEF PollSnoozed
    <3> HIDE DEF f
    <3>4. FrameOK(t, "poll_clean", f) /\ "poll_clean" \in PollLabels
      BY <2>2, <3>2 DEF FrameOK, PollLabels
    <3> QED BY <2>1, <3>2, <3>3, <3>4, PollMoveInv
  <2> QED BY <2>3, <2>4
<1>6. CASE PollReturn(t)
  <2>1. cpu = "user" /\ UNCHANGED <<cpuVars, queueVars>>
    BY <1>6, ThreadFacts DEF PollReturn, Runs
  <2>2. ResourceTypes'
    BY <1>6, ThreadFacts DEF PollReturn, ResourceTypes, prioVars, flagVars, mutexVars, irqVars
  <2>3. fr' = [fr EXCEPT ![t] = NoFrame] /\ \E l \in PlainLabels : pc' = [pc EXCEPT ![t] = l]
    BY <1>6 DEF PollReturn, PlainLabels
  <2> QED BY <2>1, <2>2, <2>3, NoFrameType, PlainInv
<1> QED BY <1>1, <1>2, <1>3, <1>4, <1>5, <1>6

\* The calls about interrupts, which no list takes part in.
LEMMA IrqCallInv ==
  ASSUME KernelInv, NEW t \in Threads, NEW p \in Pds, ClaimIrq(t, p) \/ IntrDone(t, p)
  PROVE  KernelInv'
<1>1. cpu = "user" /\ UNCHANGED <<cpuVars, queueVars>> /\ pc[t] = "user" /\ pc' = pc /\ fr' = fr
  BY DEF ClaimIrq, IntrDone, Calls, Runs
<1>2. ResourceTypes'
  BY ThreadFacts DEF ClaimIrq, IntrDone, Disabled, ResourceTypes, prioVars, flagVars, mutexVars
<1>3. fr' = [fr EXCEPT ![t] = fr[t]] /\ pc' = [pc EXCEPT ![t] = "user"]
  BY <1>1, ThreadFacts
<1> QED BY <1>1, <1>2, <1>3, ThreadFacts, PlainInv DEF PlainLabels

-----------------------------------------------------------------------------
(* chopstx_poll: the sections that link and unlink proxies.                  *)

\* chx_cond_hook links its proxy to a condition variable.
LEMMA HookCondInv ==
  ASSUME KernelInv, NEW t \in Threads, HookCond(t)
  PROVE  KernelInv'
<1>1. cpu = "user" /\ ResourceTypes' /\ UNCHANGED <<cpuVars, state, parent, v>>
  BY ThreadFacts DEF HookCond, Runs
<1>2. fr[t].idx \in DOMAIN PollArray[t] /\ fr[t].idx >= 1 /\ (t \in RR => fr[t].timed)
  BY RunsFacts DEF HookCond, FrameOK, PollLabels
<1>3. Pd(t) \in Pds /\ PdObj[Pd(t)] \in Conds
  BY <1>2, PdFacts DEF HookCond
<1>4. Linkage(q', state, parent, v)
  BY <1>3, KernelParts, ProxyEnqueue DEF HookCond
<1>5. fr' = [fr EXCEPT ![t] = fr[t]] /\ pc' = [pc EXCEPT ![t] = "hook_unlock"]
  BY ThreadFacts DEF HookCond, Goto
<1>6. FrameOK(t, "hook_unlock", fr[t]) /\ "hook_unlock" \in Labels
  BY <1>2 DEF FrameOK, PollLabels, Labels
<1> QED BY <1>1, <1>4, <1>5, <1>6, ThreadFacts, ProxyStepInv

\* The next descriptor of the array.
LEMMA NextPdFacts ==
  ASSUME KernelInv, NEW t \in Threads, fr[t].idx >= 1, t \in RR => fr[t].timed,
         NEW l \in {"hook", "poll_clean"}
  PROVE  /\ [fr[t] EXCEPT !.idx = @ + 1] \in Frame
         /\ FrameOK(t, l, [fr[t] EXCEPT !.idx = @ + 1])
<1> DEFINE f == [fr[t] EXCEPT !.idx = @ + 1]
<1>1. fr[t].idx \in Nat
  BY ThreadFacts DEF Frame
<1>2. f \in Frame /\ f.idx = fr[t].idx + 1 /\ f.timed = fr[t].timed
  BY <1>1, ThreadFacts DEF Frame
<1> HIDE DEF f
<1>3. FrameOK(t, l, f)
  BY <1>1, <1>2 DEF FrameOK, PollLabels
<1> QED BY <1>2, <1>3 DEF f

\* The other hooks link a proxy to the interrupt or join queue; the clean-up unlinks it.
LEMMA HookIntrInv ==
  ASSUME KernelInv, NEW t \in Threads, HookIntr(t) \/ HookJoin(t) \/ PollClean(t)
  PROVE  KernelInv'
<1> DEFINE f == [fr[t] EXCEPT !.idx = @ + 1]
<1>1. cpu = "user" /\ UNCHANGED <<cpuVars, state, parent, v>>
  BY DEF HookIntr, HookJoin, PollClean, Runs
<1>2. fr[t].idx >= 1 /\ (t \in RR => fr[t].timed) /\ fr[t].idx \in DOMAIN PollArray[t]
  <2>1. CASE HookIntr(t) \/ HookJoin(t)
    BY <2>1, RunsFacts DEF HookIntr, HookJoin, FrameOK, PollLabels
  <2>2. CASE PollClean(t)
    <3>1. fr[t].idx >= 1 /\ (t \in RR => fr[t].timed) /\ MorePds(t)
      BY <2>2, RunsFacts DEF PollClean, FrameOK, PollLabels
    <3>2. fr[t].idx \in Nat /\ PollArray[t] \in Seq(Pds)
      BY ThreadFacts, ConstantsAssumption DEF Frame
    <3> QED BY <3>1, <3>2 DEF MorePds
  <2> QED BY <2>1, <2>2
<1>3. /\ Pd(t) \in Pds
      /\ PdKind[Pd(t)] = "join" => PdObj[Pd(t)] \in Threads
      /\ PdKind[Pd(t)] = "intr" => PdObj[Pd(t)] \in Irqs
  BY <1>2, PdFacts
<1>4. Linkage(q', state, parent, v)
  <2>1. Linkage(q, state, parent, v)
    BY KernelParts
  <2>2. Linkage(PrioEnqueue(q, "intr", Pd(t), prio), state, parent, v)
    BY <1>3, <2>1, ProxyEnqueue
  <2>3. Linkage(PrioEnqueue(q, "join", Pd(t), prio), state, parent, v)
    BY <1>3, <2>1, ProxyEnqueue
  <2>4. Linkage(Dequeue(q, Pd(t)), state, parent, v)
    BY <1>3, <2>1, ProxyDequeue
  <2> QED BY <2>1, <2>2, <2>3, <2>4 DEF HookIntr, HookJoin, PollClean
<1>5. ResourceTypes'
  <2>1. ResourceTypes /\ counter \in [Threads -> Nat] /\ counter[t] + 1 \in Nat
    BY ThreadFacts DEF ResourceTypes
  <2>a. [counter EXCEPT ![t] = @ + 1] \in [Threads -> Nat]
    BY <2>1
  <2>2. CASE HookIntr(t)
    BY <1>3, <2>1, <2>2, <2>a DEF HookIntr, ResourceTypes, prioVars, flagVars, mutexVars
  <2>3. CASE HookJoin(t)
    BY <1>3, <2>1, <2>3, <2>a DEF HookJoin, ResourceTypes, prioVars, mutexVars, irqVars
  <2>4. CASE PollClean(t)
    BY <2>1, <2>4 DEF PollClean, Disabled, ResourceTypes, prioVars, flagVars, mutexVars, pollVars
  <2> QED BY <2>2, <2>3, <2>4
<1>6. PICK l \in {"hook", "poll_clean"} : pc' = [pc EXCEPT ![t] = l] /\ fr' = [fr EXCEPT ![t] = f]
  <2>1. CASE HookIntr(t) \/ HookJoin(t)
    BY <2>1 DEF HookIntr, HookJoin, Goto
  <2>2. CASE PollClean(t)
    BY <2>2, ThreadFacts DEF PollClean, Runs
  <2> QED BY <2>1, <2>2
<1>7. f \in Frame /\ FrameOK(t, l, f)
  BY <1>2, NextPdFacts
<1>8. l \in Labels /\ l # "join_woken"
  BY DEF Labels
<1> HIDE DEF f
<1> QED BY <1>1, <1>4, <1>5, <1>6, <1>7, <1>8, ProxyStepInv
=============================================================================
