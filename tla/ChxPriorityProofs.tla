------------------------- MODULE ChxPriorityProofs -------------------------
(***************************************************************************)
(* Priorities, for any threads, mutexes and priorities.  In this order:    *)
(*  - the lists kept by priority stay sorted, whatever raises or lowers a  *)
(*    priority: what the searches of ll_prio_enqueue and ll_prio_push find *)
(*    in a list, then each operation of the queues, then each section;     *)
(*  - a priority above a thread's own is claimed, by a waiter of a mutex   *)
(*    it holds or by a joiner, and the inheritance loop, wherever it is    *)
(*    interrupted, is at the end of the chain that it has raised;          *)
(*  - the running thread leads: no ready thread has a higher priority;     *)
(*  - all of the kernel's invariant, from this and the other modules.      *)
(***************************************************************************)
EXTENDS ChxPollProofs

\* List s is sorted by the priorities prios, from high to low.
InOrder(s, prios) == \A i, j \in DOMAIN s : i < j => prios[s[i]] >= prios[s[j]]

\* The lists that are searched by priority.
ByPrio == {"ready"} \cup Objects
AllInOrder(Q, prios) == Q \in [Queues -> Seq(Nodes)] /\ \A n \in ByPrio : InOrder(Q[n], prios)

-----------------------------------------------------------------------------
(* Sequences.                                                                *)

\* How far the leading numbers that are in G go, up to n.
LEMMA LeadingPlace ==
  ASSUME NEW n \in Nat, NEW G
  PROVE  LET k == 1 + Cardinality({i \in 1..n : \A j \in 1..i : j \in G})
         IN  /\ k \in 1..(n + 1)
             /\ \A j \in 1..(k - 1) : j \in G
             /\ k <= n => k \notin G
<1> DEFINE I == {i \in 1..n : \A j \in 1..i : j \in G}
           N == {i \in 1..(n + 1) : i = n + 1 \/ i \notin G}
<1>1. N \in SUBSET Nat /\ n + 1 \in N
  OBVIOUS
<1>2. PICK e \in N : \A m \in N : e <= m
  BY <1>1, LeastNat
<1>3. e \in 1..(n + 1) /\ (e = n + 1 \/ e \notin G)
  BY <1>2
<1>4. \A j \in 1..(e - 1) : j \in G
  BY <1>2, <1>3
<1>5. I = 1..(e - 1)
  BY <1>3, <1>4
<1>6. Cardinality(1..(e - 1)) = e - 1
  <2>1. 1 \in Int /\ e - 1 \in Int
    BY <1>3
  <2>2. Cardinality(1..(e - 1)) = IF 1 > e - 1 THEN 0 ELSE e - 1 - 1 + 1
    BY <2>1, FS_Interval
  <2> QED BY <1>3, <2>2
<1> HIDE DEF I
<1>7. Cardinality(I) = e - 1
  BY <1>5, <1>6
<1>8. 1 + Cardinality(I) = e
  BY <1>3, <1>7
<1>9. PICK k : k = 1 + Cardinality(I)
  OBVIOUS
<1>10. k \in 1..(n + 1) /\ (\A j \in 1..(k - 1) : j \in G) /\ (k <= n => k \notin G)
  BY <1>3, <1>4, <1>8, <1>9
<1> QED BY <1>9, <1>10 DEF I

LEMMA PriosAreNumbers == \A n \in Prios : n \in Int
BY DEF Prios

LEMMA PrioIsNumber ==
  ASSUME NEW prios \in [Nodes -> Prios]
  PROVE  \A x \in Nodes : prios[x] \in Int
<1>1. \A x \in Nodes : prios[x] \in Prios
  OBVIOUS
<1> QED BY <1>1, PriosAreNumbers

\* ll_prio_enqueue stops behind the nodes of priority pr or higher, in a sorted list.
LEMMA EnqueuePlace ==
  ASSUME NEW s \in Seq(Nodes), NEW prios \in [Nodes -> Prios], NEW pr \in Prios, InOrder(s, prios)
  PROVE  LET k == EnqueueAt(s, prios, pr)
         IN  /\ k \in 1..(Len(s) + 1)
             /\ \A j \in 1..(k - 1) : prios[s[j]] >= pr
             /\ \A j \in k..Len(s) : prios[s[j]] <= pr
<1> DEFINE G == {j \in DOMAIN s : prios[s[j]] >= pr}
           I == {i \in DOMAIN s : \A j \in 1..i : prios[s[j]] >= pr}
           J == {i \in 1..Len(s) : \A j \in 1..i : j \in G}
<1>1. Len(s) \in Nat /\ DOMAIN s = 1..Len(s) /\ pr \in Int /\ \A j \in 1..Len(s) : prios[s[j]] \in Int
  <2>1. \A j \in 1..Len(s) : s[j] \in Nodes
    OBVIOUS
  <2>2. \A x \in Nodes : prios[x] \in Int
    BY PrioIsNumber
  <2>3. pr \in Int
    BY DEF Prios
  <2> QED BY <2>1, <2>2, <2>3
<1>2. I = J
  BY <1>1
<1>3. PICK k : k = EnqueueAt(s, prios, pr)
  OBVIOUS
<1>4. k = 1 + Cardinality(J)
  BY <1>2, <1>3 DEF EnqueueAt
<1> HIDE DEF G
<1>5. /\ k \in 1..(Len(s) + 1)
      /\ \A j \in 1..(k - 1) : j \in G
      /\ k <= Len(s) => k \notin G
  <2>1. PICK n \in Nat : n = Len(s)
    BY <1>1
  <2>2. k = 1 + Cardinality({i \in 1..n : \A j \in 1..i : j \in G})
    BY <1>4, <2>1
  <2>3. k \in 1..(n + 1) /\ (\A j \in 1..(k - 1) : j \in G) /\ (k <= n => k \notin G)
    BY ONLY <2>2, LeadingPlace, n \in Nat
  <2> QED BY ONLY <2>1, <2>3
<1>6. \A j \in 1..(k - 1) : prios[s[j]] >= pr
  BY <1>5 DEF G
<1>7. \A j \in k..Len(s) : prios[s[j]] <= pr
  <2> SUFFICES ASSUME NEW j \in k..Len(s) PROVE prios[s[j]] <= pr
    OBVIOUS
  <2>1. k \in 1..Len(s) /\ j \in 1..Len(s)
    BY <1>1, <1>5
  <2>2. prios[s[k]] < pr
    <3>1. prios[s[k]] \in Int /\ pr \in Int
      BY <1>1, <2>1
    <3>2. ~(prios[s[k]] >= pr)
      BY <1>1, <1>5, <2>1 DEF G
    <3> QED BY <3>1, <3>2
  <2>3. k < j => prios[s[k]] >= prios[s[j]]
    BY <1>1, <2>1 DEF InOrder
  <2>4. prios[s[k]] \in Int /\ prios[s[j]] \in Int /\ pr \in Int
    BY <1>1, <2>1
  <2>5. CASE j = k
    BY <2>2, <2>4, <2>5
  <2>6. CASE j # k
    BY <2>1, <2>2, <2>3, <2>4, <2>6
  <2> QED BY <2>5, <2>6
<1> QED BY <1>3, <1>5, <1>6, <1>7

\* ll_prio_push stops behind the nodes of priority higher than pr.
LEMMA PushPlace ==
  ASSUME NEW s \in Seq(Nodes), NEW prios \in [Nodes -> Prios], NEW pr \in Prios, InOrder(s, prios)
  PROVE  LET k == PushAt(s, prios, pr)
         IN  /\ k \in 1..(Len(s) + 1)
             /\ \A j \in 1..(k - 1) : prios[s[j]] >= pr
             /\ \A j \in k..Len(s) : prios[s[j]] <= pr
<1> DEFINE G == {j \in DOMAIN s : prios[s[j]] > pr}
           I == {i \in DOMAIN s : \A j \in 1..i : prios[s[j]] > pr}
           J == {i \in 1..Len(s) : \A j \in 1..i : j \in G}
<1>1. Len(s) \in Nat /\ DOMAIN s = 1..Len(s) /\ pr \in Int /\ \A j \in 1..Len(s) : prios[s[j]] \in Int
  <2>1. \A j \in 1..Len(s) : s[j] \in Nodes
    OBVIOUS
  <2>2. \A x \in Nodes : prios[x] \in Int
    BY PrioIsNumber
  <2>3. pr \in Int
    BY DEF Prios
  <2> QED BY <2>1, <2>2, <2>3
<1>2. I = J
  BY <1>1
<1>3. PICK k : k = PushAt(s, prios, pr)
  OBVIOUS
<1>4. k = 1 + Cardinality(J)
  BY <1>2, <1>3 DEF PushAt
<1> HIDE DEF G
<1>5. /\ k \in 1..(Len(s) + 1)
      /\ \A j \in 1..(k - 1) : j \in G
      /\ k <= Len(s) => k \notin G
  <2>1. PICK n \in Nat : n = Len(s)
    BY <1>1
  <2>2. k = 1 + Cardinality({i \in 1..n : \A j \in 1..i : j \in G})
    BY <1>4, <2>1
  <2>3. k \in 1..(n + 1) /\ (\A j \in 1..(k - 1) : j \in G) /\ (k <= n => k \notin G)
    BY ONLY <2>2, LeadingPlace, n \in Nat
  <2> QED BY ONLY <2>1, <2>3
<1>6. \A j \in 1..(k - 1) : prios[s[j]] >= pr
  <2> SUFFICES ASSUME NEW j \in 1..(k - 1) PROVE prios[s[j]] >= pr
    OBVIOUS
  <2>1. j \in 1..Len(s) /\ prios[s[j]] > pr
    BY <1>1, <1>5 DEF G
  <2>2. prios[s[j]] \in Int /\ pr \in Int
    BY <1>1, <2>1
  <2> QED BY <2>1, <2>2
<1>7. \A j \in k..Len(s) : prios[s[j]] <= pr
  <2> SUFFICES ASSUME NEW j \in k..Len(s) PROVE prios[s[j]] <= pr
    OBVIOUS
  <2>1. k \in 1..Len(s) /\ j \in 1..Len(s)
    BY <1>1, <1>5
  <2>2. prios[s[k]] <= pr
    <3>1. prios[s[k]] \in Int /\ pr \in Int
      BY <1>1, <2>1
    <3>2. ~(prios[s[k]] > pr)
      BY <1>1, <1>5, <2>1 DEF G
    <3> QED BY <3>1, <3>2
  <2>3. k < j => prios[s[k]] >= prios[s[j]]
    BY <1>1, <2>1 DEF InOrder
  <2>4. prios[s[k]] \in Int /\ prios[s[j]] \in Int /\ pr \in Int
    BY <1>1, <2>1
  <2>5. CASE j = k
    BY <2>2, <2>4, <2>5
  <2>6. CASE j # k
    BY <2>1, <2>2, <2>3, <2>4, <2>6
  <2> QED BY <2>5, <2>6
<1> QED BY <1>3, <1>5, <1>6, <1>7

\* A node put at such a place leaves the list sorted.
LEMMA InsertInOrder ==
  ASSUME NEW s \in Seq(Nodes), NEW prios \in [Nodes -> Prios], NEW x \in Nodes, InOrder(s, prios),
         NEW k \in 1..(Len(s) + 1),
         \A j \in 1..(k - 1) : prios[s[j]] >= prios[x],
         \A j \in k..Len(s) : prios[s[j]] <= prios[x]
  PROVE  InOrder(InsertAt(s, k, x), prios)
<1>1. PICK r : r = InsertAt(s, k, x)
  OBVIOUS
<1>2. /\ r \in Seq(Nodes) /\ Len(r) = Len(s) + 1 /\ r[k] = x
      /\ \A j \in 1..(k-1) : r[j] = s[j]
      /\ \A j \in (k+1)..(Len(s) + 1) : r[j] = s[j-1]
  <2>1. /\ InsertAt(s, k, x) \in Seq(Nodes)
        /\ Len(InsertAt(s, k, x)) = Len(s) + 1
        /\ InsertAt(s, k, x)[k] = x
    BY InsertAtFacts
  <2>2. \A j \in 1..(k-1) : InsertAt(s, k, x)[j] = s[j]
    BY InsertAtFacts
  <2>3. \A j \in (k+1)..(Len(s) + 1) : InsertAt(s, k, x)[j] = s[j-1]
    BY InsertAtFacts
  <2> QED BY ONLY <1>1, <2>1, <2>2, <2>3
<1>3. Len(s) \in Nat /\ DOMAIN s = 1..Len(s) /\ DOMAIN r = 1..(Len(s) + 1)
  BY <1>2
<1>4. ASSUME NEW i \in DOMAIN r, NEW j \in DOMAIN r, i < j
      PROVE  prios[r[i]] >= prios[r[j]]
  <2>1. \A l \in 1..Len(s) : prios[s[l]] \in Int
    <3>1. \A l \in 1..Len(s) : s[l] \in Nodes
      OBVIOUS
    <3>2. \A y \in Nodes : prios[y] \in Int
      BY PrioIsNumber
    <3> QED BY <3>1, <3>2
  <2>2. prios[x] \in Int
    BY PrioIsNumber
  <2>3. CASE j < k
    <3>1. r[i] = s[i] /\ r[j] = s[j] /\ i \in DOMAIN s /\ j \in DOMAIN s
      BY <1>2, <1>3, <1>4, <2>3
    <3> QED BY <1>4, <3>1 DEF InOrder
  <2>4. CASE j = k
    BY <1>2, <1>3, <1>4, <2>1, <2>2, <2>4, SMTT(60), ZenonT(60) DEF InOrder
  <2>5. CASE j > k /\ i = k
    <3>1. j - 1 \in k..Len(s) /\ r[i] = x /\ r[j] = s[j-1]
      BY <1>2, <1>3, <1>4, <2>5
    <3>2. j - 1 \in 1..Len(s) /\ prios[s[j-1]] <= prios[x]
      BY <1>3, <3>1
    <3> QED BY <2>1, <2>2, <3>1, <3>2
  <2>6. CASE j > k /\ i < k
    <3>1. i \in 1..Len(s) /\ j - 1 \in 1..Len(s) /\ i < j - 1
      BY <1>3, <1>4, <2>6
    <3>2. r[i] = s[i] /\ r[j] = s[j-1]
      BY <1>2, <1>3, <1>4, <2>6
    <3> QED BY <1>3, <3>1, <3>2 DEF InOrder
  <2>7. CASE j > k /\ i > k
    <3>1. i - 1 \in 1..Len(s) /\ j - 1 \in 1..Len(s) /\ i - 1 < j - 1
      BY <1>3, <1>4, <2>7
    <3>2. r[i] = s[i-1] /\ r[j] = s[j-1]
      BY <1>2, <1>3, <1>4, <2>7
    <3> QED BY <1>3, <3>1, <3>2 DEF InOrder
  <2> QED BY <1>3, <1>4, <2>3, <2>4, <2>5, <2>6, <2>7
<1> QED BY <1>1, <1>4 DEF InOrder

\* So does a node that leaves.
LEMMA RemoveInOrder ==
  ASSUME NEW s \in Seq(Nodes), NEW prios, InOrder(s, prios), NEW k \in 1..Len(s)
  PROVE  InOrder(RemoveAt(s, k), prios)
<1>1. PICK r : r = RemoveAt(s, k)
  OBVIOUS
<1>2. /\ r \in Seq(Nodes) /\ Len(r) = Len(s) - 1
      /\ \A j \in 1..(k-1) : r[j] = s[j]
      /\ \A j \in k..(Len(s)-1) : r[j] = s[j+1]
  BY <1>1, RemoveAtFacts
<1>3. Len(s) \in Nat /\ DOMAIN s = 1..Len(s) /\ DOMAIN r = 1..(Len(s) - 1)
  BY <1>2
<1>4. ASSUME NEW i \in DOMAIN r, NEW j \in DOMAIN r, i < j
      PROVE  prios[r[i]] >= prios[r[j]]
  <2>1. PICK a1 \in 1..Len(s) : r[i] = s[a1] /\ a1 = IF i < k THEN i ELSE i + 1
    BY <1>2, <1>3, <1>4
  <2>2. PICK b1 \in 1..Len(s) : r[j] = s[b1] /\ b1 = IF j < k THEN j ELSE j + 1
    BY <1>2, <1>3, <1>4
  <2>3. a1 < b1
    BY <1>3, <1>4, <2>1, <2>2
  <2> QED BY <1>3, <2>1, <2>2, <2>3 DEF InOrder
<1> QED BY <1>1, <1>4 DEF InOrder

LEMMA TailInOrder ==
  ASSUME NEW s \in Seq(Nodes), NEW prios, InOrder(s, prios), s # << >>
  PROVE  InOrder(Tail(s), prios)
<1>1. /\ Tail(s) \in Seq(Nodes) /\ Len(Tail(s)) = Len(s) - 1
      /\ \A i \in 1..Len(Tail(s)) : Tail(s)[i] = s[i + 1]
  BY HeadTailProperties
<1>2. PICK r : r = Tail(s)
  OBVIOUS
<1>3. Len(s) \in Nat /\ DOMAIN s = 1..Len(s) /\ DOMAIN r = 1..(Len(s) - 1) /\ \A i \in DOMAIN r : r[i] = s[i+1]
  BY <1>1, <1>2
<1> QED BY <1>2, <1>3 DEF InOrder

-----------------------------------------------------------------------------
(* The operations of the queues.                                             *)

\* A list replaced by a sorted one.
LEMMA PutOrdered ==
  ASSUME NEW Q, NEW prios, AllInOrder(Q, prios), NEW n \in Queues, NEW r \in Seq(Nodes),
         n \in ByPrio => InOrder(r, prios)
  PROVE  AllInOrder([Q EXCEPT ![n] = r], prios)
<1> DEFINE Q1 == [Q EXCEPT ![n] = r]
<1>1. Q \in [Queues -> Seq(Nodes)] /\ ByPrio \subseteq Queues
  BY DEF AllInOrder, ByPrio, Queues, Objects
<1>2. Q1 \in [Queues -> Seq(Nodes)] /\ Q1[n] = r /\ \A k \in Queues : k # n => Q1[k] = Q[k]
  BY <1>1
<1> HIDE DEF Q1
<1>3. \A k \in ByPrio : InOrder(Q1[k], prios)
  BY <1>1, <1>2 DEF AllInOrder
<1>4. AllInOrder(Q1, prios)
  BY <1>2, <1>3 DEF AllInOrder
<1> QED BY <1>4 DEF Q1

LEMMA DequeueOrdered ==
  ASSUME NEW Q, NEW prios, AllInOrder(Q, prios), NEW x
  PROVE  AllInOrder(Dequeue(Q, x), prios)
<1>1. CASE \A n \in Queues : x \notin ToSet(Q[n])
  BY <1>1 DEF Dequeue
<1>2. CASE \E n \in Queues : x \in ToSet(Q[n])
  <2>1. PICK n \in Queues : n = CHOOSE k \in Queues : x \in ToSet(Q[k])
    BY <1>2
  <2>2. x \in ToSet(Q[n])
    BY <1>2, <2>1
  <2>3. PICK i : i = CHOOSE k \in DOMAIN Q[n] : Q[n][k] = x
    OBVIOUS
  <2>4. i \in DOMAIN Q[n]
    BY <2>2, <2>3 DEF ToSet
  <2>5. Q[n] \in Seq(Nodes)
    BY DEF AllInOrder
  <2>6. i \in 1..Len(Q[n])
    BY <2>4, <2>5, LenProperties
  <2>7. Dequeue(Q, x) = [Q EXCEPT ![n] = RemoveAt(Q[n], i)]
    BY <1>2, <2>1, <2>3 DEF Dequeue, Without
  <2>8. RemoveAt(Q[n], i) \in Seq(Nodes)
    BY <2>5, <2>6, RemoveAtFacts
  <2>9. n \in ByPrio => InOrder(RemoveAt(Q[n], i), prios)
    BY <2>5, <2>6, RemoveInOrder DEF AllInOrder
  <2>10. AllInOrder([Q EXCEPT ![n] = RemoveAt(Q[n], i)], prios)
    <3>1. PICK r : r = RemoveAt(Q[n], i)
      OBVIOUS
    <3>2. AllInOrder([Q EXCEPT ![n] = r], prios)
      BY <2>8, <2>9, <3>1, PutOrdered
    <3> QED BY <3>1, <3>2
  <2> QED BY <2>7, <2>10
<1> QED BY <1>1, <1>2

LEMMA StopSliceOrdered ==
  ASSUME NEW Q, NEW prios, AllInOrder(Q, prios), NEW x
  PROVE  AllInOrder(StopSlice(Q, x), prios)
BY DequeueOrdered DEF StopSlice

LEMMA PopOrdered ==
  ASSUME NEW Q, NEW prios, AllInOrder(Q, prios), NEW n \in Queues, Q[n] # << >>
  PROVE  AllInOrder([Q EXCEPT ![n] = Tail(@)], prios)
<1>1. Q[n] \in Seq(Nodes)
  BY DEF AllInOrder
<1>2. Tail(Q[n]) \in Seq(Nodes)
  BY <1>1, HeadTailProperties
<1>3. n \in ByPrio => InOrder(Tail(Q[n]), prios)
  BY <1>1, TailInOrder DEF AllInOrder
<1> QED BY <1>2, <1>3, PutOrdered

LEMMA EnqueueOrdered ==
  ASSUME NEW Q, NEW prios \in [Nodes -> Prios], AllInOrder(Q, prios), NEW n \in Queues, NEW x \in Nodes
  PROVE  AllInOrder(PrioEnqueue(Q, n, x, prios), prios)
<1>1. Q[n] \in Seq(Nodes) /\ prios[x] \in Prios
  BY DEF AllInOrder
<1>2. PICK k : k = EnqueueAt(Q[n], prios, prios[x])
  OBVIOUS
<1>3. k \in 1..(Len(Q[n]) + 1)
  BY <1>1, <1>2, PlaceRange
<1>4. InsertAt(Q[n], k, x) \in Seq(Nodes)
  BY <1>1, <1>3, InsertAtFacts
<1>5. ASSUME n \in ByPrio PROVE InOrder(InsertAt(Q[n], k, x), prios)
  <2>1. InOrder(Q[n], prios)
    BY <1>5 DEF AllInOrder
  <2>2. /\ \A j \in 1..(k - 1) : prios[Q[n][j]] >= prios[x]
        /\ \A j \in k..Len(Q[n]) : prios[Q[n][j]] <= prios[x]
    BY <1>1, <1>2, <2>1, EnqueuePlace
  <2> QED BY <1>1, <1>3, <2>1, <2>2, InsertInOrder
<1>6. PrioEnqueue(Q, n, x, prios) = [Q EXCEPT ![n] = InsertAt(Q[n], k, x)]
  BY <1>2 DEF PrioEnqueue
<1>7. AllInOrder([Q EXCEPT ![n] = InsertAt(Q[n], k, x)], prios)
  <2>1. PICK r : r = InsertAt(Q[n], k, x)
    OBVIOUS
  <2>2. AllInOrder([Q EXCEPT ![n] = r], prios)
    BY <1>4, <1>5, <2>1, PutOrdered
  <2> QED BY <2>1, <2>2
<1> QED BY <1>6, <1>7

LEMMA PushOrdered ==
  ASSUME NEW Q, NEW prios \in [Nodes -> Prios], AllInOrder(Q, prios), NEW n \in Queues, NEW x \in Nodes
  PROVE  AllInOrder(PrioPush(Q, n, x, prios), prios)
<1>1. Q[n] \in Seq(Nodes) /\ prios[x] \in Prios
  BY DEF AllInOrder
<1>2. PICK k : k = PushAt(Q[n], prios, prios[x])
  OBVIOUS
<1>3. k \in 1..(Len(Q[n]) + 1)
  BY <1>1, <1>2, PlaceRange
<1>4. InsertAt(Q[n], k, x) \in Seq(Nodes)
  BY <1>1, <1>3, InsertAtFacts
<1>5. ASSUME n \in ByPrio PROVE InOrder(InsertAt(Q[n], k, x), prios)
  <2>1. InOrder(Q[n], prios)
    BY <1>5 DEF AllInOrder
  <2>2. /\ \A j \in 1..(k - 1) : prios[Q[n][j]] >= prios[x]
        /\ \A j \in k..Len(Q[n]) : prios[Q[n][j]] <= prios[x]
    BY <1>1, <1>2, <2>1, PushPlace
  <2> QED BY <1>1, <1>3, <2>1, <2>2, InsertInOrder
<1>6. PrioPush(Q, n, x, prios) = [Q EXCEPT ![n] = InsertAt(Q[n], k, x)]
  BY <1>2 DEF PrioPush
<1>7. AllInOrder([Q EXCEPT ![n] = InsertAt(Q[n], k, x)], prios)
  <2>1. PICK r : r = InsertAt(Q[n], k, x)
    OBVIOUS
  <2>2. AllInOrder([Q EXCEPT ![n] = r], prios)
    BY <1>4, <1>5, <2>1, PutOrdered
  <2> QED BY <2>1, <2>2
<1> QED BY <1>6, <1>7

LEMMA TimerOrdered ==
  ASSUME NEW Q, NEW prios, AllInOrder(Q, prios), NEW x \in Nodes, NEW i \in TimerPlaces(Q)
  PROVE  AllInOrder(TimerInsert(Q, x, i), prios)
<1>1. "timer" \in Queues /\ Q["timer"] \in Seq(Nodes) /\ "timer" \notin ByPrio
  BY AddressAssumption DEF AllInOrder, Queues, ByPrio
<1>2. InsertAt(Q["timer"], i, x) \in Seq(Nodes)
  BY <1>1, InsertAtFacts DEF TimerPlaces
<1>3. AllInOrder([Q EXCEPT !["timer"] = InsertAt(Q["timer"], i, x)], prios)
  BY <1>1, <1>2, PutOrdered
<1> QED BY <1>3 DEF TimerInsert

\* Priorities that change while their nodes are in none of the sorted lists.
LEMMA PriosOrdered ==
  ASSUME NEW Q, NEW prios, NEW prios1, AllInOrder(Q, prios),
         \A n \in ByPrio : \A x \in ToSet(Q[n]) : prios1[x] = prios[x]
  PROVE  AllInOrder(Q, prios1)
<1>1. ASSUME NEW n \in ByPrio PROVE InOrder(Q[n], prios1)
  <2>1. InOrder(Q[n], prios)
    BY DEF AllInOrder
  <2>2. \A i \in DOMAIN Q[n] : prios1[Q[n][i]] = prios[Q[n][i]]
    BY DEF ToSet
  <2> QED BY <2>1, <2>2 DEF InOrder
<1> QED BY <1>1 DEF AllInOrder

\* The dispatcher pops the ready list.
LEMMA DispatchOrdered ==
  ASSUME NEW Q, NEW prios, AllInOrder(Q, prios), NEW st, NEW pa, NEW vv, Dispatch(Q, st, pa, vv)
  PROVE  AllInOrder(q', prios)
<1>1. "ready" \in Queues
  BY DEF Queues
<1>2. CASE Q["ready"] = << >>
  BY <1>2 DEF Dispatch
<1>3. CASE Q["ready"] # << >>
  <2>1. AllInOrder([Q EXCEPT !["ready"] = Tail(@)], prios)
    BY <1>1, <1>3, PopOrdered
  <2>2. Head(Q["ready"]) \in Nodes
    BY <1>1, <1>3, HeadTailProperties DEF AllInOrder
  <2> QED BY <1>3, <2>1, <2>2, TimerOrdered, SMTT(60), ZenonT(60) DEF Dispatch
<1> QED BY <1>2, <1>3

-----------------------------------------------------------------------------
(* The sections.                                                             *)

Ordered == AllInOrder(q, prio)

LEMMA OrderedNext ==
  ASSUME AllInOrder(q', prio), UNCHANGED prio
  PROVE  Ordered'
BY DEF Ordered

LEMMA PrioType ==
  ASSUME KernelInv
  PROVE  prio \in [Nodes -> Prios] /\ prio_orig \in [Threads -> Prios]
BY KernelParts DEF ResourceTypes

\* A thread that is linked by its state in none of the sorted lists.
LEMMA OffLists ==
  ASSUME NEW Q, NEW st, NEW pa, NEW vv, Linkage(Q, st, pa, vv), NEW x \in Threads,
         st[x] \notin {"READY", "WAIT_MTX", "WAIT_CND"}
  PROVE  \A n \in ByPrio : x \notin ToSet(Q[n])
<1>1. Where(Q, x) \subseteq {"timer", "join"}
  BY DEF Linkage, Places, States
<1>2. ByPrio \subseteq Queues /\ ByPrio \cap {"timer", "join"} = {}
  BY AddressAssumption DEF ByPrio, Queues, Objects
<1> QED BY <1>1, <1>2 DEF Where

\* Priorities that differ for x alone, which is in none of the sorted lists.
LEMMA OneOrdered ==
  ASSUME NEW Q, NEW prios \in [Nodes -> Prios], AllInOrder(Q, prios), NEW x, NEW p,
         \A n \in ByPrio : x \notin ToSet(Q[n])
  PROVE  AllInOrder(Q, [prios EXCEPT ![x] = p])
<1> DEFINE prios1 == [prios EXCEPT ![x] = p]
<1>1. \A n \in ByPrio : \A y \in ToSet(Q[n]) : y \in Nodes
  BY DEF AllInOrder, ByPrio, Queues, Objects, ToSet
<1>2. \A n \in ByPrio : \A y \in ToSet(Q[n]) : prios1[y] = prios[y]
  BY <1>1
<1> HIDE DEF prios1
<1>3. AllInOrder(Q, prios1)
  BY <1>2, PriosOrdered
<1> QED BY <1>3 DEF prios1

LEMMA MakeReadyOrdered ==
  ASSUME KernelInv, NEW Q, AllInOrder(Q, prio), NEW t \in Threads, MakeReady(Q, t)
  PROVE  AllInOrder(q', prio)
BY PrioType, EnqueueOrdered DEF MakeReady, Queues, Nodes

LEMMA WakeupOrdered ==
  ASSUME KernelInv, NEW Q, AllInOrder(Q, prio), NEW x \in Nodes, Wakeup(x, Q)
  PROVE  AllInOrder(q', prio)
<1> DEFINE t == ThreadOf(x)
           Q1 == IF x \in Pds /\ Timed(t) THEN Dequeue(Q, t) ELSE Q
<1>1. t \in Threads
  BY MasterHas DEF ThreadOf, Nodes
<1>2. AllInOrder(Q1, prio)
  BY DequeueOrdered
<1>3. q' = Q \/ MakeReady(Q1, t)
  BY DEF Wakeup
<1> HIDE DEF t, Q1
<1> QED BY <1>1, <1>2, <1>3, MakeReadyOrdered

\* The calls and steps that move no node and change no priority.
LEMMA QuietOrdered ==
  ASSUME Ordered, NEW t,
         \/ \E m \in Mutexes : LockCall(t, m)
         \/ \E cv \in Conds, m \in Mutexes \cup {None} : WaitCall(t, cv, m)
         \/ \E cv \in Conds : BroadcastCall(t, cv)
         \/ \E n \in 0..MaxSleep : SleepCall(t, n)
         \/ CleanupPush(t) \/ CleanupPop(t) \/ ExitCall(t) \/ TestCancelCall(t)
         \/ \E enable \in BOOLEAN : SetCancelStateCall(t, enable)
         \/ \E u \in Threads : JoinCall(t, u)
         \/ \E p \in Pds : ClaimIrq(t, p) \/ IntrDone(t, p)
         \/ LockAcquire(t) \/ LockHeld(t)
         \/ WaitWoken(t) \/ WaitReturn(t) \/ BroadcastReturn(t) \/ SleepLoop(t) \/ SleepWoken(t)
         \/ ExitBegin(t) \/ ExitHandler(t) \/ ExitHandlersDone(t)
         \/ JoinFatal(t) \/ JoinExited(t) \/ JoinSleep(t) \/ JoinReturn(t)
         \/ HookBegin(t) \/ (\E met \in BOOLEAN : HookCheck(t, met)) \/ HookCount(t) \/ HookFatal(t) \/ HooksDone(t)
         \/ PollWoken(t) \/ PollLoop(t) \/ PollSnoozed(t) \/ PollReturn(t)
  PROVE  Ordered'
<1>1. CASE \/ \E m \in Mutexes : LockCall(t, m)
           \/ \E cv \in Conds, m \in Mutexes \cup {None} : WaitCall(t, cv, m)
           \/ \E cv \in Conds : BroadcastCall(t, cv)
           \/ \E n \in 0..MaxSleep : SleepCall(t, n)
           \/ CleanupPush(t) \/ CleanupPop(t) \/ ExitCall(t) \/ TestCancelCall(t)
           \/ \E enable \in BOOLEAN : SetCancelStateCall(t, enable)
           \/ \E u \in Threads : JoinCall(t, u)
           \/ \E p \in Pds : ClaimIrq(t, p) \/ IntrDone(t, p)
  <2>1. UNCHANGED <<q, prio>>
    BY <1>1 DEF LockCall, WaitCall, BroadcastCall, SleepCall, CleanupPush, CleanupPop, ExitCall, TestCancelCall,
       SetCancelStateCall, JoinCall, ClaimIrq, IntrDone, queueVars, prioVars
  <2> QED BY <2>1 DEF Ordered
<1>2. CASE \/ LockAcquire(t) \/ LockHeld(t)
           \/ WaitWoken(t) \/ WaitReturn(t) \/ BroadcastReturn(t) \/ SleepLoop(t) \/ SleepWoken(t)
           \/ ExitBegin(t) \/ ExitHandler(t) \/ ExitHandlersDone(t)
           \/ JoinFatal(t) \/ JoinExited(t) \/ JoinSleep(t) \/ JoinReturn(t)
  <2>1. UNCHANGED <<q, prio>>
    BY <1>2 DEF LockAcquire, LockHeld, WaitWoken, WaitReturn, BroadcastReturn, SleepLoop, SleepWoken, ExitBegin,
       ExitHandler, ExitHandlersDone, JoinFatal, JoinExited, JoinSleep, JoinReturn, queueVars, prioVars
  <2> QED BY <2>1 DEF Ordered
<1>3. CASE \/ HookBegin(t) \/ (\E met \in BOOLEAN : HookCheck(t, met)) \/ HookCount(t) \/ HookFatal(t)
           \/ HooksDone(t) \/ PollWoken(t) \/ PollLoop(t) \/ PollSnoozed(t) \/ PollReturn(t)
  <2>1. UNCHANGED <<q, prio>>
    BY <1>3 DEF HookBegin, HookCheck, HookCount, HookFatal, HooksDone, PollWoken, PollLoop, PollSnoozed, PollReturn,
       queueVars, prioVars
  <2> QED BY <2>1 DEF Ordered
<1> QED BY <1>1, <1>2, <1>3

\* The sections that put the running thread or a proxy into a queue, or take one out.
LEMMA BlockOrdered ==
  ASSUME KernelInv, Ordered, NEW t \in Threads,
         \/ LockBlock(t) \/ WaitBlock(t) \/ JoinBlock(t) \/ ExitEnd(t) \/ PollBlock(t) \/ PollClean(t)
  PROVE  Ordered'
<1>1. UNCHANGED prio /\ t \in Nodes /\ AllInOrder(q, prio) /\ prio \in [Nodes -> Prios]
  BY PrioType DEF LockBlock, WaitBlock, JoinBlock, ExitEnd, PollBlock, PollClean, prioVars, Nodes, Ordered
<1>2. AllInOrder(StopSlice(q, t), prio)
  BY <1>1, StopSliceOrdered
<1>3. \A n \in Queues : AllInOrder(PrioEnqueue(StopSlice(q, t), n, t, prio), prio)
  BY <1>1, <1>2, EnqueueOrdered
<1>4. CASE LockBlock(t)
  <2>1. fr[t].mtx \in Mutexes
    BY <1>4, LockedFacts DEF LockBlock, FrameOK
  <2> QED BY <1>1, <1>3, <1>4, <2>1, OrderedNext DEF LockBlock, Queues, Objects
<1>5. CASE WaitBlock(t)
  <2>1. fr[t].cnd \in Conds
    BY <1>5, LockedFacts DEF WaitBlock, FrameOK
  <2> QED BY <1>1, <1>3, <1>5, <2>1, OrderedNext DEF WaitBlock, Queues, Objects
<1>6. CASE JoinBlock(t)
  BY <1>1, <1>3, <1>6, OrderedNext DEF JoinBlock, Queues
<1>7. CASE ExitEnd(t)
  BY <1>1, <1>2, <1>7, OrderedNext DEF ExitEnd
<1>8. CASE PollBlock(t)
  BY <1>1, <1>2, <1>8, OrderedNext DEF PollBlock, queueVars
<1>9. CASE PollClean(t)
  <2>1. AllInOrder(Dequeue(q, Pd(t)), prio)
    BY <1>1, DequeueOrdered
  <2> QED BY <1>1, <1>9, <2>1, OrderedNext DEF PollClean
<1> QED BY <1>4, <1>5, <1>6, <1>7, <1>8, <1>9

\* Proxies are linked with the priority they were given.
LEMMA HookOrdered ==
  ASSUME KernelInv, Ordered, NEW t \in Threads, HookCond(t) \/ HookIntr(t) \/ HookJoin(t)
  PROVE  Ordered'
<1>1. UNCHANGED prio /\ AllInOrder(q, prio) /\ prio \in [Nodes -> Prios]
  BY PrioType DEF HookCond, HookIntr, HookJoin, prioVars, Ordered
<1>2. Runs(t, "hook_reg")
  BY DEF HookCond, HookIntr, HookJoin
<1>3. Pd(t) \in Pds /\ Pd(t) \in Nodes
  BY <1>2, RunsFacts, PdIs DEF FrameOK, Pd, Nodes
<1>4. \A n \in Queues : AllInOrder(PrioEnqueue(q, n, Pd(t), prio), prio)
  BY <1>1, <1>3, EnqueueOrdered
<1>5. CASE HookCond(t)
  BY <1>1, <1>3, <1>4, <1>5, ConstantsAssumption, OrderedNext DEF HookCond, Queues, Objects
<1>6. CASE HookIntr(t)
  BY <1>1, <1>4, <1>6, OrderedNext DEF HookIntr, Queues
<1>7. CASE HookJoin(t)
  BY <1>1, <1>4, <1>7, OrderedNext DEF HookJoin, Queues
<1> QED BY <1>5, <1>6, <1>7

LEMMA SnoozeOrdered ==
  ASSUME KernelInv, Ordered, NEW t \in Threads, SleepBlock(t) \/ PollSnooze(t)
  PROVE  Ordered'
<1>1. AllInOrder(StopSlice(q, t), prio) /\ t \in Nodes
  BY StopSliceOrdered DEF Ordered, Nodes
<1>2. q' = q \/ \E i \in TimerPlaces(StopSlice(q, t)) : q' = TimerInsert(StopSlice(q, t), t, i)
  BY DEF SleepBlock, PollSnooze, Snooze, queueVars
<1>3. AllInOrder(q', prio)
  BY <1>1, <1>2, TimerOrdered DEF Ordered
<1>4. UNCHANGED prio
  BY DEF SleepBlock, PollSnooze, Snooze, prioVars
<1> QED BY <1>3, <1>4, OrderedNext

\* The first waiter of a condition variable is woken up.
LEMMA CondWakesOrdered ==
  ASSUME KernelInv, Ordered, NEW cv \in Conds, q[cv] # << >>, Wakeup(Head(q[cv]), [q EXCEPT ![cv] = Tail(@)])
  PROVE  AllInOrder(q', prio)
<1>1. cv \in Queues /\ q[cv] \in Seq(Nodes)
  BY ListsType DEF Queues, Objects, Lists
<1>2. Head(q[cv]) \in Nodes
  BY <1>1, HeadTailProperties
<1>3. AllInOrder([q EXCEPT ![cv] = Tail(@)], prio)
  BY <1>1, PopOrdered DEF Ordered
<1> QED BY <1>2, <1>3, WakeupOrdered

\* The sections that make other threads ready.
LEMMA WakesOrdered ==
  ASSUME KernelInv, Ordered, NEW t \in Threads,
         \/ \E cv \in Conds : SignalCall(t, cv)
         \/ BroadcastWake(t) \/ ExitNotify(t)
         \/ \E u \in Threads : CreateCall(t, u) \/ CancelCall(t, u)
  PROVE  Ordered'
<1>1. UNCHANGED prio /\ AllInOrder(q, prio)
  BY DEF SignalCall, BroadcastWake, ExitNotify, CreateCall, CancelCall, prioVars, Ordered
<1>2. CASE \E cv \in Conds : SignalCall(t, cv)
  <2>1. PICK cv \in Conds : SignalCall(t, cv)
    BY <1>2
  <2>2. CASE q[cv] = << >>
    BY <1>1, <2>1, <2>2, OrderedNext DEF SignalCall, queueVars
  <2>3. CASE q[cv] # << >>
    BY <1>1, <2>1, <2>3, CondWakesOrdered, OrderedNext DEF SignalCall
  <2> QED BY <2>2, <2>3
<1>3. CASE BroadcastWake(t)
  <2>1. fr[t].cnd \in Conds
    BY <1>3, LockedFacts DEF BroadcastWake, FrameOK
  <2> QED BY <1>1, <1>3, <2>1, CondWakesOrdered, OrderedNext DEF BroadcastWake
<1>4. CASE ExitNotify(t)
  <2>1. CASE UNCHANGED q
    BY <1>1, <2>1, OrderedNext
  <2>2. CASE \E i \in DOMAIN q["join"] : Wakeup(q["join"][i], Dequeue(q, q["join"][i]))
    <3>1. PICK i \in DOMAIN q["join"] : Wakeup(q["join"][i], Dequeue(q, q["join"][i]))
      BY <2>2
    <3>2. q["join"][i] \in Nodes
      BY ListsType DEF Lists, Queues
    <3>3. AllInOrder(Dequeue(q, q["join"][i]), prio)
      BY <1>1, DequeueOrdered
    <3>4. AllInOrder(q', prio)
      BY <3>1, <3>2, <3>3, WakeupOrdered
    <3> QED BY <1>1, <3>4, OrderedNext
  <2> QED BY <1>4, <2>1, <2>2 DEF ExitNotify, queueVars
<1>5. ASSUME NEW u \in Threads, CreateCall(t, u) PROVE Ordered'
  BY <1>1, <1>5, MakeReadyOrdered, OrderedNext DEF CreateCall
<1>6. ASSUME NEW u \in Threads, CancelCall(t, u) PROVE Ordered'
  <2>1. CASE UNCHANGED q
    BY <1>1, <2>1, OrderedNext
  <2>2. CASE MakeReady(IF CancelUnlinks(u) THEN Dequeue(q, u) ELSE q, u)
    <3>1. AllInOrder(IF CancelUnlinks(u) THEN Dequeue(q, u) ELSE q, prio)
      BY <1>1, DequeueOrdered
    <3> QED BY <1>1, <2>2, <3>1, MakeReadyOrdered, OrderedNext
  <2> QED BY <1>6, <2>1, <2>2 DEF CancelCall, queueVars
<1> QED BY <1>2, <1>3, <1>4, <1>5, <1>6

\* The dispatcher, and the threads it takes the processor from.
LEMMA SwitchOrdered ==
  ASSUME KernelInv, Ordered, Sched \/ Preempt
  PROVE  Ordered'
<1>1. UNCHANGED prio /\ AllInOrder(q, prio) /\ prio \in [Nodes -> Prios] /\ "ready" \in Queues
  BY PrioType DEF Sched, Preempt, prioVars, Ordered, Queues
<1>2. ASSUME running \in Threads
      PROVE  /\ AllInOrder(PrioEnqueue(StopSlice(q, running), "ready", running, prio), prio)
             /\ AllInOrder(PrioEnqueue(Dequeue(q, running), "ready", running, prio), prio)
             /\ AllInOrder(PrioPush(q, "ready", running, prio), prio)
  BY <1>1, <1>2, StopSliceOrdered, DequeueOrdered, EnqueueOrdered, PushOrdered DEF Nodes
<1>3. running \in Threads \cup {None} /\ (cpu # "user" => running # None)
  BY KernelParts DEF ProcessorTypes, ProcessorOK
<1>4. PICK Q, st, pa, vv : Dispatch(Q, st, pa, vv) /\ AllInOrder(Q, prio)
  <2>1. CASE Sched
    <3>1. CASE cpu = "yield"
      BY <1>2, <1>3, <2>1, <3>1 DEF Sched
    <3>2. CASE cpu # "yield"
      BY <1>1, <2>1, <3>2 DEF Sched
    <3> QED BY <3>1, <3>2
  <2>2. CASE Preempt
    <3>1. CASE Dispatch(q, state, parent, v)
      BY <1>1, <3>1
    <3>2. CASE ~Dispatch(q, state, parent, v)
      BY <1>2, <1>3, <2>2, <3>2 DEF Preempt
    <3> QED BY <3>1, <3>2
  <2> QED BY <2>1, <2>2
<1>5. AllInOrder(q', prio)
  BY <1>4, DispatchOrdered
<1> QED BY <1>1, <1>5, OrderedNext

\* SysTick and the interrupts.
LEMMA InterruptOrdered ==
  ASSUME KernelInv, Ordered, Interrupt
  PROVE  Ordered'
<1>1. AllInOrder(q, prio)
  BY DEF Ordered
<1>2. CASE TimerExpired
  <2>1. "timer" \in Queues /\ q["timer"] # << >>
    BY <1>2 DEF TimerExpired, Queues
  <2>2. AllInOrder([q EXCEPT !["timer"] = Tail(@)], prio)
    BY <1>1, <2>1, PopOrdered
  <2>3. Head(q["timer"]) \in Threads
    BY <2>1, MutexHead
  <2>4. AllInOrder(q', prio) /\ UNCHANGED prio
    BY <1>2, <2>2, <2>3, MakeReadyOrdered DEF TimerExpired, prioVars
  <2> QED BY <2>4, OrderedNext
<1>3. ASSUME NEW i \in Irqs, HandleIntr(i) PROVE Ordered'
  <2>1. UNCHANGED prio
    BY <1>3 DEF HandleIntr, prioVars
  <2>2. CASE UNCHANGED q
    BY <1>1, <2>1, <2>2, OrderedNext
  <2>3. CASE \E k \in DOMAIN q["intr"] : Wakeup(q["intr"][k], Dequeue(q, q["intr"][k]))
    <3>1. PICK k \in DOMAIN q["intr"] : Wakeup(q["intr"][k], Dequeue(q, q["intr"][k]))
      BY <2>3
    <3>2. q["intr"][k] \in Nodes
      BY ListsType DEF Lists, Queues
    <3>3. AllInOrder(Dequeue(q, q["intr"][k]), prio)
      BY <1>1, DequeueOrdered
    <3>4. AllInOrder(q', prio)
      BY <3>1, <3>2, <3>3, WakeupOrdered
    <3> QED BY <2>1, <3>4, OrderedNext
  <2> QED BY <1>3, <2>2, <2>3 DEF HandleIntr, queueVars
<1>4. ASSUME NEW i \in Irqs, RaiseIrq(i) PROVE Ordered'
  BY <1>1, <1>4, OrderedNext DEF RaiseIrq, queueVars, prioVars
<1> QED BY <1>2, <1>3, <1>4 DEF Interrupt

-----------------------------------------------------------------------------
(* The sections that change priorities.                                      *)

\* A thread whose priority is raised while it is in a list by priority leaves its place
\* for that of its new priority.
LEMMA RequeueOrdered ==
  ASSUME KernelInv, Ordered, NEW x \in Threads, NEW p \in Prios, NEW prios, prios = [prio EXCEPT ![x] = p],
         Requeue(x, prios)
  PROVE  AllInOrder(q', prios)
<1>1. Linkage(q, state, parent, v) /\ AllInOrder(q, prio) /\ prio \in [Nodes -> Prios] /\ x \in Nodes
  BY KernelParts, PrioType DEF Ordered, Nodes
<1>2. prios \in [Nodes -> Prios]
  BY <1>1
<1>3. CASE state[x] \in {"READY", "WAIT_MTX", "WAIT_CND"}
  <2>1. PICK Q : Q = Dequeue(q, x)
    OBVIOUS
  <2>2. AllInOrder(Q, prio)
    BY <1>1, <2>1, DequeueOrdered
  <2>3. Unlinked(q, Q, x)
    BY <1>1, <2>1, DequeueUnlinks
  <2>4. \A n \in ByPrio : x \notin ToSet(Q[n])
    BY <2>3 DEF Unlinked, Where, ByPrio, Queues, Objects
  <2>5. AllInOrder(Q, prios)
    BY <1>1, <2>2, <2>4, OneOrdered
  <2>6. parent[x] \in Queues
    BY <1>1, <1>3 DEF Linkage, StateOK, Queues, Objects
  <2>7. q' = PrioEnqueue(Q, parent[x], x, prios)
    BY <1>3, <2>1 DEF Requeue
  <2> QED BY <1>1, <1>2, <2>5, <2>6, <2>7, EnqueueOrdered
<1>4. CASE state[x] \notin {"READY", "WAIT_MTX", "WAIT_CND"}
  <2>1. \A n \in ByPrio : x \notin ToSet(q[n])
    BY <1>1, <1>4, OffLists
  <2>2. q' = q
    BY <1>4 DEF Requeue
  <2> QED BY <1>1, <2>1, <2>2, OneOrdered
<1> QED BY <1>3, <1>4

\* Both inheritance loops.
LEMMA InheritOrdered ==
  ASSUME KernelInv, Ordered, NEW t \in Threads, LockInherit(t) \/ JoinInherit(t)
  PROVE  Ordered'
<1> DEFINE x == fr[t].tp0
           prios == [prio EXCEPT ![x] = prio[t]]
<1>1. x \in Threads /\ t \in Nodes /\ prio[t] \in Prios
  BY ThreadFacts, PrioType DEF LockInherit, JoinInherit, Inherits, Frame, Nodes
<1>2. prio' = prios
  BY DEF LockInherit, JoinInherit
<1>3. CASE Requeue(x, prios)
  <2> HIDE DEF x
  <2>1. AllInOrder(q', prios)
    BY <1>1, <1>3, RequeueOrdered
  <2> QED BY <1>2, <2>1 DEF Ordered
<1>4. CASE ~Requeue(x, prios)
  <2> DEFINE Q == IF Timed(x) THEN Dequeue(q, x) ELSE q
  <2>1. state[x] \in {"WAIT_TIME", "WAIT_POLL"} /\ q' = PrioEnqueue(Q, "ready", x, prios)
    BY <1>4 DEF LockInherit, JoinInherit
  <2>2. Linkage(q, state, parent, v) /\ AllInOrder(q, prio) /\ prio \in [Nodes -> Prios] /\ x \in Nodes
    BY <1>1, KernelParts, PrioType DEF Ordered, Nodes
  <2> HIDE DEF x
  <2>3. AllInOrder(Q, prio)
    BY <2>2, DequeueOrdered
  <2>4. Unlinked(q, Q, x)
    BY <1>1, <2>1, <2>2, SleeperUnlinks
  <2> HIDE DEF Q
  <2>5. \A n \in ByPrio : x \notin ToSet(Q[n])
    BY <2>4 DEF Unlinked, Where, ByPrio, Queues, Objects
  <2>6. AllInOrder(Q, prios) /\ prios \in [Nodes -> Prios]
    BY <1>1, <2>2, <2>3, <2>5, OneOrdered
  <2>7. AllInOrder(q', prios)
    BY <2>1, <2>2, <2>6, EnqueueOrdered DEF Queues
  <2> QED BY <1>2, <2>7 DEF Ordered
<1> QED BY <1>3, <1>4

\* chx_mutex_unlock: the waiter is enqueued, then the priority of the running thread changes.
LEMMA ReleaseOrdered ==
  ASSUME KernelInv, Ordered, NEW t \in Threads, state[t] = "RUNNING", NEW m \in Mutexes, MutexRelease(t, m)
  PROVE  Ordered'
<1>1. AllInOrder(q, prio) /\ prio \in [Nodes -> Prios] /\ m \in Queues /\ state \in [Threads -> States]
  BY PrioType, KernelParts DEF Ordered, Queues, Objects, Linkage
<1>2. CASE q[m] = << >>
  <2>1. UNCHANGED <<q, prio>>
    BY <1>2 DEF MutexRelease, queueVars
  <2> QED BY <1>1, <2>1, OrderedNext
<1>3. CASE q[m] # << >>
  <2>1. Head(q[m]) \in Threads /\ state[Head(q[m])] = "WAIT_MTX"
    BY <1>1, <1>3, MutexHead
  <2>2. AllInOrder([q EXCEPT ![m] = Tail(@)], prio)
    BY <1>1, <1>3, PopOrdered
  <2>3. MakeReady([q EXCEPT ![m] = Tail(@)], Head(q[m])) /\ \E pr : prio' = [prio EXCEPT ![t] = pr]
    BY <1>3 DEF MutexRelease
  <2>4. AllInOrder(q', prio)
    BY <2>1, <2>2, <2>3, MakeReadyOrdered
  <2>5. state'[t] = "RUNNING"
    BY <1>1, <2>1, <2>3 DEF MakeReady
  <2>6. Linkage(q', state', parent', v')
    BY MutexReleaseLinks
  <2>7. \A n \in ByPrio : t \notin ToSet(q'[n])
    BY <2>5, <2>6, OffLists
  <2>8. PICK pr : prio' = [prio EXCEPT ![t] = pr]
    BY <2>3
  <2>9. PICK Q : Q = q'
    OBVIOUS
  <2>10. AllInOrder(Q, [prio EXCEPT ![t] = pr])
    BY <1>1, <2>4, <2>7, <2>9, OneOrdered
  <2>11. AllInOrder(q', prio')
    BY <2>8, <2>9, <2>10
  <2> QED BY <2>11 DEF Ordered
<1> QED BY <1>2, <1>3

LEMMA ReleaseStepsOrdered ==
  ASSUME KernelInv, Ordered, NEW t \in Threads,
         UnlockCall(t) \/ WaitRelease(t) \/ ExitRelease(t) \/ HookUnlock(t)
  PROVE  Ordered'
<1>1. state[t] = "RUNNING" /\ fr[t].mtx \in Mutexes \cup {None} /\ mutex_list[t] \in Mutexes \cup {None}
  BY RunsFacts, ThreadFacts DEF UnlockCall, WaitRelease, ExitRelease, HookUnlock, Calls, Frame, ResourceTypes
<1>2. CASE \E m \in Mutexes : MutexRelease(t, m)
  BY <1>1, <1>2, ReleaseOrdered
<1>3. CASE UNCHANGED <<q, prio>>
  BY <1>3 DEF Ordered
<1>4. CASE UnlockCall(t)
  BY <1>1, <1>2, <1>4 DEF UnlockCall, Unlock
<1>5. CASE WaitRelease(t)
  BY <1>1, <1>2, <1>3, <1>5 DEF WaitRelease, queueVars
<1>6. CASE ExitRelease(t)
  BY <1>1, <1>2, <1>6 DEF ExitRelease
<1>7. CASE HookUnlock(t)
  <2>1. Pd(t) \in Pds
    BY <1>7, RunsFacts, PdIs DEF HookUnlock, FrameOK, Pd
  <2>2. PdMutex[Pd(t)] \in Mutexes \cup {None}
    BY <2>1, ConstantsAssumption
  <2> QED BY <1>2, <1>3, <1>7, <2>2 DEF HookUnlock, Unlock, queueVars, prioVars
<1> QED BY <1>4, <1>5, <1>6, <1>7

\* chopstx_setpriority changes the priority of the running thread, which is in no list.
LEMMA SetPriorityOrdered ==
  ASSUME KernelInv, Ordered, NEW t \in Threads, NEW new \in NewPrios, SetPriorityCall(t, new)
  PROVE  Ordered'
<1>1. state[t] = "RUNNING" /\ prio \in [Nodes -> Prios] /\ Linkage(q, state, parent, v)
  BY RunsFacts, PrioType, KernelParts DEF SetPriorityCall, Calls
<1>2. UNCHANGED q /\ \E pr : prio' = [prio EXCEPT ![t] = pr]
  BY DEF SetPriorityCall, queueVars
<1>3. \A n \in ByPrio : t \notin ToSet(q[n])
  BY <1>1, OffLists
<1>4. PICK pr : prio' = [prio EXCEPT ![t] = pr]
  BY <1>2
<1>5. AllInOrder(q, [prio EXCEPT ![t] = pr])
  BY <1>1, <1>3, OneOrdered DEF Ordered
<1> QED BY <1>2, <1>4, <1>5 DEF Ordered

\* chopstx_poll gives its proxies the priority of the caller, before it links any.
LEMMA PollCallOrdered ==
  ASSUME KernelInv, PollInv, Ordered, NEW t \in Threads, NEW timed \in BOOLEAN, NEW n \in 0..MaxSleep,
         PollCall(t, timed, n)
  PROVE  Ordered'
<1>1. UNCHANGED q /\ pc[t] = "user"
  BY DEF PollCall, Calls, Runs, queueVars
<1>2. CASE UNCHANGED prio
  BY <1>1, <1>2 DEF Ordered
<1>3. CASE prio' = [x \in Nodes |-> IF x \in ToSet(PollArray[t]) THEN prio[t] ELSE prio[x]]
  <2>1. \A k \in DOMAIN PollArray[t], m \in Queues : ~Linked(PollArray[t][k], m)
    <3>1. ~CutOff(t) /\ ~Polling(pc[t], fr[t])
      BY <1>1 DEF CutOff, Polling, PollLabels
    <3>2. \A k \in DOMAIN PollArray[t] : ~Armed(pc[t], fr[t], k, ready[PollArray[t][k]])
      BY <3>1 DEF Armed, Active
    <3> QED BY <3>1, <3>2, NotArmed
  <2>2. \A m \in Queues : ToSet(q[m]) \cap ToSet(PollArray[t]) = {}
    <3>1. ToSet(PollArray[t]) = {PollArray[t][k] : k \in DOMAIN PollArray[t]}
      BY DEF ToSet
    <3> QED BY <2>1, <3>1 DEF Linked
  <2>3. ByPrio \subseteq Queues /\ \A m \in ByPrio : ToSet(q[m]) \subseteq Nodes
    <3>1. ByPrio \subseteq Queues
      BY DEF ByPrio, Queues, Objects
    <3>2. \A m \in Queues : q[m] \in Seq(Nodes)
      BY DEF Ordered, AllInOrder
    <3> QED BY <3>1, <3>2 DEF ToSet
  <2>4. \A m \in ByPrio : \A x \in ToSet(q[m]) : prio'[x] = prio[x]
    BY <1>3, <2>2, <2>3
  <2>5. AllInOrder(q, prio')
    BY <2>4, PriosOrdered DEF Ordered
  <2> QED BY <1>1, <2>5 DEF Ordered
<1> QED BY <1>2, <1>3 DEF PollCall

-----------------------------------------------------------------------------
LEMMA CallOrdered ==
  ASSUME KernelInv, PollInv, Ordered, NEW t \in Threads, Call(t)
  PROVE  Ordered'
<1>1. CASE \/ UnlockCall(t)
           \/ \E c1 \in Conds : SignalCall(t, c1)
           \/ \E u \in Threads : CreateCall(t, u) \/ CancelCall(t, u)
           \/ \E pr \in NewPrios : SetPriorityCall(t, pr)
           \/ \E timed \in BOOLEAN, n \in 0..MaxSleep : PollCall(t, timed, n)
  BY <1>1, ReleaseStepsOrdered, WakesOrdered, SetPriorityOrdered, PollCallOrdered
<1>2. CASE \/ \E m \in Mutexes : LockCall(t, m)
           \/ \E cv \in Conds, m \in Mutexes \cup {None} : WaitCall(t, cv, m)
           \/ \E cv \in Conds : BroadcastCall(t, cv)
           \/ \E n \in 0..MaxSleep : SleepCall(t, n)
           \/ CleanupPush(t) \/ CleanupPop(t) \/ ExitCall(t) \/ TestCancelCall(t)
           \/ \E enable \in BOOLEAN : SetCancelStateCall(t, enable)
           \/ \E u \in Threads : JoinCall(t, u)
           \/ \E p \in Pds : ClaimIrq(t, p) \/ IntrDone(t, p)
  BY <1>2, QuietOrdered
<1> QED BY <1>1, <1>2 DEF Call

LEMMA StepOrdered ==
  ASSUME KernelInv, Ordered, NEW t \in Threads, Step(t)
  PROVE  Ordered'
<1>1. CASE MutexStep(t)
  BY <1>1, QuietOrdered, InheritOrdered, BlockOrdered DEF MutexStep
<1>2. CASE CondStep(t)
  BY <1>2, ReleaseStepsOrdered, BlockOrdered, QuietOrdered, WakesOrdered DEF CondStep
<1>3. CASE ThreadStep(t)
  BY <1>3, QuietOrdered, SnoozeOrdered, ReleaseStepsOrdered, WakesOrdered, BlockOrdered, InheritOrdered
     DEF ThreadStep
<1>4. CASE PollStep(t)
  BY <1>4, QuietOrdered, ReleaseStepsOrdered, HookOrdered, BlockOrdered, SnoozeOrdered DEF PollStep
<1> QED BY <1>1, <1>2, <1>3, <1>4 DEF Step

LEMMA NextOrdered ==
  ASSUME KernelInv, PollInv, Ordered, [Next]_vars
  PROVE  Ordered'
<1>1. CASE \E t \in Threads : Call(t) \/ Step(t)
  BY <1>1, CallOrdered, StepOrdered
<1>2. CASE Sched \/ Preempt \/ Interrupt
  BY <1>2, SwitchOrdered, InterruptOrdered
<1>3. CASE UNCHANGED vars
  BY <1>3 DEF vars, queueVars, prioVars, Ordered
<1> QED BY <1>1, <1>2, <1>3 DEF Next

LEMMA InitOrdered ==
  ASSUME Init
  PROVE  Ordered
<1>1. q \in [Queues -> Seq(Nodes)]
  BY InitInv, ListsType DEF Lists
<1>2. \A n \in ByPrio : q[n] = << >>
  BY AddressAssumption DEF Init, ByPrio, Queues, Objects
<1> QED BY <1>1, <1>2 DEF Ordered, AllInOrder, InOrder

\* The ready list and the lists of the waiters of each mutex and each condition variable are sorted by
\* priority in every state, so that their heads are the threads of highest priority: a priority
\* changes with a requeue (requeue), or while its thread or proxy is in none of them
\* (chx_mutex_unlock, chopstx_setpriority, chopstx_poll).
THEOREM QueuesAreSorted == Spec => []QueuesSorted
<1>1. Init => Ordered
  BY InitOrdered
<1>2. KernelInv /\ PollInv /\ Ordered /\ [Next]_vars => Ordered'
  BY NextOrdered
<1>3. Ordered => QueuesSorted
  BY DEF Ordered, AllInOrder, InOrder, ByPrio, QueuesSorted
<1> QED BY <1>1, <1>2, <1>3, KernelInvariant, PollInvariant, PTL DEF Spec

-----------------------------------------------------------------------------
(* Inheritance: every priority above a thread's own is claimed by a waiter. *)

ClaimsInv == (\A t \in Threads : ClaimOK(t)) /\ \A t \in Threads : CursorOK(t)

\* No inheritance loop is going on.
NoLoop == \A t \in Threads : pc[t] \notin LoopLabels

\* Who waits for a mutex goes on waiting, and nobody else starts.
WaitersKept ==
  \A u \in Threads : /\ state'[u] = "WAIT_MTX" <=> state[u] = "WAIT_MTX"
                     /\ state[u] = "WAIT_MTX" => parent'[u] = parent[u]

\* A step that neither claims nor priorities notice.
Plain ==
  /\ NoLoop /\ NoLoop' /\ WaitersKept /\ UNCHANGED <<owner, prio_orig>>
  /\ \A t \in Threads : prio'[t] = prio[t] /\ (join_req[t] => join_req'[t])

LEMMA PlainClaims ==
  ASSUME ClaimsInv, Plain
  PROVE  ClaimsInv'
<1>1. ASSUME NEW t \in Threads PROVE ClaimOK(t)'
  <2>1. ClaimOK(t) /\ prio'[t] = prio[t] /\ prio_orig'[t] = prio_orig[t]
    BY DEF ClaimsInv, Plain
  <2>2. ASSUME Deserves(t, prio[t]) PROVE Deserves(t, prio[t])'
    <3>1. CASE join_req[t]
      BY <3>1 DEF Plain, Deserves
    <3>2. CASE ~join_req[t]
      <4>1. PICK m \in Held(t), w \in Threads : WaitsAt(w, m) /\ prio[t] <= prio[w]
        BY <2>2, <3>2 DEF Deserves
      <4>2. m \in Held(t)'
        BY <4>1 DEF Held, Plain
      <4>3. WaitsAt(w, m)' /\ prio'[w] = prio[w]
        BY <4>1 DEF WaitsAt, Plain, NoLoop, LoopLabels, WaitersKept
      <4> QED BY <2>1, <4>1, <4>2, <4>3 DEF Deserves
    <3> QED BY <3>1, <3>2
  <2> QED BY <2>1, <2>2 DEF ClaimOK
<1>2. ASSUME NEW t \in Threads PROVE CursorOK(t)'
  BY DEF Plain, NoLoop, CursorOK
<1> QED BY <1>1, <1>2 DEF ClaimsInv

\* Mutex m, if it is held, is held by a thread that outranks w, if w waits for it.
OutrankOK(m, w) ==
  owner[m] # None /\ state[w] = "WAIT_MTX" /\ parent[w] = m => prio[w] <= PrioSoon(owner[m])

LEMMA WaitersLinked ==
  ASSUME NEW Q, NEW st, NEW pa, NEW vv, Linkage(Q, st, pa, vv), NEW m \in Mutexes
  PROVE  \A x : x \in ToSet(Q[m]) <=> x \in Threads /\ st[x] = "WAIT_MTX" /\ pa[x] = m
<1>1. m \in Queues /\ Q \in [Queues -> Seq(Nodes)] /\ \A p \in Pds : p \notin ToSet(Q[m])
  BY DEF Linkage, ListsOK, Queues, Objects
<1>2. \A x : x \in ToSet(Q[m]) => x \in Threads
  BY <1>1 DEF ToSet, Nodes
<1>3. ASSUME NEW x \in Threads
      PROVE  x \in ToSet(Q[m]) <=> st[x] = "WAIT_MTX" /\ pa[x] = m
  <2>1. Where(Q, x) = Places(x, st[x], pa[x]) /\ StateOK(x, st[x], pa[x], vv[x])
    BY DEF Linkage
  <2>2. ASSUME x \in ToSet(Q[m]) PROVE Places(x, st[x], pa[x]) = {m}
    <3>1. m \in Where(Q, x)
      BY <1>1, <2>2 DEF Where
    <3> QED BY <3>1, LinkedPlace
  <2>3. x \in ToSet(Q[m]) => st[x] = "WAIT_MTX" /\ pa[x] = m
    BY <1>1, <2>2, StateOfPlace DEF Places
  <2>4. st[x] = "WAIT_MTX" /\ pa[x] = m => x \in ToSet(Q[m])
    BY <1>1, <2>1 DEF Places, Where
  <2> QED BY <2>3, <2>4
<1> QED BY <1>2, <1>3

\* OwnersOutrankWaiters, by what the states say.
LEMMA OutrankStates ==
  ASSUME KernelInv
  PROVE  OwnersOutrankWaiters <=> \A m \in Mutexes, w \in Threads : OutrankOK(m, w)
<1>1. Linkage(q, state, parent, v)
  BY KernelParts
<1> QED BY <1>1, WaitersLinked DEF OwnersOutrankWaiters, OutrankOK

LEMMA OutrankStatesNext ==
  ASSUME KernelInv'
  PROVE  OwnersOutrankWaiters' <=> \A m \in Mutexes, w \in Threads : OutrankOK(m, w)'
<1>1. Linkage(q', state', parent', v')
  BY DEF KernelInv
<1>2. \A m \in Mutexes : \A x : x \in ToSet(q'[m]) <=> x \in Threads /\ state'[x] = "WAIT_MTX" /\ parent'[x] = m
  BY <1>1, WaitersLinked
<1> QED BY <1>2 DEF OwnersOutrankWaiters, OutrankOK

LEMMA PlainOutrank ==
  ASSUME KernelInv, Plain, NEW m \in Mutexes, NEW w \in Threads, OutrankOK(m, w)
  PROVE  OutrankOK(m, w)'
<1>1. owner[m] \in Threads \cup {None}
  BY KernelParts DEF ResourceTypes
<1>2. \A u : PrioSoon(u) = prio[u] /\ PrioSoon(u)' = prio'[u]
  BY DEF PrioSoon, Plain, NoLoop, LoopLabels
<1>3. owner'[m] = owner[m] /\ prio'[w] = prio[w] /\ (owner[m] # None => prio'[owner[m]] = prio[owner[m]])
  BY <1>1 DEF Plain
<1>4. state'[w] = "WAIT_MTX" /\ parent'[w] = m => state[w] = "WAIT_MTX" /\ parent[w] = m
  BY DEF Plain, WaitersKept
<1> QED BY <1>2, <1>3, <1>4 DEF OutrankOK

-----------------------------------------------------------------------------
(* The plain steps.                                                          *)

LEMMA NoLoopNow ==
  ASSUME ClaimsInv, NEW t, cpu # "lock" \/ (running = t /\ pc[t] \notin LoopLabels)
  PROVE  NoLoop
BY DEF ClaimsInv, CursorOK, NoLoop

LEMMA NoLoopNext ==
  ASSUME KernelInv, NoLoop, NEW t \in Threads, \A u \in Threads : u # t => pc'[u] = pc[u], pc'[t] \notin LoopLabels
  PROVE  NoLoop'
BY DEF NoLoop

\* A step of thread t that changes no state but its own, to one that is not WAIT_MTX.
LEMMA PlainStep ==
  ASSUME KernelInv, ClaimsInv, NEW t \in Threads, cpu # "lock" \/ (running = t /\ pc[t] \notin LoopLabels),
         \A u \in Threads : u # t => pc'[u] = pc[u], pc'[t] \notin LoopLabels,
         WaitersKept, UNCHANGED <<owner, prio_orig>>,
         \A u \in Threads : prio'[u] = prio[u] /\ (join_req[u] => join_req'[u])
  PROVE  Plain
BY NoLoopNow, NoLoopNext DEF Plain

\* The calls and steps that touch no queue.
LEMMA QuietPlain ==
  ASSUME KernelInv, ClaimsInv, NEW t \in Threads,
         \/ \E m \in Mutexes : LockCall(t, m)
         \/ \E cv \in Conds, m \in Mutexes \cup {None} : WaitCall(t, cv, m)
         \/ \E cv \in Conds : BroadcastCall(t, cv)
         \/ \E n \in 0..MaxSleep : SleepCall(t, n)
         \/ CleanupPush(t) \/ CleanupPop(t) \/ ExitCall(t) \/ TestCancelCall(t)
         \/ \E enable \in BOOLEAN : SetCancelStateCall(t, enable)
         \/ \E u \in Threads : JoinCall(t, u)
         \/ \E p \in Pds : ClaimIrq(t, p) \/ IntrDone(t, p)
         \/ WaitWoken(t) \/ WaitReturn(t) \/ BroadcastReturn(t) \/ SleepLoop(t) \/ SleepWoken(t)
         \/ ExitBegin(t) \/ ExitHandler(t) \/ ExitHandlersDone(t) \/ JoinFatal(t)
         \/ HookBegin(t) \/ (\E met \in BOOLEAN : HookCheck(t, met)) \/ HookCount(t) \/ HookFatal(t) \/ HooksDone(t)
         \/ PollWoken(t) \/ PollLoop(t) \/ PollSnoozed(t) \/ PollReturn(t) \/ PollClean(t)
         \/ HookCond(t) \/ HookIntr(t) \/ HookJoin(t)
  PROVE  Plain
<1>1. /\ pc \in [Threads -> Labels] /\ join_req \in [Threads -> BOOLEAN]
  BY KernelParts DEF ControlOK, ResourceTypes
<1>2. UNCHANGED <<state, parent, owner, prio_orig, prio>>
  BY DEF LockCall, WaitCall, BroadcastCall, SleepCall, CleanupPush, CleanupPop, ExitCall, TestCancelCall, SetCancelStateCall,
         JoinCall, ClaimIrq, IntrDone, WaitWoken, WaitReturn, BroadcastReturn, SleepLoop, SleepWoken, ExitBegin, ExitHandler,
         ExitHandlersDone, JoinFatal, HookBegin, HookCheck, HookCount, HookFatal, HooksDone, PollWoken, PollLoop, PollSnoozed,
         PollReturn, PollClean, HookCond, HookIntr, HookJoin, queueVars, mutexVars, prioVars
<1>3. \A u \in Threads : join_req[u] => join_req'[u]
  BY <1>1 DEF LockCall, WaitCall, BroadcastCall, SleepCall, CleanupPush, CleanupPop, ExitCall, TestCancelCall, SetCancelStateCall,
         JoinCall, ClaimIrq, IntrDone, WaitWoken, WaitReturn, BroadcastReturn, SleepLoop, SleepWoken, ExitBegin, ExitHandler,
         ExitHandlersDone, JoinFatal, HookBegin, HookCheck, HookCount, HookFatal, HooksDone, PollWoken, PollLoop, PollSnoozed,
         PollReturn, PollClean, HookCond, HookIntr, HookJoin, flagVars
<1>4. cpu # "lock" \/ (running = t /\ pc[t] \notin LoopLabels)
  BY DEF LockCall, WaitCall, BroadcastCall, SleepCall, CleanupPush, CleanupPop, ExitCall, TestCancelCall, SetCancelStateCall,
         JoinCall, ClaimIrq, IntrDone, WaitWoken, WaitReturn, BroadcastReturn, SleepLoop, SleepWoken, ExitBegin, ExitHandler,
         ExitHandlersDone, JoinFatal, HookBegin, HookCheck, HookCount, HookFatal, HooksDone, PollWoken, PollLoop, PollSnoozed,
         PollReturn, PollClean, HookCond, HookIntr, HookJoin, Calls, Runs, Locked, LoopLabels
<1>5. /\ \A u \in Threads : u # t => pc'[u] = pc[u]
      /\ pc'[t] \in {pc[t], "mtx_lock", "exit", "cond_wait", "bcast", "usleep", "user", "join", "cond_relocked", "snooze",
                     "handlers", "release", "fatal", "hook_check", "hook_reg", "hook_count", "hook_unlock", "poll", "poll_clean",
                     "hook", "poll_snooze", "poll_timed"}
  BY <1>1 DEF LockCall, WaitCall, BroadcastCall, SleepCall, CleanupPush, CleanupPop, ExitCall, TestCancelCall, SetCancelStateCall,
         JoinCall, ClaimIrq, IntrDone, WaitWoken, WaitReturn, BroadcastReturn, SleepLoop, SleepWoken, ExitBegin, ExitHandler,
         ExitHandlersDone, JoinFatal, HookBegin, HookCheck, HookCount, HookFatal, HooksDone, PollWoken, PollLoop, PollSnoozed,
         PollReturn, PollClean, HookCond, HookIntr, HookJoin, Goto
<1>6. pc[t] \notin LoopLabels
  BY <1>4 DEF ClaimsInv, CursorOK
<1>7. pc'[t] \notin LoopLabels /\ WaitersKept
  BY <1>2, <1>5, <1>6 DEF LoopLabels, WaitersKept
<1> QED BY <1>2, <1>3, <1>4, <1>5, <1>7, PlainStep

\* The running thread goes to sleep, but not for a mutex, or the end of a thread is noted.
LEMMA BlockPlain ==
  ASSUME KernelInv, ClaimsInv, NEW t \in Threads,
         \/ WaitBlock(t) \/ ExitEnd(t) \/ PollBlock(t) \/ SleepBlock(t) \/ PollSnooze(t) \/ JoinExited(t) \/ JoinReturn(t)
  PROVE  Plain
<1>1. /\ pc \in [Threads -> Labels] /\ state \in [Threads -> States] /\ parent \in [Threads -> Queues \cup {None}]
  BY KernelParts DEF ControlOK, Linkage
<1>2. /\ UNCHANGED <<owner, prio_orig, prio, join_req>>
      /\ cpu # "lock" \/ (running = t /\ pc[t] \notin LoopLabels)
      /\ \A u \in Threads : u # t => pc'[u] = pc[u]
      /\ pc'[t] \in {"cond_woken", "dead", "poll_clean", "poll_woken", "poll_timed", "snoozed", "poll_snoozed", "user", "exit"}
  BY <1>1 DEF WaitBlock, ExitEnd, PollBlock, SleepBlock, PollSnooze, Snooze, JoinExited, JoinReturn, Goto, Runs, Locked,
         LoopLabels, mutexVars, prioVars, flagVars
<1>3. WaitersKept
  <2>1. CASE JoinExited(t)
    BY <1>1, <2>1 DEF JoinExited, WaitersKept
  <2>2. CASE JoinReturn(t)
    <3>1. v[t] # 0
      <4>1. Runs(t, "join_woken")
        BY <2>2 DEF JoinReturn
      <4> QED BY <4>1, RunsFacts, KernelParts DEF JoinOK
    <3> QED BY <2>2, <3>1 DEF JoinReturn, WaitersKept
  <2>3. CASE WaitBlock(t) \/ ExitEnd(t) \/ PollBlock(t) \/ SleepBlock(t) \/ PollSnooze(t)
    <3>1. state[t] = "RUNNING"
      BY <2>3, RunsFacts, LockedFacts DEF WaitBlock, ExitEnd, PollBlock, SleepBlock, PollSnooze
    <3>2. /\ \A u \in Threads : u # t => state'[u] = state[u] /\ parent'[u] = parent[u]
          /\ state'[t] \in {"WAIT_CND", "FINISHED", "EXITED", "WAIT_POLL", "WAIT_TIME", state[t]}
      BY <1>1, <2>3 DEF WaitBlock, ExitEnd, PollBlock, SleepBlock, PollSnooze, Snooze, queueVars
    <3> QED BY <3>1, <3>2 DEF WaitersKept
  <2> QED BY <2>1, <2>2, <2>3
<1>4. pc'[t] \notin LoopLabels
  BY <1>2 DEF LoopLabels
<1> QED BY <1>2, <1>3, <1>4, PlainStep

\* chx_wakeup wakes up nobody who waits for a mutex.
LEMMA WakeupKeeps ==
  ASSUME KernelInv, NEW x \in Nodes, NEW Q, Wakeup(x, Q),
         x \in Threads => state[x] \in {"WAIT_CND", "WAIT_EXIT"}
  PROVE  WaitersKept
<1>1. state \in [Threads -> States] /\ parent \in [Threads -> Queues \cup {None}]
  BY KernelParts DEF Linkage
<1>2. PICK t : t = ThreadOf(x)
  OBVIOUS
<1>3. t \in Threads /\ (x \in Threads => t = x /\ x \notin Pds)
  BY <1>2, AddressAssumption DEF Master, ThreadOf, Nodes
<1>4. CASE x \in Pds /\ state[t] # "WAIT_POLL"
  BY <1>2, <1>4 DEF Wakeup, WaitersKept
<1>5. CASE ~(x \in Pds /\ state[t] # "WAIT_POLL")
  <2>1. state[t] # "WAIT_MTX"
    BY <1>3, <1>5 DEF Nodes
  <2>2. state' = [state EXCEPT ![t] = "READY"] /\ parent' = [parent EXCEPT ![t] = "ready"]
    BY <1>2, <1>5 DEF Wakeup, MakeReady
  <2> QED BY <1>1, <1>3, <2>1, <2>2 DEF WaitersKept
<1> QED BY <1>4, <1>5

\* The first waiter of a condition variable is woken up.
LEMMA CondWakesKeep ==
  ASSUME KernelInv, NEW cv \in Conds, q[cv] # << >>, Wakeup(Head(q[cv]), [q EXCEPT ![cv] = Tail(@)])
  PROVE  WaitersKept
<1>1. Linkage(q, state, parent, v) /\ ListsOK(q) /\ cv \in Queues
  BY KernelParts DEF Linkage, Queues, Objects
<1>2. PICK x : x = Head(q[cv])
  OBVIOUS
<1>3. x \in Nodes /\ cv \in Where(q, x)
  BY <1>1, <1>2, PopLists
<1>4. x \in Threads => state[x] = "WAIT_CND"
  BY <1>1, <1>3, LinkedPlace, StateOfPlace
<1>5. PICK Q : Wakeup(x, Q)
  BY <1>2
<1> QED BY <1>3, <1>4, <1>5, WakeupKeeps

\* The sections that make other threads ready.
LEMMA WakesPlain ==
  ASSUME KernelInv, ClaimsInv, NEW t \in Threads,
         \/ \E cv \in Conds : SignalCall(t, cv)
         \/ BroadcastWake(t) \/ ExitNotify(t)
         \/ \E u \in Threads : CreateCall(t, u) \/ CancelCall(t, u)
  PROVE  Plain
<1>1. /\ pc \in [Threads -> Labels] /\ state \in [Threads -> States] /\ parent \in [Threads -> Queues \cup {None}]
      /\ Linkage(q, state, parent, v) /\ ListsOK(q)
  BY KernelParts DEF ControlOK, Linkage
<1>2. /\ UNCHANGED <<owner, prio_orig, prio, join_req>>
      /\ cpu # "lock" \/ (running = t /\ pc[t] \notin LoopLabels)
      /\ \A u \in Threads : pc'[u] = pc[u] \/ pc'[u] \in {"dying", "user"}
  BY <1>1 DEF SignalCall, BroadcastWake, ExitNotify, CreateCall, CancelCall, Goto, Runs, Locked, Calls,
         LoopLabels, mutexVars, prioVars, flagVars
<1>3. WaitersKept
  <2>1. ASSUME NEW cv \in Conds, SignalCall(t, cv) PROVE WaitersKept
    BY <2>1, CondWakesKeep DEF SignalCall, queueVars, WaitersKept
  <2>2. CASE BroadcastWake(t)
    <3>1. Locked(t, "bcast")
      BY <2>2 DEF BroadcastWake
    <3>2. fr[t].cnd \in Conds
      BY <3>1, LockedFacts DEF FrameOK
    <3> QED BY <2>2, <3>2, CondWakesKeep DEF BroadcastWake
  <2>3. CASE ExitNotify(t)
    <3>1. CASE UNCHANGED queueVars
      BY <3>1 DEF queueVars, WaitersKept
    <3>2. CASE ~UNCHANGED queueVars
      <4>1. PICK i \in DOMAIN q["join"] : Wakeup(q["join"][i], Dequeue(q, q["join"][i]))
        BY <2>3, <3>2 DEF ExitNotify
      <4>2. PICK x : x = q["join"][i]
        OBVIOUS
      <4>3. x \in Nodes /\ "join" \in Where(q, x)
        BY <1>1, <4>1, <4>2 DEF ListsOK, Where, ToSet, Queues
      <4>4. ASSUME x \in Threads PROVE state[x] = "WAIT_EXIT"
        <5>1. "join" \in Queues
          BY DEF Queues
        <5>2. Places(x, state[x], parent[x]) = {"join"}
          BY <1>1, <4>3, <4>4, LinkedPlace
        <5> QED BY <1>1, <4>4, <5>1, <5>2, StateOfPlace
      <4>5. PICK Q : Wakeup(x, Q)
        BY <4>1, <4>2
      <4> QED BY <4>3, <4>4, <4>5, WakeupKeeps
    <3> QED BY <3>1, <3>2
  <2>4. ASSUME NEW u \in Threads, CreateCall(t, u) PROVE WaitersKept
    BY <1>1, <2>4 DEF CreateCall, MakeReady, WaitersKept
  <2>5. ASSUME NEW u \in Threads, CancelCall(t, u) PROVE WaitersKept
    BY <1>1, <2>5 DEF CancelCall, MakeReady, WaitersKept, queueVars
  <2> QED BY <2>1, <2>2, <2>3, <2>4, <2>5
<1>4. NoLoop
  BY <1>2, NoLoopNow
<1>5. NoLoop'
  BY <1>2, <1>4 DEF NoLoop, LoopLabels
<1> QED BY <1>2, <1>3, <1>4, <1>5 DEF Plain

\* chopstx_poll gives its proxies a priority, not a thread.
LEMMA PollCallPlain ==
  ASSUME KernelInv, ClaimsInv, NEW t \in Threads, NEW timed \in BOOLEAN, NEW n \in 0..MaxSleep,
         PollCall(t, timed, n)
  PROVE  Plain
<1>1. pc \in [Threads -> Labels]
  BY KernelParts DEF ControlOK
<1>2. /\ UNCHANGED <<owner, prio_orig, join_req, state, parent>> /\ cpu # "lock"
      /\ \A u \in Threads : u # t => pc'[u] = pc[u]
      /\ pc'[t] \in {"hook", "exit"}
  BY <1>1 DEF PollCall, Calls, Runs, Goto, queueVars, flagVars, mutexVars
<1>3. \A u \in Threads : prio'[u] = prio[u]
  <2>1. \A u \in Threads : u \in Nodes /\ u \notin ToSet(PollArray[t])
    BY MasterIs, AddressAssumption DEF Nodes
  <2> QED BY <2>1 DEF PollCall
<1> QED BY <1>2, <1>3, PlainStep DEF LoopLabels, WaitersKept

\* The dispatcher, SysTick and the interrupts: they put threads on the CPU and take them off it, or wake up
\* who sleeps.
LEMMA SwitchKeeps ==
  ASSUME KernelInv, Sched \/ Preempt
  PROVE  WaitersKept
<1>1. PICK Q, st, pa, vv : Parks(Q, st, pa, vv) /\ Dispatch(Q, st, pa, vv)
  BY SwitchParks
<1>2. Linkage(Q, st, pa, vv) /\ ListsOK(Q) /\ "ready" \in Queues
  BY <1>1, ParksLinks DEF Linkage, Queues
<1>3. ASSUME NEW u \in Threads
      PROVE  /\ st[u] = "WAIT_MTX" <=> state[u] = "WAIT_MTX"
             /\ state[u] = "WAIT_MTX" => pa[u] = parent[u]
  BY <1>1, KernelParts DEF Parks, Linkage
<1>4. ASSUME NEW u \in Threads
      PROVE  /\ state'[u] = "WAIT_MTX" <=> st[u] = "WAIT_MTX"
             /\ st[u] = "WAIT_MTX" => parent'[u] = pa[u]
  <2>1. CASE Q["ready"] = << >>
    BY <1>1, <2>1 DEF Dispatch
  <2>2. CASE Q["ready"] # << >>
    <3>1. PICK h : h = Head(Q["ready"])
      OBVIOUS
    <3>2. h \in Threads /\ "ready" \in Where(Q, h)
      BY <1>2, <2>2, <3>1, PopLists
    <3>3. st[h] = "READY"
      BY <1>2, <3>2, LinkedPlace, StateOfPlace
    <3>4. /\ state' = [st EXCEPT ![h] = "RUNNING"]
          /\ parent' = pa \/ parent' = [pa EXCEPT ![h] = "timer"]
      BY <1>1, <2>2, <3>1 DEF Dispatch
    <3> QED BY <1>2, <3>2, <3>3, <3>4 DEF Linkage
  <2> QED BY <2>1, <2>2
<1> QED BY <1>3, <1>4 DEF WaitersKept

LEMMA SwitchPlain ==
  ASSUME KernelInv, ClaimsInv, Sched \/ Preempt
  PROVE  Plain
<1>1. /\ cpu # "lock" /\ UNCHANGED <<owner, prio, prio_orig, join_req, pc>>
  BY SwitchParks DEF mutexVars, prioVars, flagVars
<1>2. NoLoop /\ NoLoop'
  BY <1>1, NoLoopNow DEF NoLoop
<1> QED BY <1>1, <1>2, SwitchKeeps DEF Plain

LEMMA InterruptPlain ==
  ASSUME KernelInv, ClaimsInv, TimerExpired \/ \E irq \in Irqs : HandleIntr(irq)
  PROVE  Plain
<1>1. /\ cpu # "lock" /\ UNCHANGED <<owner, prio, prio_orig, join_req, pc>>
  BY DEF TimerExpired, HandleIntr, Interruptible, mutexVars, prioVars, flagVars
<1>2. NoLoop /\ NoLoop'
  BY <1>1, NoLoopNow DEF NoLoop
<1>3. Linkage(q, state, parent, v) /\ ListsOK(q) /\ "timer" \in Queues /\ "intr" \in Queues
  BY KernelParts DEF Linkage, Queues
<1>4. CASE TimerExpired
  <2>1. PICK t : t = Head(q["timer"])
    OBVIOUS
  <2>2. /\ q["timer"] # << >>
        /\ state' = [state EXCEPT ![t] = "READY"] /\ parent' = [parent EXCEPT ![t] = "ready"]
    BY <1>4, <2>1 DEF TimerExpired, MakeReady
  <2>3. t \in Threads /\ Places(t, state[t], parent[t]) = {"timer"}
    BY <1>3, <2>1, <2>2, MutexHead
  <2>4. state[t] # "WAIT_MTX"
    BY <1>3, <2>3, StateOfPlace
  <2>5. WaitersKept
    BY <1>3, <2>2, <2>3, <2>4 DEF WaitersKept, Linkage
  <2> QED BY <1>1, <1>2, <2>5 DEF Plain
<1>5. CASE \E irq \in Irqs : HandleIntr(irq)
  <2>1. PICK irq \in Irqs : HandleIntr(irq)
    BY <1>5
  <2>2. WaitersKept
    <3>1. CASE UNCHANGED queueVars
      BY <3>1 DEF queueVars, WaitersKept
    <3>2. CASE ~UNCHANGED queueVars
      <4>1. PICK i \in DOMAIN q["intr"] : Wakeup(q["intr"][i], Dequeue(q, q["intr"][i]))
        BY <2>1, <3>2 DEF HandleIntr
      <4>2. PICK x : x = q["intr"][i]
        OBVIOUS
      <4>3. x \in Nodes /\ "intr" \in Where(q, x)
        BY <1>3, <4>1, <4>2 DEF ListsOK, Where, ToSet
      <4>4. x \notin Threads
        BY <1>3, <4>3, LinkedPlace, StateOfPlace
      <4>5. PICK Q : Wakeup(x, Q)
        BY <4>1, <4>2
      <4> QED BY <4>3, <4>4, <4>5, WakeupKeeps
    <3> QED BY <3>1, <3>2
  <2> QED BY <1>1, <1>2, <2>2 DEF Plain
<1> QED BY <1>4, <1>5

\* A step that changes none of what claims are about.
Frozen == UNCHANGED <<running, cpu, state, parent, owner, prio, prio_orig, join_req, pc, fr>>

LEMMA FrozenClaims ==
  ASSUME ClaimsInv, Frozen
  PROVE  ClaimsInv'
BY DEF ClaimsInv, Frozen, ClaimOK, CursorOK, Deserves, WaitsAt, Held

LEMMA FrozenOutrank ==
  ASSUME Frozen, NEW m, NEW w, OutrankOK(m, w)
  PROVE  OutrankOK(m, w)'
BY DEF Frozen, OutrankOK, PrioSoon

\* Which steps are plain, and which are not.
LEMMA PlainOrNot ==
  ASSUME KernelInv, ClaimsInv, [Next]_vars
  PROVE  \/ Plain \/ Frozen
         \/ \E t \in Threads :
              \/ LockAcquire(t) \/ LockHeld(t) \/ LockInherit(t) \/ LockBlock(t)
              \/ UnlockCall(t) \/ WaitRelease(t) \/ ExitRelease(t) \/ HookUnlock(t)
              \/ JoinBlock(t) \/ JoinInherit(t) \/ JoinSleep(t)
              \/ \E new \in NewPrios : SetPriorityCall(t, new)
<1>1. CASE UNCHANGED vars
  BY <1>1 DEF vars, cpuVars, queueVars, prioVars, flagVars, mutexVars, Frozen
<1>2. CASE Sched \/ Preempt
  BY <1>2, SwitchPlain
<1>3. CASE Interrupt
  BY <1>3, InterruptPlain DEF Interrupt, RaiseIrq, cpuVars, queueVars, prioVars, flagVars, mutexVars, Frozen
<1>4. ASSUME NEW t \in Threads, Call(t)
      PROVE  Plain \/ UnlockCall(t) \/ \E new \in NewPrios : SetPriorityCall(t, new)
  BY <1>4, QuietPlain, WakesPlain, PollCallPlain DEF Call
<1>5. ASSUME NEW t \in Threads, Step(t)
      PROVE  \/ Plain
             \/ LockAcquire(t) \/ LockHeld(t) \/ LockInherit(t) \/ LockBlock(t)
             \/ WaitRelease(t) \/ ExitRelease(t) \/ HookUnlock(t)
             \/ JoinBlock(t) \/ JoinInherit(t) \/ JoinSleep(t)
  BY <1>5, QuietPlain, BlockPlain, WakesPlain DEF Step, MutexStep, CondStep, ThreadStep, PollStep
<1> QED BY <1>1, <1>2, <1>3, <1>4, <1>5 DEF Next

-----------------------------------------------------------------------------
(* Claims: the steps of the mutexes and of chopstx_join.                     *)

\* Waiters go on waiting, at least as urgently; mutexes are not given up.
Keeps ==
  /\ \A m \in Mutexes, w \in Threads : WaitsAt(w, m) => WaitsAt(w, m)' /\ prio[w] <= prio'[w]
  /\ \A m \in Mutexes, u \in Threads : owner[m] = u => owner'[m] = u
  /\ \A u \in Threads : join_req[u] => join_req'[u]

LEMMA PriosInt ==
  ASSUME KernelInv
  PROVE  \A u \in Threads : prio[u] \in Int /\ prio_orig[u] \in Int
<1>1. prio \in [Nodes -> Prios] /\ prio_orig \in [Threads -> Prios]
  BY PrioType
<1>2. \A u \in Threads : prio[u] \in Int
  BY <1>1, PrioIsNumber DEF Nodes
<1>3. \A u \in Threads : prio_orig[u] \in Prios
  BY <1>1
<1> QED BY <1>2, <1>3 DEF Prios

LEMMA PriosIntNext ==
  ASSUME KernelInv'
  PROVE  \A u \in Threads : prio'[u] \in Int /\ prio_orig'[u] \in Int
<1>1. prio' \in [Nodes -> Prios] /\ prio_orig' \in [Threads -> Prios]
  BY DEF KernelInv, TypeOK
<1>2. \A u \in Threads : prio'[u] \in Int
  BY <1>1, PrioIsNumber DEF Nodes
<1>3. \A u \in Threads : prio_orig'[u] \in Prios
  BY <1>1
<1> QED BY <1>2, <1>3 DEF Prios

LEMMA DeservesKept ==
  ASSUME KernelInv, KernelInv', Keeps, NEW u \in Threads, NEW pr \in Int, Deserves(u, pr)
  PROVE  Deserves(u, pr)'
<1>1. CASE join_req[u]
  BY <1>1 DEF Keeps, Deserves
<1>2. CASE ~join_req[u]
  <2>1. PICK m \in Held(u), w \in Threads : WaitsAt(w, m) /\ pr <= prio[w]
    BY <1>2 DEF Deserves
  <2>2. m \in Mutexes /\ m \in Held(u)'
    BY <2>1 DEF Keeps, Held
  <2>3. WaitsAt(w, m)' /\ prio[w] <= prio'[w]
    BY <2>1, <2>2 DEF Keeps
  <2>4. prio[w] \in Int /\ prio'[w] \in Int
    BY PriosInt, PriosIntNext
  <2>5. pr <= prio'[w]
    BY <2>1, <2>3, <2>4
  <2> QED BY <2>2, <2>3, <2>5 DEF Deserves
<1> QED BY <1>1, <1>2

\* A thread that has its priorities still has a claim to them.
LEMMA ClaimKept ==
  ASSUME KernelInv, KernelInv', Keeps, NEW u \in Threads, ClaimOK(u),
         prio'[u] = prio[u], prio_orig'[u] = prio_orig[u]
  PROVE  ClaimOK(u)'
<1>1. PICK pr : pr = prio[u]
  OBVIOUS
<1>2. pr \in Int
  BY <1>1, PriosInt
<1>3. Deserves(u, pr) => Deserves(u, pr)'
  BY <1>2, DeservesKept
<1> QED BY <1>1, <1>3 DEF ClaimOK

\* The steps that change no priority, and start no loop.
LEMMA ClaimsKept ==
  ASSUME KernelInv, KernelInv', ClaimsInv, Keeps, NoLoop', UNCHANGED <<prio, prio_orig>>
  PROVE  ClaimsInv'
BY ClaimKept DEF ClaimsInv, NoLoop, CursorOK

\* A mutex is acquired, and its waiters with it.
LEMMA LockAcquireClaims ==
  ASSUME KernelInv, KernelInv', ClaimsInv, NEW t \in Threads, LockAcquire(t)
  PROVE  ClaimsInv'
<1>1. Runs(t, "mtx_lock")
  BY DEF LockAcquire
<1>2. /\ cpu = "user" /\ fr[t].mtx \in Mutexes /\ fr[t].then \in {"user", "cond_relocked", "hook_check"}
      /\ pc \in [Threads -> Labels] /\ owner \in [Mutexes -> Threads \cup {None}]
  BY <1>1, RunsFacts, KernelParts DEF FrameOK, ControlOK, ResourceTypes
<1>3. NoLoop
  BY <1>2, NoLoopNow
<1>4. NoLoop'
  BY <1>2, <1>3 DEF LockAcquire, Goto, NoLoop, LoopLabels
<1>5. UNCHANGED <<prio, prio_orig, state, parent, join_req>>
  BY DEF LockAcquire, queueVars, prioVars, flagVars
<1>6. \A m \in Mutexes, u \in Threads : owner[m] = u => owner'[m] = u
  <2>1. None \notin Threads
    BY AddressAssumption DEF Nodes
  <2>2. owner[fr[t].mtx] = None /\ owner' = [owner EXCEPT ![fr[t].mtx] = t]
    BY DEF LockAcquire
  <2> QED BY <1>2, <2>1, <2>2
<1>7. Keeps
  <2>1. \A m \in Mutexes, w \in Threads : WaitsAt(w, m) => WaitsAt(w, m)'
    BY <1>3, <1>5 DEF WaitsAt, NoLoop, LoopLabels
  <2>2. \A w \in Threads : prio[w] <= prio'[w]
    BY <1>5, PriosInt
  <2> QED BY <1>5, <1>6, <2>1, <2>2 DEF Keeps
<1> QED BY <1>4, <1>5, <1>7, ClaimsKept

\* The loop of chopstx_mutex_lock starts: the owner of the mutex is where it comes to first.
LEMMA LockHeldClaims ==
  ASSUME KernelInv, KernelInv', ClaimsInv, NEW t \in Threads, LockHeld(t)
  PROVE  ClaimsInv'
<1>1. Runs(t, "mtx_lock") /\ owner[fr[t].mtx] # None
  BY DEF LockHeld
<1>2. PICK m : m = fr[t].mtx
  OBVIOUS
<1>3. /\ running = t /\ cpu = "user" /\ m \in Mutexes
      /\ pc \in [Threads -> Labels] /\ fr \in [Threads -> Frame]
      /\ owner[m] \in Threads
  BY <1>1, <1>2, RunsFacts, KernelParts DEF FrameOK, ControlOK, ResourceTypes
<1>4. NoLoop
  BY <1>3, NoLoopNow
<1>5. /\ UNCHANGED <<prio, prio_orig, state, parent, join_req, owner, running>> /\ cpu' = "lock"
      /\ \A u \in Threads : u # t => pc'[u] = pc[u] /\ fr'[u] = fr[u]
      /\ pc'[t] = "mtx_pi" /\ fr'[t].mtx = m /\ fr'[t].tp0 = owner[m]
  BY <1>2, <1>3 DEF LockHeld, queueVars, prioVars, flagVars, mutexVars, Goto, Frame
<1>6. Keeps
  <2>1. \A n \in Mutexes, w \in Threads : WaitsAt(w, n) => WaitsAt(w, n)'
    BY <1>4, <1>5 DEF WaitsAt, NoLoop, LoopLabels
  <2>2. \A w \in Threads : prio[w] <= prio'[w]
    BY <1>5, PriosInt
  <2> QED BY <1>5, <2>1, <2>2 DEF Keeps
<1>7. \A u \in Threads : ClaimOK(u)'
  BY <1>5, <1>6, ClaimKept DEF ClaimsInv
<1>8. CursorOK(t)'
  <2>1. m \in Held(owner[m])' /\ WaitsAt(t, m)' /\ prio'[t] <= prio'[t]
    BY <1>3, <1>5, PriosInt DEF Held, WaitsAt
  <2>2. PICK o : o = owner[m]
    OBVIOUS
  <2>3. m \in Held(o)' /\ fr'[t].tp0 = o
    BY <1>3, <1>5, <2>2 DEF Held
  <2>4. Deserves(fr[t].tp0, prio[t])'
    BY <2>1, <2>3 DEF Deserves, Held
  <2> QED BY <1>3, <1>5, <2>4 DEF CursorOK
<1>9. \A u \in Threads : CursorOK(u)'
  BY <1>4, <1>5, <1>8 DEF CursorOK, NoLoop
<1> QED BY <1>7, <1>9 DEF ClaimsInv

\* A turn of an inheritance loop: x gets the priority of t, and y is next.
Turns(t, x, y) ==
  /\ x \in Threads /\ y \in Threads \cup {None} /\ x # t /\ x = fr[t].tp0
  /\ running = t /\ cpu = "lock" /\ pc[t] \in LoopLabels /\ prio[x] < prio[t]
  /\ prio' = [prio EXCEPT ![x] = prio[t]]
  /\ UNCHANGED <<running, cpu, owner, prio_orig, join_req, pc>>
  /\ \A u \in Threads : u # t => fr'[u] = fr[u]
  /\ fr'[t].tp0 = y /\ fr'[t].mtx = fr[t].mtx
  /\ WaitersKept /\ (y # None => y = Waker(x))
  /\ state[x] \in {"WAIT_MTX", "WAIT_EXIT"} => y = Waker(x)

LEMMA LoopTurns ==
  ASSUME KernelInv, NEW t \in Threads, LockInherit(t) \/ JoinInherit(t)
  PROVE  \E x \in Threads, y \in Threads \cup {None} : Turns(t, x, y)
<1>1. /\ fr \in [Threads -> Frame] /\ pc \in [Threads -> Labels]
      /\ state \in [Threads -> States] /\ parent \in [Threads -> Queues \cup {None}]
  BY KernelParts DEF ControlOK, Linkage
<1>2. PICK x : x = fr[t].tp0
  OBVIOUS
<1>3. /\ running = t /\ cpu = "lock" /\ pc[t] \in LoopLabels /\ x # None /\ prio[x] < prio[t]
      /\ prio' = [prio EXCEPT ![x] = prio[t]]
      /\ UNCHANGED <<running, cpu, owner, prio_orig, join_req, pc>>
  BY <1>2 DEF LockInherit, JoinInherit, Locked, Inherits, LoopLabels, cpuVars, flagVars, mutexVars
<1>4. x \in Threads /\ x # t
  <2>1. x \in Threads
    BY <1>1, <1>2, <1>3 DEF Frame
  <2> QED BY <1>3, <2>1, PriosInt
<1>5. PICK y : y = fr'[t].tp0
  OBVIOUS
<1>6. /\ y \in {None, Waker(x)} /\ (state[x] \notin {"WAIT_TIME", "WAIT_POLL"} => y = Waker(x))
      /\ fr'[t].mtx = fr[t].mtx /\ \A u \in Threads : u # t => fr'[u] = fr[u]
  BY <1>1, <1>2, <1>5 DEF LockInherit, JoinInherit, Frame
<1>7. y \in Threads \cup {None}
  BY <1>4, <1>6, WakerType
<1>8. WaitersKept
  <2>1. \/ UNCHANGED <<state, parent>>
        \/ /\ state[x] \in {"WAIT_TIME", "WAIT_POLL"}
           /\ state' = [state EXCEPT ![x] = "READY"] /\ parent' = [parent EXCEPT ![x] = "ready"]
    BY <1>2 DEF LockInherit, JoinInherit
  <2> QED BY <1>1, <1>4, <2>1 DEF WaitersKept
<1> QED BY <1>2, <1>3, <1>4, <1>5, <1>6, <1>7, <1>8 DEF Turns

\* The priority of the thread that waits goes to one that has to be waited for, and from there on to the
\* one that thread waits for.
LEMMA InheritClaims ==
  ASSUME KernelInv, KernelInv', LocksInv, PollInv, ClaimsInv, NEW t \in Threads, LockInherit(t) \/ JoinInherit(t)
  PROVE  ClaimsInv'
<1>1. PICK x \in Threads, y \in Threads \cup {None} : Turns(t, x, y)
  BY LoopTurns
<1>2. PICK pr : pr = prio[t]
  OBVIOUS
<1>3. prio \in [Nodes -> Prios] /\ x \in Nodes /\ \A u \in Threads : prio[u] \in Int /\ prio_orig[u] \in Int
  BY PrioType, PriosInt DEF Nodes
<1>4. /\ prio'[x] = pr /\ prio[x] < pr /\ pr \in Int /\ prio'[t] = pr
      /\ \A u \in Threads : u # x => prio'[u] = prio[u]
  BY <1>1, <1>2, <1>3 DEF Turns, Nodes
<1>5. Keeps
  <2>1. \A m \in Mutexes, w \in Threads : WaitsAt(w, m) => WaitsAt(w, m)'
    BY <1>1 DEF WaitsAt, Turns, WaitersKept
  <2>2. \A w \in Threads : prio[w] <= prio'[w]
    BY <1>3, <1>4
  <2> QED BY <1>1, <2>1, <2>2 DEF Keeps, Turns
<1>6. Deserves(x, pr)
  BY <1>1, <1>2, AddressAssumption DEF ClaimsInv, CursorOK, Turns, Nodes
<1>7. ClaimOK(x)'
  <2>1. Deserves(x, pr)'
    BY <1>4, <1>5, <1>6, DeservesKept
  <2>2. prio_orig'[x] = prio_orig[x] /\ prio_orig[x] <= prio[x]
    BY <1>1 DEF Turns, ClaimsInv, ClaimOK
  <2> QED BY <1>3, <1>4, <2>1, <2>2 DEF ClaimOK
<1>8. ASSUME NEW u \in Threads, u # x PROVE ClaimOK(u)'
  BY <1>1, <1>4, <1>5, <1>8, ClaimKept DEF ClaimsInv, Turns
<1>9. ASSUME y # None PROVE Deserves(y, pr)'
  <2>1. y = Waker(x) /\ y \in Threads
    BY <1>1, <1>9 DEF Turns
  <2>2. StateOK(x, state[x], parent[x], v[x])
    BY KernelParts DEF Linkage
  <2>3. CASE state[x] = "WAIT_MTX"
    <3>1. PICK m : m = parent[x]
      OBVIOUS
    <3>2. m \in Mutexes /\ owner[m] = y
      BY <2>1, <2>2, <2>3, <3>1 DEF Waker, StateOK
    <3>3. m \in Held(y)' /\ WaitsAt(x, m)'
      BY <1>1, <2>3, <3>1, <3>2 DEF Held, WaitsAt, Turns, WaitersKept
    <3>4. pr <= prio'[x]
      BY <1>4
    <3> QED BY <3>3, <3>4 DEF Deserves
  <2>4. CASE state[x] = "WAIT_EXIT"
    <3>1. y = v[x]
      BY <2>1, <2>4 DEF Waker
    <3>2. join_req[y]
      BY <2>4, <3>1 DEF PollInv, Noticed
    <3> QED BY <1>1, <3>2 DEF Deserves, Turns
  <2>5. state[x] \in {"WAIT_MTX", "WAIT_EXIT"}
    BY <1>9, <2>1 DEF Waker
  <2> QED BY <2>3, <2>4, <2>5
<1>10. pc[t] = "mtx_pi" => fr'[t].tp0 = owner'[fr'[t].mtx] \/ prio'[t] <= prio'[owner'[fr'[t].mtx]]
  <2> SUFFICES ASSUME pc[t] = "mtx_pi" PROVE prio'[t] <= prio'[owner'[fr'[t].mtx]]
    OBVIOUS
  <2>1. PICK o : o = owner[fr[t].mtx]
    OBVIOUS
  <2>2. x = o \/ prio[t] <= prio[o]
    BY <1>1, <2>1 DEF ClaimsInv, CursorOK, Turns, LoopLabels
  <2>3. o \in Threads
    <3>1. o # None
      BY <2>1, LocksOf DEF OfferOK
    <3>2. fr[t].mtx \in Mutexes /\ owner \in [Mutexes -> Threads \cup {None}]
      BY KernelParts DEF ControlOK, FrameOK, ResourceTypes
    <3> QED BY <2>1, <3>1, <3>2
  <2>4. pr <= prio'[o]
    BY <1>2, <1>3, <1>4, <2>2, <2>3
  <2> QED BY <1>1, <1>4, <2>1, <2>4 DEF Turns
<1>11. CursorOK(t)'
  BY <1>1, <1>4, <1>9, <1>10 DEF CursorOK, Turns
<1>12. \A u \in Threads : u # t => pc'[u] \notin LoopLabels
  BY <1>1 DEF ClaimsInv, CursorOK, Turns
<1> QED BY <1>7, <1>8, <1>11, <1>12 DEF ClaimsInv, CursorOK

\* The loops end: the thread that waits is asleep.
LEMMA LoopEndClaims ==
  ASSUME KernelInv, KernelInv', ClaimsInv, NEW t \in Threads, LockBlock(t) \/ JoinSleep(t)
  PROVE  ClaimsInv'
<1>1. /\ pc \in [Threads -> Labels] /\ fr \in [Threads -> Frame]
      /\ state \in [Threads -> States] /\ parent \in [Threads -> Queues \cup {None}]
  BY KernelParts DEF ControlOK, Linkage
<1>2. /\ running = t /\ cpu = "lock" /\ UNCHANGED <<prio, prio_orig, owner, join_req>>
      /\ \A u \in Threads : u # t => pc'[u] = pc[u] /\ state'[u] = state[u] /\ parent'[u] = parent[u]
      /\ pc'[t] \in {"mtx_lock", "join_woken"}
  BY <1>1 DEF LockBlock, JoinSleep, Locked, Goto, prioVars, mutexVars, flagVars, queueVars
<1>3. \A u \in Threads : u # t => pc[u] \notin LoopLabels
  BY <1>2 DEF ClaimsInv, CursorOK
<1>4. NoLoop'
  BY <1>2, <1>3 DEF NoLoop, LoopLabels
<1>5. \A m \in Mutexes : WaitsAt(t, m) => WaitsAt(t, m)'
  <2>1. CASE LockBlock(t)
    <3>1. state[t] = "RUNNING"
      BY <2>1, LockedFacts DEF LockBlock
    <3> QED BY <1>1, <2>1, <3>1 DEF LockBlock, WaitsAt
  <2>2. CASE JoinSleep(t)
    BY <2>2 DEF JoinSleep, Locked, WaitsAt, queueVars
  <2> QED BY <2>1, <2>2
<1>6. Keeps
  <2>1. \A m \in Mutexes, w \in Threads : WaitsAt(w, m) => WaitsAt(w, m)'
    BY <1>2, <1>3, <1>5 DEF WaitsAt, LoopLabels
  <2>2. \A w \in Threads : prio[w] <= prio'[w]
    BY <1>2, PriosInt
  <2> QED BY <1>2, <2>1, <2>2 DEF Keeps
<1> QED BY <1>2, <1>4, <1>6, ClaimsKept

\* The loop of chopstx_join starts.
LEMMA JoinBlockClaims ==
  ASSUME KernelInv, KernelInv', ClaimsInv, NEW t \in Threads, JoinBlock(t)
  PROVE  ClaimsInv'
<1>1. /\ pc \in [Threads -> Labels] /\ fr \in [Threads -> Frame] /\ join_req \in [Threads -> BOOLEAN]
      /\ state \in [Threads -> States] /\ parent \in [Threads -> Queues \cup {None}]
  BY KernelParts DEF ControlOK, Linkage, ResourceTypes
<1>2. Runs(t, "join")
  BY DEF JoinBlock
<1>3. running = t /\ cpu = "user" /\ state[t] = "RUNNING" /\ fr[t].tgt \in Threads
  BY <1>2, RunsFacts DEF FrameOK
<1>4. NoLoop
  BY <1>3, NoLoopNow
<1>5. /\ UNCHANGED <<prio, prio_orig, owner, running>> /\ cpu' = "lock"
      /\ \A u \in Threads : u # t => pc'[u] = pc[u] /\ state'[u] = state[u] /\ parent'[u] = parent[u]
      /\ pc'[t] = "join_pi" /\ fr'[t].tp0 = fr[t].tgt /\ join_req'[fr[t].tgt]
      /\ \A u \in Threads : join_req[u] => join_req'[u]
  BY <1>1, <1>3 DEF JoinBlock, Goto, prioVars, mutexVars, Frame
<1>6. Keeps
  <2>1. \A m \in Mutexes, w \in Threads : WaitsAt(w, m) => WaitsAt(w, m)'
    BY <1>3, <1>4, <1>5 DEF WaitsAt, NoLoop, LoopLabels
  <2>2. \A w \in Threads : prio[w] <= prio'[w]
    BY <1>5, PriosInt
  <2> QED BY <1>5, <2>1, <2>2 DEF Keeps
<1>7. \A u \in Threads : ClaimOK(u)'
  BY <1>5, <1>6, ClaimKept DEF ClaimsInv
<1>8. CursorOK(t)'
  BY <1>3, <1>5 DEF CursorOK, Deserves
<1>9. \A u \in Threads : CursorOK(u)'
  BY <1>4, <1>5, <1>8 DEF CursorOK, NoLoop
<1> QED BY <1>7, <1>9 DEF ClaimsInv

\* chopstx_setpriority lowers an inherited priority never.
LEMMA SetPriorityClaims ==
  ASSUME KernelInv, KernelInv', ClaimsInv, NEW t \in Threads, NEW new \in NewPrios, SetPriorityCall(t, new)
  PROVE  ClaimsInv'
<1>1. Runs(t, "user")
  BY DEF SetPriorityCall, Calls
<1>2. running = t /\ cpu = "user" /\ state[t] = "RUNNING"
  BY <1>1, RunsFacts
<1>3. NoLoop
  BY <1>2, NoLoopNow
<1>4. /\ UNCHANGED <<owner, state, parent, join_req, pc>>
      /\ \A u \in Threads : u # t => prio'[u] = prio[u] /\ prio_orig'[u] = prio_orig[u]
  <2>1. prio \in [Nodes -> Prios] /\ prio_orig \in [Threads -> Prios] /\ Threads \subseteq Nodes
    BY PrioType DEF Nodes
  <2> QED BY <2>1 DEF SetPriorityCall, mutexVars, queueVars, flagVars
<1>5. Keeps
  <2>1. \A m \in Mutexes, w \in Threads : WaitsAt(w, m) => WaitsAt(w, m)' /\ w # t
    BY <1>2, <1>3, <1>4 DEF WaitsAt, NoLoop, LoopLabels
  <2>2. \A w \in Threads : w # t => prio[w] <= prio'[w]
    BY <1>4, PriosInt
  <2> QED BY <1>4, <2>1, <2>2 DEF Keeps
<1>6. ASSUME NEW u \in Threads, u # t PROVE ClaimOK(u)'
  BY <1>4, <1>5, <1>6, ClaimKept DEF ClaimsInv
<1>7. ClaimOK(t)'
  <2>1. /\ prio'[t] = IF prio[t] = prio_orig[t] \/ new > prio[t] THEN new ELSE prio[t]
        /\ prio_orig'[t] = new
    <3>1. prio \in [Nodes -> Prios] /\ prio_orig \in [Threads -> Prios] /\ t \in Nodes
      BY PrioType DEF Nodes
    <3> QED BY <3>1 DEF SetPriorityCall
  <2>2. new \in Int /\ prio[t] \in Int /\ prio_orig[t] \in Int
    <3>1. new \in Prios
      BY ConstantsAssumption
    <3> QED BY <3>1, PriosInt DEF Prios
  <2>3. CASE prio[t] = prio_orig[t] \/ new > prio[t]
    BY <2>1, <2>2, <2>3 DEF ClaimOK
  <2>4. CASE ~(prio[t] = prio_orig[t] \/ new > prio[t])
    <3>1. prio'[t] = prio[t] /\ prio_orig'[t] = new /\ new <= prio[t] /\ prio[t] # prio_orig[t]
      BY <2>1, <2>2, <2>4
    <3>2. Deserves(t, prio[t])
      BY <2>2, <3>1 DEF ClaimsInv, ClaimOK
    <3>3. PICK pr : pr = prio[t]
      OBVIOUS
    <3>4. Deserves(t, pr)'
      BY <1>5, <2>2, <3>2, <3>3, DeservesKept
    <3> QED BY <3>1, <3>3, <3>4 DEF ClaimOK
  <2> QED BY <2>3, <2>4
<1>8. \A u \in Threads : CursorOK(u)'
  BY <1>3, <1>4 DEF CursorOK, NoLoop
<1> QED BY <1>6, <1>7, <1>8 DEF ClaimsInv

-----------------------------------------------------------------------------
(* Claims: chx_mutex_unlock.                                                 *)

\* What chx_mutex_unlock does to the mutexes held and to the priorities of the other threads.
LEMMA ReleaseFacts ==
  ASSUME KernelInv, LocksInv, NEW t \in Threads, NEW m \in Mutexes, m = mutex_list[t], MutexRelease(t, m)
  PROVE  /\ owner[m] = t /\ Chain(list[m]) = Held(t) \ {m}
         /\ Held(t)' = Held(t) \ {m} /\ \A u \in Threads : u # t => Held(u)' = Held(u)
         /\ owner' = [owner EXCEPT ![m] = None]
         /\ \A u \in Threads : u # t => prio'[u] = prio[u]
<1>1. /\ ResourceTypes /\ owner' = [owner EXCEPT ![m] = None] /\ prio \in [Nodes -> Prios]
  BY KernelParts, PrioType DEF MutexRelease
<1>2. PICK S : S = Held(t)
  OBVIOUS
<1>3. S \in SUBSET Mutexes /\ ListOf(list, m, S) /\ DOMAIN list = Mutexes
  BY <1>1, <1>2, LocksOf DEF Held, ResourceTypes
<1>4. m \in S /\ ListOf(list, list[m], S \ {m})
  BY ONLY <1>3, ReleaseList, m \in Mutexes
<1>5. PICK x, R : x = list[m] /\ R = S \ {m}
  OBVIOUS
<1>6. R \in SUBSET Mutexes /\ ListOf(list, x, R)
  BY <1>3, <1>4, <1>5
<1>7. Chain(x) = R
  BY <1>6, ChainIsList
<1>8. owner[m] = t
  BY <1>2, <1>4 DEF Held
<1>9. Held(t)' = Held(t) \ {m} /\ \A u \in Threads : u # t => Held(u)' = Held(u)
  <2>1. None \notin Threads
    BY AddressAssumption DEF Nodes
  <2> QED BY <1>1, <1>8, <2>1 DEF Held, ResourceTypes
<1>10. \A u \in Threads : u # t => prio'[u] = prio[u]
  BY <1>1 DEF MutexRelease, Nodes
<1> QED BY <1>1, <1>2, <1>5, <1>7, <1>8, <1>9, <1>10

\* Who waits for another mutex goes on waiting; nobody starts to.
LEMMA ReleaseWaiters ==
  ASSUME KernelInv, NEW t \in Threads, NEW m \in Mutexes, MutexRelease(t, m)
  PROVE  \A u \in Threads :
           /\ state'[u] = "WAIT_MTX" => state[u] = "WAIT_MTX" /\ parent'[u] = parent[u]
           /\ state[u] = "WAIT_MTX" /\ parent[u] # m => state'[u] = "WAIT_MTX" /\ parent'[u] = parent[u]
<1>1. state \in [Threads -> States] /\ parent \in [Threads -> Queues \cup {None}] /\ m \in Queues
  BY KernelParts DEF Linkage, Queues, Objects
<1>2. CASE q[m] = << >>
  BY <1>2 DEF MutexRelease, queueVars
<1>3. CASE q[m] # << >>
  <2>1. PICK w : w = Head(q[m])
    OBVIOUS
  <2>2. w \in Threads /\ parent[w] = m
    BY <1>1, <1>3, <2>1, MutexHead, SMTT(60), ZenonT(60) DEF Places
  <2>3. state' = [state EXCEPT ![w] = "READY"] /\ parent' = [parent EXCEPT ![w] = "ready"]
    BY <1>3, <2>1 DEF MutexRelease, MakeReady
  <2> QED BY <1>1, <2>2, <2>3
<1> QED BY <1>2, <1>3

\* The priority that is left is that of the thread, or of the first waiter of a mutex it still holds.
LEMMA ReleasePrio ==
  ASSUME KernelInv, LocksInv, NEW t \in Threads, NEW m \in Mutexes, m = mutex_list[t], MutexRelease(t, m),
         q[m] # << >>
  PROVE  /\ prio_orig[t] <= prio'[t]
         /\ \A n \in Held(t) \ {m} : q[n] # << >> => prio[Head(q[n])] <= prio'[t]
         /\ \/ prio'[t] = prio_orig[t]
            \/ \E n \in Held(t) \ {m} : q[n] # << >> /\ prio'[t] = prio[Head(q[n])]
<1> DEFINE Q == [q EXCEPT ![m] = Tail(@)]
<1>1. PICK C : C = Held(t) \ {m}
  OBVIOUS
<1>2. PICK pr \in Claims(t, C, Q) : (\A c \in Claims(t, C, Q) : c <= pr) /\ prio' = [prio EXCEPT ![t] = pr]
  <2>1. PICK H : H = Chain(list[m])
    OBVIOUS
  <2>2. PICK pr \in Claims(t, H, Q) : (\A c \in Claims(t, H, Q) : c <= pr) /\ prio' = [prio EXCEPT ![t] = pr]
    BY <2>1 DEF MutexRelease
  <2>3. H = C
    BY <1>1, <2>1, ReleaseFacts
  <2> QED BY <2>2, <2>3
<1>3. prio'[t] = pr
  BY <1>2, PrioType DEF Nodes
<1>4. C \subseteq Mutexes /\ m \notin C
  BY <1>1 DEF Held
<1>5. \A n \in C : Q[n] = q[n]
  BY <1>4, KernelParts DEF Linkage, ListsOK, Queues, Objects
<1>6. prio_orig[t] \in Claims(t, C, Q) /\ \A n \in C : q[n] # << >> => prio[Head(q[n])] \in Claims(t, C, Q)
  BY <1>4, <1>5 DEF Claims
<1>7. pr = prio_orig[t] \/ \E n \in C : q[n] # << >> /\ pr = prio[Head(q[n])]
  BY <1>2, <1>4, <1>5 DEF Claims
<1> QED BY <1>1, <1>2, <1>3, <1>6, <1>7

LEMMA ReleaseClaims ==
  ASSUME KernelInv, KernelInv', LocksInv, ClaimsInv, NEW t \in Threads, state[t] = "RUNNING", NoLoop, NoLoop',
         NEW m \in Mutexes, m = mutex_list[t], MutexRelease(t, m), UNCHANGED <<prio_orig, join_req>>
  PROVE  ClaimsInv'
<1>1. /\ owner[m] = t /\ Held(t)' = Held(t) \ {m} /\ \A u \in Threads : u # t => Held(u)' = Held(u)
      /\ \A u \in Threads : u # t => prio'[u] = prio[u]
  BY ReleaseFacts
<1>2. \A u \in Threads, n \in Mutexes : n # m /\ WaitsAt(u, n) => WaitsAt(u, n)' /\ prio'[u] = prio[u]
  BY <1>1, ReleaseWaiters DEF WaitsAt, NoLoop, LoopLabels
<1>3. \A u \in Threads : prio[u] \in Int /\ prio_orig[u] \in Int /\ prio'[u] \in Int
  BY PriosInt, PriosIntNext
<1>4. ASSUME NEW u \in Threads, u # t PROVE ClaimOK(u)'
  <2>1. ClaimOK(u) /\ prio'[u] = prio[u] /\ prio_orig'[u] = prio_orig[u]
    BY <1>1, <1>4 DEF ClaimsInv
  <2>2. ASSUME Deserves(u, prio[u]) PROVE Deserves(u, prio[u])'
    <3>1. CASE join_req[u]
      BY <3>1 DEF Deserves
    <3>2. CASE ~join_req[u]
      <4>1. PICK n \in Held(u), w \in Threads : WaitsAt(w, n) /\ prio[u] <= prio[w]
        BY <2>2, <3>2 DEF Deserves
      <4>2. n \in Mutexes /\ n # m /\ n \in Held(u)'
        BY <1>1, <1>4, <4>1 DEF Held
      <4>3. WaitsAt(w, n)' /\ prio'[w] = prio[w]
        BY <1>2, <4>1, <4>2
      <4> QED BY <2>1, <4>1, <4>2, <4>3 DEF Deserves
    <3> QED BY <3>1, <3>2
  <2> QED BY <2>1, <2>2 DEF ClaimOK
<1>5. ASSUME q[m] = << >> PROVE ClaimOK(t)'
  <2>1. ClaimOK(t) /\ prio' = prio
    BY <1>5 DEF MutexRelease, ClaimsInv
  <2>2. ASSUME NEW w \in Threads PROVE ~WaitsAt(w, m)
    <3>1. Linkage(q, state, parent, v) /\ w \notin ToSet(q[m])
      BY <1>5, KernelParts DEF ToSet
    <3>2. ~(state[w] = "WAIT_MTX" /\ parent[w] = m)
      BY <3>1, WaitersLinked
    <3> QED BY <3>2 DEF WaitsAt, NoLoop, LoopLabels
  <2>3. ASSUME Deserves(t, prio[t]) PROVE Deserves(t, prio[t])'
    <3>1. CASE join_req[t]
      BY <3>1 DEF Deserves
    <3>2. CASE ~join_req[t]
      <4>1. PICK n \in Held(t), w \in Threads : WaitsAt(w, n) /\ prio[t] <= prio[w]
        BY <2>3, <3>2 DEF Deserves
      <4>2. n \in Mutexes /\ n # m /\ n \in Held(t)'
        BY <1>1, <2>2, <4>1 DEF Held
      <4>3. WaitsAt(w, n)' /\ prio'[w] = prio[w]
        BY <1>2, <4>1, <4>2
      <4> QED BY <2>1, <4>1, <4>2, <4>3 DEF Deserves
    <3> QED BY <3>1, <3>2
  <2> QED BY <2>1, <2>3 DEF ClaimOK
<1>6. ASSUME q[m] # << >> PROVE ClaimOK(t)'
  <2>1. /\ prio_orig[t] <= prio'[t]
        /\ prio'[t] = prio_orig[t] \/ \E n \in Held(t) \ {m} : q[n] # << >> /\ prio'[t] = prio[Head(q[n])]
    BY <1>6, ReleasePrio
  <2>2. CASE prio'[t] = prio_orig[t]
    BY <1>3, <2>2 DEF ClaimOK
  <2>3. ASSUME NEW n \in Held(t) \ {m}, q[n] # << >>, prio'[t] = prio[Head(q[n])] PROVE ClaimOK(t)'
    <3>1. PICK w : w = Head(q[n])
      OBVIOUS
    <3>2. n \in Mutexes /\ n \in Queues /\ n # m
      BY DEF Held, Queues, Objects
    <3>3. w \in Threads /\ state[w] = "WAIT_MTX" /\ Places(w, state[w], parent[w]) = {n}
      BY <2>3, <3>1, <3>2, MutexHead
    <3>4. parent[w] = n
      BY <3>3 DEF Places
    <3>5. WaitsAt(w, n)' /\ prio'[w] = prio[w]
      BY <1>2, <3>2, <3>3, <3>4 DEF WaitsAt
    <3>6. prio'[t] <= prio'[w]
      BY <1>3, <2>3, <3>1, <3>5
    <3>7. Deserves(t, prio[t])'
      BY <1>1, <3>3, <3>5, <3>6 DEF Deserves
    <3> QED BY <2>1, <3>7 DEF ClaimOK
  <2> QED BY <2>1, <2>2, <2>3
<1>7. \A u \in Threads : CursorOK(u)'
  BY DEF CursorOK, NoLoop
<1> QED BY <1>4, <1>5, <1>6, <1>7 DEF ClaimsInv

\* What is common to the sections that release a mutex: it is the last one locked, and no inheritance loop
\* is going on.
Releases(t, m) ==
  /\ state[t] = "RUNNING" /\ NoLoop /\ NoLoop' /\ m = mutex_list[t]
  /\ MutexRelease(t, m) /\ UNCHANGED <<prio_orig, join_req>>

LEMMA ReleaseSteps ==
  ASSUME KernelInv, LocksInv, ClaimsInv, NEW t \in Threads,
         UnlockCall(t) \/ WaitRelease(t) \/ ExitRelease(t) \/ HookUnlock(t)
  PROVE  Plain \/ \E m \in Mutexes : Releases(t, m)
<1>1. /\ state[t] = "RUNNING" /\ cpu = "user" /\ fr[t].mtx \in Mutexes \cup {None} /\ mutex_list[t] \in Mutexes \cup {None}
      /\ pc \in [Threads -> Labels]
  BY RunsFacts, ThreadFacts, KernelParts
     DEF UnlockCall, WaitRelease, ExitRelease, HookUnlock, Calls, Frame, ResourceTypes, ControlOK
<1>2. NoLoop
  BY <1>1, NoLoopNow
<1>3. NoLoop' /\ UNCHANGED <<prio_orig, join_req>>
  <2>1. UNCHANGED <<prio_orig, join_req>>
    BY DEF UnlockCall, WaitRelease, ExitRelease, HookUnlock, Unlock, prioVars, flagVars
  <2>2. pc' = pc \/ pc' = [pc EXCEPT ![t] = "cond_block"] \/ pc' = [pc EXCEPT ![t] = "hook"]
    BY DEF UnlockCall, WaitRelease, ExitRelease, HookUnlock, Goto
  <2> QED BY <1>1, <1>2, <2>1, <2>2 DEF NoLoop, LoopLabels
<1>4. ASSUME UNCHANGED <<state, parent, owner, prio>> PROVE Plain
  BY <1>2, <1>3, <1>4 DEF Plain, WaitersKept
<1>5. CASE UnlockCall(t)
  BY <1>1, <1>2, <1>3, <1>5 DEF UnlockCall, Unlock, Releases
<1>6. CASE WaitRelease(t)
  <2>1. fr[t].mtx = mutex_list[t]
    BY <1>6, LocksOf DEF WaitRelease, Runs, CallOK
  <2> QED BY <1>1, <1>2, <1>3, <1>4, <1>6, <2>1 DEF WaitRelease, Releases, queueVars, mutexVars
<1>7. CASE ExitRelease(t)
  <2>1. fr[t].mtx = mutex_list[t]
    BY <1>7, LocksOf DEF ExitRelease, Runs, CallOK
  <2> QED BY <1>1, <1>2, <1>3, <1>7, <2>1 DEF ExitRelease, Releases
<1>8. CASE HookUnlock(t)
  <2>1. Pd(t) \in Pds
    BY <1>8, RunsFacts, PdIs DEF HookUnlock, FrameOK, Pd
  <2>2. PICK m : m = PdMutex[Pd(t)]
    OBVIOUS
  <2>3. m \in Mutexes \cup {None}
    BY <2>1, <2>2, ConstantsAssumption
  <2>4. m # None => mutex_list[t] = m
    <3>1. pc[t] = "hook_unlock" /\ CallOK(t, "hook_unlock", fr[t], Held(t), mutex_list[t])
      BY <1>8, LocksOf DEF HookUnlock, Runs
    <3> QED BY <2>2, <3>1 DEF CallOK, Hooked, Pd
  <2>5. CASE m = None
    BY <1>4, <1>8, <2>2, <2>5 DEF HookUnlock, queueVars, mutexVars, prioVars
  <2>6. CASE m # None
    BY <1>1, <1>2, <1>3, <1>8, <2>2, <2>3, <2>4, <2>6 DEF HookUnlock, Unlock, Releases
  <2> QED BY <2>5, <2>6
<1> QED BY <1>5, <1>6, <1>7, <1>8

-----------------------------------------------------------------------------
(* Claims: the theorems.                                                     *)

LEMMA NextClaims ==
  ASSUME KernelInv, LocksInv, PollInv, ClaimsInv, [Next]_vars
  PROVE  ClaimsInv'
<1>1. KernelInv'
  BY NextInv, StutterInv
<1>2. CASE Plain \/ Frozen
  BY <1>2, PlainClaims, FrozenClaims
<1>3. ASSUME NEW t \in Threads, UnlockCall(t) \/ WaitRelease(t) \/ ExitRelease(t) \/ HookUnlock(t)
      PROVE  ClaimsInv'
  BY <1>1, <1>2, <1>3, ReleaseSteps, ReleaseClaims DEF Releases
<1>4. ASSUME NEW t \in Threads,
             \/ LockAcquire(t) \/ LockHeld(t) \/ LockInherit(t) \/ LockBlock(t)
             \/ JoinBlock(t) \/ JoinInherit(t) \/ JoinSleep(t)
             \/ \E new \in NewPrios : SetPriorityCall(t, new)
      PROVE  ClaimsInv'
  BY <1>1, <1>4, LockAcquireClaims, LockHeldClaims, InheritClaims, LoopEndClaims, JoinBlockClaims, SetPriorityClaims
<1> QED BY <1>2, <1>3, <1>4, PlainOrNot

LEMMA InitClaims ==
  ASSUME Init
  PROVE  ClaimsInv
<1>1. \A t \in Threads : prio[t] = prio_orig[t] /\ prio[t] \in Int /\ pc[t] \notin LoopLabels
  <2>1. KernelInv
    BY InitInv
  <2>2. \A t \in Threads : prio[t] = prio_orig[t] /\ pc[t] \notin LoopLabels
    BY DEF Init, Nodes, LoopLabels
  <2> QED BY <2>1, <2>2, PriosInt
<1> QED BY <1>1 DEF ClaimsInv, ClaimOK, CursorOK

\* Whoever runs above its own priority is waited for, and an inheritance loop gives the priority only to
\* threads its own thread waits for, through mutexes and exits.
THEOREM ClaimsInvariant == Spec => []ClaimsInv
<1>1. KernelInv /\ LocksInv /\ PollInv /\ ClaimsInv /\ [Next]_vars => ClaimsInv'
  BY NextClaims
<1> QED BY <1>1, InitClaims, KernelInvariant, LocksInvariant, PollInvariant, PTL DEF Spec

\* No priority outlives its reason: a thread that nobody joins runs above its own priority only while
\* a thread with at least that priority sleeps for a mutex it holds.
THEOREM PriorityIsGivenBack == Spec => []PriorityGivenBack
<1>1. KernelInv /\ ClaimsInv => PriorityGivenBack
  <2> SUFFICES ASSUME KernelInv, ClaimsInv, cpu = "user", NEW t \in Threads, prio[t] > prio_orig[t], ~join_req[t]
               PROVE  \E m \in Held(t) : \E w \in ToSet(q[m]) : prio[t] <= prio[w]
    BY DEF PriorityGivenBack
  <2>1. NoLoop
    BY NoLoopNow
  <2>2. PICK m \in Held(t), w \in Threads : WaitsAt(w, m) /\ prio[t] <= prio[w]
    BY DEF ClaimsInv, ClaimOK, Deserves
  <2>3. state[w] = "WAIT_MTX" /\ parent[w] = m /\ m \in Mutexes
    BY <2>1, <2>2 DEF WaitsAt, NoLoop, LoopLabels, Held
  <2>4. w \in ToSet(q[m])
    BY <2>3, WaitersLinked, KernelParts
  <2> QED BY <2>2, <2>4
<1> QED BY <1>1, KernelInvariant, ClaimsInvariant, PTL

-----------------------------------------------------------------------------
(* Inheritance: owners outrank those who wait for them, and go on doing so.  *)

\* Thread u has priority pr, or is about to get it.
AtLeast(u, pr) ==
  pr <= prio[u] \/ \E t \in Threads : pc[t] \in LoopLabels /\ fr[t].tp0 = u /\ pr <= prio[t]

LEMMA SoonIs ==
  ASSUME KernelInv, ClaimsInv, NEW u \in Threads, NEW pr \in Int
  PROVE  pr <= PrioSoon(u) <=> AtLeast(u, pr)
<1>1. \A t \in Threads : prio[t] \in Int
  BY PriosInt
<1>2. \A t \in Threads : pc[t] \in LoopLabels => running = t
  BY DEF ClaimsInv, CursorOK
<1> QED BY <1>1, <1>2 DEF PrioSoon, AtLeast, LoopLabels

LEMMA SoonIsNext ==
  ASSUME KernelInv', ClaimsInv', NEW u \in Threads, NEW pr \in Int
  PROVE  (pr <= PrioSoon(u)') <=> AtLeast(u, pr)'
<1>1. \A t \in Threads : prio'[t] \in Int
  BY PriosIntNext
<1>2. \A t \in Threads : pc'[t] \in LoopLabels => running' = t
  BY DEF ClaimsInv, CursorOK
<1> QED BY <1>1, <1>2 DEF PrioSoon, AtLeast, LoopLabels

\* The waiter w of a mutex is still outranked by the owner, if the owner has not lost the priority.
LEMMA StillOutranked ==
  ASSUME KernelInv, KernelInv', ClaimsInv, ClaimsInv', NEW m \in Mutexes, NEW w \in Threads, OutrankOK(m, w),
         state'[w] = "WAIT_MTX" /\ parent'[w] = m => state[w] = "WAIT_MTX" /\ parent[w] = m,
         owner'[m] \in {owner[m], None}, prio'[w] = prio[w],
         owner'[m] = owner[m] /\ owner[m] \in Threads /\ AtLeast(owner[m], prio[w]) => AtLeast(owner[m], prio[w])'
  PROVE  OutrankOK(m, w)'
<1> SUFFICES ASSUME owner'[m] # None, state'[w] = "WAIT_MTX", parent'[w] = m
             PROVE  prio'[w] <= PrioSoon(owner[m])'
  BY DEF OutrankOK
<1>1. owner \in [Mutexes -> Threads \cup {None}]
  BY KernelParts DEF ResourceTypes
<1>2. PICK o, pr : o = owner[m] /\ pr = prio[w]
  OBVIOUS
<1>3. o \in Threads /\ pr \in Int /\ owner'[m] = o /\ prio'[w] = pr
  BY <1>1, <1>2, PriosInt
<1>4. pr <= PrioSoon(o)
  BY <1>2, <1>3 DEF OutrankOK
<1>5. AtLeast(o, pr)
  BY <1>3, <1>4, SoonIs
<1>6. AtLeast(o, pr)'
  <2>1. AtLeast(owner[m], prio[w])'
    BY <1>2, <1>3, <1>5
  <2> QED BY <1>3, <2>1 DEF AtLeast
<1>7. pr <= PrioSoon(o)'
  BY <1>3, <1>6, SoonIsNext
<1> QED BY <1>3, <1>7

\* The cursor of a loop that is going on is the running thread's.
LEMMA AtLeastLoop ==
  ASSUME ClaimsInv, NEW t, running = t, NEW u \in Threads, NEW pr, AtLeast(u, pr)
  PROVE  pr <= prio[u] \/ (t \in Threads /\ pc[t] \in LoopLabels /\ fr[t].tp0 = u /\ pr <= prio[t])
BY DEF AtLeast, ClaimsInv, CursorOK

LEMMA AtLeastNoLoop ==
  ASSUME NoLoop, NEW u \in Threads, NEW pr, AtLeast(u, pr)
  PROVE  pr <= prio[u]
BY DEF AtLeast, NoLoop

\* The sections in which a thread finds a mutex locked, or waits for an exit, up to the loop.
LEMMA LoopStartOutrank ==
  ASSUME KernelInv, KernelInv', ClaimsInv, ClaimsInv', NEW t \in Threads, LockHeld(t) \/ JoinBlock(t),
         NEW m \in Mutexes, NEW w \in Threads, OutrankOK(m, w)
  PROVE  OutrankOK(m, w)'
<1>1. cpu = "user"
  BY DEF LockHeld, JoinBlock, Runs
<1>2. NoLoop
  BY <1>1, NoLoopNow
<1>3. UNCHANGED <<owner, prio>>
  BY DEF LockHeld, JoinBlock, mutexVars, prioVars
<1>4. state'[w] = "WAIT_MTX" /\ parent'[w] = m => state[w] = "WAIT_MTX" /\ parent[w] = m
  <2>1. state \in [Threads -> States] /\ parent \in [Threads -> Queues \cup {None}]
    BY KernelParts DEF Linkage
  <2> QED BY <2>1 DEF LockHeld, JoinBlock, queueVars
<1>5. owner[m] \in Threads /\ AtLeast(owner[m], prio[w]) => AtLeast(owner[m], prio[w])'
  BY <1>2, <1>3 DEF AtLeast, NoLoop
<1> QED BY <1>3, <1>4, <1>5, StillOutranked

\* A turn of a loop: the thread that got the priority passes it on.
LEMMA LoopTurnOutrank ==
  ASSUME KernelInv, KernelInv', ClaimsInv, ClaimsInv', NEW t \in Threads, LockInherit(t) \/ JoinInherit(t),
         NEW m \in Mutexes, NEW w \in Threads, OutrankOK(m, w)
  PROVE  OutrankOK(m, w)'
<1>1. PICK x \in Threads, y \in Threads \cup {None} : Turns(t, x, y)
  BY LoopTurns
<1>2. PICK pr : pr = prio[t]
  OBVIOUS
<1>3. prio \in [Nodes -> Prios] /\ x \in Nodes /\ \A u \in Threads : prio[u] \in Int
  BY PrioType, PriosInt DEF Nodes
<1>4. /\ prio'[x] = pr /\ prio[x] < pr /\ pr \in Int /\ prio'[t] = pr
      /\ \A u \in Threads : u # x => prio'[u] = prio[u]
  BY <1>1, <1>2, <1>3 DEF Turns, Nodes
<1>5. owner' = owner /\ (state'[w] = "WAIT_MTX" /\ parent'[w] = m => state[w] = "WAIT_MTX" /\ parent[w] = m)
  BY <1>1 DEF Turns, WaitersKept
<1>6. CASE w # x
  <2>1. ASSUME owner[m] \in Threads, AtLeast(owner[m], prio[w]) PROVE AtLeast(owner[m], prio[w])'
    <3>1. PICK o, p0 : o = owner[m] /\ p0 = prio[w]
      OBVIOUS
    <3>2. p0 <= prio[o] \/ (fr[t].tp0 = o /\ p0 <= prio[t])
      BY <1>1, <2>1, <3>1, AtLeastLoop DEF Turns
    <3>3. p0 \in Int /\ o \in Threads
      BY <1>3, <2>1, <3>1
    <3>4. p0 <= prio'[o]
      BY <1>1, <1>2, <1>3, <1>4, <3>2, <3>3 DEF Turns
    <3> QED BY <1>4, <1>5, <1>6, <3>1, <3>4 DEF AtLeast
  <2> QED BY <1>4, <1>5, <1>6, <2>1, StillOutranked
<1>7. CASE w = x
  <2> SUFFICES ASSUME owner'[m] # None, state'[w] = "WAIT_MTX", parent'[w] = m
               PROVE  prio'[w] <= PrioSoon(owner[m])'
    BY DEF OutrankOK
  <2>1. PICK o : o = owner[m]
    OBVIOUS
  <2>2. o \in Threads /\ owner'[m] = o
    BY <1>5, <2>1, KernelParts DEF ResourceTypes
  <2>3. y = o
    BY <1>1, <1>5, <1>7, <2>1 DEF Turns, Waker
  <2>4. pc'[t] \in LoopLabels /\ fr'[t].tp0 = o
    BY <1>1, <2>3 DEF Turns
  <2>5. AtLeast(o, pr)'
    BY <1>4, <2>4 DEF AtLeast
  <2>6. pr <= PrioSoon(o)'
    BY <1>4, <2>2, <2>5, SoonIsNext
  <2> QED BY <1>4, <1>7, <2>2, <2>6
<1> QED BY <1>6, <1>7

\* The loop has come to its end: whoever the thread waits for has its priority, or more.
LEMMA LoopEndOutrank ==
  ASSUME KernelInv, KernelInv', LocksInv, ClaimsInv, ClaimsInv', NEW t \in Threads, LockBlock(t) \/ JoinSleep(t),
         NEW m \in Mutexes, NEW w \in Threads, OutrankOK(m, w)
  PROVE  OutrankOK(m, w)'
<1>1. /\ fr \in [Threads -> Frame] /\ owner \in [Mutexes -> Threads \cup {None}]
      /\ state \in [Threads -> States] /\ parent \in [Threads -> Queues \cup {None}]
  BY KernelParts DEF ControlOK, Linkage, ResourceTypes
<1>2. /\ running = t /\ cpu = "lock" /\ UNCHANGED <<prio, owner>> /\ ~Inherits(t)
      /\ \A u \in Threads : u # t => state'[u] = state[u] /\ parent'[u] = parent[u]
  BY <1>1 DEF LockBlock, JoinSleep, Locked, prioVars, mutexVars, queueVars
<1>3. fr[t].tp0 # None => prio[t] <= prio[fr[t].tp0]
  <2>1. fr[t].tp0 \in Threads \cup {None}
    BY <1>1 DEF Frame
  <2> QED BY <1>2, <2>1, PriosInt DEF Inherits
<1>4. CASE w # t \/ JoinSleep(t)
  <2>1. state'[w] = "WAIT_MTX" /\ parent'[w] = m => state[w] = "WAIT_MTX" /\ parent[w] = m
    BY <1>2, <1>4 DEF JoinSleep, queueVars
  <2>2. ASSUME owner[m] \in Threads, AtLeast(owner[m], prio[w]) PROVE AtLeast(owner[m], prio[w])'
    <3>1. PICK o, p0 : o = owner[m] /\ p0 = prio[w]
      OBVIOUS
    <3>2. p0 <= prio[o] \/ (fr[t].tp0 = o /\ p0 <= prio[t])
      BY <1>2, <2>2, <3>1, AtLeastLoop
    <3>3. p0 \in Int /\ o \in Threads /\ o # None /\ prio[o] \in Int /\ prio[t] \in Int
      BY <2>2, <3>1, PriosInt, AddressAssumption DEF Nodes
    <3>4. p0 <= prio[o]
      BY <1>3, <3>2, <3>3
    <3> QED BY <1>2, <3>1, <3>4 DEF AtLeast
  <2> QED BY <1>2, <2>1, <2>2, StillOutranked
<1>5. CASE w = t /\ LockBlock(t)
  <2> SUFFICES ASSUME owner'[m] # None, state'[w] = "WAIT_MTX", parent'[w] = m
               PROVE  prio'[w] <= PrioSoon(owner[m])'
    BY DEF OutrankOK
  <2>1. fr[t].mtx = m /\ pc[t] = "mtx_pi"
    BY <1>1, <1>5 DEF LockBlock, Locked
  <2>2. PICK o, p0 : o = owner[m] /\ p0 = prio[t]
    OBVIOUS
  <2>3. o \in Threads /\ owner'[m] = o /\ o # None
    BY <1>1, <1>2, <2>2
  <2>4. fr[t].tp0 = o \/ prio[t] <= prio[o]
    BY <2>1, <2>2 DEF ClaimsInv, CursorOK, LoopLabels
  <2>5. p0 \in Int /\ p0 <= prio[o] /\ prio'[t] = p0
    BY <1>2, <1>3, <2>2, <2>3, <2>4, PriosInt
  <2>6. AtLeast(o, p0)'
    BY <1>2, <2>5 DEF AtLeast
  <2>7. p0 <= PrioSoon(o)'
    BY <2>3, <2>5, <2>6, SoonIsNext
  <2> QED BY <1>5, <2>3, <2>5, <2>7
<1> QED BY <1>4, <1>5

\* A mutex nobody waits for is acquired.
LEMMA LockAcquireOutrank ==
  ASSUME KernelInv, KernelInv', ClaimsInv, ClaimsInv', NEW t \in Threads, LockAcquire(t),
         q[fr[t].mtx] = << >>, NEW m \in Mutexes, NEW w \in Threads, OutrankOK(m, w)
  PROVE  OutrankOK(m, w)'
<1>1. Runs(t, "mtx_lock")
  BY DEF LockAcquire
<1>2. cpu = "user" /\ fr[t].mtx \in Mutexes /\ owner \in [Mutexes -> Threads \cup {None}]
  BY <1>1, RunsFacts, KernelParts DEF FrameOK, ResourceTypes
<1>3. NoLoop
  BY <1>2, NoLoopNow
<1>4. UNCHANGED <<prio, state, parent>> /\ owner' = [owner EXCEPT ![fr[t].mtx] = t]
  BY DEF LockAcquire, queueVars, prioVars
<1>5. CASE m = fr[t].mtx
  <2>1. w \notin ToSet(q[m])
    BY <1>5 DEF ToSet
  <2>2. ~(state[w] = "WAIT_MTX" /\ parent[w] = m)
    BY <2>1, WaitersLinked, KernelParts
  <2> QED BY <1>4, <2>2 DEF OutrankOK
<1>6. CASE m # fr[t].mtx
  <2>1. owner[m] \in Threads /\ AtLeast(owner[m], prio[w]) => AtLeast(owner[m], prio[w])'
    BY <1>2, <1>3, <1>4, <1>6 DEF AtLeast, NoLoop
  <2> QED BY <1>2, <1>4, <1>6, <2>1, StillOutranked
<1> QED BY <1>5, <1>6

\* A thread that releases a mutex keeps a priority that all its waiters, behind the first ones, allow.
LEMMA ReleaseOutrank ==
  ASSUME KernelInv, KernelInv', LocksInv, QueuesSorted, ClaimsInv, ClaimsInv', NEW t \in Threads,
         NEW n \in Mutexes, Releases(t, n), NEW m \in Mutexes, NEW w \in Threads, OutrankOK(m, w)
  PROVE  OutrankOK(m, w)'
<1>1. /\ state[t] = "RUNNING" /\ NoLoop /\ n = mutex_list[t] /\ MutexRelease(t, n)
  BY DEF Releases
<1>2. /\ owner[n] = t /\ owner' = [owner EXCEPT ![n] = None]
      /\ \A u \in Threads : u # t => prio'[u] = prio[u]
      /\ owner \in [Mutexes -> Threads \cup {None}]
  BY <1>1, ReleaseFacts, KernelParts DEF ResourceTypes
<1>3. state'[w] = "WAIT_MTX" /\ parent'[w] = m => state[w] = "WAIT_MTX" /\ parent[w] = m
  BY <1>1, ReleaseWaiters
<1> SUFFICES ASSUME owner'[m] # None, state'[w] = "WAIT_MTX", parent'[w] = m
             PROVE  OutrankOK(m, w)'
  BY DEF OutrankOK
<1>4. m # n /\ w # t /\ owner'[m] = owner[m] /\ owner[m] \in Threads
  BY <1>1, <1>2, <1>3
<1>5. prio'[w] = prio[w]
  BY <1>2, <1>4
<1>6. ASSUME AtLeast(owner[m], prio[w]) PROVE AtLeast(owner[m], prio[w])'
  <2>1. PICK o, p0 : o = owner[m] /\ p0 = prio[w]
    OBVIOUS
  <2>2. p0 <= prio[o]
    BY <1>1, <1>4, <1>6, <2>1, AtLeastNoLoop
  <2>3. CASE o # t \/ q[n] = << >>
    <3>1. prio'[o] = prio[o]
      BY <1>1, <1>2, <1>4, <2>1, <2>3 DEF MutexRelease
    <3> QED BY <1>4, <1>5, <2>1, <2>2, <3>1 DEF AtLeast
  <2>4. CASE o = t /\ q[n] # << >>
    <3>1. m \in Held(t) \ {n} /\ m \in Queues
      BY <1>4, <2>1, <2>4 DEF Held, Queues, Objects
    <3>2. w \in ToSet(q[m])
      BY <1>3, WaitersLinked, KernelParts
    <3>3. q[m] \in Seq(Nodes)
      BY <3>1, KernelParts DEF Linkage, ListsOK
    <3>4. q[m] # << >> /\ \E i \in DOMAIN q[m] : w = q[m][i]
      BY <3>2, <3>3 DEF ToSet
    <3>5. PICK h : h = Head(q[m])
      OBVIOUS
    <3>6. h \in Threads /\ h = q[m][1] /\ 1 \in DOMAIN q[m]
      <4>1. h \in Threads
        BY <3>1, <3>4, <3>5, MutexHead
      <4>2. PICK s : s = q[m]
        OBVIOUS
      <4>3. s \in Seq(Nodes) /\ s # << >>
        BY <3>3, <3>4, <4>2
      <4>4. Head(s) = s[1] /\ 1 \in DOMAIN s
        BY <4>3
      <4> QED BY <3>5, <4>1, <4>2, <4>4
    <3>7. p0 <= prio[h]
      <4>1. PICK i \in DOMAIN q[m] : w = q[m][i]
        BY <3>4
      <4>2. i = 1 \/ 1 < i
        BY <3>3, <4>1
      <4>3. prio[w] \in Int /\ prio[h] \in Int
        BY <3>6, PriosInt
      <4>4. 1 < i => prio[q[m][1]] >= prio[q[m][i]]
        BY <3>6, <4>1 DEF QueuesSorted, Objects
      <4> QED BY <2>1, <3>6, <4>1, <4>2, <4>3, <4>4
    <3>8. prio[h] <= prio'[t]
      BY <1>1, <2>4, <3>1, <3>4, <3>5, ReleasePrio
    <3>9. p0 <= prio'[o]
      BY <2>1, <2>4, <3>6, <3>7, <3>8, PriosInt, PriosIntNext
    <3> QED BY <1>4, <1>5, <2>1, <3>9 DEF AtLeast
  <2> QED BY <2>3, <2>4
<1> QED BY <1>3, <1>4, <1>5, <1>6, StillOutranked

\* chopstx_setpriority that does not lower ->prio_orig does not lower ->prio.
LEMMA SetPriorityOutrank ==
  ASSUME KernelInv, KernelInv', ClaimsInv, ClaimsInv', NEW t \in Threads, NEW new \in NewPrios,
         SetPriorityCall(t, new), prio_orig[t] <= new, NEW m \in Mutexes, NEW w \in Threads, OutrankOK(m, w)
  PROVE  OutrankOK(m, w)'
<1>1. Runs(t, "user")
  BY DEF SetPriorityCall, Calls
<1>2. running = t /\ cpu = "user" /\ state[t] = "RUNNING" /\ owner \in [Mutexes -> Threads \cup {None}]
  BY <1>1, RunsFacts, KernelParts DEF ResourceTypes
<1>3. NoLoop
  BY <1>2, NoLoopNow
<1>4. UNCHANGED <<owner, state, parent>> /\ \A u \in Threads : u # t => prio'[u] = prio[u]
  BY PrioType DEF SetPriorityCall, mutexVars, queueVars, Nodes
<1>5. prio[t] <= prio'[t]
  <2>1. prio'[t] = IF prio[t] = prio_orig[t] \/ new > prio[t] THEN new ELSE prio[t]
    BY PrioType DEF SetPriorityCall, Nodes
  <2>2. new \in Int /\ prio[t] \in Int /\ prio_orig[t] \in Int
    <3>1. new \in Prios
      BY ConstantsAssumption
    <3> QED BY <3>1, PriosInt DEF Prios
  <2> QED BY <2>1, <2>2
<1> SUFFICES ASSUME state'[w] = "WAIT_MTX"
             PROVE  OutrankOK(m, w)'
  BY DEF OutrankOK
<1>6. w # t /\ prio'[w] = prio[w]
  BY <1>2, <1>4
<1>7. ASSUME owner[m] \in Threads, AtLeast(owner[m], prio[w]) PROVE AtLeast(owner[m], prio[w])'
  <2>1. PICK o, p0 : o = owner[m] /\ p0 = prio[w]
    OBVIOUS
  <2>2. p0 <= prio[o] /\ o \in Threads
    BY <1>3, <1>7, <2>1, AtLeastNoLoop
  <2>3. p0 <= prio'[o]
    BY <1>4, <1>5, <2>1, <2>2, PriosInt, PriosIntNext
  <2> QED BY <1>4, <1>6, <2>1, <2>3 DEF AtLeast
<1> QED BY <1>4, <1>6, <1>7, StillOutranked

LEMMA NextOutrank ==
  ASSUME KernelInv, KernelInv', LocksInv, PollInv, QueuesSorted, ClaimsInv, ClaimsInv', [Next]_vars,
         OwnersOutrankWaiters
  PROVE  \/ OwnersOutrankWaiters'
         \/ \E m \in Mutexes : owner[m] = None /\ owner'[m] # None /\ q[m] # << >>
         \/ \E t \in Threads : prio_orig'[t] < prio_orig[t]
<1> SUFFICES ASSUME ~\E m \in Mutexes : owner[m] = None /\ owner'[m] # None /\ q[m] # << >>,
                    ~\E t \in Threads : prio_orig'[t] < prio_orig[t]
             PROVE  OwnersOutrankWaiters'
  OBVIOUS
<1> SUFFICES ASSUME NEW m \in Mutexes, NEW w \in Threads, OutrankOK(m, w)
             PROVE  OutrankOK(m, w)'
  BY OutrankStates, OutrankStatesNext
<1>1. CASE Plain
  BY <1>1, PlainOutrank
<1>2. CASE Frozen
  BY <1>2, FrozenOutrank
<1>3. ASSUME NEW t \in Threads, UnlockCall(t) \/ WaitRelease(t) \/ ExitRelease(t) \/ HookUnlock(t)
      PROVE  OutrankOK(m, w)'
  BY <1>1, <1>3, ReleaseSteps, ReleaseOutrank
<1>4. ASSUME NEW t \in Threads,
             \/ LockHeld(t) \/ LockInherit(t) \/ LockBlock(t) \/ JoinBlock(t) \/ JoinInherit(t) \/ JoinSleep(t)
      PROVE  OutrankOK(m, w)'
  BY <1>4, LoopStartOutrank, LoopTurnOutrank, LoopEndOutrank
<1>5. ASSUME NEW t \in Threads, LockAcquire(t) PROVE OutrankOK(m, w)'
  <2>1. Runs(t, "mtx_lock")
    BY <1>5 DEF LockAcquire
  <2>2. fr[t].mtx \in Mutexes /\ owner \in [Mutexes -> Threads \cup {None}] /\ t # None
    BY <2>1, RunsFacts, KernelParts, AddressAssumption DEF FrameOK, ResourceTypes, Nodes
  <2>3. q[fr[t].mtx] = << >>
    BY <1>5, <2>2 DEF LockAcquire
  <2> QED BY <1>5, <2>3, LockAcquireOutrank
<1>6. ASSUME NEW t \in Threads, NEW new \in NewPrios, SetPriorityCall(t, new) PROVE OutrankOK(m, w)'
  <2>1. prio_orig'[t] = new
    BY <1>6, PrioType DEF SetPriorityCall
  <2>2. new \in Int /\ prio_orig[t] \in Int
    <3>1. new \in Prios
      BY ConstantsAssumption
    <3>2. new \in Int
      BY <3>1, PriosAreNumbers
    <3>3. prio_orig[t] \in Int
      BY PriosInt
    <3> QED BY <3>2, <3>3
  <2> QED BY <1>6, <2>1, <2>2, SetPriorityOutrank
<1> QED BY <1>1, <1>2, <1>3, <1>4, <1>5, <1>6, PlainOrNot

\* Once owners outrank those who wait for their mutexes, through any chain of mutexes and exits, only the
\* acquisition of a mutex that has waiters and a chopstx_setpriority that lowers can change that:
\* no nesting of the loops with wake-ups, releases, joins and timeouts does.
THEOREM InheritanceIsKept == Spec => InheritanceKept
<1> DEFINE A == OwnersOutrankWaiters =>
                  \/ OwnersOutrankWaiters'
                  \/ \E m \in Mutexes : owner[m] = None /\ owner'[m] # None /\ q[m] # << >>
                  \/ \E t \in Threads : prio_orig'[t] < prio_orig[t]
<1>1. KernelInv /\ KernelInv' /\ LocksInv /\ PollInv /\ QueuesSorted /\ ClaimsInv /\ ClaimsInv' /\ [Next]_vars => A
  BY NextOutrank
<1>2. KernelInv /\ KernelInv' /\ LocksInv /\ PollInv /\ QueuesSorted /\ ClaimsInv /\ ClaimsInv' /\ [Next]_vars
        => [A]_vars
  BY <1>1
<1> QED BY <1>2, KernelInvariant, LocksInvariant, PollInvariant, QueuesAreSorted, ClaimsInvariant, PTL
        DEF Spec, InheritanceKept

-----------------------------------------------------------------------------
(* Scheduling: no thread of a higher priority is kept waiting.               *)

\* HighInv is restored where the running thread leads ...
LEMMA LeadsHigh ==
  ASSUME Leads', cpu' # "user" => ~pendsv'
  PROVE  HighInv'
BY DEF HighInv

\* ... and inside of a section that ends with a switch.
LEMMA SectionHigh ==
  ASSUME cpu' # "user", ~pendsv', cpu' = "lock" => pc'[running'] # "bcast"
  PROVE  HighInv'
BY DEF HighInv

\* Outside of the sections, the running thread leads.
LEMMA RunsLeads ==
  ASSUME KernelInv, HighInv, NEW t \in Threads, NEW l, Runs(t, l), l # "release"
  PROVE  Leads /\ running = t /\ ~pendsv /\ t # None
<1>1. t # None
  BY AddressAssumption DEF Nodes
<1> QED BY <1>1 DEF Runs, HighInv

\* Nobody becomes ready, and no priority changes.
LEMMA LeadsKept ==
  ASSUME Leads, NEW t \in Threads, running = t, running' = t,
         \A u \in Threads : /\ state'[u] = "READY" => state[u] = "READY"
                            /\ prio'[u] = prio[u] /\ (join_req[u] => join_req'[u])
  PROVE  Leads'
BY DEF Leads

\* A thread that does not outrank the running one becomes ready.
LEMMA ReadyLeads ==
  ASSUME KernelInv, Leads, running \in Threads, NEW w \in Threads, ~(prio[w] > prio[running]), NEW Q, MakeReady(Q, w),
         UNCHANGED <<running, prio, join_req>>
  PROVE  Leads'
<1>1. state' = [state EXCEPT ![w] = "READY"] /\ state \in [Threads -> States]
  BY KernelParts DEF MakeReady, Linkage
<1>2. prio[w] <= prio[running]
  BY PriosInt
<1>3. running # None
  BY AddressAssumption DEF Nodes
<1> QED BY <1>1, <1>2, <1>3 DEF Leads

LEMMA WakeupLeads ==
  ASSUME KernelInv, Leads, running \in Threads, NEW x \in Nodes, NEW Q, Wakeup(x, Q), ~Outranks(x),
         UNCHANGED <<running, prio, join_req>>
  PROVE  Leads'
<1>1. PICK w : w = ThreadOf(x)
  OBVIOUS
<1>2. w \in Threads /\ (x \in Pds => w = Master(x)) /\ running # None
  BY <1>1, MasterHas, AddressAssumption DEF ThreadOf, Nodes
<1>3. CASE x \in Pds /\ state[w] # "WAIT_POLL"
  <2>1. state' = state
    BY <1>1, <1>3 DEF Wakeup
  <2> QED BY <2>1 DEF Leads
<1>4. CASE ~(x \in Pds /\ state[w] # "WAIT_POLL")
  <2>1. ~(prio[w] > prio[running])
    BY <1>1, <1>2, <1>4 DEF Outranks
  <2>2. PICK Q1 : MakeReady(Q1, w)
    BY <1>1, <1>4 DEF Wakeup
  <2> QED BY <1>2, <2>1, <2>2, ReadyLeads
<1> QED BY <1>3, <1>4

\* The calls and steps that touch no queue.
LEMMA QuietHigh ==
  ASSUME KernelInv, HighInv, NEW t \in Threads,
         \/ \E m \in Mutexes : LockCall(t, m)
         \/ \E cv \in Conds, m \in Mutexes \cup {None} : WaitCall(t, cv, m)
         \/ \E cv \in Conds : BroadcastCall(t, cv)
         \/ \E n \in 0..MaxSleep : SleepCall(t, n)
         \/ CleanupPush(t) \/ CleanupPop(t) \/ ExitCall(t) \/ TestCancelCall(t)
         \/ \E enable \in BOOLEAN : SetCancelStateCall(t, enable)
         \/ \E u \in Threads : JoinCall(t, u)
         \/ \E p \in Pds : ClaimIrq(t, p) \/ IntrDone(t, p)
         \/ WaitWoken(t) \/ WaitReturn(t) \/ SleepLoop(t) \/ SleepWoken(t)
         \/ ExitBegin(t) \/ ExitHandler(t) \/ ExitHandlersDone(t) \/ JoinFatal(t)
         \/ HookBegin(t) \/ (\E met \in BOOLEAN : HookCheck(t, met)) \/ HookCount(t) \/ HookFatal(t) \/ HooksDone(t)
         \/ PollWoken(t) \/ PollLoop(t) \/ PollSnoozed(t) \/ PollReturn(t) \/ PollClean(t)
         \/ HookCond(t) \/ HookIntr(t) \/ HookJoin(t)
         \/ LockAcquire(t)
  PROVE  HighInv'
<1>1. join_req \in [Threads -> BOOLEAN]
  BY KernelParts DEF ResourceTypes
<1>2. UNCHANGED <<state, prio, running, pendsv>>
  BY DEF LockCall, WaitCall, BroadcastCall, SleepCall, CleanupPush, CleanupPop, ExitCall, TestCancelCall, SetCancelStateCall,
         JoinCall, ClaimIrq, IntrDone, WaitWoken, WaitReturn, SleepLoop, SleepWoken, ExitBegin, ExitHandler,
         ExitHandlersDone, JoinFatal, HookBegin, HookCheck, HookCount, HookFatal, HooksDone, PollWoken, PollLoop, PollSnoozed,
         PollReturn, PollClean, HookCond, HookIntr, HookJoin, LockAcquire, queueVars, prioVars, cpuVars
<1>3. \A u \in Threads : join_req[u] => join_req'[u]
  BY <1>1 DEF LockCall, WaitCall, BroadcastCall, SleepCall, CleanupPush, CleanupPop, ExitCall, TestCancelCall, SetCancelStateCall,
         JoinCall, ClaimIrq, IntrDone, WaitWoken, WaitReturn, SleepLoop, SleepWoken, ExitBegin, ExitHandler,
         ExitHandlersDone, JoinFatal, HookBegin, HookCheck, HookCount, HookFatal, HooksDone, PollWoken, PollLoop, PollSnoozed,
         PollReturn, PollClean, HookCond, HookIntr, HookJoin, LockAcquire, flagVars
<1>4. \E l : Runs(t, l) /\ l # "release"
  <2>1. \E l \in {"user", "cond_woken", "cond_relocked", "usleep", "snoozed", "exit", "handlers", "join", "hook", "hook_check",
                  "hook_count", "hook_reg", "poll_woken", "poll", "poll_snoozed", "poll_timed", "poll_clean", "mtx_lock"} :
          Runs(t, l)
    BY DEF LockCall, WaitCall, BroadcastCall, SleepCall, CleanupPush, CleanupPop, ExitCall, TestCancelCall, SetCancelStateCall,
         JoinCall, ClaimIrq, IntrDone, WaitWoken, WaitReturn, SleepLoop, SleepWoken, ExitBegin, ExitHandler,
         ExitHandlersDone, JoinFatal, HookBegin, HookCheck, HookCount, HookFatal, HooksDone, PollWoken, PollLoop, PollSnoozed,
         PollReturn, PollClean, HookCond, HookIntr, HookJoin, LockAcquire, Calls
  <2> QED BY <2>1
<1>5. Leads /\ running = t /\ ~pendsv
  BY <1>4, RunsLeads
<1>6. Leads'
  BY <1>2, <1>3, <1>5, LeadsKept
<1> QED BY <1>2, <1>5, <1>6, LeadsHigh

\* The running thread goes to sleep, or the end of a thread is noted.
LEMMA BlockHigh ==
  ASSUME KernelInv, HighInv, NEW t \in Threads,
         \/ WaitBlock(t) \/ ExitEnd(t) \/ PollBlock(t) \/ SleepBlock(t) \/ PollSnooze(t) \/ JoinExited(t) \/ JoinReturn(t)
  PROVE  HighInv'
<1>1. UNCHANGED <<prio, join_req, running, pendsv>> /\ ~pendsv /\ running = t /\ state \in [Threads -> States]
  BY KernelParts DEF WaitBlock, ExitEnd, PollBlock, SleepBlock, PollSnooze, Snooze, JoinExited, JoinReturn, Runs, Locked,
         prioVars, flagVars, cpuVars, HighInv, Linkage
<1>2. CASE cpu' = "sleep"
  BY <1>1, <1>2, SectionHigh
<1>3. CASE cpu' # "sleep"
  <2>1. \A u \in Threads : state'[u] = "READY" => state[u] = "READY"
    BY <1>1, <1>3 DEF WaitBlock, ExitEnd, PollBlock, SleepBlock, PollSnooze, Snooze, JoinExited, JoinReturn, queueVars
  <2>2. \E l \in {"snooze", "poll_snooze", "join", "join_woken", "poll"} : Runs(t, l)
    BY <1>3 DEF WaitBlock, ExitEnd, PollBlock, SleepBlock, PollSnooze, JoinExited, JoinReturn
  <2>3. Leads
    BY <2>2, RunsLeads
  <2>4. Leads'
    BY <1>1, <2>1, <2>3, LeadsKept
  <2> QED BY <1>1, <2>4, LeadsHigh
<1> QED BY <1>2, <1>3

\* Inside of a section that ends with a switch.
LEMMA InnerHigh ==
  ASSUME KernelInv, HighInv, NEW t \in Threads,
         \/ LockHeld(t) \/ LockInherit(t) \/ LockBlock(t) \/ JoinBlock(t) \/ JoinInherit(t) \/ JoinSleep(t)
         \/ WaitRelease(t) \/ ExitNotify(t)
  PROVE  HighInv'
<1>1. pc \in [Threads -> Labels]
  BY KernelParts DEF ControlOK
<1>2. UNCHANGED <<running, pendsv>> /\ running = t /\ ~pendsv
  BY DEF LockHeld, LockInherit, LockBlock, JoinBlock, JoinInherit, JoinSleep, WaitRelease, ExitNotify, Runs, Locked, cpuVars,
         HighInv
<1>3. cpu' = "sleep" \/ (cpu' = "lock" /\ pc'[t] \in {"mtx_pi", "join_pi", "cond_block", "dying"})
  BY <1>1 DEF LockHeld, LockInherit, LockBlock, JoinBlock, JoinInherit, JoinSleep, WaitRelease, ExitNotify, Runs, Locked, Goto,
         cpuVars
<1> QED BY <1>2, <1>3, SectionHigh

\* The loop of chopstx_exit does not yield.
LEMMA ExitReleaseHigh ==
  ASSUME HighInv, NEW t \in Threads, ExitRelease(t)
  PROVE  HighInv'
<1>1. t # None
  BY AddressAssumption DEF Nodes
<1> QED BY <1>1 DEF ExitRelease, Runs, cpuVars, HighInv

\* chopstx_poll gives its proxies a priority, not a thread.
LEMMA PollCallHigh ==
  ASSUME KernelInv, HighInv, NEW t \in Threads, NEW timed \in BOOLEAN, NEW n \in 0..MaxSleep,
         PollCall(t, timed, n)
  PROVE  HighInv'
<1>1. Runs(t, "user") /\ UNCHANGED <<running, pendsv, state, join_req>>
  BY DEF PollCall, Calls, cpuVars, queueVars, flagVars
<1>2. \A u \in Threads : prio'[u] = prio[u]
  <2>1. \A u \in Threads : u \in Nodes /\ u \notin ToSet(PollArray[t])
    BY MasterIs, AddressAssumption DEF Nodes
  <2> QED BY <2>1 DEF PollCall
<1>3. Leads /\ running = t /\ ~pendsv
  BY <1>1, RunsLeads
<1>4. Leads'
  BY <1>1, <1>2, <1>3, LeadsKept
<1> QED BY <1>1, <1>3, <1>4, LeadsHigh

\* The sections that make other threads ready yield to one that outranks the running thread.
LEMMA SignalHigh ==
  ASSUME KernelInv, HighInv, NEW t \in Threads, NEW cv \in Conds, SignalCall(t, cv)
  PROVE  HighInv'
<1>1. Runs(t, "user") /\ UNCHANGED <<running, pendsv, prio, join_req>>
  BY DEF SignalCall, Calls, prioVars, flagVars
<1>2. Leads /\ running = t /\ ~pendsv
  BY <1>1, RunsLeads
<1>3. CASE q[cv] = << >>
  <2>1. state' = state
    BY <1>3 DEF SignalCall, queueVars
  <2>2. Leads'
    BY <1>1, <1>2, <2>1, LeadsKept
  <2> QED BY <1>1, <1>2, <2>2, LeadsHigh
<1>4. CASE q[cv] # << >>
  <2>1. PICK x : x = Head(q[cv])
    OBVIOUS
  <2>2. x \in Nodes /\ \E Q : Wakeup(x, Q)
    <3>1. ListsOK(q) /\ cv \in Queues
      BY KernelParts DEF Linkage, Queues, Objects
    <3>2. x \in Nodes
      BY <1>4, <2>1, <3>1, PopLists
    <3> QED BY <1>4, <2>1, <3>2 DEF SignalCall
  <2>3. cpu' = IF Outranks(x) THEN "yield" ELSE "user"
    BY <1>4, <2>1 DEF SignalCall
  <2>4. CASE Outranks(x)
    BY <1>1, <1>2, <2>3, <2>4, SectionHigh
  <2>5. CASE ~Outranks(x)
    <3>1. Leads'
      BY <1>1, <1>2, <2>2, <2>5, WakeupLeads
    <3> QED BY <1>1, <1>2, <3>1, LeadsHigh
  <2> QED BY <2>4, <2>5
<1> QED BY <1>3, <1>4

\* chopstx_cond_broadcast remembers whether it has woken up such a thread.
LEMMA BroadcastHigh ==
  ASSUME KernelInv, HighInv, NEW t \in Threads, BroadcastWake(t) \/ BroadcastReturn(t)
  PROVE  HighInv'
<1>1. /\ Locked(t, "bcast") /\ UNCHANGED <<running, pendsv, prio, join_req>>
      /\ fr \in [Threads -> Frame]
  BY KernelParts DEF BroadcastWake, BroadcastReturn, prioVars, flagVars, cpuVars, ControlOK
<1>2. running = t /\ ~pendsv /\ t # None /\ (~fr[t].yield => Leads) /\ fr[t].cnd \in Conds
  BY <1>1, LockedFacts, AddressAssumption DEF HighInv, FrameOK, Nodes
<1>3. CASE BroadcastReturn(t)
  <2>1. state' = state /\ cpu' = IF fr[t].yield THEN "yield" ELSE "user"
    BY <1>3 DEF BroadcastReturn, queueVars
  <2>2. CASE fr[t].yield
    BY <1>1, <1>2, <2>1, <2>2, SectionHigh
  <2>3. CASE ~fr[t].yield
    <3>1. Leads'
      BY <1>1, <1>2, <2>1, <2>3, LeadsKept
    <3> QED BY <1>1, <1>2, <3>1, LeadsHigh
  <2> QED BY <2>2, <2>3
<1>4. CASE BroadcastWake(t)
  <2>1. PICK cv, x : cv = fr[t].cnd /\ x = Head(q[cv])
    OBVIOUS
  <2>2. x \in Nodes /\ \E Q : Wakeup(x, Q)
    <3>1. ListsOK(q) /\ cv \in Queues
      BY <1>2, <2>1, KernelParts DEF Linkage, Queues, Objects
    <3>2. q[cv] # << >>
      BY <1>4, <2>1 DEF BroadcastWake
    <3>3. x \in Nodes
      BY <2>1, <3>1, <3>2, PopLists
    <3> QED BY <1>4, <2>1, <3>3 DEF BroadcastWake
  <2>3. fr'[t].yield = (fr[t].yield \/ Outranks(x)) /\ cpu' = cpu /\ cpu = "lock"
    BY <1>1, <1>4, <2>1 DEF BroadcastWake, cpuVars, Locked, Frame
  <2>4. CASE fr'[t].yield
    BY <1>1, <1>2, <2>3, <2>4 DEF HighInv
  <2>5. CASE ~fr'[t].yield
    <3>1. ~fr[t].yield /\ ~Outranks(x)
      BY <2>3, <2>5
    <3>2. Leads'
      BY <1>1, <1>2, <2>2, <3>1, WakeupLeads
    <3> QED BY <1>1, <1>2, <3>2, LeadsHigh
  <2> QED BY <2>4, <2>5
<1> QED BY <1>3, <1>4

LEMMA CreateCancelHigh ==
  ASSUME KernelInv, HighInv, NEW t \in Threads, NEW u \in Threads, CreateCall(t, u) \/ CancelCall(t, u)
  PROVE  HighInv'
<1>1. Runs(t, "user") /\ UNCHANGED <<running, pendsv, prio, join_req>>
  BY DEF CreateCall, CancelCall, Calls, prioVars, flagVars
<1>2. Leads /\ running = t /\ ~pendsv
  BY <1>1, RunsLeads
<1>3. \/ state' = state
      \/ (\E Q : MakeReady(Q, u)) /\ cpu' = IF prio[u] > prio[t] THEN "yield" ELSE "user"
  BY DEF CreateCall, CancelCall, queueVars
<1>4. CASE state' = state
  <2>1. Leads'
    BY <1>1, <1>2, <1>4, LeadsKept
  <2> QED BY <1>1, <1>2, <2>1, LeadsHigh
<1>5. CASE (\E Q : MakeReady(Q, u)) /\ cpu' = IF prio[u] > prio[t] THEN "yield" ELSE "user"
  <2>1. CASE prio[u] > prio[t]
    BY <1>1, <1>2, <1>5, <2>1, SectionHigh
  <2>2. CASE ~(prio[u] > prio[t])
    <3>1. Leads'
      BY <1>1, <1>2, <1>5, <2>2, ReadyLeads
    <3> QED BY <1>1, <1>2, <3>1, LeadsHigh
  <2> QED BY <2>1, <2>2
<1> QED BY <1>3, <1>4, <1>5

\* The dispatcher takes the first thread of a list that is sorted.
LEMMA DispatchLeads ==
  ASSUME KernelInv, NEW Q, NEW st, NEW pa, NEW vv, Dispatch(Q, st, pa, vv), Linkage(Q, st, pa, vv),
         AllInOrder(Q, prio), UNCHANGED prio
  PROVE  Leads'
<1>1. /\ "ready" \in Queues /\ "ready" \in ByPrio /\ Q["ready"] \in Seq(Nodes) /\ ListsOK(Q) /\ st \in [Threads -> States]
  BY DEF Queues, ByPrio, Linkage, ListsOK
<1>2. ASSUME NEW u \in Threads, st[u] = "READY" PROVE u \in ToSet(Q["ready"])
  <2>1. Where(Q, u) = {"ready"}
    BY <1>2 DEF Linkage, Places
  <2> QED BY <2>1 DEF Where
<1>3. CASE Q["ready"] = << >>
  <2>1. \A u \in Threads : st[u] # "READY"
    BY <1>2, <1>3 DEF ToSet
  <2> QED BY <1>3, <2>1 DEF Dispatch, Leads
<1>4. CASE Q["ready"] # << >>
  <2>1. PICK h, s : s = Q["ready"] /\ h = Head(s)
    OBVIOUS
  <2>2. h \in Threads /\ h # None
    <3>1. h = Head(Q["ready"])
      BY <2>1
    <3>2. h \in Threads
      BY <1>1, <1>4, <3>1, PopLists
    <3> QED BY <3>2, AddressAssumption DEF Nodes
  <2>3. running' = h /\ state' = [st EXCEPT ![h] = "RUNNING"]
    BY <1>4, <2>1 DEF Dispatch
  <2>4. ASSUME NEW u \in Threads, state'[u] = "READY" PROVE prio[u] <= prio[h]
    <3>1. st[u] = "READY"
      BY <1>1, <2>2, <2>3, <2>4
    <3>2. s \in Seq(Nodes) /\ s # << >> /\ InOrder(s, prio) /\ u \in ToSet(s)
      BY <1>1, <1>2, <1>4, <2>1, <3>1 DEF AllInOrder
    <3>3. h = s[1] /\ 1 \in DOMAIN s
      BY <2>1, <3>2
    <3>4. PICK i \in DOMAIN s : u = s[i]
      BY <3>2 DEF ToSet
    <3>5. i = 1 \/ 1 < i
      BY <3>2, <3>4
    <3>6. prio[u] \in Int /\ prio[h] \in Int
      BY <2>2, PriosInt
    <3>7. 1 < i => prio[s[1]] >= prio[s[i]]
      BY <3>2, <3>3, <3>4 DEF InOrder
    <3> QED BY <3>3, <3>4, <3>5, <3>6, <3>7
  <2> QED BY <2>2, <2>3, <2>4 DEF Leads
<1> QED BY <1>3, <1>4

LEMMA SwitchHigh ==
  ASSUME KernelInv, Ordered, HighInv, Sched \/ Preempt
  PROVE  HighInv'
<1>1. UNCHANGED prio /\ AllInOrder(q, prio) /\ "ready" \in Queues /\ running \in Threads \cup {None}
  BY KernelParts, SwitchParks DEF prioVars, Ordered, Queues, ProcessorTypes
<1>2. PICK Q, st, pa, vv : Parks(Q, st, pa, vv) /\ Dispatch(Q, st, pa, vv)
  BY SwitchParks
<1>3. AllInOrder(Q, prio)
  <2>1. ASSUME running \in Threads
        PROVE  /\ AllInOrder(PrioEnqueue(StopSlice(q, running), "ready", running, prio), prio)
               /\ AllInOrder(PrioPush(q, "ready", running, prio), prio)
    BY <1>1, <2>1, PrioType, StopSliceOrdered, EnqueueOrdered, PushOrdered DEF Nodes
  <2> QED BY <1>1, <1>2, <2>1 DEF Parks
<1>4. Linkage(Q, st, pa, vv)
  BY <1>2, ParksLinks
<1>5. Leads'
  BY <1>1, <1>2, <1>3, <1>4, DispatchLeads
<1>6. cpu' = "user"
  BY DEF Sched, Preempt, Interruptible
<1> QED BY <1>5, <1>6, LeadsHigh

\* SysTick and the interrupts ask for PendSV where they make a thread ready that outranks the running one.
LEMMA InterruptHigh ==
  ASSUME KernelInv, HighInv, Interrupt
  PROVE  HighInv'
<1>1. /\ cpu' = cpu /\ UNCHANGED <<running, prio, join_req, pc, fr>> /\ running \in Threads \cup {None}
  BY KernelParts DEF Interrupt, TimerExpired, HandleIntr, RaiseIrq, Interruptible, cpuVars, prioVars, flagVars, ProcessorTypes
<1>2. CASE \E irq \in Irqs : RaiseIrq(irq)
  BY <1>2 DEF RaiseIrq, cpuVars, queueVars, prioVars, flagVars, HighInv, Leads
<1>3. CASE TimerExpired \/ \E irq \in Irqs : HandleIntr(irq)
  <2>1. cpu = "user"
    BY <1>3 DEF TimerExpired, HandleIntr, Interruptible
  <2> SUFFICES ASSUME ~pendsv', running = None \/ pc[running] # "release" PROVE Leads'
    BY <1>1, <2>1 DEF HighInv
  <2>2. CASE TimerExpired
    <3>1. PICK w : w = Head(q["timer"])
      OBVIOUS
    <3>2. "timer" \in Queues /\ q["timer"] # << >>
      BY <2>2 DEF Queues, TimerExpired
    <3>3. w \in Threads
      BY <3>1, <3>2, MutexHead
    <3>4. ~pendsv /\ running # None /\ ~(prio[running] < prio[w])
      BY <2>2, <3>1 DEF TimerExpired, RequestPreemption
    <3>5. running \in Threads /\ ~(prio[w] > prio[running]) /\ Leads
      BY <1>1, <2>1, <3>3, <3>4, PriosInt DEF HighInv
    <3>6. PICK Q : MakeReady(Q, w)
      BY <2>2, <3>1 DEF TimerExpired
    <3> QED BY <1>1, <3>3, <3>5, <3>6, ReadyLeads
  <2>3. ASSUME NEW irq \in Irqs, HandleIntr(irq) PROVE Leads'
    <3>1. CASE UNCHANGED <<state, pendsv>>
      BY <1>1, <2>1, <3>1 DEF HighInv, Leads
    <3>2. CASE ~UNCHANGED <<state, pendsv>>
      <4>1. PICK i \in DOMAIN q["intr"] : /\ Wakeup(q["intr"][i], Dequeue(q, q["intr"][i]))
                                          /\ RequestPreemption(prio[Master(q["intr"][i])])
        BY <2>3, <3>2 DEF HandleIntr, queueVars
      <4>2. PICK x : x = q["intr"][i]
        OBVIOUS
      <4>3. x \in Pds
        <5>1. Linkage(q, state, parent, v) /\ ListsOK(q) /\ "intr" \in Queues
          BY KernelParts DEF Linkage, Queues
        <5>2. x \in Nodes /\ "intr" \in Where(q, x)
          BY <4>1, <4>2, <5>1 DEF ListsOK, Where, ToSet
        <5>3. x \notin Threads
          BY <5>1, <5>2, LinkedPlace, StateOfPlace
        <5> QED BY <5>2, <5>3 DEF Nodes
      <4>4. ~pendsv /\ running # None /\ ~(prio[running] < prio[Master(x)])
        BY <4>1, <4>2 DEF RequestPreemption
      <4>5. running \in Threads /\ Leads /\ Master(x) \in Threads /\ ThreadOf(x) = Master(x)
        BY <1>1, <2>1, <4>3, <4>4, MasterHas, AddressAssumption DEF HighInv, ThreadOf, Nodes
      <4>6. ~Outranks(x)
        <5>1. prio[running] \in Int /\ prio[Master(x)] \in Int
          BY <4>5, PriosInt
        <5> QED BY <4>4, <4>5, <5>1 DEF Outranks
      <4>7. PICK Q : Wakeup(x, Q)
        BY <4>1, <4>2
      <4> QED BY <1>1, <4>3, <4>5, <4>6, <4>7, WakeupLeads DEF Nodes
    <3> QED BY <3>1, <3>2
  <2> QED BY <1>3, <2>2, <2>3
<1> QED BY <1>2, <1>3 DEF Interrupt

\* The priority that a thread nobody joins loses with a mutex was that of the waiter it wakes up.
LEMMA ReleaseLowers ==
  ASSUME KernelInv, LocksInv, QueuesSorted, ClaimsInv, NEW t \in Threads, ~join_req[t], NEW m \in Mutexes,
         Releases(t, m), q[m] # << >>, NEW pr, pr = prio'[t], pr \in Int
  PROVE  prio[t] <= pr \/ prio[t] <= prio[Head(q[m])]
<1>1. /\ NoLoop /\ m = mutex_list[t] /\ MutexRelease(t, m) /\ prio[t] \in Int /\ prio_orig[t] \in Int
  BY PriosInt DEF Releases
<1>2. /\ prio_orig[t] <= pr
      /\ \A n \in Held(t) \ {m} : q[n] # << >> => prio[Head(q[n])] <= pr
  BY <1>1, ReleasePrio
<1>3. prio_orig[t] <= prio[t] /\ (prio[t] > prio_orig[t] => Deserves(t, prio[t]))
  BY DEF ClaimsInv, ClaimOK
<1>4. CASE prio[t] <= prio_orig[t]
  BY <1>1, <1>2, <1>4
<1>5. CASE prio[t] > prio_orig[t]
  <2>1. PICK n \in Held(t), w \in Threads : WaitsAt(w, n) /\ prio[t] <= prio[w]
    BY <1>3, <1>5 DEF Deserves
  <2>2. n \in Mutexes /\ n \in Queues /\ state[w] = "WAIT_MTX" /\ parent[w] = n
    BY <1>1, <2>1 DEF WaitsAt, NoLoop, LoopLabels, Held, Queues, Objects
  <2>3. PICK s, h : s = q[n] /\ h = Head(s)
    OBVIOUS
  <2>4. s \in Seq(Nodes) /\ w \in ToSet(s)
    <3>1. w \in ToSet(q[n])
      <4>1. Linkage(q, state, parent, v)
        BY KernelParts
      <4>2. \A x : x \in ToSet(q[n]) <=> x \in Threads /\ state[x] = "WAIT_MTX" /\ parent[x] = n
        BY <2>2, <4>1, WaitersLinked
      <4> QED BY <2>1, <2>2, <4>2
    <3>2. q[n] \in Seq(Nodes)
      BY <2>2, KernelParts DEF Linkage, ListsOK
    <3> QED BY <2>3, <3>1, <3>2
  <2>5. PICK i \in DOMAIN s : w = s[i]
    BY <2>4 DEF ToSet
  <2>6. s # << >> /\ h = s[1] /\ 1 \in DOMAIN s /\ (i = 1 \/ 1 < i)
    BY <2>3, <2>4, <2>5
  <2>7. h \in Threads
    <3>1. h = Head(q[n]) /\ q[n] # << >>
      BY <2>3, <2>6
    <3> QED BY <2>2, <3>1, MutexHead
  <2>8. prio[h] \in Int /\ prio[w] \in Int
    BY <2>7, PriosInt
  <2>9. 1 < i => prio[s[1]] >= prio[s[i]]
    BY <2>2, <2>3, <2>5, <2>6 DEF QueuesSorted, Objects
  <2>10. prio[t] <= prio[h]
    BY <1>1, <2>1, <2>5, <2>6, <2>8, <2>9
  <2>11. CASE n = m
    BY <2>3, <2>10, <2>11
  <2>12. CASE n # m
    <3>1. prio[h] <= pr
      BY <1>2, <2>1, <2>3, <2>6, <2>12
    <3> QED BY <1>1, <2>8, <2>10, <3>1
  <2> QED BY <2>11, <2>12
<1> QED BY <1>1, <1>4, <1>5

\* chopstx_mutex_unlock, which yields to the waiter that it wakes up.
LEMMA UnlockLeads ==
  ASSUME KernelInv, KernelInv', LocksInv, QueuesSorted, ClaimsInv, Leads, NEW t \in Threads, running = t,
         NEW m \in Mutexes, Releases(t, m), running' = t,
         ~(q[m] # << >> /\ prio'[Head(q[m])] > prio'[t])
  PROVE  Leads'
<1>1. /\ state[t] = "RUNNING" /\ m = mutex_list[t] /\ MutexRelease(t, m) /\ UNCHANGED join_req
      /\ t # None /\ m \in Queues /\ state \in [Threads -> States]
  BY AddressAssumption, KernelParts DEF Releases, Nodes, Queues, Objects, Linkage
<1>2. \A u \in Threads : u # t => prio'[u] = prio[u]
  BY <1>1, ReleaseFacts
<1>3. CASE q[m] = << >>
  BY <1>1, <1>3 DEF MutexRelease, queueVars, Leads
<1>4. CASE q[m] # << >> /\ join_req[t]
  BY <1>1, <1>4 DEF Leads
<1>5. CASE q[m] # << >> /\ ~join_req[t]
  <2>1. PICK w, pr : w = Head(q[m]) /\ pr = prio'[t]
    OBVIOUS
  <2>2. w \in Threads /\ state[w] = "WAIT_MTX"
    BY <1>1, <1>5, <2>1, MutexHead
  <2>3. \A u \in Threads : prio[u] \in Int /\ prio'[u] \in Int
    BY PriosInt, PriosIntNext
  <2>4. pr \in Int /\ w # t /\ prio'[w] = prio[w] /\ prio[w] \in Int /\ prio[t] \in Int /\ ~(prio'[w] > pr)
    BY <1>1, <1>2, <1>5, <2>1, <2>2, <2>3
  <2>5. prio[t] <= pr \/ prio[t] <= prio[w]
    BY <1>5, <2>1, <2>4, ReleaseLowers
  <2>6. prio[w] <= pr /\ prio[t] <= pr
    BY <2>4, <2>5
  <2>7. state' = [state EXCEPT ![w] = "READY"]
    BY <1>1, <1>5, <2>1 DEF MutexRelease, MakeReady
  <2>8. ASSUME NEW u \in Threads, state'[u] = "READY" PROVE prio'[u] <= pr
    <3>1. CASE u = w
      BY <2>4, <2>6, <3>1
    <3>2. CASE u # w
      <4>1. state[u] = "READY" /\ u # t
        BY <1>1, <2>7, <2>8, <3>2
      <4>2. prio[u] <= prio[t]
        BY <1>5, <4>1 DEF Leads
      <4> QED BY <1>2, <2>3, <2>4, <2>6, <4>1, <4>2
    <3> QED BY <3>1, <3>2
  <2> QED BY <1>1, <2>1, <2>8 DEF Leads
<1> QED BY <1>3, <1>4, <1>5

LEMMA UnlockHigh ==
  ASSUME KernelInv, KernelInv', LocksInv, QueuesSorted, ClaimsInv, HighInv, NEW t \in Threads,
         UnlockCall(t) \/ HookUnlock(t)
  PROVE  HighInv'
<1>1. \E l \in {"user", "hook_unlock"} : Runs(t, l)
  BY DEF UnlockCall, HookUnlock, Calls
<1>2. Leads /\ running = t /\ ~pendsv
  BY <1>1, RunsLeads
<1>3. running' = t /\ ~pendsv'
  BY <1>2 DEF UnlockCall, HookUnlock, Unlock, cpuVars
<1>4. CASE UNCHANGED <<state, prio, join_req>>
  <2>1. Leads'
    BY <1>2, <1>3, <1>4, LeadsKept
  <2> QED BY <1>3, <2>1, LeadsHigh
<1>5. ASSUME NEW m \in Mutexes, Unlock(t, m), Releases(t, m) PROVE HighInv'
  <2>1. CASE q[m] # << >> /\ prio'[Head(q[m])] > prio'[t]
    BY <1>3, <1>5, <2>1, SectionHigh DEF Unlock
  <2>2. CASE ~(q[m] # << >> /\ prio'[Head(q[m])] > prio'[t])
    <3>1. Leads'
      BY <1>2, <1>3, <1>5, <2>2, UnlockLeads
    <3> QED BY <1>3, <3>1, LeadsHigh
  <2> QED BY <2>1, <2>2
<1>6. CASE UnlockCall(t)
  <2>1. mutex_list[t] \in Mutexes
    BY <1>6, ThreadFacts DEF UnlockCall, ResourceTypes
  <2>2. Plain \/ \E m \in Mutexes : Releases(t, m)
    BY <1>6, ReleaseSteps
  <2>3. CASE Plain
    <3>1. \A u \in Threads : owner'[mutex_list[t]] = owner[mutex_list[t]]
      BY <2>3 DEF Plain
    <3>2. owner[mutex_list[t]] = t /\ owner'[mutex_list[t]] = None
      <4>1. PICK m : m = mutex_list[t]
        OBVIOUS
      <4>2. MutexRelease(t, m) /\ m \in Mutexes
        BY <1>6, <2>1, <4>1 DEF UnlockCall, Unlock
      <4> QED BY <4>1, <4>2, ReleaseFacts, KernelParts DEF ResourceTypes
    <3> QED BY <3>1, <3>2, AddressAssumption DEF Nodes
  <2>4. CASE \E m \in Mutexes : Releases(t, m)
    BY <1>5, <1>6, <2>4 DEF UnlockCall, Releases
  <2> QED BY <2>2, <2>3, <2>4
<1>7. CASE HookUnlock(t)
  <2>1. PICK m : m = PdMutex[Pd(t)]
    OBVIOUS
  <2>2. CASE m = None
    BY <1>4, <1>7, <2>1, <2>2 DEF HookUnlock, queueVars, prioVars, flagVars
  <2>3. CASE m # None
    <3>1. Unlock(t, m) /\ m \in Mutexes
      <4>1. Pd(t) \in Pds
        BY <1>7, RunsFacts, PdIs DEF HookUnlock, FrameOK, Pd
      <4>2. m \in Mutexes
        BY <2>1, <2>3, <4>1, ConstantsAssumption
      <4> QED BY <1>7, <2>1, <2>3, <4>2 DEF HookUnlock
    <3>2. Plain \/ \E n \in Mutexes : Releases(t, n)
      BY <1>7, ReleaseSteps
    <3>3. m = mutex_list[t]
      <4>1. pc[t] = "hook_unlock" /\ CallOK(t, "hook_unlock", fr[t], Held(t), mutex_list[t])
        BY <1>7, LocksOf DEF HookUnlock, Runs
      <4> QED BY <2>1, <2>3, <4>1 DEF CallOK, Hooked, Pd
    <3>4. owner[m] = t /\ owner'[m] # owner[m]
      <4>1. MutexRelease(t, m)
        BY <3>1 DEF Unlock
      <4>2. owner[m] = t /\ owner'[m] = None
        BY <3>1, <3>3, <4>1, ReleaseFacts, KernelParts DEF ResourceTypes
      <4> QED BY <4>2, AddressAssumption DEF Nodes
    <3>5. ~Plain
      BY <3>4 DEF Plain
    <3> QED BY <1>5, <3>1, <3>2, <3>3, <3>5 DEF Releases
  <2> QED BY <2>2, <2>3
<1> QED BY <1>6, <1>7

\* chopstx_setpriority yields where the priority is lowered.
LEMMA SetPriorityHigh ==
  ASSUME KernelInv, KernelInv', HighInv, NEW t \in Threads, NEW new \in NewPrios, SetPriorityCall(t, new)
  PROVE  HighInv'
<1>1. Runs(t, "user") /\ UNCHANGED <<running, pendsv, state, join_req>> /\ prio \in [Nodes -> Prios]
  BY PrioType DEF SetPriorityCall, Calls, flagVars, queueVars
<1>2. Leads /\ running = t /\ ~pendsv /\ t # None /\ state[t] = "RUNNING"
  BY <1>1, RunsLeads, RunsFacts
<1>3. PICK np : np = IF prio[t] = prio_orig[t] \/ new > prio[t] THEN new ELSE prio[t]
  OBVIOUS
<1>4. prio'[t] = np /\ cpu' = IF np < prio[t] THEN "yield" ELSE "user"
  BY <1>1, <1>3 DEF SetPriorityCall, Nodes
<1>5. \A u \in Threads : (u # t => prio'[u] = prio[u]) /\ prio[u] \in Int /\ prio'[u] \in Int
  <2>1. \A u \in Threads : u # t => prio'[u] = prio[u]
    BY <1>1 DEF SetPriorityCall, Nodes
  <2> QED BY <2>1, PriosInt, PriosIntNext
<1>6. CASE np < prio[t]
  BY <1>1, <1>2, <1>4, <1>6, SectionHigh
<1>7. CASE ~(np < prio[t])
  <2>1. \A u \in Threads : state'[u] = "READY" => u # t
    BY <1>1, <1>2
  <2>2. Leads'
    BY <1>1, <1>2, <1>4, <1>5, <1>7, <2>1 DEF Leads
  <2> QED BY <1>1, <1>2, <2>2, LeadsHigh
<1> QED BY <1>6, <1>7

LEMMA NextHigh ==
  ASSUME KernelInv, KernelInv', LocksInv, Ordered, ClaimsInv, HighInv, [Next]_vars
  PROVE  HighInv'
<1>1. CASE UNCHANGED vars
  BY <1>1 DEF vars, cpuVars, queueVars, prioVars, flagVars, HighInv, Leads
<1>2. CASE Sched \/ Preempt \/ Interrupt
  BY <1>2, SwitchHigh, InterruptHigh
<1>3. QueuesSorted
  BY DEF Ordered, AllInOrder, InOrder, ByPrio, QueuesSorted
<1>4. ASSUME NEW t \in Threads, Call(t) PROVE HighInv'
  BY <1>3, <1>4, QuietHigh, SignalHigh, CreateCancelHigh, PollCallHigh, UnlockHigh, SetPriorityHigh DEF Call
<1>5. ASSUME NEW t \in Threads, Step(t) PROVE HighInv'
  BY <1>3, <1>5, QuietHigh, BlockHigh, InnerHigh, ExitReleaseHigh, BroadcastHigh, UnlockHigh
     DEF Step, MutexStep, CondStep, ThreadStep, PollStep
<1> QED BY <1>1, <1>2, <1>4, <1>5 DEF Next

LEMMA InitHigh ==
  ASSUME Init
  PROVE  HighInv
BY DEF Init, HighInv, Leads

\* In every state, the thread that the kernel lets run has the highest priority of all ready threads, or a
\* switch is to come.
THEOREM HighInvariant == Spec => []HighInv
<1>1. Init => Ordered
  BY InitOrdered
<1>2. KernelInv /\ PollInv /\ Ordered /\ [Next]_vars => Ordered'
  BY NextOrdered
<1>3. KernelInv /\ KernelInv' /\ LocksInv /\ Ordered /\ ClaimsInv /\ HighInv /\ [Next]_vars => HighInv'
  BY NextHigh
<1> QED BY <1>1, <1>2, <1>3, InitHigh, KernelInvariant, LocksInvariant, PollInvariant, ClaimsInvariant, PTL DEF Spec

\* The scheduling promise of Chopstx: between the sections and the interrupts, no thread waits for the processor
\* that has a higher priority than the one that has it, whatever was woken up, inherited or given back.
THEOREM HighestRun == Spec => []HighestRuns
<1>1. KernelInv /\ HighInv => HighestRuns
  <2> SUFFICES ASSUME KernelInv, HighInv, cpu = "user", ~pendsv PROVE HighestRuns
    BY DEF HighestRuns
  <2>1. CASE running = None
    <3>1. Leads
      BY <2>1 DEF HighInv
    <3>2. ASSUME q["ready"] # << >> PROVE FALSE
      <4>1. PICK h : h = Head(q["ready"])
        OBVIOUS
      <4>2. "ready" \in Queues
        BY DEF Queues
      <4>3. h \in Threads /\ Places(h, state[h], parent[h]) = {"ready"}
        BY <3>2, <4>1, <4>2, MutexHead
      <4>4. state[h] = "READY"
        BY <4>2, <4>3, StateOfPlace, KernelParts
      <4> QED BY <2>1, <3>1, <4>3, <4>4 DEF Leads
    <3> QED BY <2>1, <3>2 DEF HighestRuns
  <2>2. CASE running # None
    BY <2>2 DEF HighInv, Leads, HighestRuns
  <2> QED BY <2>1, <2>2
<1> QED BY <1>1, KernelInvariant, HighInvariant, PTL

\* Every section finds the kernel as it expects it, and leaves it so: the whole invariant, with the links of the
\* lists, the locks, the proxies and the priorities, holds in every state.
THEOREM KernelIsSound == Spec => []ChxInv
<1>1. KernelInv /\ LocksInv /\ PollInv /\ QueuesSorted /\ ClaimsInv /\ HighInv => ChxInv
  BY DEF ChxInv, PrioInv, ClaimsInv
<1> QED BY <1>1, KernelInvariant, LocksInvariant, PollInvariant, QueuesAreSorted, ClaimsInvariant, HighInvariant, PTL

=============================================================================
