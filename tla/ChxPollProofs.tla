---------------------------- MODULE ChxPollProofs ----------------------------
(***************************************************************************)
(* Poll, interrupts and the exits that threads wait for: PollInv is        *)
(* inductive.  Hence a thread sleeps in chopstx_poll with all its          *)
(* descriptors armed and none active, takes its proxies back, and          *)
(* interrupts are enabled while a proxy is there to notice them; and who   *)
(* waits for the exit of a thread is there when it comes.                  *)
(***************************************************************************)
EXTENDS ChxLockProofs

-----------------------------------------------------------------------------
(* What the primitives do to the nodes they are not about.                   *)

Lists == [Queues -> Seq(Nodes)]

\* The nodes of P are linked in Q1 where they are in Q, and not more than once if so in Q.
SameLinks(Q, Q1, P) ==
  /\ Q1 \in Lists
  /\ \A p \in P, n \in Queues : /\ p \in ToSet(Q1[n]) <=> p \in ToSet(Q[n])
                                /\ Once(Q[n], p) => Once(Q1[n], p)

LEMMA SameRefl ==
  ASSUME NEW Q \in Lists, NEW P
  PROVE  SameLinks(Q, Q, P)
BY DEF SameLinks

LEMMA SameTrans ==
  ASSUME NEW Q, NEW Q1, NEW Q2, NEW P, SameLinks(Q, Q1, P), SameLinks(Q1, Q2, P)
  PROVE  SameLinks(Q, Q2, P)
BY DEF SameLinks

LEMMA SameLess ==
  ASSUME NEW Q, NEW Q1, NEW P, NEW R, SameLinks(Q, Q1, P), R \subseteq P
  PROVE  SameLinks(Q, Q1, R)
BY DEF SameLinks

\* One list changes.
LEMMA SameOne ==
  ASSUME NEW Q \in Lists, NEW n \in Queues, NEW s \in Seq(Nodes), NEW P,
         \A p \in P : (p \in ToSet(s) <=> p \in ToSet(Q[n])) /\ (Once(Q[n], p) => Once(s, p))
  PROVE  SameLinks(Q, [Q EXCEPT ![n] = s], P)
BY DEF SameLinks, Lists

LEMMA SameInsert ==
  ASSUME NEW Q \in Lists, NEW n \in Queues, NEW x \in Nodes, NEW i \in 1..(Len(Q[n]) + 1),
         NEW P, x \notin P
  PROVE  SameLinks(Q, [Q EXCEPT ![n] = InsertAt(@, i, x)], P)
<1>1. Q[n] \in Seq(Nodes)
  BY DEF Lists
<1>2. InsertAt(Q[n], i, x) \in Seq(Nodes)
  BY <1>1, InsertAtFacts
<1>3. /\ ToSet(InsertAt(Q[n], i, x)) = ToSet(Q[n]) \cup {x}
      /\ \A y : y # x /\ Once(Q[n], y) => Once(InsertAt(Q[n], i, x), y)
  BY <1>1, InsertAtElements
<1> QED BY <1>2, <1>3, SameOne

LEMMA SamePop ==
  ASSUME NEW Q \in Lists, NEW n \in Queues, Q[n] # << >>, NEW P, Head(Q[n]) \notin P
  PROVE  SameLinks(Q, [Q EXCEPT ![n] = Tail(@)], P)
<1>1. Q[n] \in Seq(Nodes)
  BY DEF Lists
<1>2. /\ Tail(Q[n]) \in Seq(Nodes)
      /\ ToSet(Tail(Q[n])) \subseteq ToSet(Q[n])
      /\ \A y \in ToSet(Q[n]) : y # Head(Q[n]) => y \in ToSet(Tail(Q[n]))
      /\ \A y : Once(Q[n], y) => Once(Tail(Q[n]), y)
  BY <1>1, TailElements
<1> QED BY <1>2, SameOne

LEMMA SameDequeue ==
  ASSUME NEW Q \in Lists, NEW x, NEW P, x \notin P
  PROVE  SameLinks(Q, Dequeue(Q, x), P)
<1>1. CASE \A n \in Queues : x \notin ToSet(Q[n])
  BY <1>1, SameRefl DEF Dequeue
<1>2. CASE ~(\A n \in Queues : x \notin ToSet(Q[n]))
  <2> DEFINE n == CHOOSE k \in Queues : x \in ToSet(Q[k])
             i == CHOOSE k \in DOMAIN Q[n] : Q[n][k] = x
  <2>1. n \in Queues /\ x \in ToSet(Q[n])
    BY <1>2
  <2>2. Dequeue(Q, x) = [Q EXCEPT ![n] = RemoveAt(Q[n], i)]
    BY <1>2 DEF Dequeue, Without
  <2> HIDE DEF n
  <2>3. Q[n] \in Seq(Nodes)
    BY <2>1 DEF Lists
  <2>4. i \in 1..Len(Q[n]) /\ Q[n][i] = x
    BY <2>1, <2>3 DEF ToSet
  <2> HIDE DEF i
  <2>5. RemoveAt(Q[n], i) \in Seq(Nodes)
    BY <2>3, <2>4, RemoveAtFacts
  <2>6. /\ ToSet(RemoveAt(Q[n], i)) \subseteq ToSet(Q[n])
        /\ \A y \in ToSet(Q[n]) : y # Q[n][i] => y \in ToSet(RemoveAt(Q[n], i))
        /\ \A y : Once(Q[n], y) => Once(RemoveAt(Q[n], i), y)
    BY <2>3, <2>4, RemoveAtElements
  <2>7. SameLinks(Q, [Q EXCEPT ![n] = RemoveAt(Q[n], i)], P)
    BY <2>1, <2>4, <2>5, <2>6, SameOne
  <2> QED BY <2>2, <2>7
<1> QED BY <1>1, <1>2

LEMMA SameEnqueue ==
  ASSUME NEW Q \in Lists, NEW n \in Queues, NEW x \in Nodes, NEW prios, NEW P, x \notin P
  PROVE  SameLinks(Q, PrioEnqueue(Q, n, x, prios), P) /\ SameLinks(Q, PrioPush(Q, n, x, prios), P)
<1>1. Q[n] \in Seq(Nodes)
  BY DEF Lists
<1>2. EnqueueAt(Q[n], prios, prios[x]) \in 1..(Len(Q[n]) + 1) /\ PushAt(Q[n], prios, prios[x]) \in 1..(Len(Q[n]) + 1)
  BY <1>1, PlaceRange
<1> QED BY <1>2, SameInsert DEF PrioEnqueue, PrioPush

LEMMA SameStopSlice ==
  ASSUME NEW Q \in Lists, NEW x, NEW P, x \notin P
  PROVE  SameLinks(Q, StopSlice(Q, x), P)
BY SameRefl, SameDequeue DEF StopSlice

-----------------------------------------------------------------------------
(* What a step may do without an effect on PollInv.                          *)

\* Nobody's proxy is touched, and nobody starts to wait in chopstx_poll.
Silent ==
  /\ SameLinks(q, q', Pds) /\ UNCHANGED <<ready, counter>>
  /\ \A u \in Threads : state'[u] = "WAIT_POLL" => state[u] = "WAIT_POLL"

\* Descriptor p becomes active: its proxy is taken, and its master woken up.
Fires(p) ==
  /\ \E n \in Queues : Linked(p, n)
  /\ SameLinks(q, q', Pds \ {p}) /\ \A n \in Queues : p \notin ToSet(q'[n])
  /\ ready' = [ready EXCEPT ![p] = 1]
  /\ counter' = [counter EXCEPT ![Master(p)] = @ + 1]
  /\ \A u \in Threads : state'[u] = "WAIT_POLL" => state[u] = "WAIT_POLL" /\ u # Master(p)

Grows == \A u \in Threads : (got_cancel[u] => got_cancel'[u]) /\ (join_req[u] => join_req'[u])

\* Thread t is where it was in its poll, or outside.
SamePlace(t) ==
  /\ CutOff(t) => CutOff(t)'
  /\ Polling(pc'[t], fr'[t]) <=> Polling(pc[t], fr[t])
  /\ \A k \in DOMAIN PollArray[t] : Active(pc'[t], fr'[t], k) <=> Active(pc[t], fr[t], k)
  /\ \A k \in DOMAIN PollArray[t] : \A rd : Armed(pc'[t], fr'[t], k, rd) <=> Armed(pc[t], fr[t], k, rd)
  /\ pc'[t] = "hook_reg" => SameCall(t) \/ PdKind[PollArray[t][fr'[t].idx]] # "cond"
  /\ pc'[t] \in WaitLabels => SameCall(t) \/ fr'[t].idx = 1

LEMMA IdlePlace ==
  ASSUME NEW t \in Threads, SameCall(t), Grows
  PROVE  SamePlace(t)
<1>1. CutOff(t) => CutOff(t)'
  BY DEF SameCall, Grows, CutOff
<1> QED BY <1>1 DEF SamePlace, SameCall

LEMMA OutsidePlace ==
  ASSUME NEW t \in Threads, ~Polling(pc[t], fr[t]), ~Polling(pc'[t], fr'[t]), CutOff(t) => CutOff(t)'
  PROVE  SamePlace(t)
BY DEF SamePlace, Polling, PollLabels, WaitLabels, Active, Armed

\* The descriptors of a thread, and the thread of a descriptor.
LEMMA MasterIs ==
  ASSUME NEW t \in Threads, NEW p \in ToSet(PollArray[t])
  PROVE  p \in Pds /\ Master(p) = t
<1>1. p \in Pds
  BY ConstantsAssumption DEF ToSet
<1>2. \A u \in Threads : p \in ToSet(PollArray[u]) => u = t
  BY AddressAssumption
<1> QED BY <1>1, <1>2 DEF Master

LEMMA PdIs ==
  ASSUME NEW t \in Threads, NEW k \in DOMAIN PollArray[t]
  PROVE  /\ PollArray[t][k] \in ToSet(PollArray[t]) /\ PollArray[t][k] \in Pds
         /\ Master(PollArray[t][k]) = t /\ PollArray[t][k] \notin Threads
         /\ \A j \in DOMAIN PollArray[t] : PollArray[t][j] = PollArray[t][k] => j = k
<1>1. PollArray[t] \in Seq(Pds)
  BY ConstantsAssumption
<1>2. PollArray[t][k] \in ToSet(PollArray[t])
  BY <1>1 DEF ToSet
<1> QED BY <1>2, MasterIs, AddressAssumption

LEMMA MasterHas ==
  ASSUME NEW p \in Pds
  PROVE  Master(p) \in Threads /\ \E k \in DOMAIN PollArray[Master(p)] : PollArray[Master(p)][k] = p
<1>1. PICK t \in Threads : p \in ToSet(PollArray[t])
  BY AddressAssumption
<1>2. PICK k \in DOMAIN PollArray[t] : PollArray[t][k] = p
  BY <1>1, ConstantsAssumption DEF ToSet
<1> QED BY <1>1, <1>2, MasterIs

\* What ProxiesOK says of one descriptor.
ProxyOK(t, k) ==
    LET p == PollArray[t][k]
    IN  /\ Armed(pc[t], fr[t], k, ready[p]) => Linked(p, ProxyHome(p))
        /\ \A n \in Queues :
             /\ Linked(p, n) => n = ProxyHome(p) /\ (Armed(pc[t], fr[t], k, ready[p]) \/ CutOff(t))
             /\ Once(q[n], p)

LEMMA ProxiesEach ==
  ASSUME NEW t
  PROVE  /\ ProxiesOK(t) <=> \A k \in DOMAIN PollArray[t] : ProxyOK(t, k)
         /\ ProxiesOK(t)' <=> \A k \in DOMAIN PollArray[t] : ProxyOK(t, k)'
BY DEF ProxiesOK, ProxyOK, Once

LEMMA HomeIsQueue ==
  ASSUME NEW p \in Pds
  PROVE  ProxyHome(p) \in Queues
BY ConstantsAssumption DEF ProxyHome, Queues, Objects

\* What one thread's proxies and counter rely on.
LEMMA LocalPlace ==
  ASSUME KernelInv, NEW t \in Threads, ProxiesOK(t), CountOK(t), SamePlace(t),
         SameLinks(q, q', ToSet(PollArray[t])), \A p \in ToSet(PollArray[t]) : ready'[p] = ready[p],
         counter'[t] = counter[t], state'[t] = "WAIT_POLL" => state[t] = "WAIT_POLL" \/ counter[t] = 0
  PROVE  ProxiesOK(t)' /\ CountOK(t)'
<1>1. ASSUME NEW k \in DOMAIN PollArray[t]
      PROVE  ProxyOK(t, k)'
  <2> DEFINE p == PollArray[t][k]
  <2>1. p \in Pds /\ p \in ToSet(PollArray[t]) /\ ready'[p] = ready[p] /\ ProxyOK(t, k)
    BY PdIs, ProxiesEach
  <2>2. \A n \in Queues : (p \in ToSet(q'[n]) <=> p \in ToSet(q[n])) /\ (Once(q[n], p) => Once(q'[n], p))
    BY <2>1 DEF SameLinks
  <2>3. Armed(pc'[t], fr'[t], k, ready'[p]) <=> Armed(pc[t], fr[t], k, ready[p])
    BY <2>1 DEF SamePlace
  <2>4. ProxyHome(p) \in Queues
    BY <2>1, HomeIsQueue
  <2>5. CutOff(t) => CutOff(t)'
    BY DEF SamePlace
  <2> HIDE DEF p
  <2>6. Armed(pc[t], fr[t], k, ready[p])' <=> Armed(pc[t], fr[t], k, ready[p])
    BY <2>3 DEF Armed, Active, Polling, p
  <2> QED BY <2>1, <2>2, <2>4, <2>5, <2>6 DEF ProxyOK, Linked, p
<1>2. CountOK(t)'
  <2>1. /\ Polling(pc[t], fr[t])' <=> Polling(pc[t], fr[t])
        /\ \A k \in DOMAIN PollArray[t] : Active(pc[t], fr[t], k)' <=> Active(pc[t], fr[t], k)
    BY DEF SamePlace, Active, Polling
  <2>2. pc'[t] = "hook_reg" /\ PdKind[Pd(t)'] = "cond" => ready'[Pd(t)'] = 0
    <3>1. SUFFICES ASSUME pc'[t] = "hook_reg", PdKind[Pd(t)'] = "cond" PROVE ready'[Pd(t)'] = 0
      OBVIOUS
    <3>2. SameCall(t)
      BY <3>1 DEF SamePlace, Pd
    <3>3. Pd(t)' = Pd(t) /\ pc[t] = "hook_reg" /\ ready[Pd(t)] = 0
      BY <3>1, <3>2 DEF SameCall, Pd, CountOK
    <3>4. Pd(t) \in ToSet(PollArray[t])
      BY <3>3, KernelParts, PdIs DEF Pd, ControlOK, FrameOK
    <3> QED BY <3>2, <3>3, <3>4
  <2>3. pc'[t] \in WaitLabels => fr'[t].idx = 1
    BY DEF SamePlace, SameCall, CountOK
  <2>4. \A k \in DOMAIN PollArray[t] : ready'[PollArray[t][k]] = ready[PollArray[t][k]]
    BY PdIs
  <2> QED BY <2>1, <2>2, <2>3, <2>4 DEF CountOK
<1> QED BY <1>1, <1>2, ProxiesEach

LEMMA SilentPlace ==
  ASSUME KernelInv, NEW t \in Threads, ProxiesOK(t), CountOK(t), Silent, SamePlace(t)
  PROVE  ProxiesOK(t)' /\ CountOK(t)'
<1>1. ToSet(PollArray[t]) \subseteq Pds
  BY MasterIs
<1>2. SameLinks(q, q', ToSet(PollArray[t]))
  BY <1>1, SameLess DEF Silent
<1> QED BY <1>1, <1>2, LocalPlace DEF Silent

LEMMA CutOffOutside ==
  ASSUME NEW t, CutOff(t)
  PROVE  ~Polling(pc[t], fr[t])
BY DEF CutOff, Polling, PollLabels

LEMMA FiresPlace ==
  ASSUME KernelInv, NEW t \in Threads, ProxiesOK(t), CountOK(t), NEW x \in Pds, Fires(x), SamePlace(t)
  PROVE  ProxiesOK(t)' /\ CountOK(t)'
<1>0. ready \in [Pds -> {0, 1}] /\ counter \in [Threads -> Nat]
  BY KernelParts DEF ResourceTypes
<1>1. ASSUME NEW k \in DOMAIN PollArray[t]
      PROVE  ProxyOK(t, k)'
  <2> DEFINE p == PollArray[t][k]
  <2>1. p \in Pds /\ ProxyOK(t, k)
    BY PdIs, ProxiesEach
  <2>3. \A rd : Armed(pc'[t], fr'[t], k, rd) <=> Armed(pc[t], fr[t], k, rd)
    BY <2>1 DEF SamePlace
  <2>4. ProxyHome(p) \in Queues
    BY <2>1, HomeIsQueue
  <2>5. CutOff(t) => CutOff(t)'
    BY DEF SamePlace
  <2> HIDE DEF p
  <2>6. Armed(pc[t], fr[t], k, ready[p])' <=> Armed(pc[t], fr[t], k, ready'[p])
    BY <2>3 DEF Armed, Active, Polling, p
  <2>7. CASE p = x
    <3>1. ready'[p] = 1
      BY <1>0, <2>1, <2>7 DEF Fires
    <3>2. \A n \in Queues : p \notin ToSet(q'[n]) /\ Once(q'[n], p)
      BY <2>7 DEF Fires, Once, ToSet
    <3>3. ~Armed(pc[t], fr[t], k, ready[p])'
      BY <2>6, <3>1 DEF Armed
    <3> QED BY <3>2, <3>3 DEF ProxyOK, Linked, p
  <2>8. CASE p # x
    <3>1. ready'[p] = ready[p]
      BY <1>0, <2>1, <2>8 DEF Fires
    <3>2. \A n \in Queues : (p \in ToSet(q'[n]) <=> p \in ToSet(q[n])) /\ (Once(q[n], p) => Once(q'[n], p))
      BY <2>1, <2>8 DEF Fires, SameLinks
    <3> QED BY <2>1, <2>4, <2>5, <2>6, <3>1, <3>2 DEF ProxyOK, Linked, p
  <2> QED BY <2>7, <2>8
<1>2. CountOK(t)'
  <2>1. /\ Polling(pc[t], fr[t])' <=> Polling(pc[t], fr[t])
        /\ \A k \in DOMAIN PollArray[t] : Active(pc[t], fr[t], k)' <=> Active(pc[t], fr[t], k)
    BY DEF SamePlace, Active, Polling
  <2>2. state'[t] = "WAIT_POLL" => state[t] = "WAIT_POLL" /\ t # Master(x)
    BY DEF Fires
  <2>2a. pc'[t] \in WaitLabels => fr'[t].idx = 1
    BY DEF SamePlace, SameCall, CountOK
  <2>3. CASE t # Master(x)
    <3>1. counter'[t] = counter[t]
      BY <1>0, <2>3, MasterHas DEF Fires
    <3>2. \A k \in DOMAIN PollArray[t] : ready'[PollArray[t][k]] = ready[PollArray[t][k]]
      BY <1>0, <2>3, PdIs DEF Fires
    <3>3. pc'[t] = "hook_reg" /\ PdKind[Pd(t)'] = "cond" => ready'[Pd(t)'] = 0
      <4>1. SUFFICES ASSUME pc'[t] = "hook_reg", PdKind[Pd(t)'] = "cond" PROVE ready'[Pd(t)'] = 0
        OBVIOUS
      <4>2. SameCall(t)
        BY <4>1 DEF SamePlace, Pd
      <4>3. Pd(t)' = Pd(t) /\ pc[t] = "hook_reg" /\ fr[t].idx \in DOMAIN PollArray[t]
        BY <4>1, <4>2, KernelParts DEF SameCall, Pd, ControlOK, FrameOK
      <4> QED BY <3>2, <4>1, <4>3 DEF CountOK, Pd
    <3> QED BY <2>1, <2>2, <2>2a, <3>1, <3>2, <3>3 DEF CountOK
  <2>4. CASE t = Master(x)
    <3>1. PICK j \in DOMAIN PollArray[t] : PollArray[t][j] = x
      BY <2>4, MasterHas
    <3>2. Armed(pc[t], fr[t], j, ready[x]) \/ CutOff(t)
      BY <3>1, ProxiesEach DEF Fires, ProxyOK
    <3>3. Polling(pc[t], fr[t]) => Active(pc[t], fr[t], j)
      BY <3>2, CutOffOutside DEF Armed
    <3>4. ready'[x] = 1 /\ counter'[t] = counter[t] + 1 /\ counter[t] \in Nat
      BY <1>0, <2>4 DEF Fires
    <3>5. counter'[t] # 0
      BY <3>4
    <3>6. pc'[t] = "hook_reg" /\ PdKind[Pd(t)'] = "cond" => ready'[Pd(t)'] = 0
      <4>1. SUFFICES ASSUME pc'[t] = "hook_reg", PdKind[Pd(t)'] = "cond" PROVE ready'[Pd(t)'] = 0
        OBVIOUS
      <4>2. SameCall(t)
        BY <4>1 DEF SamePlace, Pd
      <4>3. Pd(t)' = Pd(t) /\ pc[t] = "hook_reg" /\ fr[t].idx \in DOMAIN PollArray[t]
        BY <4>1, <4>2, KernelParts DEF SameCall, Pd, ControlOK, FrameOK
      <4>4. Polling(pc[t], fr[t])
        BY <4>3 DEF Polling, PollLabels
      <4>5. j < fr[t].idx
        BY <3>3, <4>3, <4>4 DEF Active
      <4>5a. j # fr[t].idx
        BY <3>1, <4>3, <4>5, ConstantsAssumption
      <4>6. Pd(t) # x /\ Pd(t) \in Pds
        BY <3>1, <4>3, <4>5a, PdIs DEF Pd
      <4>7. ready'[Pd(t)] = ready[Pd(t)]
        BY <1>0, <4>6 DEF Fires
      <4> QED BY <4>1, <4>3, <4>7 DEF CountOK
    <3>7. Polling(pc[t], fr[t])' => Active(pc[t], fr[t], j)'
      BY <2>1, <3>1, <3>3
    <3>8. ready'[PollArray[t][j]] # 0
      BY <3>1, <3>4
    <3> QED BY <2>2, <2>2a, <2>4, <3>1, <3>5, <3>6, <3>7, <3>8 DEF CountOK
  <2> QED BY <2>3, <2>4
<1> QED BY <1>1, <1>2, ProxiesEach

LEMMA IrqKept ==
  ASSUME IrqFollowsProxy, UNCHANGED irq_enabled,
         SameLinks(q, q', {p \in Pds : PdKind[p] = "intr"})
  PROVE  IrqFollowsProxy'
<1>1. \A p \in Pds : PdKind[p] = "intr" => (Linked(p, "intr")' <=> Linked(p, "intr"))
  BY DEF SameLinks, Linked, Queues
<1> QED BY <1>1 DEF IrqFollowsProxy

\* The waiters for exits: the last part of PollInv.
AwaitsInv ==
  /\ \A u \in Threads : AwaitedOK(u)
  /\ \A t \in Threads : state[t] = "WAIT_EXIT" => Noticed(v[t])
  /\ \A p \in Pds : Linked(p, "join") => Noticed(PdObj[p])

LEMMA PollParts ==
  /\ PollInv <=> (\A t \in Threads : ProxiesOK(t) /\ CountOK(t)) /\ IrqFollowsProxy /\ AwaitsInv
  /\ PollInv' <=> (\A t \in Threads : ProxiesOK(t)' /\ CountOK(t)') /\ IrqFollowsProxy' /\ AwaitsInv'
BY DEF PollInv, AwaitsInv

\* Nobody but t moves, starts to wait for an exit, or is finished.
Calm(t) ==
  \A u \in Threads :
    /\ u # t => SameCall(u)
    /\ state'[u] = "WAIT_EXIT" => state[u] = "WAIT_EXIT" /\ v'[u] = v[u]
    /\ state'[u] = "FINISHED" => state[u] = "FINISHED"

Gone == {"dying", "dead"}

\* A proxy is linked in one list, the one of what it waits for.
LEMMA LinkedHome ==
  ASSUME PollInv, NEW p \in Pds, NEW n \in Queues, Linked(p, n)
  PROVE  /\ n = ProxyHome(p) /\ Once(q[n], p) /\ \A m \in Queues : Linked(p, m) => m = n
         /\ n = "join" <=> PdKind[p] = "join"
         /\ n = "intr" <=> PdKind[p] = "intr"
         /\ n \in Conds <=> PdKind[p] = "cond"
<1>1. PICK k \in DOMAIN PollArray[Master(p)] : PollArray[Master(p)][k] = p
  BY MasterHas
<1>2. ProxyOK(Master(p), k)
  BY <1>1, MasterHas, ProxiesEach DEF PollInv
<1>3. n = ProxyHome(p) /\ Once(q[n], p) /\ \A m \in Queues : Linked(p, m) => m = n
  BY <1>1, <1>2 DEF ProxyOK
<1>4. "join" \notin Conds /\ "intr" \notin Conds
  BY AddressAssumption DEF Objects
<1> QED BY <1>3, <1>4, ConstantsAssumption DEF ProxyHome

LEMMA NoticedKept ==
  ASSUME NEW u, Noticed(u), u \in Threads, Grows, \A w \in Threads : CutOff(w) => CutOff(w)',
         pc'[u] \in Gone => pc[u] \in Gone
  PROVE  Noticed(u)'
<1>1. StaleWaiter(u) => StaleWaiter(u)'
  BY MasterHas DEF StaleWaiter
<1> QED BY <1>1 DEF Noticed, Grows, Gone

LEMMA CutOffKept ==
  ASSUME NEW t \in Threads, \A u \in Threads : u # t => SameCall(u), Grows, CutOff(t) => CutOff(t)'
  PROVE  \A w \in Threads : CutOff(w) => CutOff(w)'
BY IdlePlace DEF SamePlace

LEMMA AwaitsSame ==
  ASSUME NEW t \in Threads, SameCall(t), NEW u
  PROVE  Awaits(t, u)' <=> Awaits(t, u)
BY DEF Awaits, SameCall, InPoll

LEMMA AwaitsKept ==
  ASSUME KernelInv, PollInv, NEW t \in Threads, cpu # "lock" \/ (running = t /\ pc[t] # "dying"),
         Calm(t), Grows, CutOff(t) => CutOff(t)', pc'[t] = pc[t] \/ pc'[t] \notin Gone,
         \A u \in Threads : Awaits(t, u)' => Awaits(t, u),
         \A p \in Pds : Linked(p, "join")' => Linked(p, "join")
  PROVE  AwaitsInv'
<1>0. AwaitsInv
  BY PollParts
<1>1. \A w \in Threads : CutOff(w) => CutOff(w)'
  BY CutOffKept DEF Calm
<1>2. \A u \in Threads : pc'[u] \in Gone => pc[u] \in Gone
  BY DEF Calm, SameCall
<1>3. \A u \in Threads : pc'[u] # "dying"
  <2>1. \A u \in Threads : pc[u] = "dying" => running = u /\ cpu = "lock"
    BY <1>0 DEF AwaitsInv, AwaitedOK
  <2> QED BY <2>1 DEF Calm, SameCall, Gone
<1>4. \A w, u \in Threads : Awaits(w, u)' => Awaits(w, u)
  BY AwaitsSame DEF Calm
<1>5. ASSUME NEW u \in Threads PROVE AwaitedOK(u)'
  <2>1. AwaitedOK(u) /\ (state'[u] = "FINISHED" => state[u] = "FINISHED")
    BY <1>0 DEF AwaitsInv, Calm
  <2> QED BY <1>3, <1>4, <2>1 DEF AwaitedOK
<1>6. ASSUME NEW w \in Threads, state'[w] = "WAIT_EXIT" PROVE Noticed(v[w])'
  <2>1. PICK u : u = v[w]
    OBVIOUS
  <2>2. state[w] = "WAIT_EXIT" /\ v'[w] = u /\ Noticed(u)
    BY <1>0, <1>6, <2>1 DEF Calm, AwaitsInv
  <2>3. u \in Threads
    BY <2>1, <2>2, KernelParts DEF Linkage, StateOK
  <2>4. Noticed(u)'
    BY <1>1, <1>2, <2>2, <2>3, NoticedKept
  <2> QED BY <2>2, <2>4 DEF Noticed, StaleWaiter
<1>7. ASSUME NEW p \in Pds, Linked(p, "join")' PROVE Noticed(PdObj[p])'
  <2>1. Linked(p, "join") /\ Noticed(PdObj[p])
    BY <1>0, <1>7 DEF AwaitsInv
  <2>2. PdObj[p] \in Threads
    BY <2>1, LinkedHome, ConstantsAssumption DEF Queues
  <2> QED BY <1>1, <1>2, <2>1, <2>2, NoticedKept
<1> QED BY <1>5, <1>6, <1>7 DEF AwaitsInv

\* A step that is none of chopstx_poll's, nor of a join or an exit.
LEMMA KeptPoll ==
  ASSUME KernelInv, PollInv, NEW t \in Threads, cpu # "lock" \/ (running = t /\ pc[t] # "dying"),
         Calm(t), Grows, SamePlace(t), pc'[t] = pc[t] \/ pc'[t] \notin Gone,
         \A u \in Threads : Awaits(t, u)' => Awaits(t, u),
         UNCHANGED irq_enabled, Silent \/ \E x \in Pds : PdKind[x] # "intr" /\ Fires(x)
  PROVE  PollInv'
<1>1. \A u \in Threads : SamePlace(u)
  BY IdlePlace DEF Calm
<1>2. \A u \in Threads : ProxiesOK(u) /\ CountOK(u)
  BY PollParts
<1>3. \A u \in Threads : ProxiesOK(u)' /\ CountOK(u)'
  BY <1>1, <1>2, SilentPlace, FiresPlace
<1>4. SameLinks(q, q', {p \in Pds : PdKind[p] = "intr"})
  <2>1. CASE Silent
    BY <2>1 DEF Silent, SameLinks
  <2>2. CASE \E x \in Pds : PdKind[x] # "intr" /\ Fires(x)
    BY <2>2 DEF Fires, SameLinks
  <2> QED BY <2>1, <2>2
<1>5. IrqFollowsProxy'
  BY <1>4, IrqKept, PollParts
<1>6. \A p \in Pds : Linked(p, "join")' => Linked(p, "join")
  <2>1. CASE Silent
    BY <2>1 DEF Silent, SameLinks, Linked, Queues
  <2>2. CASE \E x \in Pds : Fires(x)
    BY <2>2 DEF Fires, SameLinks, Linked, Queues
  <2> QED BY <2>1, <2>2
<1>7. AwaitsInv'
  BY <1>6, AwaitsKept DEF SamePlace
<1> QED BY <1>3, <1>5, <1>7, PollParts

\* Queues that do not change, and a thread linked elsewhere.
LEMMA ListsType ==
  ASSUME KernelInv
  PROVE  /\ q \in Lists /\ SameLinks(q, q, Pds)
         /\ \A p \in Pds, n \in {"ready", "timer"} \cup Mutexes : p \notin ToSet(q[n])
BY KernelParts, SameRefl DEF Linkage, ListsOK, Lists

LEMMA SameNext ==
  ASSUME NEW Q, SameLinks(q, Q, Pds), NEW Q1, SameLinks(Q, Q1, Pds)
  PROVE  SameLinks(q, Q1, Pds)
BY SameTrans

LEMMA ThreadsMove ==
  ASSUME NEW Q, SameLinks(q, Q, Pds), NEW x \in Threads
  PROVE  /\ SameLinks(q, Dequeue(Q, x), Pds)
         /\ SameLinks(q, StopSlice(Q, x), Pds)
         /\ \A n \in Queues : \A prios : SameLinks(q, PrioEnqueue(Q, n, x, prios), Pds)
         /\ \A n \in Queues : \A prios : SameLinks(q, PrioPush(Q, n, x, prios), Pds)
         /\ \A i \in TimerPlaces(Q) : SameLinks(q, TimerInsert(Q, x, i), Pds)
<1>1. Q \in Lists /\ x \notin Pds /\ x \in Nodes
  BY AddressAssumption DEF SameLinks, Nodes
<1>2. SameLinks(q, Dequeue(Q, x), Pds)
  BY <1>1, SameDequeue, SameNext
<1>3. SameLinks(q, StopSlice(Q, x), Pds)
  BY <1>1, SameStopSlice, SameNext
<1>4. ASSUME NEW n \in Queues, NEW prios
      PROVE  SameLinks(q, PrioEnqueue(Q, n, x, prios), Pds) /\ SameLinks(q, PrioPush(Q, n, x, prios), Pds)
  BY <1>1, SameEnqueue, SameNext
<1>5. ASSUME NEW i \in TimerPlaces(Q)
      PROVE  SameLinks(q, TimerInsert(Q, x, i), Pds)
  <2>1. "timer" \in Queues /\ i \in 1..(Len(Q["timer"]) + 1)
    BY <1>5 DEF Queues, TimerPlaces
  <2>2. SameLinks(Q, TimerInsert(Q, x, i), Pds)
    BY <1>1, <2>1, SameInsert DEF TimerInsert
  <2> QED BY <2>2, SameNext
<1> QED BY <1>2, <1>3, <1>4, <1>5

\* The head of a list of threads leaves it.
LEMMA HeadMoves ==
  ASSUME KernelInv, NEW Q, SameLinks(q, Q, Pds), NEW n \in {"ready", "timer"} \cup Mutexes, Q[n] # << >>
  PROVE  Head(Q[n]) \in Threads /\ SameLinks(q, [Q EXCEPT ![n] = Tail(@)], Pds)
<1>1. n \in Queues /\ Q \in Lists
  BY DEF Queues, Objects, SameLinks
<1>2. Q[n] \in Seq(Nodes)
  BY <1>1 DEF Lists
<1>3. Head(Q[n]) \in ToSet(Q[n]) /\ Head(Q[n]) \in Nodes
  BY <1>2, TailElements
<1>4. Head(Q[n]) \notin Pds
  BY <1>1, <1>3, ListsType DEF SameLinks
<1> QED BY <1>1, <1>3, <1>4, SamePop, SameNext DEF Nodes

\* A switch takes one thread off the ready list, and may link it in the timer list.
LEMMA DispatchSame ==
  ASSUME KernelInv, NEW Q, SameLinks(q, Q, Pds), NEW st, NEW pa, NEW vv, Dispatch(Q, st, pa, vv)
  PROVE  SameLinks(q, q', Pds)
<1>1. CASE Q["ready"] = << >>
  BY <1>1 DEF Dispatch
<1>2. CASE Q["ready"] # << >>
  <2>1. Head(Q["ready"]) \in Threads /\ SameLinks(q, [Q EXCEPT !["ready"] = Tail(@)], Pds)
    BY <1>2, HeadMoves
  <2> QED BY <1>2, <2>1, ThreadsMove DEF Dispatch
<1> QED BY <1>1, <1>2

-----------------------------------------------------------------------------
(* Steps that touch no list.                                                 *)

JoinLabels == {"join", "join_pi", "join_woken"}

\* Thread t goes from outside chopstx_poll and chopstx_join to outside.
Leaps(t) ==
  /\ \A u \in Threads : u # t => SameCall(u)
  /\ ~Polling(pc[t], fr[t]) /\ ~Polling(pc'[t], fr'[t]) /\ pc'[t] \notin JoinLabels
  /\ pc'[t] = pc[t] \/ pc'[t] \notin Gone
  /\ CutOff(t) => CutOff(t)'

\* Inside of a section nobody else does anything.
OnTurn(t) == cpu # "lock" \/ (running = t /\ pc[t] # "dying")

LEMMA LeapPoll ==
  ASSUME KernelInv, PollInv, NEW t \in Threads, OnTurn(t), Leaps(t), Calm(t), Grows, UNCHANGED irq_enabled,
         Silent \/ \E x \in Pds : PdKind[x] # "intr" /\ Fires(x)
  PROVE  PollInv'
<1>1. SamePlace(t)
  BY OutsidePlace DEF Leaps
<1>2. \A u \in Threads : Awaits(t, u)' => Awaits(t, u)
  BY DEF Leaps, Awaits, InPoll, Polling, PollLabels, JoinLabels
<1> QED BY <1>1, <1>2, KeptPoll DEF OnTurn, Leaps

LEMMA QuietFacts ==
  ASSUME KernelInv, UNCHANGED <<q, state, v, ready, counter>>,
         NEW t, \A u \in Threads : u # t => SameCall(u)
  PROVE  Silent /\ Calm(t)
BY ListsType DEF Silent, Calm

LEMMA QuietLeap ==
  ASSUME KernelInv, PollInv, NEW t \in Threads, OnTurn(t), Leaps(t), Grows,
         UNCHANGED <<q, state, v, ready, counter, irq_enabled>>
  PROVE  PollInv'
BY QuietFacts, LeapPoll DEF Leaps

LEMMA CallsQuietPoll ==
  ASSUME KernelInv, PollInv, NEW t \in Threads,
         \/ \E m \in Mutexes : LockCall(t, m)
         \/ \E cv \in Conds, m \in Mutexes \cup {None} : WaitCall(t, cv, m)
         \/ \E cv \in Conds : BroadcastCall(t, cv)
         \/ \E n \in 0..MaxSleep : SleepCall(t, n)
         \/ CleanupPush(t) \/ CleanupPop(t) \/ ExitCall(t) \/ TestCancelCall(t)
         \/ \E enable \in BOOLEAN : SetCancelStateCall(t, enable)
         \/ \E new \in NewPrios : SetPriorityCall(t, new)
  PROVE  PollInv'
<1>1. pc[t] = "user" /\ cpu = "user" /\ pc \in [Threads -> Labels] /\ fr \in [Threads -> Frame]
  BY KernelParts DEF ControlOK, LockCall, WaitCall, BroadcastCall, SleepCall, CleanupPush, CleanupPop, ExitCall,
     TestCancelCall, SetCancelStateCall, SetPriorityCall, Calls, Runs
<1>2. UNCHANGED <<q, state, v, ready, counter, irq_enabled, got_cancel, join_req>>
  BY <1>1 DEF LockCall, WaitCall, BroadcastCall, SleepCall, CleanupPush, CleanupPop, ExitCall,
     TestCancelCall, SetCancelStateCall, SetPriorityCall, queueVars, pollVars, irqVars, flagVars
<1>2a. /\ \A u \in Threads : u # t => SameCall(u)
       /\ pc'[t] \in {"user", "mtx_lock", "exit", "cond_wait", "bcast", "usleep"}
  BY <1>1 DEF LockCall, WaitCall, BroadcastCall, SleepCall, CleanupPush, CleanupPop, ExitCall,
     TestCancelCall, SetCancelStateCall, SetPriorityCall, Goto, SameCall
<1>2b. pc'[t] = "mtx_lock" => fr'[t].then = "user"
  <2>1. ASSUME NEW m \in Mutexes, LockCall(t, m) PROVE fr'[t].then = "user"
    BY <1>1, <2>1 DEF LockCall, Frame
  <2>2. CASE ~\E m \in Mutexes : LockCall(t, m)
    BY <1>1, <2>2 DEF WaitCall, BroadcastCall, SleepCall, CleanupPush, CleanupPop, ExitCall,
       TestCancelCall, SetCancelStateCall, SetPriorityCall, Goto
  <2> QED BY <2>1, <2>2
<1>3. Leaps(t) /\ Grows /\ OnTurn(t)
  BY <1>1, <1>2, <1>2a, <1>2b DEF Leaps, Polling, PollLabels, JoinLabels, Gone, CutOff, OnTurn, Grows
<1> QED BY <1>2, <1>3, QuietLeap

LEMMA StepsQuietPoll ==
  ASSUME KernelInv, PollInv, NEW t \in Threads,
         \/ WaitWoken(t) \/ WaitReturn(t) \/ BroadcastReturn(t) \/ SleepLoop(t) \/ SleepWoken(t)
         \/ ExitBegin(t) \/ ExitHandler(t) \/ ExitHandlersDone(t) \/ JoinFatal(t) \/ JoinReturn(t)
  PROVE  PollInv'
<1>1. /\ running = t /\ pc \in [Threads -> Labels] /\ fr \in [Threads -> Frame]
      /\ pc[t] \in {"cond_woken", "cond_relocked", "bcast", "usleep", "snoozed", "exit", "handlers", "join",
                    "join_woken"}
  BY KernelParts DEF ControlOK, WaitWoken, WaitReturn, BroadcastReturn, SleepLoop, SleepWoken, ExitBegin,
     ExitHandler, ExitHandlersDone, JoinFatal, JoinReturn, Runs, Locked
<1>2. UNCHANGED <<q, v, ready, counter, irq_enabled, got_cancel, join_req>>
  BY DEF WaitWoken, WaitReturn, BroadcastReturn, SleepLoop, SleepWoken, ExitBegin, ExitHandler, ExitHandlersDone,
     JoinFatal, JoinReturn, queueVars, pollVars, irqVars, flagVars
<1>3. state' = state
  <2>1. CASE JoinReturn(t)
    <3>1. v[t] # 0
      BY <2>1, RunsFacts, KernelParts DEF JoinReturn, JoinOK, Runs
    <3> QED BY <2>1, <3>1 DEF JoinReturn
  <2> QED BY <2>1 DEF WaitWoken, WaitReturn, BroadcastReturn, SleepLoop, SleepWoken, ExitBegin, ExitHandler,
          ExitHandlersDone, JoinFatal, queueVars
<1>4. /\ \A u \in Threads : u # t => SameCall(u)
      /\ pc'[t] \in {"user", "mtx_lock", "cond_relocked", "exit", "handlers", "release", "usleep", "snooze", "fatal"}
      /\ pc'[t] = "mtx_lock" => fr'[t].then \in {"user", "cond_relocked"}
      /\ pc[t] \in {"exit", "handlers"} => pc'[t] \in {"exit", "handlers", "release"}
  BY <1>1 DEF WaitWoken, WaitReturn, BroadcastReturn, SleepLoop, SleepWoken, ExitBegin, ExitHandler, ExitHandlersDone,
     JoinFatal, JoinReturn, Goto, SameCall, Frame, Runs, Locked
<1>5. Leaps(t) /\ Grows /\ OnTurn(t)
  BY <1>1, <1>2, <1>4 DEF Leaps, Polling, PollLabels, JoinLabels, Gone, CutOff, OnTurn, Grows
<1> QED BY <1>2, <1>3, <1>5, QuietLeap

-----------------------------------------------------------------------------
(* Mutexes.                                                                  *)

\* The labels of chopstx_mutex_lock, entered from a hook or not, and what follows.
LEMMA LockPlace ==
  ASSUME NEW t \in Threads, pc[t] \in {"mtx_lock", "mtx_pi"}, fr'[t].then = fr[t].then, fr'[t].idx = fr[t].idx,
         pc'[t] \in {"mtx_lock", "mtx_pi"}
  PROVE  SamePlace(t) /\ \A u \in Threads : Awaits(t, u)' => Awaits(t, u)
<1>1. SamePlace(t)
  BY DEF SamePlace, Polling, PollLabels, WaitLabels, Active, Armed, CutOff
<1>2. \A u \in Threads : Awaits(t, u)' => Awaits(t, u)
  BY DEF Awaits, InPoll, PollLabels
<1> QED BY <1>1, <1>2

LEMMA RequeueSame ==
  ASSUME KernelInv, NEW x \in Threads, NEW prios, Requeue(x, prios)
  PROVE  SameLinks(q, q', Pds)
<1>1. CASE state[x] \in {"READY", "WAIT_MTX", "WAIT_CND"}
  <2>1. parent[x] \in Queues
    BY <1>1, KernelParts DEF Linkage, StateOK, Queues, Objects
  <2>2. SameLinks(q, Dequeue(q, x), Pds)
    BY ListsType, ThreadsMove
  <2> QED BY <1>1, <2>1, <2>2, ThreadsMove DEF Requeue
<1>2. CASE state[x] \notin {"READY", "WAIT_MTX", "WAIT_CND"}
  BY <1>2, ListsType DEF Requeue
<1> QED BY <1>1, <1>2

LEMMA LockAcquirePoll ==
  ASSUME KernelInv, PollInv, NEW t \in Threads, LockAcquire(t)
  PROVE  PollInv'
<1>1. /\ pc[t] = "mtx_lock" /\ cpu = "user" /\ pc \in [Threads -> Labels] /\ fr \in [Threads -> Frame]
      /\ fr[t].then \in {"user", "cond_relocked", "hook_check"}
  BY KernelParts DEF ControlOK, FrameOK, LockAcquire, Runs
<1>2. /\ UNCHANGED <<q, state, v, ready, counter, irq_enabled, got_cancel, join_req>>
      /\ \A u \in Threads : u # t => SameCall(u)
      /\ pc'[t] = fr[t].then /\ fr'[t] = [fr[t] EXCEPT !.mtx = None, !.then = "user"]
  BY <1>1 DEF LockAcquire, Goto, SameCall, queueVars, pollVars, irqVars, flagVars
<1>3. fr'[t].idx = fr[t].idx
  BY <1>1, <1>2 DEF Frame
<1>4. SamePlace(t) /\ \A u \in Threads : Awaits(t, u)' => Awaits(t, u)
  <2>1. SamePlace(t)
    BY <1>1, <1>2, <1>3 DEF SamePlace, Polling, PollLabels, WaitLabels, Active, Armed, CutOff
  <2> QED BY <1>1, <1>2, <2>1 DEF Awaits, InPoll, PollLabels
<1> QED BY <1>1, <1>2, <1>4, KeptPoll, QuietFacts DEF Gone, Grows

LEMMA LockHeldPoll ==
  ASSUME KernelInv, PollInv, NEW t \in Threads, LockHeld(t)
  PROVE  PollInv'
<1>1. pc[t] = "mtx_lock" /\ cpu = "user" /\ pc \in [Threads -> Labels] /\ fr \in [Threads -> Frame]
  BY KernelParts DEF ControlOK, LockHeld, Runs
<1>2. /\ UNCHANGED <<q, state, v, ready, counter, irq_enabled, got_cancel, join_req>>
      /\ \A u \in Threads : u # t => SameCall(u)
      /\ pc'[t] = "mtx_pi" /\ fr'[t] = [fr[t] EXCEPT !.tp0 = owner[fr[t].mtx]]
  BY <1>1 DEF LockHeld, Goto, SameCall, queueVars, pollVars, irqVars, flagVars
<1>3. fr'[t].then = fr[t].then /\ fr'[t].idx = fr[t].idx
  BY <1>1, <1>2 DEF Frame
<1>4. SamePlace(t) /\ \A u \in Threads : Awaits(t, u)' => Awaits(t, u)
  BY <1>1, <1>2, <1>3, LockPlace
<1> QED BY <1>1, <1>2, <1>4, KeptPoll, QuietFacts DEF Gone, Grows

LEMMA LockInheritPoll ==
  ASSUME KernelInv, PollInv, NEW t \in Threads, LockInherit(t)
  PROVE  PollInv'
<1> DEFINE x == fr[t].tp0
<1>1. /\ running = t /\ pc[t] = "mtx_pi" /\ pc \in [Threads -> Labels] /\ fr \in [Threads -> Frame]
      /\ x \in Threads /\ state \in [Threads -> States] /\ v \in [Threads -> Threads \cup {-1, 0, 1}]
  BY KernelParts DEF ControlOK, Frame, Linkage, LockInherit, Locked, Inherits
<1>2. /\ UNCHANGED <<ready, counter, irq_enabled, got_cancel, join_req, pc>>
      /\ \A u \in Threads : u # t => SameCall(u)
      /\ \E y : fr'[t] = [fr[t] EXCEPT !.tp0 = y]
  BY <1>1, SMTT(60), ZenonT(60) DEF LockInherit, SameCall, pollVars, irqVars, flagVars
<1>3. fr'[t].then = fr[t].then /\ fr'[t].idx = fr[t].idx
  BY <1>1, <1>2 DEF Frame
<1>4. SamePlace(t) /\ \A u \in Threads : Awaits(t, u)' => Awaits(t, u)
  BY <1>1, <1>2, <1>3, LockPlace
<1>5. \A u \in Threads : \/ state'[u] = state[u] /\ v'[u] = v[u]
                         \/ state'[u] = "READY"
  BY <1>1 DEF LockInherit
<1>6. SameLinks(q, q', Pds)
  <2>1. "ready" \in Queues
    BY DEF Queues
  <2>2. SameLinks(q, IF Timed(x) THEN Dequeue(q, x) ELSE q, Pds)
    BY <1>1, ListsType, ThreadsMove
  <2>3. ASSUME NEW prios, q' = PrioEnqueue(IF Timed(x) THEN Dequeue(q, x) ELSE q, "ready", x, prios)
        PROVE  SameLinks(q, q', Pds)
    BY <1>1, <2>1, <2>2, <2>3, ThreadsMove
  <2>4. ASSUME NEW prios, Requeue(x, prios) PROVE SameLinks(q, q', Pds)
    BY <1>1, <2>4, RequeueSame
  <2> QED BY <2>3, <2>4 DEF LockInherit
<1>7. Silent /\ Calm(t)
  BY <1>2, <1>5, <1>6 DEF Silent, Calm
<1> QED BY <1>1, <1>2, <1>4, <1>7, KeptPoll DEF Gone, Grows

LEMMA LockBlockPoll ==
  ASSUME KernelInv, PollInv, NEW t \in Threads, LockBlock(t)
  PROVE  PollInv'
<1>1. /\ running = t /\ pc[t] = "mtx_pi" /\ pc \in [Threads -> Labels] /\ fr \in [Threads -> Frame]
      /\ fr[t].mtx \in Queues /\ state \in [Threads -> States] /\ v \in [Threads -> Threads \cup {-1, 0, 1}]
  BY KernelParts DEF ControlOK, FrameOK, Linkage, LockBlock, Locked, Queues, Objects
<1>2. /\ UNCHANGED <<ready, counter, irq_enabled, got_cancel, join_req>>
      /\ \A u \in Threads : u # t => SameCall(u)
      /\ pc'[t] = "mtx_lock" /\ fr'[t] = [fr[t] EXCEPT !.tp0 = None]
  BY <1>1 DEF LockBlock, Goto, SameCall, pollVars, irqVars, flagVars
<1>3. fr'[t].then = fr[t].then /\ fr'[t].idx = fr[t].idx
  BY <1>1, <1>2 DEF Frame
<1>4. SamePlace(t) /\ \A u \in Threads : Awaits(t, u)' => Awaits(t, u)
  BY <1>1, <1>2, <1>3, LockPlace
<1>5. \A u \in Threads : (state'[u] = state[u] /\ v'[u] = v[u]) \/ state'[u] = "WAIT_MTX"
  BY <1>1 DEF LockBlock
<1>6. SameLinks(q, q', Pds)
  BY <1>1, ListsType, ThreadsMove DEF LockBlock
<1>7. Silent /\ Calm(t)
  BY <1>2, <1>5, <1>6 DEF Silent, Calm
<1> QED BY <1>1, <1>2, <1>4, <1>7, KeptPoll DEF Gone, Grows

\* chx_mutex_unlock makes at most one thread ready.
LEMMA ReleaseSilent ==
  ASSUME KernelInv, NEW t \in Threads, NEW m \in Mutexes, MutexRelease(t, m), UNCHANGED <<ready, counter>>,
         \A u \in Threads : u # t => SameCall(u)
  PROVE  Silent /\ Calm(t)
<1>1. state \in [Threads -> States] /\ v \in [Threads -> Threads \cup {-1, 0, 1}]
  BY KernelParts DEF Linkage
<1>2. CASE q[m] = << >>
  BY <1>2, QuietFacts DEF MutexRelease, queueVars
<1>3. CASE q[m] # << >>
  <2>1. Head(q[m]) \in Threads /\ SameLinks(q, [q EXCEPT ![m] = Tail(@)], Pds) /\ "ready" \in Queues
    BY <1>3, ListsType, HeadMoves DEF Queues
  <2>1a. q' = PrioEnqueue([q EXCEPT ![m] = Tail(@)], "ready", Head(q[m]), prio)
    BY <1>3 DEF MutexRelease, MakeReady
  <2>2. SameLinks(q, q', Pds)
    BY <2>1, <2>1a, ThreadsMove
  <2>3. \A u \in Threads : (state'[u] = state[u] /\ v'[u] = v[u]) \/ state'[u] = "READY"
    BY <1>1, <1>3, <2>1 DEF MutexRelease, MakeReady
  <2> QED BY <2>2, <2>3 DEF Silent, Calm
<1> QED BY <1>2, <1>3

LEMMA ReleaseStepsPoll ==
  ASSUME KernelInv, LocksInv, PollInv, NEW t \in Threads, UnlockCall(t) \/ ExitRelease(t) \/ WaitRelease(t)
  PROVE  PollInv'
<1>1. /\ pc[t] \in {"user", "release", "cond_wait"} /\ cpu = "user" /\ running = t
      /\ pc \in [Threads -> Labels] /\ fr \in [Threads -> Frame]
  BY KernelParts DEF ControlOK, UnlockCall, ExitRelease, WaitRelease, Calls, Runs
<1>2. /\ UNCHANGED <<ready, counter, irq_enabled, got_cancel, join_req>>
      /\ \A u \in Threads : u # t => SameCall(u)
      /\ pc'[t] = IF pc[t] = "cond_wait" THEN "cond_block" ELSE pc[t]
  <2>1. CASE UnlockCall(t)
    BY <1>1, <2>1 DEF UnlockCall, Unlock, SameCall, Calls, Runs, pollVars, irqVars, flagVars
  <2>2. CASE ExitRelease(t)
    BY <1>1, <2>2 DEF ExitRelease, SameCall, Runs, pollVars, irqVars, flagVars
  <2>3. CASE WaitRelease(t)
    BY <1>1, <2>3 DEF WaitRelease, SameCall, Goto, Runs, pollVars, irqVars, flagVars
  <2> QED BY <2>1, <2>2, <2>3
<1>3. Silent /\ Calm(t)
  <2>1. CASE UnlockCall(t)
    <3>1. mutex_list[t] \in Mutexes /\ MutexRelease(t, mutex_list[t])
      BY <2>1, KernelParts DEF UnlockCall, Unlock, ResourceTypes
    <3> QED BY <1>2, <3>1, ReleaseSilent
  <2>2. CASE ExitRelease(t)
    <3>1. fr[t].mtx \in Mutexes /\ MutexRelease(t, fr[t].mtx)
      BY <1>1, <2>2 DEF ExitRelease, Frame
    <3> QED BY <1>2, <3>1, ReleaseSilent
  <2>3. CASE WaitRelease(t) /\ fr[t].mtx # None
    <3>1. fr[t].mtx \in Mutexes /\ MutexRelease(t, fr[t].mtx)
      BY <1>1, <2>3 DEF WaitRelease, Frame
    <3> QED BY <1>2, <3>1, ReleaseSilent
  <2>4. CASE WaitRelease(t) /\ fr[t].mtx = None
    BY <1>2, <2>4, QuietFacts DEF WaitRelease, queueVars
  <2> QED BY <2>1, <2>2, <2>3, <2>4
<1>4. Leaps(t) /\ Grows /\ OnTurn(t)
  BY <1>1, <1>2 DEF Leaps, Polling, PollLabels, JoinLabels, Gone, CutOff, OnTurn, Grows
<1> QED BY <1>2, <1>3, <1>4, LeapPoll

-----------------------------------------------------------------------------
(* Sleeping, cancellation, creation and the inheritance of joins.            *)

LEMMA WaitBlockPoll ==
  ASSUME KernelInv, PollInv, NEW t \in Threads, WaitBlock(t)
  PROVE  PollInv'
<1>1. /\ running = t /\ pc[t] = "cond_block" /\ pc \in [Threads -> Labels] /\ fr[t].cnd \in Queues
      /\ state \in [Threads -> States] /\ v \in [Threads -> Threads \cup {-1, 0, 1}]
  BY KernelParts DEF ControlOK, FrameOK, Linkage, WaitBlock, Locked, Queues, Objects
<1>2. /\ UNCHANGED <<ready, counter, irq_enabled, got_cancel, join_req>>
      /\ \A u \in Threads : u # t => SameCall(u)
      /\ pc'[t] = "cond_woken"
  BY <1>1 DEF WaitBlock, Goto, SameCall, pollVars, irqVars, flagVars
<1>3. \A u \in Threads : (state'[u] = state[u] /\ v'[u] = v[u]) \/ state'[u] = "WAIT_CND"
  BY <1>1 DEF WaitBlock
<1>4. SameLinks(q, q', Pds)
  BY <1>1, ListsType, ThreadsMove DEF WaitBlock
<1>5. Silent /\ Calm(t)
  BY <1>2, <1>3, <1>4 DEF Silent, Calm
<1>6. Leaps(t) /\ Grows /\ OnTurn(t)
  BY <1>1, <1>2 DEF Leaps, Polling, PollLabels, JoinLabels, Gone, CutOff, OnTurn, Grows
<1> QED BY <1>2, <1>5, <1>6, LeapPoll

LEMMA CreateCallPoll ==
  ASSUME KernelInv, LocksInv, PollInv, NEW t \in Threads, NEW u \in Threads, CreateCall(t, u)
  PROVE  PollInv'
<1>1. /\ cpu = "user" /\ pc[u] = "none" /\ pc \in [Threads -> Labels]
      /\ state \in [Threads -> States]
  BY KernelParts DEF ControlOK, Linkage, CreateCall, Calls, Runs, LocksInv, SleepOK
<1>2. /\ UNCHANGED <<ready, counter, irq_enabled, got_cancel, join_req, v>>
      /\ \A w \in Threads : w # u => SameCall(w)
      /\ pc'[u] = "user"
  BY <1>1 DEF CreateCall, Goto, SameCall, pollVars, irqVars, flagVars
<1>3. \A w \in Threads : state'[w] = state[w] \/ state'[w] = "READY"
  BY <1>1 DEF CreateCall, MakeReady
<1>4. SameLinks(q, q', Pds)
  <2>1. q' = PrioEnqueue(q, "ready", u, prio) /\ "ready" \in Queues
    BY DEF CreateCall, MakeReady, Queues
  <2> QED BY <2>1, ListsType, ThreadsMove
<1>5. Silent /\ Calm(u)
  BY <1>2, <1>3, <1>4 DEF Silent, Calm
<1>6. Leaps(u) /\ Grows /\ OnTurn(u)
  BY <1>1, <1>2 DEF Leaps, Polling, PollLabels, JoinLabels, Gone, CutOff, OnTurn, Grows
<1> QED BY <1>2, <1>5, <1>6, LeapPoll

\* A sleep of one slice.
LEMMA SnoozeSame ==
  ASSUME KernelInv, NEW t \in Threads, NEW st \in States, NEW l \in Labels, Snooze(t, st, l)
  PROVE  /\ UNCHANGED <<ready, counter, irq_enabled, got_cancel, join_req>>
         /\ \A u \in Threads : u # t => SameCall(u)
         /\ pc'[t] = l /\ fr'[t].idx = fr[t].idx
         /\ SameLinks(q, q', Pds)
         /\ \A u \in Threads : (state'[u] = state[u] /\ v'[u] = v[u]) \/ (u = t /\ state'[u] = st)
<1>1. /\ pc \in [Threads -> Labels] /\ fr \in [Threads -> Frame]
      /\ state \in [Threads -> States] /\ v \in [Threads -> Threads \cup {-1, 0, 1}]
  BY KernelParts DEF ControlOK, Linkage
<1>2. UNCHANGED <<ready, counter, irq_enabled, got_cancel, join_req>>
  BY DEF Snooze, pollVars, irqVars, flagVars
<1>3. \E y : fr' = [fr EXCEPT ![t].r = y]
  BY DEF Snooze
<1>4. /\ \A u \in Threads : u # t => SameCall(u)
      /\ pc'[t] = l /\ fr'[t].idx = fr[t].idx
  <2>1. pc' = [pc EXCEPT ![t] = l]
    BY DEF Snooze, Goto
  <2> QED BY <1>1, <1>3, <2>1 DEF SameCall, Frame
<1>5. SameLinks(q, q', Pds)
  <2>1. CASE fr[t].left = 0
    BY <2>1, ListsType DEF Snooze, queueVars
  <2>2. CASE fr[t].left # 0
    <3>1. PICK i \in TimerPlaces(StopSlice(q, t)) : q' = TimerInsert(StopSlice(q, t), t, i)
      BY <2>2 DEF Snooze
    <3>2. SameLinks(q, StopSlice(q, t), Pds)
      BY ListsType, ThreadsMove
    <3> QED BY <3>1, <3>2, ThreadsMove
  <2> QED BY <2>1, <2>2
<1>6. \A u \in Threads : (state'[u] = state[u] /\ v'[u] = v[u]) \/ (u = t /\ state'[u] = st)
  BY <1>1 DEF Snooze, queueVars
<1> QED BY <1>2, <1>4, <1>5, <1>6

LEMMA SleepBlockPoll ==
  ASSUME KernelInv, PollInv, NEW t \in Threads, SleepBlock(t)
  PROVE  PollInv'
<1>1. pc[t] = "snooze" /\ cpu = "user" /\ Snooze(t, "WAIT_TIME", "snoozed")
  BY DEF SleepBlock, Runs
<1>1a. "WAIT_TIME" \in States /\ "snoozed" \in Labels
  BY DEF States, Labels
<1>2. /\ UNCHANGED <<ready, counter, irq_enabled, got_cancel, join_req>>
      /\ \A u \in Threads : u # t => SameCall(u)
      /\ pc'[t] = "snoozed" /\ SameLinks(q, q', Pds)
      /\ \A u \in Threads : (state'[u] = state[u] /\ v'[u] = v[u]) \/ (u = t /\ state'[u] = "WAIT_TIME")
  BY <1>1, <1>1a, SnoozeSame
<1>5. Silent /\ Calm(t)
  BY <1>2 DEF Silent, Calm
<1>6. Leaps(t) /\ Grows /\ OnTurn(t)
  BY <1>1, <1>2 DEF Leaps, Polling, PollLabels, JoinLabels, Gone, CutOff, OnTurn, Grows
<1> QED BY <1>2, <1>5, <1>6, LeapPoll

LEMMA CancelCallPoll ==
  ASSUME KernelInv, PollInv, NEW t \in Threads, NEW u \in Threads, CancelCall(t, u)
  PROVE  PollInv'
<1>1. /\ cpu = "user" /\ pc[t] = "user" /\ got_cancel \in [Threads -> BOOLEAN]
      /\ state \in [Threads -> States] /\ v \in [Threads -> Threads \cup {-1, 0, 1}]
  BY KernelParts DEF Linkage, CancelCall, Calls, Runs, ResourceTypes
<1>2. /\ UNCHANGED <<ready, counter, irq_enabled, join_req, pc, fr>>
      /\ \A w \in Threads : SameCall(w) /\ (got_cancel[w] => got_cancel'[w])
  BY <1>1 DEF CancelCall, SameCall, pollVars, irqVars
<1>3. \A w \in Threads : (state'[w] = state[w] /\ v'[w] = v[w]) \/ state'[w] = "READY"
  BY <1>1 DEF CancelCall, MakeReady, queueVars
<1>4. SameLinks(q, q', Pds)
  <2>1. q' = q \/ q' = PrioEnqueue(IF CancelUnlinks(u) THEN Dequeue(q, u) ELSE q, "ready", u, prio)
    BY DEF CancelCall, MakeReady, queueVars
  <2>2. SameLinks(q, IF CancelUnlinks(u) THEN Dequeue(q, u) ELSE q, Pds) /\ "ready" \in Queues
    BY ListsType, ThreadsMove DEF Queues
  <2>3. SameLinks(q, PrioEnqueue(IF CancelUnlinks(u) THEN Dequeue(q, u) ELSE q, "ready", u, prio), Pds)
    BY <2>2, ThreadsMove
  <2> QED BY <2>1, <2>3, ListsType
<1>5. Silent /\ Calm(t)
  BY <1>2, <1>3, <1>4 DEF Silent, Calm
<1>6. Leaps(t) /\ Grows /\ OnTurn(t)
  BY <1>1, <1>2 DEF Leaps, Polling, PollLabels, JoinLabels, Gone, CutOff, OnTurn, Grows
<1> QED BY <1>2, <1>5, <1>6, LeapPoll

LEMMA JoinStepsPoll ==
  ASSUME KernelInv, PollInv, NEW t \in Threads, JoinInherit(t) \/ JoinSleep(t)
  PROVE  PollInv'
<1>1. /\ running = t /\ pc[t] = "join_pi" /\ pc \in [Threads -> Labels] /\ fr \in [Threads -> Frame]
  BY KernelParts DEF ControlOK, JoinInherit, JoinSleep, Locked
<1>2. /\ UNCHANGED <<ready, counter, irq_enabled, got_cancel, join_req, state, v>>
      /\ \A u \in Threads : u # t => SameCall(u)
      /\ pc'[t] \in {"join_pi", "join_woken"} /\ \E y : fr'[t] = [fr[t] EXCEPT !.tp0 = y]
  BY <1>1 DEF JoinInherit, JoinSleep, Goto, SameCall, pollVars, irqVars, flagVars, queueVars
<1>3. fr'[t].tgt = fr[t].tgt
  BY <1>1, <1>2 DEF Frame
<1>4. SameLinks(q, q', Pds)
  <2>1. CASE JoinSleep(t)
    BY <2>1, ListsType DEF JoinSleep, queueVars
  <2>2. CASE JoinInherit(t)
    <3>1. fr[t].tp0 \in Threads
      BY <1>1, <2>2 DEF JoinInherit, Inherits, Frame
    <3> QED BY <2>2, <3>1, RequeueSame DEF JoinInherit
  <2> QED BY <2>1, <2>2
<1>5. Silent /\ Calm(t)
  BY <1>2, <1>4 DEF Silent, Calm
<1>6. SamePlace(t)
  BY <1>1, <1>2, OutsidePlace DEF Polling, PollLabels, CutOff
<1>7. \A u \in Threads : Awaits(t, u)' => Awaits(t, u)
  BY <1>1, <1>2, <1>3 DEF Awaits, InPoll, PollLabels
<1> QED BY <1>1, <1>2, <1>5, <1>6, <1>7, KeptPoll DEF Gone, Grows

-----------------------------------------------------------------------------
(* Wake-ups.                                                                 *)

\* What chx_wakeup does to the lists, besides taking the node it is called for.
LEMMA WakeupMoves ==
  ASSUME KernelInv, NEW Q \in Lists, NEW x \in Nodes, Wakeup(x, Q)
  PROVE  /\ SameLinks(Q, q', Pds)
         /\ \A u \in Threads : \/ state'[u] = state[u] /\ v'[u] = v[u]
                               \/ u = ThreadOf(x) /\ state'[u] = "READY"
         /\ x \in Pds => state'[Master(x)] # "WAIT_POLL"
         /\ x \in Threads => state'[x] = "READY"
<1> DEFINE t == ThreadOf(x)
           Q1 == IF x \in Pds /\ Timed(t) THEN Dequeue(Q, t) ELSE Q
<1>1. t \in Threads /\ state \in [Threads -> States] /\ v \in [Threads -> Threads \cup {-1, 0, 1}]
  BY MasterHas, KernelParts DEF ThreadOf, Nodes, Linkage
<1>2. t \notin Pds /\ t \in Nodes /\ (x \in Threads => x \notin Pds /\ t = x) /\ (x \in Pds => t = Master(x))
  BY <1>1, AddressAssumption DEF ThreadOf, Nodes
<1>3. CASE x \in Pds /\ state[t] # "WAIT_POLL"
  <2>1. q' = Q /\ UNCHANGED <<state, parent, v>>
    BY <1>3 DEF Wakeup
  <2> QED BY <1>2, <1>3, <2>1, SameRefl
<1>4. CASE ~(x \in Pds /\ state[t] # "WAIT_POLL")
  <2>1. MakeReady(Q1, t) /\ \E w : v' = [v EXCEPT ![t] = w]
    BY <1>4 DEF Wakeup
  <2>2. SameLinks(Q, Q1, Pds)
    BY <1>2, SameRefl, SameDequeue
  <2> HIDE DEF t, Q1
  <2>3. Q1 \in Lists /\ "ready" \in Queues
    BY <2>2 DEF SameLinks, Queues
  <2>4. SameLinks(Q1, PrioEnqueue(Q1, "ready", t, prio), Pds)
    BY <1>2, <2>3, SameEnqueue
  <2>5. SameLinks(Q, q', Pds)
    BY <2>1, <2>2, <2>4, SameTrans DEF MakeReady
  <2>6. state' = [state EXCEPT ![t] = "READY"]
    BY <2>1 DEF MakeReady
  <2> QED BY <1>1, <1>2, <2>1, <2>5, <2>6 DEF t
<1> QED BY <1>3, <1>4

\* The wake-up of a thread.
LEMMA ThreadWakes ==
  ASSUME KernelInv, NEW x \in Threads, NEW Q, SameLinks(q, Q, Pds), Wakeup(x, Q)
  PROVE  Silent
<1>1. x \in Nodes /\ x \notin Pds /\ Q \in Lists
  BY AddressAssumption DEF Nodes, SameLinks
<1>2. SameLinks(q, q', Pds)
  BY <1>1, WakeupMoves, SameNext
<1>3. UNCHANGED <<ready, counter>>
  BY <1>1 DEF Wakeup, pollVars
<1>4. \A u \in Threads : state'[u] = "WAIT_POLL" => state[u] = "WAIT_POLL"
  BY <1>1, WakeupMoves
<1> QED BY <1>2, <1>3, <1>4 DEF Silent

\* The wake-up of a proxy.
LEMMA ProxyWakes ==
  ASSUME KernelInv, NEW x \in Pds, \E n \in Queues : Linked(x, n),
         NEW Q, SameLinks(q, Q, Pds \ {x}), \A n \in Queues : x \notin ToSet(Q[n]), Wakeup(x, Q)
  PROVE  Fires(x)
<1>1. x \in Nodes /\ Q \in Lists
  BY DEF Nodes, SameLinks
<1>2. SameLinks(Q, q', Pds)
  BY <1>1, WakeupMoves
<1>3. SameLinks(q, q', Pds \ {x})
  BY <1>2, SameLess, SameTrans
<1>4. \A n \in Queues : x \notin ToSet(q'[n])
  BY <1>2 DEF SameLinks
<1>5. ready' = [ready EXCEPT ![x] = 1] /\ counter' = [counter EXCEPT ![Master(x)] = @ + 1]
  BY DEF Wakeup, ThreadOf
<1>6. \A u \in Threads : state'[u] = "WAIT_POLL" => state[u] = "WAIT_POLL" /\ u # Master(x)
  BY <1>1, WakeupMoves
<1> QED BY <1>3, <1>4, <1>5, <1>6 DEF Fires

\* A node that leaves the one list it is linked in.
LEMMA ProxyOut ==
  ASSUME KernelInv, NEW x \in Pds, NEW n \in Queues, Linked(x, n), Once(q[n], x),
         \A m \in Queues : Linked(x, m) => m = n
  PROVE  /\ SameLinks(q, Dequeue(q, x), Pds \ {x}) /\ \A m \in Queues : x \notin ToSet(Dequeue(q, x)[m])
         /\ x = Head(q[n]) => /\ SameLinks(q, [q EXCEPT ![n] = Tail(@)], Pds \ {x})
                              /\ \A m \in Queues : x \notin ToSet([q EXCEPT ![n] = Tail(@)][m])
<1>1. q \in Lists /\ q[n] \in Seq(Nodes)
  BY ListsType DEF Lists
<1>2. SameLinks(q, Dequeue(q, x), Pds \ {x})
  BY <1>1, SameDequeue
<1>3. \A m \in Queues : x \notin ToSet(Dequeue(q, x)[m])
  <2> DEFINE i == CHOOSE k \in DOMAIN q[n] : q[n][k] = x
  <2>1. n = CHOOSE k \in Queues : x \in ToSet(q[k])
    BY DEF Linked
  <2>2. Dequeue(q, x) = [q EXCEPT ![n] = RemoveAt(q[n], i)]
    BY <2>1 DEF Dequeue, Without, Linked
  <2>3. i \in 1..Len(q[n]) /\ q[n][i] = x
    BY <1>1 DEF Linked, ToSet
  <2> HIDE DEF i
  <2>4. x \notin ToSet(RemoveAt(q[n], i))
    BY <1>1, <2>3, RemoveAtElements
  <2> QED BY <1>1, <2>2, <2>4 DEF Linked, Lists
<1>4. ASSUME x = Head(q[n])
      PROVE  /\ SameLinks(q, [q EXCEPT ![n] = Tail(@)], Pds \ {x})
             /\ \A m \in Queues : x \notin ToSet([q EXCEPT ![n] = Tail(@)][m])
  <2>1. q[n] # << >>
    BY DEF Linked, ToSet
  <2>2. x \notin ToSet(Tail(q[n]))
    BY <1>1, <1>4, <2>1, TailElements
  <2>3. SameLinks(q, [q EXCEPT ![n] = Tail(@)], Pds \ {x})
    BY <1>1, <1>4, <2>1, SamePop
  <2> QED BY <1>1, <2>2, <2>3 DEF Linked, Lists
<1> QED BY <1>2, <1>3, <1>4

\* The first waiter of a condition variable is woken up.
LEMMA CondWakesPoll ==
  ASSUME KernelInv, PollInv, NEW cv \in Conds, q[cv] # << >>, Wakeup(Head(q[cv]), [q EXCEPT ![cv] = Tail(@)])
  PROVE  /\ Silent \/ \E x \in Pds : PdKind[x] # "intr" /\ Fires(x)
         /\ \A u \in Threads : (state'[u] = state[u] /\ v'[u] = v[u]) \/ state'[u] = "READY"
<1> DEFINE x == Head(q[cv])
           Q == [q EXCEPT ![cv] = Tail(@)]
<1>1. cv \in Queues /\ q \in Lists /\ q[cv] \in Seq(Nodes)
  BY ListsType DEF Queues, Objects, Lists
<1>2. x \in Nodes /\ Linked(x, cv)
  BY <1>1, TailElements DEF Linked
<1>3. Wakeup(x, Q)
  OBVIOUS
<1>4. SameLinks(q, Q, {})
  BY <1>1, SamePop
<1>5. Q \in Lists
  BY <1>4 DEF SameLinks
<1>6. CASE x \in Threads
  <2>1. x \notin Pds
    BY <1>6, AddressAssumption
  <2>2. SameLinks(q, Q, Pds)
    BY <1>1, <2>1, SamePop
  <2> QED BY <1>2, <1>3, <1>5, <1>6, <2>2, ThreadWakes, WakeupMoves
<1>7. CASE x \in Pds
  <2>1. PdKind[x] = "cond" /\ Once(q[cv], x) /\ \A m \in Queues : Linked(x, m) => m = cv
    BY <1>1, <1>2, <1>7, LinkedHome
  <2>2. SameLinks(q, Q, Pds \ {x}) /\ \A m \in Queues : x \notin ToSet(Q[m])
    BY <1>1, <1>2, <1>7, <2>1, ProxyOut
  <2>3. Fires(x)
    BY <1>1, <1>2, <1>3, <1>7, <2>2, ProxyWakes
  <2> QED BY <1>2, <1>3, <1>5, <1>7, <2>1, <2>3, WakeupMoves
<1> QED BY <1>2, <1>6, <1>7 DEF Nodes

LEMMA CondPoll ==
  ASSUME KernelInv, PollInv, NEW t \in Threads, (\E cv \in Conds : SignalCall(t, cv)) \/ BroadcastWake(t)
  PROVE  PollInv'
<1>1. /\ pc[t] \in {"user", "bcast"} /\ running = t /\ fr \in [Threads -> Frame]
  BY KernelParts DEF ControlOK, SignalCall, BroadcastWake, Calls, Runs, Locked
<1>2. /\ UNCHANGED <<irq_enabled, got_cancel, join_req, pc>>
      /\ \A u \in Threads : u # t => SameCall(u)
  BY <1>1 DEF SignalCall, BroadcastWake, SameCall, irqVars, flagVars
<1>3. /\ Silent \/ \E x \in Pds : PdKind[x] # "intr" /\ Fires(x)
      /\ \A u \in Threads : (state'[u] = state[u] /\ v'[u] = v[u]) \/ state'[u] = "READY"
  <2>1. CASE \E cv \in Conds : SignalCall(t, cv)
    <3>1. PICK cv \in Conds : SignalCall(t, cv)
      BY <2>1
    <3>2. CASE q[cv] = << >>
      BY <1>2, <3>1, <3>2, QuietFacts DEF SignalCall, queueVars, pollVars
    <3>3. CASE q[cv] # << >>
      BY <3>1, <3>3, CondWakesPoll DEF SignalCall
    <3> QED BY <3>2, <3>3
  <2>2. CASE BroadcastWake(t)
    <3>1. fr[t].cnd \in Conds
      BY <2>2, KernelParts DEF BroadcastWake, Locked, FrameOK, ControlOK
    <3> QED BY <2>2, <3>1, CondWakesPoll DEF BroadcastWake
  <2> QED BY <2>1, <2>2
<1>4. Calm(t)
  BY <1>2, <1>3 DEF Calm
<1>5. Leaps(t) /\ Grows /\ OnTurn(t)
  BY <1>1, <1>2 DEF Leaps, Polling, PollLabels, JoinLabels, Gone, CutOff, OnTurn, Grows
<1> QED BY <1>2, <1>3, <1>4, <1>5, LeapPoll

\* The processor is given to another thread, and threads become ready.
LEMMA DriftPoll ==
  ASSUME KernelInv, PollInv, cpu # "lock", SameLinks(q, q', Pds),
         \A u \in Threads : (state'[u] = state[u] /\ v'[u] = v[u]) \/ state'[u] \in {"READY", "RUNNING"},
         UNCHANGED <<irq_enabled, got_cancel, join_req, pc, fr, ready, counter>>
  PROVE  PollInv'
<1>1. \A u \in Threads : SameCall(u)
  BY DEF SameCall
<1>2. Main \in Threads
  BY ConstantsAssumption
<1>3. Silent /\ Calm(Main) /\ Grows
  BY <1>1 DEF Silent, Calm, Grows
<1>4. SamePlace(Main) /\ \A u \in Threads : Awaits(Main, u)' => Awaits(Main, u)
  BY <1>1, <1>2, <1>3, IdlePlace, AwaitsSame
<1> QED BY <1>2, <1>3, <1>4, KeptPoll

LEMMA DispatchPoll ==
  ASSUME KernelInv, PollInv, cpu # "lock",
         UNCHANGED <<irq_enabled, got_cancel, join_req, pc, fr, ready, counter>>,
         NEW Q, SameLinks(q, Q, Pds), NEW st \in [Threads -> States], NEW pa,
         NEW vv \in [Threads -> Threads \cup {-1, 0, 1}], Dispatch(Q, st, pa, vv),
         \A u \in Threads : (st[u] = state[u] /\ vv[u] = v[u]) \/ st[u] = "READY"
  PROVE  PollInv'
<1>1. SameLinks(q, q', Pds)
  BY DispatchSame
<1>2. \A u \in Threads : (state'[u] = st[u] /\ v'[u] = vv[u]) \/ state'[u] = "RUNNING"
  BY DEF Dispatch
<1> QED BY <1>1, <1>2, DriftPoll

LEMMA SwitchPoll ==
  ASSUME KernelInv, PollInv, Sched \/ Preempt
  PROVE  PollInv'
<1>1. /\ cpu # "lock" /\ state \in [Threads -> States] /\ v \in [Threads -> Threads \cup {-1, 0, 1}]
      /\ UNCHANGED <<irq_enabled, got_cancel, join_req, pc, fr, ready, counter>>
  BY KernelParts DEF Linkage, Sched, Preempt, Interruptible, irqVars, flagVars, pollVars
<1>2. CASE Dispatch(q, state, parent, v)
  BY <1>1, <1>2, ListsType, DispatchPoll
<1>3. ASSUME running \in Threads
      PROVE  /\ SameLinks(q, PrioEnqueue(StopSlice(q, running), "ready", running, prio), Pds)
             /\ SameLinks(q, PrioEnqueue(Dequeue(q, running), "ready", running, prio), Pds)
             /\ SameLinks(q, PrioPush(q, "ready", running, prio), Pds)
  <2>1. "ready" \in Queues
    BY DEF Queues
  <2>2. SameLinks(q, StopSlice(q, running), Pds) /\ SameLinks(q, Dequeue(q, running), Pds) /\ SameLinks(q, q, Pds)
    BY <1>3, ListsType, ThreadsMove
  <2> QED BY <1>3, <2>1, <2>2, ThreadsMove
<1>4. ASSUME NEW Q, SameLinks(q, Q, Pds), NEW pa, NEW vv, vv = v \/ vv = [v EXCEPT ![running] = 0],
             Dispatch(Q, [state EXCEPT ![running] = "READY"], pa, vv)
      PROVE  PollInv'
  <2>1. /\ [state EXCEPT ![running] = "READY"] \in [Threads -> States]
        /\ vv \in [Threads -> Threads \cup {-1, 0, 1}]
        /\ \A u \in Threads : \/ [state EXCEPT ![running] = "READY"][u] = state[u] /\ vv[u] = v[u]
                              \/ [state EXCEPT ![running] = "READY"][u] = "READY"
    BY <1>1, <1>4 DEF States
  <2> QED BY <1>1, <1>4, <2>1, DispatchPoll
<1>5. CASE Sched
  <2>1. CASE cpu = "yield"
    <3>1. running \in Threads
      BY <2>1, KernelParts DEF ProcessorOK, ProcessorTypes
    <3>2. \E vv : /\ vv = v \/ vv = [v EXCEPT ![running] = 0]
                  /\ Dispatch(PrioEnqueue(StopSlice(q, running), "ready", running, prio),
                              [state EXCEPT ![running] = "READY"], [parent EXCEPT ![running] = "ready"], vv)
      BY <1>5, <2>1 DEF Sched
    <3> QED BY <1>3, <1>4, <3>1, <3>2
  <2>2. CASE cpu # "yield"
    BY <1>2, <1>5, <2>2 DEF Sched
  <2> QED BY <2>1, <2>2
<1>6. CASE Preempt /\ running # None
  <2>1. running \in Threads
    BY <1>6, KernelParts DEF ProcessorTypes
  <2>2. CASE running \in RR /\ state[running] = "RUNNING"
    <3>1. Dispatch(PrioEnqueue(Dequeue(q, running), "ready", running, prio),
                   [state EXCEPT ![running] = "READY"], [parent EXCEPT ![running] = "ready"],
                   [v EXCEPT ![running] = 0])
      BY <1>6, <2>2 DEF Preempt
    <3> QED BY <1>3, <1>4, <2>1, <3>1
  <2>3. CASE running \notin RR
    <3>1. Dispatch(PrioPush(q, "ready", running, prio),
                   [state EXCEPT ![running] = "READY"], [parent EXCEPT ![running] = "ready"], v)
      BY <1>6, <2>3 DEF Preempt
    <3> QED BY <1>3, <1>4, <2>1, <3>1
  <2>4. CASE running \in RR /\ state[running] # "RUNNING"
    BY <1>2, <1>6, <2>4 DEF Preempt
  <2> QED BY <2>2, <2>3, <2>4
<1>7. CASE Preempt /\ running = None
  BY <1>2, <1>7 DEF Preempt
<1> QED BY <1>5, <1>6, <1>7

\* A slice or a sleep expires.
LEMMA TimerExpiredPoll ==
  ASSUME KernelInv, PollInv, TimerExpired
  PROVE  PollInv'
<1> DEFINE x == Head(q["timer"])
           Q == [q EXCEPT !["timer"] = Tail(@)]
<1>1. /\ cpu # "lock" /\ state \in [Threads -> States] /\ v \in [Threads -> Threads \cup {-1, 0, 1}]
      /\ UNCHANGED <<irq_enabled, got_cancel, join_req, pc, fr, ready, counter>>
  BY KernelParts DEF Linkage, TimerExpired, Interruptible, irqVars, flagVars, pollVars
<1>2. q["timer"] # << >> /\ MakeReady(Q, x) /\ v' = [v EXCEPT ![x] = 0]
  BY DEF TimerExpired
<1>3. x \in Threads /\ SameLinks(q, Q, Pds) /\ "ready" \in Queues
  BY <1>2, ListsType, HeadMoves DEF Queues
<1> HIDE DEF x, Q
<1>4. SameLinks(q, PrioEnqueue(Q, "ready", x, prio), Pds)
  BY <1>3, ThreadsMove
<1>5. SameLinks(q, q', Pds)
  BY <1>2, <1>4 DEF MakeReady
<1>6. \A u \in Threads : (state'[u] = state[u] /\ v'[u] = v[u]) \/ state'[u] \in {"READY", "RUNNING"}
  BY <1>1, <1>2, <1>3 DEF MakeReady
<1> QED BY <1>1, <1>5, <1>6, DriftPoll

\* What PollInv is about does not change.
LEMMA StillPoll ==
  ASSUME PollInv, UNCHANGED <<q, state, v, pc, fr, ready, counter, irq_enabled, join_req, got_cancel, running, cpu>>
  PROVE  PollInv'
<1>1. /\ \A t \in Threads : ProxiesOK(t)' <=> ProxiesOK(t)
      /\ \A t \in Threads : CountOK(t)' <=> CountOK(t)
  BY DEF ProxiesOK, CountOK, Linked, Armed, Active, Polling, CutOff, Pd, WaitLabels
<1>2. IrqFollowsProxy' <=> IrqFollowsProxy
  BY DEF IrqFollowsProxy, Linked
<1>3. \A u : Noticed(u)' <=> Noticed(u)
  BY DEF Noticed, StaleWaiter, CutOff
<1>4. \A t, u : Awaits(t, u)' <=> Awaits(t, u)
  BY DEF Awaits, InPoll
<1>5. AwaitsInv' <=> AwaitsInv
  BY <1>3, <1>4 DEF AwaitsInv, AwaitedOK, Linked
<1> QED BY <1>1, <1>2, <1>5, PollParts

\* chx_handle_intr disables the interrupt and wakes up the one proxy that waits for it.
LEMMA HandleIntrPoll ==
  ASSUME KernelInv, PollInv, NEW irq \in Irqs, HandleIntr(irq)
  PROVE  PollInv'
<1>1. /\ cpu = "user" /\ irq_enabled[irq] /\ irq_enabled' = Disabled(irq) /\ "intr" \in Queues
      /\ irq_enabled \in [Irqs -> BOOLEAN] /\ Main \in Threads
      /\ UNCHANGED <<got_cancel, join_req, pc, fr>> /\ \A u \in Threads : SameCall(u)
  BY KernelParts, ConstantsAssumption DEF ResourceTypes, HandleIntr, Interruptible, Queues, flagVars, SameCall
<1>2. PICK p \in Pds : PdKind[p] = "intr" /\ PdObj[p] = irq /\ Linked(p, "intr")
  BY <1>1 DEF PollInv, IrqFollowsProxy
<1>3. q \in Lists /\ q["intr"] \in Seq(Nodes)
  BY <1>1, ListsType DEF Lists
<1>4. PICK i \in DOMAIN q["intr"] : PdObj[q["intr"][i]] = irq /\ Wakeup(q["intr"][i], Dequeue(q, q["intr"][i]))
  <2>1. \E i \in DOMAIN q["intr"] : PdObj[q["intr"][i]] = irq
    BY <1>2 DEF Linked, ToSet
  <2> QED BY <2>1 DEF HandleIntr
<1> DEFINE x == q["intr"][i]
<1>5. x \in Nodes /\ Linked(x, "intr") /\ PdObj[x] = irq /\ Wakeup(x, Dequeue(q, x))
  BY <1>3, <1>4 DEF Linked, ToSet
<1> HIDE DEF x
<1>6. x \in Pds
  <2>1. "intr" \in Where(q, x)
    BY <1>1, <1>5 DEF Linked, Where
  <2>2. x \notin Threads
    BY <1>1, <2>1, KernelParts, LinkedPlace, StateOfPlace
  <2> QED BY <1>5, <2>2 DEF Nodes
<1>7. /\ PdKind[x] = "intr" /\ Once(q["intr"], x)
      /\ \A m \in Queues : Linked(x, m) => m = "intr"
  BY <1>1, <1>5, <1>6, LinkedHome
<1>8. SameLinks(q, Dequeue(q, x), Pds \ {x}) /\ \A m \in Queues : x \notin ToSet(Dequeue(q, x)[m])
  BY <1>1, <1>5, <1>6, <1>7, ProxyOut
<1>9. Fires(x)
  BY <1>1, <1>5, <1>6, <1>8, ProxyWakes
<1>10. \A u \in Threads : (state'[u] = state[u] /\ v'[u] = v[u]) \/ state'[u] = "READY"
  <2>1. Dequeue(q, x) \in Lists
    BY <1>8 DEF SameLinks
  <2> QED BY <1>5, <2>1, WakeupMoves
<1>11. Grows /\ Calm(Main)
  BY <1>1, <1>10 DEF Grows, Calm
<1>12. \A u \in Threads : ProxiesOK(u)' /\ CountOK(u)'
  BY <1>1, <1>6, <1>9, <1>11, IdlePlace, FiresPlace, PollParts
<1>13. AwaitsInv'
  <2>1. \A w \in Pds : Linked(w, "join")' => Linked(w, "join")
    BY <1>9 DEF Fires, SameLinks, Linked, Queues
  <2>2. \A u \in Threads : Awaits(Main, u)' => Awaits(Main, u)
    BY <1>1, AwaitsSame
  <2>3. CutOff(Main) => CutOff(Main)'
    BY <1>1 DEF CutOff
  <2> QED BY <1>1, <1>11, <2>1, <2>2, <2>3, AwaitsKept
<1>14. IrqFollowsProxy'
  <2>1. ASSUME NEW w \in Pds, PdKind[w] = "intr"
        PROVE  Linked(w, "intr")' <=> Linked(w, "intr") /\ PdObj[w] # irq
    <3>1. CASE w = x
      BY <1>1, <1>5, <1>9, <3>1 DEF Fires, Linked
    <3>2. CASE w # x
      <4>1. PdObj[w] # irq
        BY <1>5, <1>6, <1>7, <2>1, <3>2, DescriptorAssumption
      <4>2. Linked(w, "intr")' <=> Linked(w, "intr")
        BY <1>1, <1>9, <3>2 DEF Fires, SameLinks, Linked
      <4> QED BY <4>1, <4>2
    <3> QED BY <3>1, <3>2
  <2>2. \A k \in Irqs : irq_enabled'[k] <=> irq_enabled[k] /\ k # irq
    BY <1>1 DEF Disabled
  <2> QED BY <2>1, <2>2 DEF PollInv, IrqFollowsProxy
<1> QED BY <1>12, <1>13, <1>14, PollParts

-----------------------------------------------------------------------------
(* Exits and joins.                                                          *)

\* A node of the join queue that waits for t: one that was left behind, or the one whose turn it is.
LEMMA WaiterIs ==
  ASSUME KernelInv, LocksInv, PollInv, NEW x \in Nodes, Linked(x, "join"), NEW t \in Threads, WaitsFor(x, t)
  PROVE  /\ x \in Threads => x \notin Pds /\ state[x] = "WAIT_EXIT" /\ Awaits(x, t) /\ ~InPoll(x)
         /\ x \in Pds => /\ PdKind[x] = "join" /\ PdObj[x] = t
                         /\ StaleWaiter(t) \/ (Awaits(Master(x), t) /\ InPoll(Master(x)))
         /\ join_req[t]
<1>1. "join" \in Queues
  BY DEF Queues
<1>2. ASSUME x \in Threads
      PROVE  x \notin Pds /\ state[x] = "WAIT_EXIT" /\ Awaits(x, t) /\ ~InPoll(x) /\ join_req[t]
  <2>1. "join" \in Where(q, x) /\ x \notin Pds
    BY <1>1, <1>2, AddressAssumption DEF Linked, Where
  <2>2. state[x] = "WAIT_EXIT" /\ v[x] = t
    BY <1>1, <1>2, <2>1, KernelParts, LinkedPlace, StateOfPlace DEF WaitsFor
  <2>3. pc[x] \in {"join_pi", "join_woken"} /\ fr[x].tgt = t
    BY <1>2, <2>2 DEF LocksInv, SleepOK
  <2> QED BY <1>2, <2>1, <2>2, <2>3 DEF Awaits, InPoll, PollLabels, PollInv, Noticed
<1>3. ASSUME x \in Pds
      PROVE  /\ PdKind[x] = "join" /\ PdObj[x] = t /\ join_req[t]
             /\ StaleWaiter(t) \/ (Awaits(Master(x), t) /\ InPoll(Master(x)))
  <2>1. PdKind[x] = "join" /\ PdObj[x] = t /\ join_req[t]
    BY <1>1, <1>3, LinkedHome DEF WaitsFor, PollInv, Noticed
  <2>2. PICK k \in DOMAIN PollArray[Master(x)] : PollArray[Master(x)][k] = x
    BY <1>3, MasterHas
  <2>3. Armed(pc[Master(x)], fr[Master(x)], k, ready[x]) \/ CutOff(Master(x))
    BY <1>1, <1>3, <2>2, MasterHas, ProxiesEach DEF PollInv, ProxyOK
  <2>4. Polling(pc[Master(x)], fr[Master(x)]) \/ StaleWaiter(t)
    BY <1>3, <2>1, <2>3 DEF Armed, Active, StaleWaiter
  <2>5. x \in ToSet(PollArray[Master(x)])
    BY <2>2, <1>3, MasterHas, PdIs
  <2> QED BY <2>1, <2>4, <2>5 DEF Polling, InPoll, Awaits
<1> QED BY <1>2, <1>3 DEF Nodes

\* Hence there is one such node, or one that was left behind.
LEMMA OneWaiter ==
  ASSUME KernelInv, LocksInv, PollInv, NEW t \in Threads, NEW x \in Nodes, Linked(x, "join"), WaitsFor(x, t),
         NEW y \in Nodes, Linked(y, "join"), WaitsFor(y, t)
  PROVE  x = y \/ StaleWaiter(t)
<1>1. \A u, w \in Threads : Awaits(u, t) /\ Awaits(w, t) => u = w
  BY DEF PollInv, AwaitedOK
<1>2. CASE x \in Threads
  BY <1>1, <1>2, WaiterIs, MasterHas DEF Nodes
<1>3. CASE y \in Threads
  BY <1>1, <1>3, WaiterIs, MasterHas DEF Nodes
<1>4. CASE x \in Pds /\ y \in Pds
  <2>1. /\ PdKind[x] = "join" /\ PdObj[x] = t /\ PdKind[y] = "join" /\ PdObj[y] = t
        /\ Master(x) = Master(y) \/ StaleWaiter(t)
    BY <1>1, <1>4, WaiterIs, MasterHas
  <2>2. x \in ToSet(PollArray[Master(x)]) /\ y \in ToSet(PollArray[Master(y)])
    BY <1>4, MasterHas, PdIs
  <2> QED BY <1>4, <2>1, <2>2, MasterHas, DescriptorAssumption
<1> QED BY <1>2, <1>3, <1>4 DEF Nodes

\* chx_exit wakes up the first node that waits for the thread, which has to be the only one.
LEMMA ExitNotifyPoll ==
  ASSUME KernelInv, LocksInv, PollInv, NEW t \in Threads, ExitNotify(t)
  PROVE  PollInv'
<1>1. /\ running = t /\ running' = t /\ cpu = "user" /\ cpu' = "lock" /\ pc[t] = "release"
      /\ pc \in [Threads -> Labels] /\ "join" \in Queues
  BY KernelParts DEF ControlOK, ExitNotify, Runs, Queues
<1>2. /\ UNCHANGED <<irq_enabled, got_cancel, join_req, fr>> /\ pc'[t] = "dying"
      /\ \A u \in Threads : u # t => SameCall(u)
  BY <1>1 DEF ExitNotify, Goto, SameCall, irqVars, flagVars
<1>3. q \in Lists /\ q["join"] \in Seq(Nodes)
  BY <1>1, ListsType DEF Lists
<1> DEFINE Waits(x) == x \in Nodes /\ Linked(x, "join") /\ WaitsFor(x, t)
<1>4. /\ Silent \/ \E x \in Pds : PdKind[x] # "intr" /\ Fires(x)
      /\ \A u \in Threads : (state'[u] = state[u] /\ v'[u] = v[u]) \/ state'[u] = "READY"
      /\ \/ join_req[t] => \A x : ~Waits(x)
         \/ \E y : Waits(y) /\ (y \in Pds => ~Linked(y, "join")') /\ (y \in Threads => state'[y] = "READY")
  <2>1. CASE UNCHANGED <<queueVars, pollVars>> /\ (join_req[t] => \A i \in DOMAIN q["join"] : ~WaitsFor(q["join"][i], t))
    <3>1. join_req[t] => \A x : ~Waits(x)
      BY <2>1 DEF Linked, ToSet
    <3>2. UNCHANGED <<q, state, v, ready, counter>>
      BY <2>1 DEF queueVars, pollVars
    <3> QED BY <1>2, <3>1, <3>2, QuietFacts
  <2>2. CASE \E i \in DOMAIN q["join"] : WaitsFor(q["join"][i], t) /\ Wakeup(q["join"][i], Dequeue(q, q["join"][i]))
    <3>1. PICK i \in DOMAIN q["join"] : WaitsFor(q["join"][i], t) /\ Wakeup(q["join"][i], Dequeue(q, q["join"][i]))
      BY <2>2
    <3>1a. PICK y : y = q["join"][i]
      OBVIOUS
    <3>2. Waits(y) /\ Wakeup(y, Dequeue(q, y))
      BY <1>3, <3>1, <3>1a DEF Linked, ToSet
    <3>3. SameLinks(q, Dequeue(q, y), {})
      BY <1>3, SameDequeue
    <3>4. Dequeue(q, y) \in Lists
      BY <3>3 DEF SameLinks
    <3>5. /\ \A u \in Threads : (state'[u] = state[u] /\ v'[u] = v[u]) \/ state'[u] = "READY"
          /\ y \in Threads => state'[y] = "READY"
      BY <3>2, <3>4, WakeupMoves
    <3>6. CASE y \in Threads
      <4>1. y \notin Pds
        BY <3>6, AddressAssumption
      <4>2. Silent
        BY <1>3, <3>2, <3>6, <4>1, SameDequeue, ThreadWakes
      <4> QED BY <3>2, <3>5, <4>1, <4>2
    <3>7. CASE y \in Pds
      <4>1. PdKind[y] = "join" /\ Once(q["join"], y) /\ \A m \in Queues : Linked(y, m) => m = "join"
        BY <1>1, <3>2, <3>7, LinkedHome
      <4>2. SameLinks(q, Dequeue(q, y), Pds \ {y}) /\ \A m \in Queues : y \notin ToSet(Dequeue(q, y)[m])
        BY <1>1, <3>2, <3>7, <4>1, ProxyOut
      <4>3. Fires(y)
        BY <1>1, <3>2, <3>7, <4>2, ProxyWakes
      <4>4. ~Linked(y, "join")' /\ y \notin Threads
        BY <1>1, <3>7, <4>3, AddressAssumption DEF Fires, Linked
      <4> QED BY <3>2, <3>5, <3>7, <4>1, <4>3, <4>4
    <3> QED BY <3>2, <3>6, <3>7 DEF Nodes
  <2> QED BY <2>1, <2>2 DEF ExitNotify
<1>5. Grows /\ Calm(t)
  BY <1>2, <1>4 DEF Grows, Calm
<1>6. SamePlace(t)
  BY <1>1, <1>2, OutsidePlace DEF Polling, PollLabels, CutOff
<1>7. \A u \in Threads : ProxiesOK(u)' /\ CountOK(u)'
  BY <1>4, <1>5, <1>6, IdlePlace, SilentPlace, FiresPlace, PollParts DEF Calm
<1>8. IrqFollowsProxy'
  <2>1. SameLinks(q, q', {p \in Pds : PdKind[p] = "intr"})
    BY <1>4 DEF Silent, Fires, SameLinks
  <2> QED BY <1>2, <2>1, IrqKept DEF PollInv
<1>9. \A p \in Pds : Linked(p, "join")' => Linked(p, "join")
  <2>1. SameLinks(q, q', {}) /\ (Silent => SameLinks(q, q', Pds))
    BY <1>4 DEF Silent, Fires, SameLinks
  <2> QED BY <1>1, <1>4 DEF Silent, Fires, SameLinks, Linked
<1>10. \A w \in Threads : CutOff(w) => CutOff(w)'
  BY <1>5, <1>6, CutOffKept DEF Calm, SamePlace
\* Who waits for t and is not woken up has been overtaken by a waiter that was left behind.
<1>11. ASSUME NEW x, Waits(x), x \in Pds => Linked(x, "join")', x \in Threads => state'[x] # "READY"
       PROVE  StaleWaiter(t)
  <2>1. join_req[t]
    BY <1>11, WaiterIs
  <2>2. PICK y : Waits(y) /\ (y \in Pds => ~Linked(y, "join")') /\ (y \in Threads => state'[y] = "READY")
    BY <1>4, <1>11, <2>1
  <2>3. x # y
    BY <1>11, <2>2 DEF Nodes
  <2> QED BY <1>11, <2>2, <2>3, OneWaiter
<1>12. StaleWaiter(t) => StaleWaiter(t)'
  BY <1>10, MasterHas DEF StaleWaiter
<1>13. ASSUME NEW u \in Threads, Noticed(u), u = t => StaleWaiter(t)
       PROVE  Noticed(u)'
  <2>1. CASE u = t
    BY <1>2, <1>12, <1>13, <2>1 DEF Noticed
  <2>2. CASE u # t
    BY <1>2, <1>5, <1>10, <1>13, <2>2, NoticedKept DEF SameCall
  <2> QED BY <2>1, <2>2
<1>14. ASSUME NEW w \in Threads, state'[w] = "WAIT_EXIT" PROVE Noticed(v[w])'
  <2>1. state[w] = "WAIT_EXIT" /\ v'[w] = v[w] /\ v[w] \in Threads /\ Noticed(v[w])
    BY <1>5, <1>14, KernelParts DEF Calm, PollInv, Linkage, StateOK
  <2>2. PICK u \in Threads : u = v[w]
    BY <2>1
  <2>3. Linked(w, "join") /\ w \in Nodes /\ w \notin Pds
    <3>1. Where(q, w) = {"join"}
      BY <2>1, KernelParts DEF Linkage, Places
    <3> QED BY <3>1, AddressAssumption DEF Where, Linked, Nodes
  <2>4. u = t => StaleWaiter(t)
    BY <1>11, <1>14, <2>2, <2>3 DEF WaitsFor
  <2>5. Noticed(u)'
    BY <1>13, <2>1, <2>2, <2>4
  <2> QED BY <2>1, <2>2, <2>5 DEF Noticed, StaleWaiter
<1>15. ASSUME NEW p \in Pds, Linked(p, "join")' PROVE Noticed(PdObj[p])'
  <2>1. Linked(p, "join") /\ Noticed(PdObj[p]) /\ PdObj[p] \in Threads
    BY <1>1, <1>9, <1>15, LinkedHome, ConstantsAssumption DEF PollInv
  <2>2. p \in Nodes /\ p \notin Threads
    BY AddressAssumption DEF Nodes
  <2>3. PdObj[p] = t => StaleWaiter(t)
    BY <1>11, <1>15, <2>1, <2>2 DEF WaitsFor
  <2> QED BY <1>13, <2>1, <2>3
<1>16. ASSUME NEW u \in Threads PROVE AwaitedOK(u)'
  <2>1. AwaitedOK(u) /\ (state'[u] = "FINISHED" => state[u] = "FINISHED")
    BY <1>5 DEF PollInv, Calm
  <2>2. \A w \in Threads : Awaits(w, u)' => Awaits(w, u)
    <3>1. ~Awaits(t, u)'
      BY <1>2 DEF Awaits, InPoll, PollLabels
    <3> QED BY <1>2, <3>1, AwaitsSame
  <2>3. pc'[u] = "dying" => running' = u /\ cpu' = "lock"
    BY <1>1, <1>2, <2>1 DEF AwaitedOK, SameCall
  <2> QED BY <2>1, <2>2, <2>3 DEF AwaitedOK
<1> QED BY <1>7, <1>8, <1>14, <1>15, <1>16, PollParts DEF AwaitsInv

\* A step that changes who waits for an exit, but no proxy.
LEMMA ProxiesKept ==
  ASSUME KernelInv, PollInv, NEW t \in Threads, \A u \in Threads : u # t => SameCall(u), Grows, Silent,
         SamePlace(t), UNCHANGED irq_enabled, AwaitsInv'
  PROVE  PollInv'
<1>1. \A u \in Threads : SamePlace(u)
  BY IdlePlace
<1>2. \A u \in Threads : ProxiesOK(u)' /\ CountOK(u)'
  BY <1>1, SilentPlace, PollParts
<1>3. SameLinks(q, q', {p \in Pds : PdKind[p] = "intr"})
  BY SameLess DEF Silent
<1> QED BY <1>2, <1>3, IrqKept, PollParts

\* The exits that were noticed still are.
LEMMA NoticedAll ==
  ASSUME KernelInv, PollInv, NEW t \in Threads, \A u \in Threads : u # t => SameCall(u), Grows,
         CutOff(t) => CutOff(t)', pc'[t] \in Gone => pc[t] \in Gone
  PROVE  \A u \in Threads : Noticed(u) => Noticed(u)'
<1>1. \A w \in Threads : CutOff(w) => CutOff(w)'
  BY CutOffKept
<1> QED BY <1>1, NoticedKept DEF SameCall

\* The waits for exits go on.
LEMMA WaitsKept ==
  ASSUME KernelInv, PollInv, \A u \in Threads : Noticed(u) => Noticed(u)'
  PROVE  /\ \A w \in Threads : state'[w] = "WAIT_EXIT" /\ state[w] = "WAIT_EXIT" /\ v'[w] = v[w] => Noticed(v[w])'
         /\ \A p \in Pds : Linked(p, "join")' /\ Linked(p, "join") => Noticed(PdObj[p])'
<1>1. ASSUME NEW w \in Threads, state'[w] = "WAIT_EXIT", state[w] = "WAIT_EXIT", v'[w] = v[w]
      PROVE  Noticed(v[w])'
  <2>1. v[w] \in Threads /\ Noticed(v[w])
    BY <1>1, KernelParts DEF Linkage, StateOK, PollInv
  <2>2. PICK u \in Threads : u = v[w]
    BY <2>1
  <2>3. Noticed(u)'
    BY <2>1, <2>2
  <2> QED BY <1>1, <2>2, <2>3 DEF Noticed, StaleWaiter
<1>2. ASSUME NEW p \in Pds, Linked(p, "join")', Linked(p, "join")
      PROVE  Noticed(PdObj[p])'
  <2>1. PdObj[p] \in Threads /\ Noticed(PdObj[p])
    BY <1>2, LinkedHome, ConstantsAssumption DEF PollInv, Queues
  <2> QED BY <2>1
<1> QED BY <1>1, <1>2

LEMMA ExitEndPoll ==
  ASSUME KernelInv, LocksInv, PollInv, NEW t \in Threads, ExitEnd(t)
  PROVE  PollInv'
<1>1. /\ running = t /\ pc[t] = "dying" /\ pc \in [Threads -> Labels]
      /\ state \in [Threads -> States] /\ v \in [Threads -> Threads \cup {-1, 0, 1}]
  BY KernelParts DEF ControlOK, Linkage, ExitEnd, Locked
<1>2. /\ UNCHANGED <<ready, counter, irq_enabled, got_cancel, join_req, fr>>
      /\ \A u \in Threads : u # t => SameCall(u)
      /\ pc'[t] = "dead"
  BY <1>1 DEF ExitEnd, Goto, SameCall, pollVars, irqVars, flagVars
<1>3. /\ \A u \in Threads : u # t => state'[u] = state[u] /\ v'[u] = v[u]
      /\ state'[t] = IF t \in Detached THEN "FINISHED" ELSE "EXITED"
  BY <1>1 DEF ExitEnd
<1>4. SameLinks(q, q', Pds)
  BY ListsType, ThreadsMove DEF ExitEnd
<1>5. Silent /\ Grows
  BY <1>2, <1>3, <1>4 DEF Silent, Grows
<1>6. SamePlace(t)
  BY <1>1, <1>2, OutsidePlace DEF Polling, PollLabels, CutOff
<1>7. AwaitsInv'
  <2>1. \A u \in Threads : Noticed(u) => Noticed(u)'
    BY <1>1, <1>2, <1>5, <1>6, NoticedAll DEF SamePlace, Gone
  <2>2. ASSUME NEW w \in Threads, state'[w] = "WAIT_EXIT" PROVE Noticed(v[w])'
    BY <1>3, <2>1, <2>2, WaitsKept
  <2>3. ASSUME NEW p \in Pds, Linked(p, "join")' PROVE Noticed(PdObj[p])'
    BY <1>4, <2>1, <2>3, WaitsKept DEF SameLinks, Linked, Queues
  <2>4. ASSUME NEW u \in Threads PROVE AwaitedOK(u)'
    <3>1. AwaitedOK(u)
      BY DEF PollInv
    <3>2. ~Awaits(t, u)'
      BY <1>2 DEF Awaits, InPoll, PollLabels
    <3>3. \A w \in Threads : Awaits(w, u)' => Awaits(w, u)
      BY <1>2, <3>2, AwaitsSame
    <3>4. pc'[u] # "dying"
      BY <1>1, <1>2, <3>1 DEF AwaitedOK, SameCall
    <3>5. state'[u] = "FINISHED" => state[u] = "FINISHED" \/ u \in Detached
      BY <1>3
    <3> QED BY <3>1, <3>3, <3>4, <3>5 DEF AwaitedOK
  <2> QED BY <2>2, <2>3, <2>4 DEF AwaitsInv
<1> QED BY <1>2, <1>5, <1>6, <1>7, ProxiesKept

LEMMA JoinCallPoll ==
  ASSUME KernelInv, PollInv, NEW t \in Threads, NEW u \in Threads, JoinCall(t, u)
  PROVE  PollInv'
<1>1. pc[t] = "user" /\ cpu = "user" /\ pc \in [Threads -> Labels] /\ fr \in [Threads -> Frame]
  BY KernelParts DEF ControlOK, JoinCall, Calls, Runs
<1>2. /\ UNCHANGED <<q, state, v, ready, counter, irq_enabled, got_cancel, join_req>>
      /\ \A w \in Threads : w # t => SameCall(w)
      /\ Joinable(t, u)
  BY <1>1 DEF JoinCall, Goto, SameCall, queueVars, pollVars, irqVars, flagVars
<1>3. Silent /\ Grows
  BY <1>2, QuietFacts DEF Grows
<1>4. CASE Canceled(t)
  <2>1. pc'[t] = "exit"
    BY <1>1, <1>4 DEF JoinCall, Goto
  <2>2. Leaps(t) /\ OnTurn(t)
    BY <1>1, <1>2, <2>1 DEF Leaps, Polling, PollLabels, JoinLabels, Gone, CutOff, OnTurn
  <2> QED BY <1>2, <1>3, <2>2, QuietLeap
<1>5. CASE ~Canceled(t)
  <2>1. pc'[t] = "join" /\ fr'[t].tgt = u
    BY <1>1, <1>5 DEF JoinCall, Goto, Frame
  <2>2. SamePlace(t)
    BY <1>1, <2>1, OutsidePlace DEF Polling, PollLabels, CutOff
  <2>3. AwaitsInv'
    <3>1. \A w \in Threads : Noticed(w) => Noticed(w)'
      BY <1>1, <1>2, <1>3, <2>1, <2>2, NoticedAll DEF SamePlace, Gone
    <3>2. ASSUME NEW w \in Threads, state'[w] = "WAIT_EXIT" PROVE Noticed(v[w])'
      BY <1>2, <3>1, <3>2, WaitsKept
    <3>3. ASSUME NEW p \in Pds, Linked(p, "join")' PROVE Noticed(PdObj[p])'
      BY <1>2, <3>1, <3>3, WaitsKept DEF Linked
    <3>4. ASSUME NEW x \in Threads PROVE AwaitedOK(x)'
      <4>1. AwaitedOK(x) /\ pc'[x] # "dying"
        BY <1>1, <1>2, <2>1 DEF PollInv, AwaitedOK, SameCall
      <4>2. Awaits(t, x)' => x = u
        BY <2>1 DEF Awaits, InPoll, PollLabels
      <4>3. \A w \in Threads : w # t => (Awaits(w, x)' <=> Awaits(w, x))
        BY <1>2, AwaitsSame
      <4>4. x = u => (\A w \in Threads : ~Awaits(w, x)) /\ state[x] # "FINISHED"
        BY <1>2 DEF Joinable
      <4> QED BY <1>2, <4>1, <4>2, <4>3, <4>4 DEF AwaitedOK
    <3> QED BY <3>2, <3>3, <3>4 DEF AwaitsInv
  <2> QED BY <1>2, <1>3, <2>2, <2>3, ProxiesKept
<1> QED BY <1>4, <1>5

LEMMA JoinExitedPoll ==
  ASSUME KernelInv, PollInv, NEW t \in Threads, JoinExited(t)
  PROVE  PollInv'
<1> DEFINE u == fr[t].tgt
<1>1. /\ pc[t] = "join" /\ cpu = "user" /\ pc \in [Threads -> Labels] /\ fr \in [Threads -> Frame]
      /\ state[u] = "EXITED" /\ state \in [Threads -> States] /\ u \in Threads
  BY KernelParts DEF ControlOK, FrameOK, Linkage, JoinExited, Runs
<1>2. /\ UNCHANGED <<q, v, ready, counter, irq_enabled, got_cancel, join_req>>
      /\ \A w \in Threads : w # t => SameCall(w)
      /\ pc'[t] = "user"
  BY <1>1 DEF JoinExited, Goto, SameCall, pollVars, irqVars, flagVars
<1>3. \A w \in Threads : state'[w] = IF w = u THEN "FINISHED" ELSE state[w]
  BY <1>1 DEF JoinExited
<1> HIDE DEF u
<1>4. Silent /\ Grows
  BY <1>2, <1>3, ListsType DEF Silent, Grows
<1>5. SamePlace(t)
  BY <1>1, <1>2, OutsidePlace DEF Polling, PollLabels, CutOff
<1>6. AwaitsInv'
  <2>1. \A w \in Threads : Noticed(w) => Noticed(w)'
    BY <1>1, <1>2, <1>4, <1>5, NoticedAll DEF SamePlace, Gone
  <2>2. ASSUME NEW w \in Threads, state'[w] = "WAIT_EXIT" PROVE Noticed(v[w])'
    BY <1>2, <1>3, <2>1, <2>2, WaitsKept
  <2>3. ASSUME NEW p \in Pds, Linked(p, "join")' PROVE Noticed(PdObj[p])'
    BY <1>2, <2>1, <2>3, WaitsKept DEF Linked
  <2>4. ASSUME NEW x \in Threads PROVE AwaitedOK(x)'
    <3>1. AwaitedOK(x) /\ pc'[x] # "dying"
      BY <1>1, <1>2 DEF PollInv, AwaitedOK, SameCall
    <3>2. ~Awaits(t, x)'
      BY <1>2 DEF Awaits, InPoll, PollLabels
    <3>3. \A w \in Threads : Awaits(w, x)' => Awaits(w, x) /\ w # t
      BY <1>2, <3>2, AwaitsSame
    <3>4. Awaits(t, u)
      BY <1>1 DEF Awaits, u
    <3>5. x = u => \A w \in Threads : ~Awaits(w, x)'
      BY <3>1, <3>3, <3>4 DEF AwaitedOK
    <3> QED BY <1>3, <3>1, <3>3, <3>5 DEF AwaitedOK
  <2> QED BY <2>2, <2>3, <2>4 DEF AwaitsInv
<1> QED BY <1>2, <1>4, <1>5, <1>6, ProxiesKept

LEMMA JoinBlockPoll ==
  ASSUME KernelInv, LocksInv, PollInv, NEW t \in Threads, JoinBlock(t)
  PROVE  PollInv'
<1> DEFINE u == fr[t].tgt
<1>1. /\ pc[t] = "join" /\ cpu = "user" /\ pc \in [Threads -> Labels] /\ fr \in [Threads -> Frame]
      /\ state[u] # "EXITED" /\ u \notin Detached /\ state \in [Threads -> States] /\ u \in Threads
      /\ v \in [Threads -> Threads \cup {-1, 0, 1}] /\ join_req \in [Threads -> BOOLEAN]
  BY KernelParts DEF ControlOK, FrameOK, Linkage, ResourceTypes, JoinBlock, Runs
<1>2. /\ UNCHANGED <<ready, counter, irq_enabled, got_cancel>>
      /\ \A w \in Threads : w # t => SameCall(w)
      /\ pc'[t] = "join_pi" /\ fr'[t].tgt = u
  BY <1>1 DEF JoinBlock, Goto, SameCall, pollVars, irqVars, Frame
<1>3. /\ \A w \in Threads : w # t => state'[w] = state[w] /\ v'[w] = v[w]
      /\ state'[t] = "WAIT_EXIT" /\ v'[t] = u
      /\ \A w \in Threads : join_req'[w] <=> join_req[w] \/ w = u
  BY <1>1 DEF JoinBlock
<1>4. SameLinks(q, q', Pds)
  <2>1. SameLinks(q, StopSlice(q, t), Pds) /\ "join" \in Queues
    BY ListsType, ThreadsMove DEF Queues
  <2> QED BY <2>1, ThreadsMove DEF JoinBlock
<1>4a. Awaits(t, u)
  BY <1>1 DEF Awaits
<1>5. Silent /\ Grows
  BY <1>2, <1>3, <1>4 DEF Silent, Grows
<1>6. SamePlace(t)
  BY <1>1, <1>2, OutsidePlace DEF Polling, PollLabels, CutOff
<1>7. PICK y \in Threads : y = u
  BY <1>1
<1> HIDE DEF u
<1>8. AwaitsInv'
  <2>1. \A w \in Threads : Noticed(w) => Noticed(w)'
    BY <1>1, <1>2, <1>5, <1>6, NoticedAll DEF SamePlace, Gone
  \* The thread to be joined has not exited.
  <2>2. Noticed(y)'
    <3>1. state[y] # "FINISHED" /\ pc[y] # "dying"
      BY <1>1, <1>4a, <1>7 DEF PollInv, AwaitedOK
    <3>2. pc[y] # "dead"
      BY <1>1, <1>7, <3>1 DEF LocksInv, SleepOK, Dead
    <3>3. pc'[y] \notin {"dying", "dead"}
      BY <1>2, <3>1, <3>2 DEF SameCall
    <3> QED BY <1>3, <1>7, <3>3 DEF Noticed
  <2>3. ASSUME NEW w \in Threads, state'[w] = "WAIT_EXIT" PROVE Noticed(v[w])'
    <3>1. CASE w = t
      BY <1>3, <1>7, <2>2, <3>1 DEF Noticed, StaleWaiter
    <3>2. CASE w # t
      BY <1>3, <2>1, <2>3, <3>2, WaitsKept
    <3> QED BY <3>1, <3>2
  <2>4. ASSUME NEW p \in Pds, Linked(p, "join")' PROVE Noticed(PdObj[p])'
    BY <1>4, <2>1, <2>4, WaitsKept DEF SameLinks, Linked, Queues
  <2>5. ASSUME NEW x \in Threads PROVE AwaitedOK(x)'
    <3>1. AwaitedOK(x) /\ pc'[x] # "dying"
      BY <1>1, <1>2 DEF PollInv, AwaitedOK, SameCall
    <3>2. Awaits(t, x)' => Awaits(t, x)
      BY <1>2, <1>4a DEF Awaits, InPoll, PollLabels
    <3>3. \A w \in Threads : Awaits(w, x)' => Awaits(w, x)
      BY <1>2, <3>2, AwaitsSame
    <3>4. state'[x] = "FINISHED" => state[x] = "FINISHED"
      BY <1>3
    <3> QED BY <3>1, <3>3, <3>4 DEF AwaitedOK
  <2> QED BY <2>3, <2>4, <2>5 DEF AwaitsInv
<1> QED BY <1>2, <1>5, <1>6, <1>8, ProxiesKept

-----------------------------------------------------------------------------
(* Inside of chopstx_poll.                                                   *)

\* A step of chopstx_poll touches the descriptors of its caller only.
LEMMA PollStepPoll ==
  ASSUME KernelInv, PollInv, NEW t \in Threads, \A u \in Threads : u # t => SameCall(u), Grows,
         SameLinks(q, q', Pds \ ToSet(PollArray[t])),
         \A p \in Pds : p \notin ToSet(PollArray[t]) => ready'[p] = ready[p],
         \A u \in Threads : u # t => counter'[u] = counter[u],
         \A u \in Threads : u # t /\ state'[u] = "WAIT_POLL" => state[u] = "WAIT_POLL",
         ProxiesOK(t)' /\ CountOK(t)', IrqFollowsProxy', AwaitsInv'
  PROVE  PollInv'
<1>1. ASSUME NEW u \in Threads, u # t PROVE ProxiesOK(u)' /\ CountOK(u)'
  <2>1. \A p \in ToSet(PollArray[u]) : p \in Pds /\ p \notin ToSet(PollArray[t])
    BY <1>1, MasterIs
  <2>2. SameLinks(q, q', ToSet(PollArray[u]))
    BY <2>1, SameLess
  <2>3. SamePlace(u) /\ ProxiesOK(u) /\ CountOK(u)
    BY <1>1, IdlePlace, PollParts
  <2> QED BY <1>1, <2>1, <2>2, <2>3, LocalPlace
<1> QED BY <1>1, PollParts

\* A proxy that stays where it is.
LEMMA ProxyKept ==
  ASSUME NEW t \in Threads, NEW k \in DOMAIN PollArray[t], ProxyOK(t, k), CutOff(t) => CutOff(t)',
         SameLinks(q, q', {PollArray[t][k]}),
         Armed(pc'[t], fr'[t], k, ready'[PollArray[t][k]]) <=> Armed(pc[t], fr[t], k, ready[PollArray[t][k]])
  PROVE  ProxyOK(t, k)'
<1> DEFINE p == PollArray[t][k]
<1>1. p \in Pds
  BY PdIs
<1>2. \A n \in Queues : (p \in ToSet(q'[n]) <=> p \in ToSet(q[n])) /\ (Once(q[n], p) => Once(q'[n], p))
  BY DEF SameLinks
<1>3. ProxyHome(p) \in Queues
  BY <1>1, HomeIsQueue
<1> HIDE DEF p
<1>4. Armed(pc[t], fr[t], k, ready[p])' <=> Armed(pc[t], fr[t], k, ready[p])
  BY DEF Armed, Active, Polling, p
<1> QED BY <1>1, <1>2, <1>3, <1>4 DEF ProxyOK, Linked, p

\* A thread sleeps because nothing has been counted.
LEMMA SleepPoll ==
  ASSUME KernelInv, PollInv, NEW t \in Threads, cpu # "lock",
         \A u \in Threads : u # t => SameCall(u),
         UNCHANGED <<ready, counter, irq_enabled, got_cancel, join_req>>, SamePlace(t), pc'[t] \notin Gone,
         \A u \in Threads : Awaits(t, u)' => Awaits(t, u), SameLinks(q, q', Pds),
         \A u \in Threads : \/ state'[u] = state[u] /\ v'[u] = v[u]
                            \/ u = t /\ state'[u] = "WAIT_POLL" /\ counter[t] = 0
  PROVE  PollInv'
<1>1. Grows /\ Calm(t)
  BY DEF Grows, Calm
<1>2. ASSUME NEW u \in Threads PROVE ProxiesOK(u)' /\ CountOK(u)'
  <2>1. SameLinks(q, q', ToSet(PollArray[u]))
    BY MasterIs, SameLess
  <2>2. SamePlace(u) /\ ProxiesOK(u) /\ CountOK(u)
    BY <1>1, IdlePlace, PollParts
  <2> QED BY <2>1, <2>2, LocalPlace
<1>3. IrqFollowsProxy'
  <2>1. SameLinks(q, q', {p \in Pds : PdKind[p] = "intr"})
    BY SameLess
  <2> QED BY <2>1, IrqKept DEF PollInv
<1>4. \A p \in Pds : Linked(p, "join")' => Linked(p, "join")
  BY DEF SameLinks, Linked, Queues
<1>5. AwaitsInv'
  BY <1>1, <1>4, AwaitsKept DEF SamePlace
<1> QED BY <1>2, <1>3, <1>5, PollParts

\* A thread leaves chopstx_poll in its middle.
LEMMA LeavePoll ==
  ASSUME KernelInv, PollInv, NEW t \in Threads, cpu # "lock", pc'[t] \in {"exit", "fatal"}, CutOff(t)',
         \A u \in Threads : u # t => SameCall(u),
         UNCHANGED <<q, state, v, ready, counter, irq_enabled, got_cancel, join_req>>
  PROVE  PollInv'
<1>1. Grows /\ Calm(t) /\ Silent
  BY QuietFacts DEF Grows
<1>2. ASSUME NEW k \in DOMAIN PollArray[t] PROVE ProxyOK(t, k)'
  <2>1. ProxyOK(t, k)
    BY ProxiesEach DEF PollInv
  <2>2. ~Armed(pc[t], fr[t], k, ready[PollArray[t][k]])'
    BY DEF Armed, Active, Polling, PollLabels
  <2> QED BY <2>1, <2>2 DEF ProxyOK, Linked
<1>3. CountOK(t)'
  <2>1. ~Polling(pc[t], fr[t])' /\ pc'[t] \notin WaitLabels /\ pc'[t] # "hook_reg"
    BY DEF Polling, PollLabels, WaitLabels
  <2>2. state[t] = "WAIT_POLL" => counter[t] = 0
    BY DEF PollInv, CountOK
  <2> QED BY <2>1, <2>2 DEF CountOK
<1>4. SameLinks(q, q', Pds \ ToSet(PollArray[t]))
  BY <1>1, SameLess DEF Silent
<1>5. IrqFollowsProxy'
  BY DEF PollInv, IrqFollowsProxy, Linked
<1>6. AwaitsInv'
  <2>1. \A u \in Threads : ~Awaits(t, u)'
    BY DEF Awaits, InPoll, PollLabels
  <2>2. \A p \in Pds : Linked(p, "join")' => Linked(p, "join")
    BY DEF Linked
  <2> QED BY <1>1, <2>1, <2>2, AwaitsKept DEF Gone
<1> QED BY <1>1, <1>2, <1>3, <1>4, <1>5, <1>6, PollStepPoll, ProxiesEach

\* The moves inside of chopstx_poll that arm and count nothing.
LEMMA MovePoll ==
  ASSUME KernelInv, PollInv, NEW t \in Threads, cpu # "lock", \A u \in Threads : u # t => SameCall(u),
         UNCHANGED <<q, state, v, ready, counter, irq_enabled, got_cancel, join_req>>,
         SamePlace(t), Polling(pc[t], fr[t]), Polling(pc'[t], fr'[t])
  PROVE  PollInv'
<1>1. Grows /\ Calm(t) /\ Silent
  BY QuietFacts DEF Grows
<1>2. /\ pc'[t] \notin Gone
      /\ \A u \in Threads : Awaits(t, u)' => Awaits(t, u)
  BY DEF Polling, Gone, PollLabels, Awaits, InPoll
<1> QED BY <1>1, <1>2, KeptPoll

LEMMA PollMoves ==
  ASSUME KernelInv, PollInv, NEW t \in Threads,
         HooksDone(t) \/ PollWoken(t) \/ PollSnoozed(t) \/ HookCheck(t, TRUE)
  PROVE  PollInv'
<1>1. /\ cpu = "user" /\ pc[t] \in {"hook", "poll_woken", "poll_snoozed", "hook_check"}
      /\ pc \in [Threads -> Labels] /\ fr \in [Threads -> Frame] /\ PollArray[t] \in Seq(Pds)
  BY KernelParts, ConstantsAssumption DEF ControlOK, HooksDone, PollWoken, PollSnoozed, HookCheck, Runs
<1>2. /\ UNCHANGED <<q, state, v, ready, counter, irq_enabled, got_cancel, join_req>>
      /\ \A u \in Threads : u # t => SameCall(u)
  BY <1>1 DEF HooksDone, PollWoken, PollSnoozed, HookCheck, Goto, SameCall, queueVars, pollVars, irqVars, flagVars
<1>3. pc[t] \in WaitLabels => fr[t].idx = 1
  BY DEF PollInv, CountOK
<1>4. SamePlace(t) /\ Polling(pc[t], fr[t]) /\ Polling(pc'[t], fr'[t])
  <2>1. CASE HooksDone(t)
    <3>1. /\ pc[t] = "hook" /\ pc'[t] = "poll" /\ fr'[t].idx = 1
          /\ \A k \in DOMAIN PollArray[t] : k < fr[t].idx
      BY <1>1, <2>1 DEF HooksDone, Goto, Frame, Runs, MorePds
    <3> QED BY <3>1 DEF SamePlace, Polling, PollLabels, WaitLabels, Active, Armed, CutOff
  <2>2. CASE PollWoken(t)
    <3>1. pc[t] = "poll_woken" /\ pc'[t] = "poll_clean" /\ fr'[t].idx = 1
      BY <1>1, <1>3, <2>2 DEF PollWoken, Goto, Frame, Runs, WaitLabels
    <3> QED BY <1>1, <3>1 DEF SamePlace, Polling, PollLabels, WaitLabels, Active, Armed, CutOff
  <2>3. CASE PollSnoozed(t)
    <3>1. pc[t] = "poll_snoozed" /\ pc'[t] \in {"poll_timed", "poll_clean"} /\ fr'[t].idx = 1
      BY <1>1, <1>3, <2>3 DEF PollSnoozed, Goto, Frame, Runs, WaitLabels
    <3> QED BY <1>1, <3>1 DEF SamePlace, Polling, PollLabels, WaitLabels, Active, Armed, CutOff
  <2>4. CASE HookCheck(t, TRUE)
    <3>1. pc[t] = "hook_check" /\ pc'[t] = "hook_count" /\ fr'[t].idx = fr[t].idx
      BY <1>1, <2>4 DEF HookCheck, Goto, Frame, Runs
    <3> QED BY <1>1, <3>1 DEF SamePlace, Polling, PollLabels, WaitLabels, Active, Armed, CutOff
  <2> QED BY <2>1, <2>2, <2>3, <2>4
<1> QED BY <1>1, <1>2, <1>4, MovePoll

LEMMA HookBeginPoll ==
  ASSUME KernelInv, PollInv, NEW t \in Threads, HookBegin(t)
  PROVE  PollInv'
<1>1. /\ cpu = "user" /\ pc[t] = "hook" /\ pc \in [Threads -> Labels] /\ fr \in [Threads -> Frame]
  BY KernelParts DEF ControlOK, HookBegin, Runs
<1>2. /\ UNCHANGED <<q, state, v, ready, counter, irq_enabled, got_cancel, join_req, cancelable>>
      /\ \A u \in Threads : u # t => SameCall(u)
  BY <1>1 DEF HookBegin, Goto, SameCall, queueVars, pollVars, irqVars, flagVars
<1>3. CASE Canceled(t)
  <2>1. pc'[t] = "exit" /\ CutOff(t)'
    BY <1>1, <1>2, <1>3 DEF HookBegin, Goto, CutOff, Canceled
  <2> QED BY <1>1, <1>2, <2>1, LeavePoll
<1>4. CASE ~Canceled(t)
  <2>1. /\ fr'[t].idx = fr[t].idx
        /\ \/ pc'[t] = "mtx_lock" /\ fr'[t].then = "hook_check"
           \/ pc'[t] = "hook_check"
           \/ pc'[t] = "hook_reg" /\ PdKind[PollArray[t][fr'[t].idx]] # "cond"
    BY <1>1, <1>4 DEF HookBegin, Goto, Frame, Pd
  <2>2. SamePlace(t) /\ Polling(pc[t], fr[t]) /\ Polling(pc'[t], fr'[t])
    BY <1>1, <2>1 DEF SamePlace, Polling, PollLabels, WaitLabels, Active, Armed, CutOff
  <2> QED BY <1>1, <1>2, <2>2, MovePoll
<1> QED BY <1>3, <1>4

LEMMA PollLoopPoll ==
  ASSUME KernelInv, PollInv, NEW t \in Threads, PollLoop(t) \/ HookFatal(t)
  PROVE  PollInv'
<1>1. /\ cpu = "user" /\ pc[t] \in {"poll_timed", "hook_reg"} /\ pc \in [Threads -> Labels] /\ fr \in [Threads -> Frame]
  BY KernelParts DEF ControlOK, PollLoop, HookFatal, Runs
<1>2. /\ UNCHANGED <<q, state, v, ready, counter, irq_enabled, got_cancel, join_req, cancelable, fr>>
      /\ \A u \in Threads : u # t => SameCall(u)
  BY <1>1 DEF PollLoop, HookFatal, Goto, SameCall, queueVars, pollVars, irqVars, flagVars
<1>3. pc[t] \in WaitLabels => fr[t].idx = 1
  BY DEF PollInv, CountOK
<1>4. CASE HookFatal(t) \/ Canceled(t)
  <2>1. pc'[t] \in {"exit", "fatal"} /\ CutOff(t)'
    BY <1>1, <1>2, <1>4 DEF PollLoop, HookFatal, Goto, CutOff, Canceled
  <2> QED BY <1>1, <1>2, <2>1, LeavePoll
<1>5. CASE PollLoop(t) /\ ~Canceled(t)
  <2>1. pc[t] = "poll_timed" /\ pc'[t] = "poll_snooze" /\ fr'[t].idx = 1
    BY <1>1, <1>2, <1>3, <1>5 DEF PollLoop, Goto, Runs, WaitLabels
  <2>2. SamePlace(t) /\ Polling(pc[t], fr[t]) /\ Polling(pc'[t], fr'[t])
    BY <1>1, <1>2, <2>1 DEF SamePlace, Polling, PollLabels, WaitLabels, Active, Armed, CutOff
  <2> QED BY <1>1, <1>2, <2>2, MovePoll
<1> QED BY <1>4, <1>5

LEMMA HookUnlockPoll ==
  ASSUME KernelInv, PollInv, NEW t \in Threads, HookUnlock(t)
  PROVE  PollInv'
<1> DEFINE m == PdMutex[Pd(t)]
<1>1. /\ cpu = "user" /\ pc[t] = "hook_unlock" /\ pc \in [Threads -> Labels] /\ fr \in [Threads -> Frame]
      /\ m \in Mutexes \cup {None}
  <2>1. pc[t] = "hook_unlock"
    BY DEF HookUnlock, Runs
  <2>2. Pd(t) \in Pds
    BY <2>1, KernelParts, PdIs DEF ControlOK, FrameOK, Pd
  <2> QED BY <2>1, <2>2, KernelParts, ConstantsAssumption DEF ControlOK, HookUnlock, Runs
<1>2. /\ UNCHANGED <<ready, counter, irq_enabled, got_cancel, join_req>>
      /\ \A u \in Threads : u # t => SameCall(u)
      /\ pc'[t] = "hook" /\ fr'[t].idx = fr[t].idx + 1
  BY <1>1 DEF HookUnlock, Unlock, Goto, SameCall, pollVars, irqVars, flagVars, Frame
<1>3. Silent /\ Calm(t)
  <2>1. CASE m = None
    BY <1>2, <2>1, QuietFacts DEF HookUnlock, queueVars
  <2>2. CASE m # None
    <3>1. MutexRelease(t, m) /\ m \in Mutexes
      BY <1>1, <2>2 DEF HookUnlock, Unlock
    <3> QED BY <1>2, <3>1, ReleaseSilent
  <2> QED BY <2>1, <2>2
<1>4. SamePlace(t)
  <2>1. \A k \in DOMAIN PollArray[t] : k \in Nat /\ fr[t].idx \in Nat
    BY <1>1, ConstantsAssumption DEF Frame
  <2> QED BY <1>1, <1>2, <2>1 DEF SamePlace, Polling, PollLabels, WaitLabels, Active, Armed, CutOff
<1>5. \A u \in Threads : Awaits(t, u)' => Awaits(t, u)
  BY <1>1, <1>2 DEF Awaits, InPoll, PollLabels
<1> QED BY <1>1, <1>2, <1>3, <1>4, <1>5, KeptPoll DEF Gone, Grows

LEMMA PollSleeps ==
  ASSUME KernelInv, PollInv, NEW t \in Threads, PollBlock(t) \/ PollSnooze(t)
  PROVE  PollInv'
<1>1. /\ cpu = "user" /\ pc[t] \in {"poll", "poll_snooze"} /\ pc \in [Threads -> Labels] /\ fr \in [Threads -> Frame]
      /\ state \in [Threads -> States] /\ v \in [Threads -> Threads \cup {-1, 0, 1}] /\ counter[t] \in Nat
  BY KernelParts DEF ControlOK, Linkage, ResourceTypes, PollBlock, PollSnooze, Runs
<1>2. fr[t].idx = 1
  BY <1>1 DEF PollInv, CountOK, WaitLabels
<1>3. /\ UNCHANGED <<ready, counter, irq_enabled, got_cancel, join_req>>
      /\ \A u \in Threads : u # t => SameCall(u)
      /\ pc'[t] \in {"poll_clean", "poll_woken", "poll_timed", "poll_snoozed"} /\ fr'[t].idx = 1
      /\ SameLinks(q, q', Pds)
      /\ \A u \in Threads : \/ state'[u] = state[u] /\ v'[u] = v[u]
                            \/ u = t /\ state'[u] = "WAIT_POLL" /\ counter[t] = 0
  <2>1. CASE PollBlock(t)
    <3>1. SameLinks(q, q', Pds)
      BY <2>1, ListsType, ThreadsMove DEF PollBlock, queueVars
    <3> QED BY <1>1, <1>2, <2>1, <3>1 DEF PollBlock, Goto, SameCall, pollVars, irqVars, flagVars, queueVars
  <2>2. CASE PollSnooze(t) /\ counter[t] # 0
    <3>1. UNCHANGED <<queueVars, fr>> /\ pc' = [pc EXCEPT ![t] = "poll_clean"]
      BY <2>2 DEF PollSnooze, Goto
    <3> QED BY <1>1, <1>2, <2>2, <3>1, ListsType DEF PollSnooze, Snooze, SameCall, pollVars, irqVars, flagVars, queueVars
  <2>3. CASE PollSnooze(t) /\ counter[t] = 0
    <3>1. Snooze(t, "WAIT_POLL", "poll_snoozed") /\ "WAIT_POLL" \in States /\ "poll_snoozed" \in Labels
      BY <1>1, <2>3 DEF PollSnooze, States, Labels
    <3> QED BY <1>2, <2>3, <3>1, SnoozeSame
  <2> QED BY <2>1, <2>2, <2>3
<1>4. \A k \in DOMAIN PollArray[t] : k >= 1
  BY ConstantsAssumption
<1>5. SamePlace(t) /\ pc'[t] \notin Gone /\ \A u \in Threads : Awaits(t, u)' => Awaits(t, u)
  <2>1. SamePlace(t)
    BY <1>1, <1>2, <1>3, <1>4 DEF SamePlace, Polling, PollLabels, WaitLabels, Active, Armed, CutOff
  <2> QED BY <1>1, <1>3, <2>1 DEF Awaits, InPoll, PollLabels, Gone
<1> QED BY <1>1, <1>3, <1>5, SleepPoll

\* A proxy is linked in one list.
LEMMA ProxyIn ==
  ASSUME KernelInv, NEW x \in Pds, NEW n \in Queues, \A m \in Queues : ~Linked(x, m),
         q' = PrioEnqueue(q, n, x, prio)
  PROVE  /\ SameLinks(q, q', Pds \ {x})
         /\ \A m \in Queues : (x \in ToSet(q'[m]) <=> m = n) /\ Once(q'[m], x)
<1> DEFINE i == EnqueueAt(q[n], prio, prio[x])
<1>1. q \in Lists /\ q[n] \in Seq(Nodes) /\ x \in Nodes
  BY ListsType DEF Lists, Nodes
<1>2. SameLinks(q, q', Pds \ {x})
  BY <1>1, SameEnqueue
<1>3. i \in 1..(Len(q[n]) + 1)
  BY <1>1, PlaceRange
<1>4. q' = [q EXCEPT ![n] = InsertAt(q[n], i, x)]
  BY DEF PrioEnqueue
<1> HIDE DEF i
<1>5. /\ ToSet(InsertAt(q[n], i, x)) = ToSet(q[n]) \cup {x}
      /\ x \notin ToSet(q[n]) => Once(InsertAt(q[n], i, x), x)
  BY <1>1, <1>3, InsertAtElements
<1>6. \A m \in Queues : Once(q[m], x)
  BY DEF Once, Linked, ToSet
<1> QED BY <1>1, <1>2, <1>4, <1>5, <1>6 DEF Linked, Lists

\* No proxy is linked outside of chopstx_poll, or before its hook has been called.
LEMMA NotArmed ==
  ASSUME PollInv, NEW t \in Threads, NEW k \in DOMAIN PollArray[t], ~CutOff(t),
         ~Armed(pc[t], fr[t], k, ready[PollArray[t][k]])
  PROVE  \A n \in Queues : ~Linked(PollArray[t][k], n)
BY ProxiesEach DEF PollInv, ProxyOK

\* A hook comes to its end: the descriptor is counted as active, or its proxy is linked.
LEMMA RegisterPoll ==
  ASSUME KernelInv, PollInv, NEW t \in Threads, pc[t] \in {"hook_reg", "hook_count"},
         NEW i, i = fr[t].idx, NEW p, p = PollArray[t][i],
         \/ pc'[t] = "hook" /\ fr'[t].idx = i + 1
         \/ pc'[t] = "hook_unlock" /\ fr'[t].idx = i,
         \A x \in Pds : x # p => ready'[x] = ready[x],
         \A u \in Threads : u # t => counter'[u] = counter[u],
         \/ ready'[p] = 0 /\ q' = PrioEnqueue(q, ProxyHome(p), p, prio) /\ counter'[t] = counter[t]
         \/ ready'[p] = 1 /\ q' = q /\ counter'[t] # 0,
         state'[t] = "WAIT_POLL" => state[t] = "WAIT_POLL",
         state[t] # "WAIT_POLL"
  PROVE  /\ ProxiesOK(t)' /\ CountOK(t)' /\ p \in Pds /\ i \in DOMAIN PollArray[t]
         /\ SameLinks(q, q', Pds \ {p})
         /\ ready'[p] = 0 => \A n \in Queues : p \in ToSet(q'[n]) <=> n = ProxyHome(p)
         /\ \A n \in Queues : ~Linked(p, n)
<1>1. /\ i \in DOMAIN PollArray[t] /\ p \in Pds /\ p \in ToSet(PollArray[t])
      /\ \A k \in DOMAIN PollArray[t] : k \in Nat /\ (k # i => PollArray[t][k] # p)
  BY KernelParts, PdIs, ConstantsAssumption DEF ControlOK, FrameOK
<1>2. ~CutOff(t) /\ Polling(pc[t], fr[t]) /\ Polling(pc'[t], fr'[t])
  BY DEF CutOff, Polling, PollLabels
<1>3. /\ \A k \in DOMAIN PollArray[t] : Active(pc[t], fr[t], k) <=> k < i
      /\ \A k \in DOMAIN PollArray[t] : \A rd : Armed(pc[t], fr[t], k, rd) <=> k < i /\ rd = 0
  BY <1>1, <1>2 DEF Active, Armed
<1>4. /\ \A k \in DOMAIN PollArray[t] : Active(pc'[t], fr'[t], k) <=> k < i \/ k = i
      /\ \A k \in DOMAIN PollArray[t] : \A rd : Armed(pc'[t], fr'[t], k, rd) <=> (k < i \/ k = i) /\ rd = 0
  BY <1>1, <1>2 DEF Active, Armed
<1>5. \A n \in Queues : ~Linked(p, n)
  BY <1>1, <1>2, <1>3, NotArmed
<1>6. ProxyHome(p) \in Queues
  BY <1>1, HomeIsQueue
<1>7. /\ SameLinks(q, q', Pds \ {p})
      /\ ready'[p] = 0 => \A n \in Queues : (p \in ToSet(q'[n]) <=> n = ProxyHome(p)) /\ Once(q'[n], p)
      /\ ready'[p] # 0 => \A n \in Queues : p \notin ToSet(q'[n]) /\ Once(q'[n], p)
  <2>1. CASE ready'[p] = 0
    <3>1. q' = PrioEnqueue(q, ProxyHome(p), p, prio) /\ p \in Pds
      BY <1>1, <2>1
    <3>2. /\ SameLinks(q, q', Pds \ {p})
          /\ \A n \in Queues : (p \in ToSet(q'[n]) <=> n = ProxyHome(p)) /\ Once(q'[n], p)
      BY ONLY <1>5, <1>6, <3>1, KernelInv, ProxyIn
    <3> QED BY ONLY <2>1, <3>2
  <2>2. CASE ready'[p] # 0
    <3>1. q' = q
      BY <2>2
    <3>2. SameLinks(q, q', Pds \ {p})
      BY <3>1, ListsType, SameRefl
    <3>3. \A n \in Queues : p \notin ToSet(q[n])
      BY ONLY <1>5 DEF Linked
    <3>4. \A n \in Queues : Once(q[n], p)
      BY ONLY <3>3 DEF Once, ToSet
    <3>5. \A n \in Queues : p \notin ToSet(q'[n]) /\ Once(q'[n], p)
      BY ONLY <3>1, <3>3, <3>4
    <3> QED BY ONLY <2>2, <3>2, <3>5
  <2> QED BY <2>1, <2>2
<1>8. ASSUME NEW k \in DOMAIN PollArray[t] PROVE ProxyOK(t, k)'
  <2>1. CASE k = i
    <3>1. PollArray[t][k] = p
      BY <2>1
    <3>2. Armed(pc[t], fr[t], k, ready[p])' <=> ready'[p] = 0
      BY <1>4, <2>1 DEF Armed, Active, Polling
    <3> QED BY <1>6, <1>7, <3>1, <3>2 DEF ProxyOK, Linked, ProxyHome
  <2>2. CASE k # i
    <3>1. PollArray[t][k] \in Pds \ {p}
      BY <1>1, <2>2, PdIs
    <3>2. SameLinks(q, q', {PollArray[t][k]})
      BY <1>7, <3>1, SameLess
    <3>3. ready'[PollArray[t][k]] = ready[PollArray[t][k]]
      BY <3>1
    <3>4. Armed(pc'[t], fr'[t], k, ready'[PollArray[t][k]]) <=> Armed(pc[t], fr[t], k, ready[PollArray[t][k]])
      BY <1>3, <1>4, <2>2, <3>3
    <3>5. ProxyOK(t, k)
      BY ProxiesEach DEF PollInv
    <3> QED BY <1>2, <3>2, <3>4, <3>5, ProxyKept
  <2> QED BY <2>1, <2>2
<1>9. CountOK(t)'
  <2>1. pc'[t] \notin WaitLabels /\ pc'[t] # "hook_reg" /\ state'[t] # "WAIT_POLL"
    BY DEF WaitLabels
  <2>2. counter[t] = 0 <=> \A k \in DOMAIN PollArray[t] : k < i => ready[PollArray[t][k]] = 0
    BY <1>2, <1>3 DEF PollInv, CountOK
  <2>3. counter'[t] = 0 <=> \A k \in DOMAIN PollArray[t] : (k < i \/ k = i) => ready'[PollArray[t][k]] = 0
    <3>1. \A k \in DOMAIN PollArray[t] : k < i => ready'[PollArray[t][k]] = ready[PollArray[t][k]]
      BY <1>1, PdIs
    <3>2. CASE ready'[p] = 0 /\ counter'[t] = counter[t]
      BY <1>1, <2>2, <3>1, <3>2
    <3>3. CASE ready'[p] # 0 /\ counter'[t] # 0
      BY <1>1, <3>3
    <3> QED BY <3>2, <3>3
  <2>4. \A k \in DOMAIN PollArray[t] : Active(pc[t], fr[t], k)' <=> k < i \/ k = i
    BY <1>4 DEF Active, Polling
  <2> QED BY <2>1, <2>3, <2>4 DEF CountOK
<1> QED BY <1>1, <1>5, <1>7, <1>8, <1>9, ProxiesEach

\* A hook is called by the running thread.
LEMMA HookFacts ==
  ASSUME KernelInv, NEW t \in Threads, NEW l, Runs(t, l)
  PROVE  /\ cpu = "user" /\ pc[t] = l /\ state[t] = "RUNNING"
         /\ pc \in [Threads -> Labels] /\ fr \in [Threads -> Frame]
         /\ ready \in [Pds -> {0, 1}] /\ counter \in [Threads -> Nat] /\ irq_enabled \in [Irqs -> BOOLEAN]
         /\ join_req \in [Threads -> BOOLEAN]
BY KernelParts, RunsFacts DEF ControlOK, ResourceTypes, Runs

LEMMA HookCountPoll ==
  ASSUME KernelInv, PollInv, NEW t \in Threads, HookCount(t)
  PROVE  PollInv'
<1> DEFINE i == fr[t].idx
           p == PollArray[t][i]
<1>1. /\ cpu = "user" /\ pc[t] = "hook_count" /\ state[t] = "RUNNING"
      /\ pc \in [Threads -> Labels] /\ fr \in [Threads -> Frame]
      /\ ready \in [Pds -> {0, 1}] /\ counter \in [Threads -> Nat] /\ fr[t].r \in Nat
      /\ p \in Pds
  <2>1. Runs(t, "hook_count")
    BY DEF HookCount
  <2>2. FrameOK(t, "hook_count", fr[t]) /\ fr[t].r \in Int
    BY <2>1, HookFacts, KernelParts DEF ControlOK, Frame
  <2> QED BY <2>1, <2>2, HookFacts, PdIs DEF FrameOK
<1>2. /\ UNCHANGED <<q, state, v, irq_enabled, got_cancel, join_req>>
      /\ \A u \in Threads : u # t => SameCall(u)
      /\ pc'[t] = "hook_unlock" /\ fr'[t].idx = i
      /\ \A x \in Pds : x # p => ready'[x] = ready[x]
      /\ \A u \in Threads : u # t => counter'[u] = counter[u]
      /\ ready'[p] = 1 /\ counter'[t] # 0
  BY <1>1 DEF HookCount, Goto, SameCall, queueVars, irqVars, flagVars, Frame, Pd
<1>3. p \in ToSet(PollArray[t])
  BY <1>1, KernelParts, PdIs DEF ControlOK, FrameOK
<1> HIDE DEF i, p
<1>4. i = fr[t].idx /\ p = PollArray[t][i]
  BY DEF i, p
<1>5. ProxiesOK(t)' /\ CountOK(t)' /\ SameLinks(q, q', Pds \ {p})
  <2>1. PICK j, x : j = i /\ x = p
    OBVIOUS
  <2>2. j = fr[t].idx /\ x = PollArray[t][j] /\ t \in Threads
    BY <1>4, <2>1
  <2>3. pc[t] \in {"hook_reg", "hook_count"} /\ pc'[t] = "hook_unlock" /\ fr'[t].idx = j
    BY <1>1, <1>2, <2>1
  <2>4. /\ \A z \in Pds : z # x => ready'[z] = ready[z]
        /\ \A u \in Threads : u # t => counter'[u] = counter[u]
    BY <1>2, <2>1
  <2>5. ready'[x] = 1 /\ q' = q /\ counter'[t] # 0
    BY <1>2, <2>1
  <2>6. (state'[t] = "WAIT_POLL" => state[t] = "WAIT_POLL") /\ state[t] # "WAIT_POLL"
    BY <1>1, <1>2
  <2>7. KernelInv /\ PollInv
    OBVIOUS
  <2>8. ProxiesOK(t)' /\ CountOK(t)' /\ SameLinks(q, q', Pds \ {x})
    BY ONLY <2>2, <2>3, <2>4, <2>5, <2>6, <2>7, RegisterPoll
  <2> QED BY <2>1, <2>8
<1>6. Grows /\ Calm(t)
  BY <1>2 DEF Grows, Calm
<1>7. SameLinks(q, q', Pds \ ToSet(PollArray[t]))
  BY <1>3, <1>5, SameLess
<1>8. IrqFollowsProxy'
  BY <1>2 DEF PollInv, IrqFollowsProxy, Linked
<1>9. AwaitsInv'
  <2>1. \A u \in Threads : Awaits(t, u)' => Awaits(t, u)
    BY <1>1, <1>2 DEF Awaits, InPoll, PollLabels
  <2>2. CutOff(t) => CutOff(t)'
    BY <1>1 DEF CutOff
  <2> QED BY <1>1, <1>2, <1>6, <2>1, <2>2, AwaitsKept DEF Gone, Linked
<1> QED BY <1>2, <1>3, <1>5, <1>6, <1>7, <1>8, <1>9, PollStepPoll

LEMMA HookCondPoll ==
  ASSUME KernelInv, PollInv, NEW t \in Threads, HookCond(t)
  PROVE  PollInv'
<1> DEFINE i == fr[t].idx
           p == PollArray[t][i]
<1>1. /\ cpu = "user" /\ pc[t] = "hook_reg" /\ state[t] = "RUNNING"
      /\ pc \in [Threads -> Labels] /\ fr \in [Threads -> Frame]
      /\ ready \in [Pds -> {0, 1}] /\ counter \in [Threads -> Nat]
  BY HookFacts DEF HookCond
<1>2. p \in ToSet(PollArray[t]) /\ p \in Pds
  BY <1>1, KernelParts, PdIs DEF ControlOK, FrameOK
<1>3. /\ UNCHANGED <<state, v, irq_enabled, got_cancel, join_req, fr, ready, counter>>
      /\ \A u \in Threads : u # t => SameCall(u)
      /\ pc'[t] = "hook_unlock" /\ PdKind[p] = "cond"
      /\ q' = PrioEnqueue(q, ProxyHome(p), p, prio)
  BY <1>1 DEF HookCond, Goto, SameCall, pollVars, irqVars, flagVars, Pd, ProxyHome
<1>4. ready[p] = 0
  BY <1>1, <1>3 DEF PollInv, CountOK, Pd
<1> HIDE DEF i, p
<1>5. i = fr[t].idx /\ p = PollArray[t][i]
  BY DEF i, p
<1>6. ProxiesOK(t)' /\ CountOK(t)' /\ SameLinks(q, q', Pds \ {p})
      /\ \A n \in Queues : p \in ToSet(q'[n]) <=> n = ProxyHome(p)
  <2>1. PICK j, x : j = i /\ x = p
    OBVIOUS
  <2>2. j = fr[t].idx /\ x = PollArray[t][j] /\ t \in Threads
    BY <1>5, <2>1
  <2>3. pc[t] \in {"hook_reg", "hook_count"} /\ pc'[t] = "hook_unlock" /\ fr'[t].idx = j
    BY <1>1, <1>3, <2>2
  <2>4. /\ \A z \in Pds : z # x => ready'[z] = ready[z]
        /\ \A u \in Threads : u # t => counter'[u] = counter[u]
    BY <1>3
  <2>5. ready'[x] = 0 /\ q' = PrioEnqueue(q, ProxyHome(x), x, prio) /\ counter'[t] = counter[t]
    BY <1>3, <1>4, <2>1
  <2>6. (state'[t] = "WAIT_POLL" => state[t] = "WAIT_POLL") /\ state[t] # "WAIT_POLL"
    BY <1>1, <1>3
  <2>7. KernelInv /\ PollInv
    OBVIOUS
  <2>8. ProxiesOK(t)' /\ CountOK(t)' /\ SameLinks(q, q', Pds \ {x})
    BY ONLY <2>2, <2>3, <2>4, <2>5, <2>6, <2>7, RegisterPoll
  <2>9. \A n \in Queues : x \in ToSet(q'[n]) <=> n = ProxyHome(x)
    BY ONLY <2>2, <2>3, <2>4, <2>5, <2>6, <2>7, RegisterPoll, SMTT(60), ZenonT(60)
  <2> QED BY <2>1, <2>8, <2>9
<1>7. Grows /\ Calm(t)
  BY <1>3 DEF Grows, Calm
<1>8. SameLinks(q, q', Pds \ ToSet(PollArray[t]))
  BY <1>2, <1>6, SameLess
<1>8a. ProxyHome(p) \in Conds /\ ProxyHome(p) \notin {"intr", "join"} /\ "intr" \in Queues /\ "join" \in Queues
  BY <1>2, <1>3, ConstantsAssumption, AddressAssumption DEF ProxyHome, Objects, Queues
<1>9. IrqFollowsProxy'
  <2>1. SameLinks(q, q', {x \in Pds : PdKind[x] = "intr"})
    BY <1>3, <1>6, SameLess
  <2> QED BY <1>3, <2>1, IrqKept DEF PollInv
<1>10. AwaitsInv'
  <2>1. \A u \in Threads : Awaits(t, u)' => Awaits(t, u)
    BY <1>1, <1>3 DEF Awaits, InPoll, PollLabels
  <2>2. CutOff(t) => CutOff(t)'
    BY <1>1 DEF CutOff
  <2>3. \A x \in Pds : Linked(x, "join")' => Linked(x, "join")
    BY <1>6, <1>8a DEF SameLinks, Linked
  <2> QED BY <1>1, <1>3, <1>7, <2>1, <2>2, <2>3, AwaitsKept DEF Gone
<1> QED BY <1>3, <1>6, <1>7, <1>8, <1>9, <1>10, PollStepPoll

LEMMA HookIntrPoll ==
  ASSUME KernelInv, PollInv, NEW t \in Threads, HookIntr(t)
  PROVE  PollInv'
<1> DEFINE i == fr[t].idx
           p == PollArray[t][i]
<1>1. /\ cpu = "user" /\ pc[t] = "hook_reg" /\ state[t] = "RUNNING"
      /\ pc \in [Threads -> Labels] /\ fr \in [Threads -> Frame]
      /\ ready \in [Pds -> {0, 1}] /\ counter \in [Threads -> Nat] /\ irq_enabled \in [Irqs -> BOOLEAN]
  BY HookFacts DEF HookIntr
<1>2. p \in ToSet(PollArray[t]) /\ p \in Pds
  BY <1>1, KernelParts, PdIs DEF ControlOK, FrameOK
<1>3. /\ UNCHANGED <<state, v, got_cancel, join_req, ready>>
      /\ \A u \in Threads : u # t => SameCall(u) /\ counter'[u] = counter[u]
      /\ pc'[t] = "hook" /\ fr'[t].idx = i + 1 /\ PdKind[p] = "intr" /\ ProxyHome(p) = "intr"
      /\ \/ ready[p] = 1 /\ counter'[t] = counter[t] + 1 /\ q' = q /\ irq_enabled' = irq_enabled
         \/ /\ ready[p] = 0 /\ counter' = counter /\ q' = PrioEnqueue(q, "intr", p, prio)
            /\ irq_enabled' = [irq_enabled EXCEPT ![PdObj[p]] = TRUE]
  BY <1>1 DEF HookIntr, Goto, SameCall, Frame, flagVars, Pd, ProxyHome
<1> HIDE DEF i, p
<1>5. i = fr[t].idx /\ p = PollArray[t][i] /\ counter[t] \in Nat
  BY <1>1 DEF i, p
<1>6. /\ ProxiesOK(t)' /\ CountOK(t)' /\ SameLinks(q, q', Pds \ {p})
      /\ ready[p] = 0 => \A n \in Queues : p \in ToSet(q'[n]) <=> n = ProxyHome(p)
      /\ \A n \in Queues : ~Linked(p, n)
  <2>1. /\ \A x \in Pds : x # p => ready'[x] = ready[x]
        /\ \A u \in Threads : u # t => counter'[u] = counter[u]
        /\ ready'[p] = ready[p] /\ state'[t] = state[t] /\ state[t] # "WAIT_POLL"
    BY <1>1, <1>3
  <2>2. \/ ready'[p] = 0 /\ q' = PrioEnqueue(q, ProxyHome(p), p, prio) /\ counter'[t] = counter[t]
        \/ ready'[p] = 1 /\ q' = q /\ counter'[t] # 0
    <3>1. CASE ready[p] = 1
      <4>1. q' = q /\ counter'[t] = counter[t] + 1
        BY <1>3, <3>1
      <4> QED BY <1>5, <2>1, <3>1, <4>1
    <3>2. CASE ready[p] = 0
      <4>1. q' = PrioEnqueue(q, "intr", p, prio) /\ counter' = counter /\ ProxyHome(p) = "intr"
        BY <1>3, <3>2
      <4>2. q' = PrioEnqueue(q, ProxyHome(p), p, prio)
        BY <4>1
      <4> QED BY <2>1, <3>2, <4>1, <4>2
    <3> QED BY <1>3, <3>1, <3>2
  <2>3. pc[t] \in {"hook_reg", "hook_count"} /\ pc'[t] = "hook" /\ fr'[t].idx = i + 1
    BY <1>1, <1>3
  <2>4. PICK j, x : j = i /\ x = p
    OBVIOUS
  <2>5. j = fr[t].idx /\ x = PollArray[t][j] /\ t \in Threads
    BY <1>5, <2>4
  <2>6. \A z \in Pds : z # x => ready'[z] = ready[z]
    BY <2>1, <2>4
  <2>7. \A u \in Threads : u # t => counter'[u] = counter[u]
    BY <2>1
  <2>8. \/ ready'[x] = 0 /\ q' = PrioEnqueue(q, ProxyHome(x), x, prio) /\ counter'[t] = counter[t]
        \/ ready'[x] = 1 /\ q' = q /\ counter'[t] # 0
    BY <2>2, <2>4
  <2>9. pc[t] \in {"hook_reg", "hook_count"} /\ pc'[t] = "hook" /\ fr'[t].idx = j + 1
    BY <2>3, <2>4
  <2>10. (state'[t] = "WAIT_POLL" => state[t] = "WAIT_POLL") /\ state[t] # "WAIT_POLL"
    BY <2>1
  <2>11. KernelInv /\ PollInv
    OBVIOUS
  <2>12. ProxiesOK(t)' /\ CountOK(t)' /\ SameLinks(q, q', Pds \ {x})
    BY ONLY <2>5, <2>6, <2>7, <2>8, <2>9, <2>10, <2>11, RegisterPoll
  <2>13. ready'[x] = 0 => \A n \in Queues : x \in ToSet(q'[n]) <=> n = ProxyHome(x)
    BY ONLY <2>5, <2>6, <2>7, <2>8, <2>9, <2>10, <2>11, RegisterPoll, SMTT(60), ZenonT(60)
  <2>14. \A n \in Queues : ~Linked(x, n)
    BY ONLY <2>5, <2>6, <2>7, <2>8, <2>9, <2>10, <2>11, RegisterPoll
  <2>15. ready'[p] = ready[p]
    BY <2>1
  <2> QED BY <2>4, <2>12, <2>13, <2>14, <2>15
<1>7. Grows /\ Calm(t)
  BY <1>3 DEF Grows, Calm
<1>8. SameLinks(q, q', Pds \ ToSet(PollArray[t]))
  BY <1>2, <1>6, SameLess
<1>9. IrqFollowsProxy'
  <2>1. CASE ready[p] = 1
    BY <1>3, <2>1 DEF PollInv, IrqFollowsProxy, Linked
  <2>2. CASE ready[p] = 0
    <3>1. \A x \in Pds : PdKind[x] = "intr" => (Linked(x, "intr")' <=> Linked(x, "intr") \/ x = p)
      BY <1>3, <1>6, <2>2 DEF SameLinks, Linked, Queues
    <3>2. \A k \in Irqs : irq_enabled'[k] <=> irq_enabled[k] \/ k = PdObj[p]
      BY <1>1, <1>3, <2>2
    <3> QED BY <1>2, <1>3, <3>1, <3>2 DEF PollInv, IrqFollowsProxy
  <2> QED BY <1>3, <2>1, <2>2
<1>10. AwaitsInv'
  <2>1. \A u \in Threads : Awaits(t, u)' => Awaits(t, u)
    BY <1>1, <1>3 DEF Awaits, InPoll, PollLabels
  <2>2. CutOff(t) => CutOff(t)'
    BY <1>1 DEF CutOff
  <2>3. \A x \in Pds : Linked(x, "join")' => Linked(x, "join")
    BY <1>3, <1>6 DEF SameLinks, Linked, Queues
  <2> QED BY <1>1, <1>3, <1>7, <2>1, <2>2, <2>3, AwaitsKept DEF Gone
<1> QED BY <1>2, <1>3, <1>6, <1>7, <1>8, <1>9, <1>10, PollStepPoll

LEMMA HookJoinPoll ==
  ASSUME KernelInv, LocksInv, PollInv, NEW t \in Threads, HookJoin(t)
  PROVE  PollInv'
<1> DEFINE i == fr[t].idx
           p == PollArray[t][i]
           y == PdObj[p]
<1>1. /\ cpu = "user" /\ pc[t] = "hook_reg" /\ state[t] = "RUNNING"
      /\ pc \in [Threads -> Labels] /\ fr \in [Threads -> Frame]
      /\ ready \in [Pds -> {0, 1}] /\ counter \in [Threads -> Nat] /\ join_req \in [Threads -> BOOLEAN]
  BY HookFacts DEF HookJoin
<1>2. p \in ToSet(PollArray[t]) /\ p \in Pds
  BY <1>1, KernelParts, PdIs DEF ControlOK, FrameOK
<1>3a. /\ UNCHANGED <<state, v, got_cancel, irq_enabled>>
       /\ \A u \in Threads : u # t => SameCall(u)
       /\ pc'[t] = "hook" /\ fr'[t].idx = i + 1
  BY <1>1 DEF HookJoin, Goto, SameCall, Frame, irqVars
<1>3b. PdKind[p] = "join" /\ ProxyHome(p) = "join" /\ y \notin Detached
  BY DEF HookJoin, Pd, ProxyHome
<1>3. /\ UNCHANGED <<state, v, got_cancel, irq_enabled>>
      /\ \A u \in Threads : u # t => SameCall(u) /\ counter'[u] = counter[u]
      /\ \A x \in Pds : x # p => ready'[x] = ready[x]
      /\ pc'[t] = "hook" /\ fr'[t].idx = i + 1 /\ PdKind[p] = "join" /\ ProxyHome(p) = "join" /\ y \notin Detached
      /\ \/ ready'[p] = 1 /\ counter'[t] = counter[t] + 1 /\ q' = q /\ join_req' = join_req
         \/ /\ ready'[p] = 0 /\ counter' = counter /\ q' = PrioEnqueue(q, "join", p, prio)
            /\ join_req' = [join_req EXCEPT ![y] = TRUE] /\ state[y] # "EXITED"
  <2>1. CASE state[y] = "EXITED"
    <3>1. /\ ready' = [ready EXCEPT ![p] = 1] /\ counter' = [counter EXCEPT ![t] = @ + 1]
          /\ q' = q /\ join_req' = join_req
      BY <2>1 DEF HookJoin, Pd
    <3>2. /\ ready'[p] = 1 /\ counter'[t] = counter[t] + 1
          /\ \A u \in Threads : u # t => counter'[u] = counter[u]
          /\ \A x \in Pds : x # p => ready'[x] = ready[x]
      BY <1>1, <1>2, <3>1
    <3> QED BY <1>3a, <1>3b, <3>1, <3>2
  <2>2. CASE state[y] # "EXITED"
    <3>1. /\ ready' = [ready EXCEPT ![p] = 0] /\ counter' = counter
          /\ q' = PrioEnqueue(q, "join", p, prio) /\ join_req' = [join_req EXCEPT ![y] = TRUE]
      BY <2>2 DEF HookJoin, Pd
    <3>2. /\ ready'[p] = 0
          /\ \A x \in Pds : x # p => ready'[x] = ready[x]
      BY <1>1, <1>2, <3>1
    <3> QED BY <1>3a, <1>3b, <2>2, <3>1, <3>2
  <2> QED BY <2>1, <2>2
<1> HIDE DEF i, p, y
<1>5. i = fr[t].idx /\ p = PollArray[t][i] /\ counter[t] \in Nat /\ y = PdObj[p]
  BY <1>1 DEF i, p, y
<1>5a. y \in Threads
  BY <1>2, <1>3, <1>5, ConstantsAssumption
<1>6. /\ ProxiesOK(t)' /\ CountOK(t)' /\ SameLinks(q, q', Pds \ {p})
      /\ ready'[p] = 0 => \A n \in Queues : p \in ToSet(q'[n]) <=> n = ProxyHome(p)
      /\ \A n \in Queues : ~Linked(p, n)
  <2>1. /\ \A x \in Pds : x # p => ready'[x] = ready[x]
        /\ \A u \in Threads : u # t => counter'[u] = counter[u]
        /\ state'[t] = state[t] /\ state[t] # "WAIT_POLL"
    BY <1>1, <1>3
  <2>2. \/ ready'[p] = 0 /\ q' = PrioEnqueue(q, ProxyHome(p), p, prio) /\ counter'[t] = counter[t]
        \/ ready'[p] = 1 /\ q' = q /\ counter'[t] # 0
    <3>1. CASE ready'[p] = 1
      <4>1. q' = q /\ counter'[t] = counter[t] + 1
        BY <1>3, <3>1
      <4> QED BY <1>5, <3>1, <4>1
    <3>2. CASE ready'[p] = 0
      <4>1. q' = PrioEnqueue(q, "join", p, prio) /\ counter' = counter /\ ProxyHome(p) = "join"
        BY <1>3, <3>2
      <4>2. q' = PrioEnqueue(q, ProxyHome(p), p, prio)
        BY <4>1
      <4> QED BY <3>2, <4>1, <4>2
    <3> QED BY <1>3, <3>1, <3>2
  <2>3. pc[t] \in {"hook_reg", "hook_count"} /\ pc'[t] = "hook" /\ fr'[t].idx = i + 1
    BY <1>1, <1>3
  <2>4. PICK j, x : j = i /\ x = p
    OBVIOUS
  <2>5. j = fr[t].idx /\ x = PollArray[t][j] /\ t \in Threads
    BY <1>5, <2>4
  <2>6. \A z \in Pds : z # x => ready'[z] = ready[z]
    BY <2>1, <2>4
  <2>7. \A u \in Threads : u # t => counter'[u] = counter[u]
    BY <2>1
  <2>8. \/ ready'[x] = 0 /\ q' = PrioEnqueue(q, ProxyHome(x), x, prio) /\ counter'[t] = counter[t]
        \/ ready'[x] = 1 /\ q' = q /\ counter'[t] # 0
    BY <2>2, <2>4
  <2>9. pc[t] \in {"hook_reg", "hook_count"} /\ pc'[t] = "hook" /\ fr'[t].idx = j + 1
    BY <2>3, <2>4
  <2>10. (state'[t] = "WAIT_POLL" => state[t] = "WAIT_POLL") /\ state[t] # "WAIT_POLL"
    BY <2>1
  <2>11. KernelInv /\ PollInv
    OBVIOUS
  <2>12. ProxiesOK(t)' /\ CountOK(t)' /\ SameLinks(q, q', Pds \ {x})
    BY ONLY <2>5, <2>6, <2>7, <2>8, <2>9, <2>10, <2>11, RegisterPoll
  <2>14. ready'[x] = 0 => \A n \in Queues : x \in ToSet(q'[n]) <=> n = ProxyHome(x)
    BY ONLY <2>5, <2>6, <2>7, <2>8, <2>9, <2>10, <2>11, RegisterPoll, SMTT(60), ZenonT(60)
  <2>13. \A n \in Queues : ~Linked(x, n)
    BY ONLY <2>5, <2>6, <2>7, <2>8, <2>9, <2>10, <2>11, RegisterPoll
  <2> QED BY <2>4, <2>12, <2>13, <2>14
<1>7. Grows
  BY <1>1, <1>3, <1>5a DEF Grows
<1>8. SameLinks(q, q', Pds \ ToSet(PollArray[t]))
  BY <1>2, <1>6, SameLess
<1>9. IrqFollowsProxy'
  <2>1. SameLinks(q, q', {x \in Pds : PdKind[x] = "intr"})
    BY <1>3, <1>6, SameLess
  <2> QED BY <1>3, <2>1, IrqKept DEF PollInv
<1>10. AwaitsInv'
  <2>1. \A u \in Threads : Awaits(t, u)' => Awaits(t, u)
    BY <1>1, <1>3 DEF Awaits, InPoll, PollLabels
  <2>2. CutOff(t) => CutOff(t)'
    BY <1>1 DEF CutOff
  <2>3. \A u \in Threads : Noticed(u) => Noticed(u)'
    BY <1>3, <1>7, <2>2, NoticedAll DEF Gone
  <2>4. ASSUME NEW w \in Threads, state'[w] = "WAIT_EXIT" PROVE Noticed(v[w])'
    BY <1>3, <2>3, <2>4, WaitsKept
  <2>5. ASSUME NEW x \in Pds, Linked(x, "join")' PROVE Noticed(PdObj[x])'
    <3>1. CASE x = p /\ ready'[p] = 0
      <4>1. Awaits(t, y)
        BY <1>1, <1>2, <1>3, <1>5 DEF Awaits, InPoll, PollLabels
      <4>2. state[y] # "FINISHED" /\ state[y] # "EXITED" /\ pc[y] # "dying"
        BY <1>1, <1>3, <1>5a, <3>1, <4>1 DEF PollInv, AwaitedOK
      <4>3. pc[y] # "dead"
        BY <1>5a, <4>2 DEF LocksInv, SleepOK, Dead
      <4>4. join_req'[y]
        BY <1>1, <1>3, <1>5a, <3>1
      <4>5. pc'[y] \notin {"dying", "dead"}
        BY <1>3, <1>5a, <4>2, <4>3 DEF SameCall
      <4> QED BY <1>5, <3>1, <4>4, <4>5 DEF Noticed
    <3>2. CASE ~(x = p /\ ready'[p] = 0)
      <4>1. Linked(x, "join")
        <5>1. CASE x = p
          BY <1>3, <2>5, <3>2, <5>1 DEF Linked
        <5>2. CASE x # p
          BY <1>6, <2>5, <5>2 DEF SameLinks, Linked, Queues
        <5> QED BY <5>1, <5>2
      <4> QED BY <2>3, <2>5, <4>1, WaitsKept
    <3> QED BY <3>1, <3>2
  <2>6. ASSUME NEW u \in Threads PROVE AwaitedOK(u)'
    <3>1. AwaitedOK(u) /\ pc'[u] # "dying"
      BY <1>1, <1>3 DEF PollInv, AwaitedOK, SameCall
    <3>2. \A w \in Threads : Awaits(w, u)' => Awaits(w, u)
      BY <1>3, <2>1, AwaitsSame
    <3> QED BY <1>3, <3>1, <3>2 DEF AwaitedOK
  <2> QED BY <2>4, <2>5, <2>6 DEF AwaitsInv
<1> QED BY <1>2, <1>3, <1>6, <1>7, <1>8, <1>9, <1>10, PollStepPoll

\* A check that fails resets the descriptor.
LEMMA HookCheckPoll ==
  ASSUME KernelInv, PollInv, NEW t \in Threads, HookCheck(t, FALSE)
  PROVE  PollInv'
<1> DEFINE i == fr[t].idx
           p == PollArray[t][i]
<1>1. /\ cpu = "user" /\ pc[t] = "hook_check" /\ state[t] = "RUNNING"
      /\ pc \in [Threads -> Labels] /\ fr \in [Threads -> Frame]
      /\ ready \in [Pds -> {0, 1}] /\ counter \in [Threads -> Nat]
  BY HookFacts DEF HookCheck
<1>2. /\ p \in ToSet(PollArray[t]) /\ p \in Pds /\ i \in DOMAIN PollArray[t]
      /\ \A k \in DOMAIN PollArray[t] : k \in Nat /\ (k # i => PollArray[t][k] # p)
  BY <1>1, KernelParts, PdIs, ConstantsAssumption DEF ControlOK, FrameOK
<1>3. /\ UNCHANGED <<q, state, v, irq_enabled, got_cancel, join_req, fr, counter>>
      /\ \A u \in Threads : u # t => SameCall(u)
      /\ pc'[t] = "hook_reg" /\ ready' = [ready EXCEPT ![p] = 0]
  BY <1>1 DEF HookCheck, Goto, SameCall, queueVars, irqVars, flagVars, Pd
<1> HIDE DEF i, p
<1>4. i = fr[t].idx /\ p = PollArray[t][i]
  BY DEF i, p
<1>5. Polling(pc[t], fr[t]) /\ Polling(pc'[t], fr'[t])
  BY <1>1, <1>3 DEF Polling, PollLabels
<1>6. /\ \A k \in DOMAIN PollArray[t] : Active(pc[t], fr[t], k) <=> k < i
      /\ \A k \in DOMAIN PollArray[t] : Active(pc'[t], fr'[t], k) <=> k < i
      /\ \A k \in DOMAIN PollArray[t] : \A rd : Armed(pc[t], fr[t], k, rd) <=> k < i /\ rd = 0
      /\ \A k \in DOMAIN PollArray[t] : \A rd : Armed(pc'[t], fr'[t], k, rd) <=> k < i /\ rd = 0
  BY <1>1, <1>2, <1>3, <1>4, <1>5 DEF Active, Armed
<1>7. ~(i < i)
  BY <1>2
<1>8. \A k \in DOMAIN PollArray[t] : k < i => ready'[PollArray[t][k]] = ready[PollArray[t][k]]
  BY <1>1, <1>2, <1>3, <1>7, PdIs
<1>9. ASSUME NEW k \in DOMAIN PollArray[t] PROVE ProxyOK(t, k)'
  <2>1. SameLinks(q, q', {PollArray[t][k]})
    BY <1>3, ListsType, SameRefl
  <2>2. ProxyOK(t, k) /\ (CutOff(t) => CutOff(t)')
    BY <1>1, ProxiesEach DEF PollInv, CutOff
  <2>3. Armed(pc'[t], fr'[t], k, ready'[PollArray[t][k]]) <=> Armed(pc[t], fr[t], k, ready[PollArray[t][k]])
    BY <1>6, <1>8
  <2> QED BY <2>1, <2>2, <2>3, ProxyKept
<1>10. CountOK(t)'
  <2>1. counter[t] = 0 <=> \A k \in DOMAIN PollArray[t] : k < i => ready[PollArray[t][k]] = 0
    BY <1>5, <1>6 DEF PollInv, CountOK
  <2>2. counter'[t] = 0 <=> \A k \in DOMAIN PollArray[t] : k < i => ready'[PollArray[t][k]] = 0
    BY <1>3, <1>8, <2>1
  <2>3. \A k \in DOMAIN PollArray[t] : Active(pc[t], fr[t], k)' <=> k < i
    BY <1>6 DEF Active, Polling
  <2>4. ready'[Pd(t)'] = 0
    BY <1>1, <1>2, <1>3, <1>4 DEF Pd
  <2> QED BY <1>1, <1>3, <2>2, <2>3, <2>4 DEF CountOK, WaitLabels
<1>11. Grows /\ Calm(t)
  BY <1>3 DEF Grows, Calm
<1>12. SameLinks(q, q', Pds \ ToSet(PollArray[t]))
  BY <1>3, ListsType, SameRefl
<1>13. IrqFollowsProxy'
  BY <1>3 DEF PollInv, IrqFollowsProxy, Linked
<1>14. AwaitsInv'
  <2>1. \A u \in Threads : Awaits(t, u)' => Awaits(t, u)
    BY <1>1, <1>3 DEF Awaits, InPoll, PollLabels
  <2>2. CutOff(t) => CutOff(t)'
    BY <1>1 DEF CutOff
  <2> QED BY <1>1, <1>3, <1>11, <2>1, <2>2, AwaitsKept DEF Gone, Linked
<1>15. \A x \in Pds : x \notin ToSet(PollArray[t]) => ready'[x] = ready[x]
  BY <1>1, <1>2, <1>3
<1> QED BY <1>3, <1>9, <1>10, <1>11, <1>12, <1>13, <1>14, <1>15, PollStepPoll, ProxiesEach

LEMMA PollReturnPoll ==
  ASSUME KernelInv, PollInv, NEW t \in Threads, PollReturn(t)
  PROVE  PollInv'
<1>1. /\ cpu = "user" /\ pc[t] = "poll_clean" /\ state[t] = "RUNNING"
      /\ pc \in [Threads -> Labels] /\ fr \in [Threads -> Frame] /\ counter \in [Threads -> Nat]
  BY HookFacts DEF PollReturn
<1>2. /\ UNCHANGED <<q, state, v, irq_enabled, got_cancel, join_req, ready>>
      /\ \A u \in Threads : u # t => SameCall(u) /\ counter'[u] = counter[u]
      /\ pc'[t] \in {"exit", "user"} /\ counter'[t] = 0
  BY <1>1 DEF PollReturn, Goto, SameCall, queueVars, irqVars, flagVars
<1>3. ~CutOff(t) /\ ~Polling(pc'[t], fr'[t])
  BY <1>1, <1>2 DEF CutOff, Polling, PollLabels
<1>4. ASSUME NEW k \in DOMAIN PollArray[t] PROVE ProxyOK(t, k)'
  <2>1. fr[t].idx > Len(PollArray[t]) /\ k <= Len(PollArray[t]) /\ k \in Nat
        /\ fr[t].idx \in Nat /\ Len(PollArray[t]) \in Nat
    BY <1>1, ConstantsAssumption DEF PollReturn, MorePds, Frame
  <2>2. ~(k >= fr[t].idx)
    BY <2>1
  <2>3. ~Armed(pc[t], fr[t], k, ready[PollArray[t][k]])
    BY <1>1, <2>2 DEF Armed
  <2>4. \A n \in Queues : ~Linked(PollArray[t][k], n)
    BY <1>3, <2>3, NotArmed
  <2>5. ~Armed(pc[t], fr[t], k, ready[PollArray[t][k]])'
    BY <1>3 DEF Armed, Active, Polling
  <2> QED BY <1>2, <2>4, <2>5 DEF ProxyOK, Linked, Once, ToSet
<1>5. CountOK(t)'
  <2>1. ~Polling(pc[t], fr[t])' /\ pc'[t] \notin WaitLabels /\ pc'[t] # "hook_reg"
    BY <1>2, <1>3 DEF Polling, WaitLabels
  <2> QED BY <1>2, <2>1 DEF CountOK
<1>6. Grows /\ Calm(t)
  BY <1>2 DEF Grows, Calm
<1>7. SameLinks(q, q', Pds \ ToSet(PollArray[t]))
  BY <1>2, ListsType, SameRefl
<1>8. IrqFollowsProxy'
  BY <1>2 DEF PollInv, IrqFollowsProxy, Linked
<1>9. AwaitsInv'
  <2>1. \A u \in Threads : ~Awaits(t, u)'
    BY <1>2 DEF Awaits, InPoll, PollLabels
  <2> QED BY <1>1, <1>2, <1>3, <1>6, <2>1, AwaitsKept DEF Gone, Linked
<1> QED BY <1>2, <1>4, <1>5, <1>6, <1>7, <1>8, <1>9, PollStepPoll, ProxiesEach

\* chopstx_claim_irq and chopstx_intr_done: the caller is not polling.
LEMMA IrqCallsPoll ==
  ASSUME KernelInv, PollInv, NEW t \in Threads, NEW p \in Pds, ClaimIrq(t, p) \/ IntrDone(t, p)
  PROVE  PollInv'
<1>1. /\ cpu = "user" /\ pc[t] = "user" /\ p \in ToSet(PollArray[t]) /\ PdKind[p] = "intr"
      /\ ready \in [Pds -> {0, 1}] /\ irq_enabled \in [Irqs -> BOOLEAN]
  BY KernelParts DEF ResourceTypes, ClaimIrq, IntrDone, Calls, Runs
<1>2. /\ UNCHANGED <<q, state, v, got_cancel, join_req, counter, pc, fr>>
      /\ \A u \in Threads : SameCall(u)
      /\ ready' = [ready EXCEPT ![p] = 0]
      /\ irq_enabled' = irq_enabled \/ irq_enabled' = [irq_enabled EXCEPT ![PdObj[p]] = FALSE]
  BY DEF ClaimIrq, IntrDone, SameCall, queueVars, flagVars, Disabled
<1>3. ~CutOff(t) /\ ~Polling(pc[t], fr[t])
  BY <1>1 DEF CutOff, Polling, PollLabels
<1>4. ASSUME NEW k \in DOMAIN PollArray[t]
      PROVE  (\A n \in Queues : ~Linked(PollArray[t][k], n)) /\ ProxyOK(t, k)'
  <2>1. ~Armed(pc[t], fr[t], k, ready[PollArray[t][k]])
    BY <1>3 DEF Armed, Active
  <2>2. \A n \in Queues : ~Linked(PollArray[t][k], n)
    BY <1>3, <2>1, NotArmed
  <2>3. ~Armed(pc[t], fr[t], k, ready[PollArray[t][k]])'
    BY <1>2, <1>3 DEF Armed, Active, Polling
  <2> QED BY <1>2, <2>2, <2>3 DEF ProxyOK, Linked, Once, ToSet
<1>5. CountOK(t)'
  <2>1. CountOK(t) /\ ~Polling(pc[t], fr[t])' /\ pc'[t] # "hook_reg" /\ pc'[t] \notin WaitLabels
    BY <1>1, <1>2, <1>3 DEF PollInv, Polling, WaitLabels
  <2> QED BY <1>2, <2>1 DEF CountOK
<1>6. Grows /\ Calm(t)
  BY <1>2 DEF Grows, Calm
<1>7. SameLinks(q, q', Pds \ ToSet(PollArray[t]))
  BY <1>2, ListsType, SameRefl
<1>8. IrqFollowsProxy'
  <2>1. ~Linked(p, "intr")
    <3>1. PICK k \in DOMAIN PollArray[t] : PollArray[t][k] = p
      BY <1>1, ConstantsAssumption DEF ToSet
    <3> QED BY <1>4, <3>1 DEF Queues
  <2>2. ~\E x \in Pds : PdKind[x] = "intr" /\ PdObj[x] = PdObj[p] /\ Linked(x, "intr")
    BY <1>1, <2>1, DescriptorAssumption
  <2>3. \A k \in Irqs : irq_enabled'[k] <=> irq_enabled[k]
    BY <1>1, <1>2, <2>2 DEF PollInv, IrqFollowsProxy
  <2> QED BY <1>2, <2>3 DEF PollInv, IrqFollowsProxy, Linked
<1>9. AwaitsInv'
  <2>1. \A u \in Threads : Awaits(t, u)' => Awaits(t, u)
    BY <1>2, AwaitsSame
  <2> QED BY <1>1, <1>2, <1>3, <1>6, <2>1, AwaitsKept DEF Linked
<1>10. \A x \in Pds : x \notin ToSet(PollArray[t]) => ready'[x] = ready[x]
  BY <1>1, <1>2
<1> QED BY <1>2, <1>4, <1>5, <1>6, <1>7, <1>8, <1>9, <1>10, PollStepPoll, ProxiesEach

\* chopstx_poll is called: nothing is linked, and nobody else waits for the same exits.
LEMMA PollCallPoll ==
  ASSUME KernelInv, PollInv, NEW t \in Threads, NEW timed \in BOOLEAN, NEW n \in 0..MaxSleep, PollCall(t, timed, n)
  PROVE  PollInv'
<1>1. /\ pc[t] = "user" /\ cpu = "user" /\ state[t] = "RUNNING"
      /\ pc \in [Threads -> Labels] /\ fr \in [Threads -> Frame] /\ counter \in [Threads -> Nat]
  <2>1. Runs(t, "user")
    BY DEF PollCall, Calls
  <2> QED BY <2>1, HookFacts
<1>2. /\ UNCHANGED <<q, state, v, ready, irq_enabled, got_cancel, join_req>>
      /\ \A u \in Threads : u # t => SameCall(u) /\ counter'[u] = counter[u]
  BY <1>1 DEF PollCall, Goto, SameCall, queueVars, irqVars, flagVars
<1>3. ~CutOff(t) /\ ~Polling(pc[t], fr[t])
  BY <1>1 DEF CutOff, Polling, PollLabels
<1>4. CASE Canceled(t)
  <2>1. pc'[t] = "exit" /\ UNCHANGED <<counter, fr>>
    BY <1>1, <1>4 DEF PollCall, Goto
  <2>2. Leaps(t) /\ OnTurn(t) /\ Grows
    BY <1>1, <1>2, <1>3, <2>1 DEF Leaps, Polling, PollLabels, JoinLabels, Gone, OnTurn, Grows
  <2> QED BY <1>2, <2>1, <2>2, QuietLeap
<1>5. CASE ~Canceled(t)
  <2>1. pc'[t] = "hook" /\ fr'[t].idx = 1 /\ counter'[t] = 0
    BY <1>1, <1>5 DEF PollCall, Goto, Frame
  <2>2. \A k \in DOMAIN PollArray[t] : k \in Nat /\ k >= 1
    BY ConstantsAssumption
  <2>3. \A k \in DOMAIN PollArray[t] : ~(k < 1)
    BY <2>2
  <2>4. \A k \in DOMAIN PollArray[t] : ~Active(pc'[t], fr'[t], k)
    BY <2>1, <2>3 DEF Active
  <2>5. ASSUME NEW k \in DOMAIN PollArray[t] PROVE ProxyOK(t, k)'
    <3>1. ~Armed(pc[t], fr[t], k, ready[PollArray[t][k]])
      BY <1>3 DEF Armed, Active
    <3>2. \A m \in Queues : ~Linked(PollArray[t][k], m)
      BY <1>3, <3>1, NotArmed
    <3>3. ~Armed(pc[t], fr[t], k, ready[PollArray[t][k]])'
      BY <2>4 DEF Armed, Active, Polling
    <3> QED BY <1>2, <3>2, <3>3 DEF ProxyOK, Linked, Once, ToSet
  <2>6. CountOK(t)'
    <3>1. \A k \in DOMAIN PollArray[t] : ~Active(pc[t], fr[t], k)'
      BY <2>4 DEF Active, Polling
    <3> QED BY <1>1, <1>2, <2>1, <3>1 DEF CountOK, WaitLabels
  <2>7. Grows
    BY <1>2 DEF Grows
  <2>8. SameLinks(q, q', Pds \ ToSet(PollArray[t]))
    BY <1>2, ListsType, SameRefl
  <2>9. IrqFollowsProxy'
    BY <1>2 DEF PollInv, IrqFollowsProxy, Linked
  <2>10. AwaitsInv'
    <3>1. \A w \in Threads : Noticed(w) => Noticed(w)'
      BY <1>1, <1>2, <1>3, <2>1, <2>7, NoticedAll DEF Gone
    <3>2. ASSUME NEW w \in Threads, state'[w] = "WAIT_EXIT" PROVE Noticed(v[w])'
      BY <1>2, <3>1, <3>2, WaitsKept
    <3>3. ASSUME NEW p \in Pds, Linked(p, "join")' PROVE Noticed(PdObj[p])'
      BY <1>2, <3>1, <3>3, WaitsKept DEF Linked
    <3>4. ASSUME NEW x \in Threads PROVE AwaitedOK(x)'
      <4>1. AwaitedOK(x) /\ pc'[x] # "dying"
        BY <1>1, <1>2, <2>1 DEF PollInv, AwaitedOK, SameCall
      <4>2. Awaits(t, x)' => (\A w \in Threads : ~Awaits(w, x)) /\ state[x] # "FINISHED"
        <5>1. SUFFICES ASSUME Awaits(t, x)'
                       PROVE  (\A w \in Threads : ~Awaits(w, x)) /\ state[x] # "FINISHED"
          OBVIOUS
        <5>2. PICK p \in ToSet(PollArray[t]) : PdKind[p] = "join" /\ PdObj[p] = x
          BY <2>1, <5>1 DEF Awaits
        <5>3. Joinable(t, x)
          BY <5>2 DEF PollCall
        <5> QED BY <5>3 DEF Joinable
      <4>3. \A w \in Threads : w # t => (Awaits(w, x)' <=> Awaits(w, x))
        BY <1>2, AwaitsSame
      <4> QED BY <1>2, <4>1, <4>2, <4>3 DEF AwaitedOK
    <3> QED BY <3>2, <3>3, <3>4 DEF AwaitsInv
  <2> QED BY <1>2, <2>5, <2>6, <2>7, <2>8, <2>9, <2>10, PollStepPoll, ProxiesEach
<1> QED BY <1>4, <1>5

\* A turn of the clean-up takes back a proxy that is still linked, and disables its interrupt.
LEMMA PollCleanPoll ==
  ASSUME KernelInv, PollInv, NEW t \in Threads, PollClean(t)
  PROVE  PollInv'
<1> DEFINE i == fr[t].idx
           p == PollArray[t][i]
<1>1. /\ cpu = "user" /\ pc[t] = "poll_clean" /\ state[t] = "RUNNING"
      /\ pc \in [Threads -> Labels] /\ fr \in [Threads -> Frame]
      /\ ready \in [Pds -> {0, 1}] /\ irq_enabled \in [Irqs -> BOOLEAN]
  <2>1. Runs(t, "poll_clean")
    BY DEF PollClean
  <2> QED BY <2>1, HookFacts
<1>2. i \in DOMAIN PollArray[t] /\ \A k \in DOMAIN PollArray[t] : k \in Nat
  <2>1. i >= 1 /\ i \in Nat
    BY <1>1, KernelParts DEF ControlOK, FrameOK, PollLabels, Frame
  <2>2. i <= Len(PollArray[t]) /\ PollArray[t] \in Seq(Pds)
    BY ConstantsAssumption DEF PollClean, MorePds
  <2> QED BY <2>1, <2>2
<1>3. /\ p \in ToSet(PollArray[t]) /\ p \in Pds
      /\ \A k \in DOMAIN PollArray[t] : k # i => PollArray[t][k] # p
  BY <1>2, PdIs
<1>4. /\ UNCHANGED <<state, v, got_cancel, join_req, ready, counter, pc>>
      /\ \A u \in Threads : u # t => SameCall(u)
      /\ fr'[t].idx = i + 1
  BY <1>1 DEF PollClean, SameCall, Frame, pollVars, flagVars
<1>5. /\ ready[p] = 0 => q' = Dequeue(q, p)
      /\ ready[p] # 0 => q' = q
      /\ ready[p] = 0 /\ PdKind[p] = "intr" => irq_enabled' = [irq_enabled EXCEPT ![PdObj[p]] = FALSE]
      /\ ~(ready[p] = 0 /\ PdKind[p] = "intr") => irq_enabled' = irq_enabled
  BY DEF PollClean, StillLinked, Disabled, Pd
<1> HIDE DEF i, p
<1>6. i = fr[t].idx /\ p = PollArray[t][i] /\ i \in Nat
  BY <1>2 DEF i, p
<1>7. /\ Polling(pc[t], fr[t]) /\ Polling(pc'[t], fr'[t]) /\ ~CutOff(t)
      /\ \A k \in DOMAIN PollArray[t] : Active(pc[t], fr[t], k) /\ Active(pc'[t], fr'[t], k)
  BY <1>1, <1>4 DEF Polling, PollLabels, Active, CutOff
<1>8. /\ \A k \in DOMAIN PollArray[t] : \A rd : Armed(pc[t], fr[t], k, rd) <=> k >= i /\ rd = 0
      /\ \A k \in DOMAIN PollArray[t] : \A rd : Armed(pc'[t], fr'[t], k, rd) <=> k >= i + 1 /\ rd = 0
  BY <1>1, <1>4, <1>6, <1>7 DEF Armed
<1>9. /\ \A n \in Queues : Linked(p, n) => n = ProxyHome(p)
      /\ ready[p] = 0 => Linked(p, ProxyHome(p)) /\ Once(q[ProxyHome(p)], p)
      /\ ready[p] # 0 => \A n \in Queues : ~Linked(p, n)
      /\ ProxyHome(p) \in Queues
  <2>1. ProxyOK(t, i) /\ ProxyHome(p) \in Queues
    BY <1>2, <1>3, ProxiesEach, HomeIsQueue DEF PollInv
  <2>2. Armed(pc[t], fr[t], i, ready[p]) <=> ready[p] = 0
    BY <1>2, <1>6, <1>8
  <2> QED BY <1>6, <1>7, <2>1, <2>2 DEF ProxyOK
<1>10. SameLinks(q, q', Pds \ {p}) /\ \A n \in Queues : p \notin ToSet(q'[n])
  <2>1. CASE ready[p] = 0
    <3>1. /\ SameLinks(q, Dequeue(q, p), Pds \ {p})
          /\ \A m \in Queues : p \notin ToSet(Dequeue(q, p)[m])
      BY <1>3, <1>9, <2>1, ProxyOut
    <3> QED BY <1>5, <2>1, <3>1
  <2>2. CASE ready[p] # 0
    <3>1. q' = q /\ SameLinks(q, q, Pds \ {p})
      BY <1>5, <2>2, ListsType, SameRefl
    <3> QED BY <1>9, <2>2, <3>1 DEF Linked
  <2> QED BY <2>1, <2>2
<1>11. ASSUME NEW k \in DOMAIN PollArray[t] PROVE ProxyOK(t, k)'
  <2>1. CASE k = i
    <3>1. ~(k >= i + 1)
      BY <1>6, <2>1
    <3>2. ~Armed(pc[t], fr[t], k, ready[PollArray[t][k]])'
      BY <1>8, <3>1 DEF Armed, Active, Polling
    <3>3. PollArray[t][k] = p
      BY <1>6, <2>1
    <3> QED BY <1>10, <3>2, <3>3 DEF ProxyOK, Linked, Once, ToSet
  <2>2. CASE k # i
    <3>1. PollArray[t][k] \in Pds \ {p}
      BY <1>3, <2>2, PdIs
    <3>2. SameLinks(q, q', {PollArray[t][k]})
      BY <1>10, <3>1, SameLess
    <3>3. k \in Nat /\ (k >= i <=> k >= i + 1)
      BY <1>2, <1>6, <2>2
    <3>4. Armed(pc'[t], fr'[t], k, ready'[PollArray[t][k]]) <=> Armed(pc[t], fr[t], k, ready[PollArray[t][k]])
      BY <1>4, <1>8, <3>3
    <3>5. ProxyOK(t, k)
      BY ProxiesEach DEF PollInv
    <3> QED BY <1>7, <3>2, <3>4, <3>5, ProxyKept
  <2> QED BY <2>1, <2>2
<1>12. CountOK(t)'
  <2>1. Polling(pc[t], fr[t])' /\ \A k \in DOMAIN PollArray[t] : Active(pc[t], fr[t], k)'
    BY <1>7 DEF Polling, Active
  <2>2. counter[t] = 0 <=> \A k \in DOMAIN PollArray[t] : ready[PollArray[t][k]] = 0
    BY <1>7 DEF PollInv, CountOK
  <2> QED BY <1>1, <1>4, <2>1, <2>2 DEF CountOK, WaitLabels
<1>13. Grows /\ Calm(t)
  BY <1>4 DEF Grows, Calm
<1>14. SameLinks(q, q', Pds \ ToSet(PollArray[t]))
  BY <1>3, <1>10, SameLess
<1>15. IrqFollowsProxy'
  <2>1. CASE PdKind[p] = "intr" /\ ready[p] = 0
    <3>1. \A w \in Pds : PdKind[w] = "intr" => (Linked(w, "intr")' <=> Linked(w, "intr") /\ PdObj[w] # PdObj[p])
      <4>1. SUFFICES ASSUME NEW w \in Pds, PdKind[w] = "intr"
                     PROVE  Linked(w, "intr")' <=> Linked(w, "intr") /\ PdObj[w] # PdObj[p]
        OBVIOUS
      <4>2. CASE w = p
        BY <1>10, <4>2 DEF Linked, Queues
      <4>3. CASE w # p
        <5>1. PdObj[w] # PdObj[p]
          BY <1>3, <2>1, <4>1, <4>3, DescriptorAssumption
        <5>2. Linked(w, "intr")' <=> Linked(w, "intr")
          BY <1>10, <4>3 DEF SameLinks, Linked, Queues
        <5> QED BY <5>1, <5>2
      <4> QED BY <4>2, <4>3
    <3>2. \A k \in Irqs : irq_enabled'[k] <=> irq_enabled[k] /\ k # PdObj[p]
      BY <1>1, <1>5, <2>1
    <3> QED BY <3>1, <3>2 DEF PollInv, IrqFollowsProxy
  <2>2. CASE ready[p] # 0
    BY <1>5, <2>2 DEF PollInv, IrqFollowsProxy, Linked
  <2>3. CASE PdKind[p] # "intr"
    <3>1. SameLinks(q, q', {x \in Pds : PdKind[x] = "intr"})
      BY <1>10, <2>3, SameLess
    <3> QED BY <1>5, <2>3, <3>1, IrqKept DEF PollInv
  <2> QED BY <2>1, <2>2, <2>3
<1>16. AwaitsInv'
  <2>1. \A u \in Threads : Awaits(t, u)' => Awaits(t, u)
    BY <1>1, <1>4 DEF Awaits, InPoll, PollLabels
  <2>2. \A x \in Pds : Linked(x, "join")' => Linked(x, "join")
    BY <1>10 DEF SameLinks, Linked, Queues
  <2> QED BY <1>1, <1>4, <1>7, <1>13, <2>1, <2>2, AwaitsKept
<1> QED BY <1>4, <1>11, <1>12, <1>13, <1>14, <1>15, <1>16, PollStepPoll, ProxiesEach

-----------------------------------------------------------------------------
(* Every step of the system.                                                 *)

LEMMA CallPoll ==
  ASSUME KernelInv, LocksInv, PollInv, NEW t \in Threads, Call(t)
  PROVE  PollInv'
<1>1. CASE \/ UnlockCall(t)
           \/ \E c \in Conds : SignalCall(t, c)
           \/ \E u \in Threads : CreateCall(t, u) \/ CancelCall(t, u) \/ JoinCall(t, u)
           \/ \E timed \in BOOLEAN, n \in 0..MaxSleep : PollCall(t, timed, n)
           \/ \E p \in Pds : ClaimIrq(t, p) \/ IntrDone(t, p)
  BY <1>1, ReleaseStepsPoll, CondPoll, CreateCallPoll, CancelCallPoll, JoinCallPoll, PollCallPoll, IrqCallsPoll
<1>2. CASE \/ \E m \in Mutexes : LockCall(t, m)
           \/ \E c \in Conds, m \in Mutexes \cup {None} : WaitCall(t, c, m)
           \/ \E c \in Conds : BroadcastCall(t, c)
           \/ \E n \in 0..MaxSleep : SleepCall(t, n)
           \/ CleanupPush(t) \/ CleanupPop(t) \/ ExitCall(t) \/ TestCancelCall(t)
           \/ \E enable \in BOOLEAN : SetCancelStateCall(t, enable)
           \/ \E pr \in NewPrios : SetPriorityCall(t, pr)
  BY <1>2, CallsQuietPoll
<1> QED BY <1>1, <1>2 DEF Call

LEMMA StepPoll ==
  ASSUME KernelInv, LocksInv, PollInv, NEW t \in Threads, Step(t)
  PROVE  PollInv'
<1>1. CASE MutexStep(t)
  BY <1>1, LockAcquirePoll, LockHeldPoll, LockInheritPoll, LockBlockPoll DEF MutexStep
<1>2. CASE CondStep(t)
  BY <1>2, ReleaseStepsPoll, WaitBlockPoll, StepsQuietPoll, CondPoll DEF CondStep
<1>3. CASE ThreadStep(t)
  BY <1>3, StepsQuietPoll, SleepBlockPoll, ReleaseStepsPoll, ExitNotifyPoll, ExitEndPoll, JoinExitedPoll,
     JoinBlockPoll, JoinStepsPoll DEF ThreadStep
<1>4. CASE \E met \in BOOLEAN : HookCheck(t, met)
  <2>1. PICK met \in BOOLEAN : HookCheck(t, met)
    BY <1>4
  <2>2. HookCheck(t, TRUE) \/ HookCheck(t, FALSE)
    BY <2>1
  <2> QED BY <2>2, PollMoves, HookCheckPoll
<1>5. CASE PollStep(t) /\ ~\E met \in BOOLEAN : HookCheck(t, met)
  BY <1>5, HookBeginPoll, HookCountPoll, HookUnlockPoll, HookCondPoll, HookIntrPoll, HookJoinPoll, PollLoopPoll,
     PollMoves, PollSleeps, PollCleanPoll, PollReturnPoll DEF PollStep
<1> QED BY <1>1, <1>2, <1>3, <1>4, <1>5 DEF Step

LEMMA NextPoll ==
  ASSUME KernelInv, LocksInv, PollInv, [Next]_vars
  PROVE  PollInv'
<1>1. CASE \E t \in Threads : Call(t) \/ Step(t)
  BY <1>1, CallPoll, StepPoll
<1>2. CASE Sched \/ Preempt
  BY <1>2, SwitchPoll
<1>3. CASE TimerExpired
  BY <1>3, TimerExpiredPoll
<1>4. ASSUME NEW i \in Irqs, HandleIntr(i) \/ RaiseIrq(i) PROVE PollInv'
  <2>1. CASE HandleIntr(i)
    BY <2>1, HandleIntrPoll
  <2>2. CASE RaiseIrq(i)
    BY <2>2, StillPoll DEF RaiseIrq, queueVars, cpuVars, flagVars, pollVars
  <2> QED BY <1>4, <2>1, <2>2
<1>5. CASE UNCHANGED vars
  BY <1>5, StillPoll DEF vars, queueVars, cpuVars, flagVars, pollVars, irqVars
<1> QED BY <1>1, <1>2, <1>3, <1>4, <1>5 DEF Next, Interrupt

\* At the start, no proxy is linked and nobody waits.
LEMMA InitPoll ==
  ASSUME Init
  PROVE  PollInv
<1>1. /\ \A t \in Threads : /\ pc[t] \in {"user", "none"} /\ state[t] \in {"RUNNING", "NONE"} /\ counter[t] = 0
      /\ \A i \in Irqs : ~irq_enabled[i]
  BY DEF Init
<1>2. \A p \in Pds, n \in Queues : ~Linked(p, n) /\ Once(q[n], p)
  <2> SUFFICES ASSUME NEW p \in Pds, NEW n \in Queues PROVE ~Linked(p, n) /\ Once(q[n], p)
    OBVIOUS
  <2>1. p # Main
    BY ConstantsAssumption, AddressAssumption
  <2>2. p \notin ToSet(q[n])
    BY <2>1 DEF Init, ToSet
  <2> QED BY <2>2 DEF Linked, Once, ToSet
<1>3. \A t \in Threads : ~Polling(pc[t], fr[t]) /\ ~CutOff(t) /\ \A u : ~Awaits(t, u)
  BY <1>1 DEF Polling, PollLabels, CutOff, Awaits, InPoll
<1>4. ASSUME NEW t \in Threads PROVE ProxiesOK(t) /\ CountOK(t)
  <2>1. \A k \in DOMAIN PollArray[t] : ProxyOK(t, k)
    BY <1>2, <1>3, PdIs DEF ProxyOK, Armed, Active
  <2>2. CountOK(t)
    BY <1>1, <1>3 DEF CountOK, WaitLabels
  <2> QED BY <2>1, <2>2, ProxiesEach
<1>5. IrqFollowsProxy
  BY <1>1, <1>2 DEF IrqFollowsProxy, Queues
<1>6. AwaitsInv
  BY <1>1, <1>2, <1>3 DEF AwaitsInv, AwaitedOK, Queues
<1> QED BY <1>4, <1>5, <1>6, PollParts

\* Where a thread is in chopstx_poll tells which of its proxies are linked, what its counter
\* says and which interrupts are enabled: PollInv holds in every state.
THEOREM PollInvariant == Spec => []PollInv
<1>1. Init => PollInv
  BY InitPoll
<1>2. KernelInv /\ LocksInv /\ PollInv /\ [Next]_vars => PollInv'
  BY NextPoll
<1> QED BY <1>1, <1>2, KernelInvariant, LocksInvariant, PTL DEF Spec

-----------------------------------------------------------------------------
(* What the runs check.                                                      *)

\* Interrupts are enabled by chx_intr_hook, and disabled by chx_handle_intr or the clean-up of
\* chopstx_poll, in step with the proxies, whoever is cancelled in between.
THEOREM IrqInStep == Spec => []IrqFollowsProxy
<1>1. PollInv => IrqFollowsProxy
  BY DEF PollInv
<1> QED BY <1>1, PollInvariant, PTL

\* chopstx_poll returns with no proxy linked, unless the thread is cancelled inside of it.
THEOREM ProxiesAreTakenBack == Spec => []ProxiesTakenBack
<1>1. PollInv => ProxiesTakenBack
  <2> SUFFICES ASSUME PollInv, NEW p \in Pds, NEW n \in Queues, Linked(p, n)
               PROVE  InPoll(Master(p)) \/ CutOff(Master(p))
    BY DEF ProxiesTakenBack
  <2>1. PICK k \in DOMAIN PollArray[Master(p)] : PollArray[Master(p)][k] = p
    BY MasterHas
  <2>2. ProxyOK(Master(p), k)
    BY <2>1, MasterHas, ProxiesEach DEF PollInv
  <2> QED BY <2>1, <2>2 DEF ProxyOK, Armed, Active, Polling, InPoll
<1> QED BY <1>1, PollInvariant, PTL

\* The result of chopstx_poll is positive exactly if a descriptor is active.
THEOREM PollCounts == Spec => []PollCountsActive
<1>1. PollInv => PollCountsActive
  <2> SUFFICES ASSUME PollInv, NEW t \in Threads, pc[t] = "poll_clean"
               PROVE  counter[t] = 0 <=> \A p \in ToSet(PollArray[t]) : ready[p] = 0
    BY DEF PollCountsActive
  <2>1. counter[t] = 0 <=> \A k \in DOMAIN PollArray[t] : ready[PollArray[t][k]] = 0
    BY DEF PollInv, CountOK, Polling, PollLabels, Active
  <2>2. \A p : p \in ToSet(PollArray[t]) <=> \E k \in DOMAIN PollArray[t] : PollArray[t][k] = p
    BY ConstantsAssumption DEF ToSet
  <2> QED BY <2>1, <2>2
<1> QED BY <1>1, PollInvariant, PTL

\* A thread that has exited is "dead", and one that will notice it is there.
LEMMA DeadNoticed ==
  ASSUME LocksInv, NEW u \in Threads, Noticed(u)
  PROVE  join_req[u] /\ (Dead(u) => StaleWaiter(u))
BY LocksOf DEF Noticed, SleepOK

\* Who waits for an exit, by chopstx_join or by a proxy of chopstx_poll, is known to the thread
\* that exits and is linked before it is gone.
THEOREM NoExitMissed == Spec => []NoMissedExit
<1>1. KernelInv /\ LocksInv /\ PollInv => NoMissedExit
  <2> SUFFICES ASSUME KernelInv, LocksInv, PollInv PROVE NoMissedExit
    OBVIOUS
  <2>1. ASSUME NEW t \in Threads, state[t] = "WAIT_EXIT"
        PROVE  join_req[v[t]] /\ (Dead(v[t]) => StaleWaiter(v[t]))
    <3>1. v[t] \in Threads /\ Noticed(v[t])
      BY <2>1, KernelParts DEF Linkage, StateOK, PollInv
    <3> QED BY <3>1, DeadNoticed
  <2>2. ASSUME NEW p \in Pds, Linked(p, "join")
        PROVE  join_req[PdObj[p]] /\ (Dead(PdObj[p]) => StaleWaiter(PdObj[p]))
    <3>1. PdObj[p] \in Threads /\ Noticed(PdObj[p])
      BY <2>2, LinkedHome, ConstantsAssumption DEF PollInv, Queues
    <3> QED BY <3>1, DeadNoticed
  <2> QED BY <2>1, <2>2 DEF NoMissedExit
<1> QED BY <1>1, KernelInvariant, LocksInvariant, PollInvariant, PTL

\* A thread sleeps in chopstx_poll only with every descriptor inactive and its proxy linked
\* where the event will find it: no wake-up is lost between the hooks and the sleep.
THEOREM PollSleepsArmed == Spec => []PollArmed
<1>1. KernelInv /\ LocksInv /\ PollInv => PollArmed
  <2> SUFFICES ASSUME KernelInv, LocksInv, PollInv, NEW t \in Threads, state[t] = "WAIT_POLL"
               PROVE  /\ counter[t] = 0
                      /\ \A p \in ToSet(PollArray[t]) :
                           /\ ready[p] = 0
                           /\ CASE PdKind[p] = "cond" -> Linked(p, PdObj[p])
                                [] PdKind[p] = "intr" -> Linked(p, "intr") /\ irq_enabled[PdObj[p]]
                                [] PdKind[p] = "join" -> Linked(p, "join") /\ (Dead(PdObj[p]) => StaleWaiter(PdObj[p]))
    BY DEF PollArmed
  <2>1. pc[t] \in {"poll_woken", "poll_snoozed"} /\ counter[t] = 0
    BY LocksOf DEF SleepOK, PollInv, CountOK
  <2>2. Polling(pc[t], fr[t]) /\ \A k \in DOMAIN PollArray[t] : Active(pc[t], fr[t], k)
    BY <2>1 DEF Polling, PollLabels, Active
  <2>3. \A k \in DOMAIN PollArray[t] : ready[PollArray[t][k]] = 0
    BY <2>1, <2>2 DEF PollInv, CountOK
  <2>4. ASSUME NEW p \in ToSet(PollArray[t])
        PROVE  /\ ready[p] = 0
               /\ CASE PdKind[p] = "cond" -> Linked(p, PdObj[p])
                    [] PdKind[p] = "intr" -> Linked(p, "intr") /\ irq_enabled[PdObj[p]]
                    [] PdKind[p] = "join" -> Linked(p, "join") /\ (Dead(PdObj[p]) => StaleWaiter(PdObj[p]))
    <3>1. PICK k \in DOMAIN PollArray[t] : PollArray[t][k] = p
      BY ConstantsAssumption DEF ToSet
    <3>2. p \in Pds /\ ready[p] = 0 /\ Armed(pc[t], fr[t], k, ready[p])
      BY <2>1, <2>2, <2>3, <3>1, PdIs DEF Armed
    <3>3. Linked(p, ProxyHome(p))
      BY <3>1, <3>2, ProxiesEach DEF PollInv, ProxyOK
    <3>4. CASE PdKind[p] = "cond"
      BY <3>2, <3>3, <3>4 DEF ProxyHome
    <3>5. CASE PdKind[p] = "intr"
      <4>1. Linked(p, "intr") /\ PdObj[p] \in Irqs
        BY <3>2, <3>3, <3>5, ConstantsAssumption DEF ProxyHome
      <4>2. irq_enabled[PdObj[p]]
        BY <3>2, <3>5, <4>1 DEF PollInv, IrqFollowsProxy
      <4> QED BY <3>2, <3>5, <4>1, <4>2
    <3>6. CASE PdKind[p] = "join"
      <4>1. Linked(p, "join") /\ PdObj[p] \in Threads
        BY <3>2, <3>3, <3>6, ConstantsAssumption DEF ProxyHome
      <4>2. Dead(PdObj[p]) => StaleWaiter(PdObj[p])
        BY <3>2, <4>1, DeadNoticed DEF PollInv
      <4> QED BY <3>2, <3>6, <4>1, <4>2
    <3> QED BY <3>2, <3>4, <3>5, <3>6, ConstantsAssumption
  <2> QED BY <2>1, <2>4
<1> QED BY <1>1, KernelInvariant, LocksInvariant, PollInvariant, PTL
=============================================================================
