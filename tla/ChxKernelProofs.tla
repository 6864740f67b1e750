--------------------------- MODULE ChxKernelProofs ---------------------------
(***************************************************************************)
(* KernelInv is inductive: every action of the kernel preserves it.  Hence *)
(* the variables keep their types, and every thread is linked in the queue *)
(* its state tells and in no other, for any number of threads, mutexes,    *)
(* condition variables, interrupts and descriptors.                        *)
(***************************************************************************)
EXTENDS ChxLinkProofs

-----------------------------------------------------------------------------
(* Sections that change the state of threads.                                *)

\* Threads other than the running one only become ready, where chopstx_join gets no 0, or
\* are finished once they have exited.
OnlyWakes ==
  \A u \in Threads :
    \/ state'[u] = state[u] /\ v'[u] = v[u]
    \/ state[u] = "EXITED" /\ state'[u] = "FINISHED"
    \/ /\ state[u] \notin {"RUNNING", "READY"} /\ state'[u] = "READY"
       /\ state[u] = "WAIT_EXIT" => v'[u] # 0

\* A thread that stays at its label and is not woken up with 0.
LEMMA JoinKept ==
  ASSUME KernelInv, OnlyWakes, NEW u \in Threads, pc'[u] = pc[u]
  PROVE  JoinOK(u)'
<1>1. JoinOK(u)
  BY KernelParts
<1>2. CASE state'[u] = state[u] /\ v'[u] = v[u]
  BY <1>1, <1>2 DEF JoinOK
<1>3. CASE /\ state[u] \notin {"RUNNING", "READY"} /\ state'[u] = "READY"
           /\ state[u] = "WAIT_EXIT" => v'[u] # 0
  BY <1>1, <1>3 DEF JoinOK
<1>4. CASE state[u] = "EXITED" /\ state'[u] = "FINISHED"
  BY <1>1, <1>4 DEF JoinOK
<1> QED BY <1>2, <1>3, <1>4 DEF OnlyWakes

\* The running thread t goes on, inside a section or not, after it has woken up others.
LEMMA WakeStepInv ==
  ASSUME KernelInv, NEW t \in Threads, running = t, state[t] = "RUNNING", running' = t,
         cpu' \in {"user", "lock", "yield"}, pendsv' \in BOOLEAN,
         OnlyWakes, Linkage(q', state', parent', v'), ResourceTypes',
         NEW l \in Labels, l \notin {"join_pi", "join_woken"}, NEW f \in Frame, FrameOK(t, l, f),
         pc' = [pc EXCEPT ![t] = l], fr' = [fr EXCEPT ![t] = f]
  PROVE  KernelInv'
<1>1. ControlOK' /\ pc'[t] = l /\ \A u \in Threads : u # t => pc'[u] = pc[u]
  BY KernelParts, ControlMoves
<1>2. state'[t] = "RUNNING" /\ \A u \in Threads : state'[u] = "RUNNING" => state[u] = "RUNNING"
  BY DEF OnlyWakes
<1>3. t # None
  BY AddressAssumption DEF Nodes
<1>4. ProcessorTypes' /\ ProcessorOK'
  <2>1. ProcessorOK
    BY KernelParts
  <2>2. ProcessorTypes'
    BY DEF ProcessorTypes
  <2>3. \A u \in Threads : state'[u] = "RUNNING" => running' = u
    BY <1>2, <2>1 DEF ProcessorOK
  <2> QED BY <1>1, <1>2, <1>3, <2>2, <2>3 DEF ProcessorOK
<1>5. \A u \in Threads : JoinOK(u)'
  <2>1. \A u \in Threads : u # t => JoinOK(u)'
    BY <1>1, JoinKept
  <2>2. JoinOK(t)'
    BY <1>1 DEF JoinOK
  <2> QED BY <2>1, <2>2
<1> QED BY <1>1, <1>4, <1>5, KernelPartsNext

\* The running thread t is about to sleep.
LEMMA BlockStepInv ==
  ASSUME KernelInv, NEW t \in Threads, NEW l \in Labels, running = t, running' = t,
         cpu' = "sleep" \/ (cpu' = "lock" /\ l = "join_pi" /\ state'[t] = "WAIT_EXIT"),
         pendsv' \in BOOLEAN, state'[t] # "RUNNING",
         \A u \in Threads : u # t => state'[u] = state[u] /\ v'[u] = v[u],
         Linkage(q', state', parent', v'), ResourceTypes',
         l = "join_woken" => state'[t] = "WAIT_EXIT" /\ v'[t] # 0,
         NEW f \in Frame, FrameOK(t, l, f),
         pc' = [pc EXCEPT ![t] = l], fr' = [fr EXCEPT ![t] = f]
  PROVE  KernelInv'
<1>1. ControlOK' /\ pc'[t] = l /\ \A u \in Threads : u # t => pc'[u] = pc[u]
  BY KernelParts, ControlMoves
<1>2. t # None
  BY AddressAssumption DEF Nodes
<1>3. ProcessorTypes' /\ ProcessorOK'
  <2>1. ProcessorOK
    BY KernelParts
  <2>2. ProcessorTypes'
    BY DEF ProcessorTypes
  <2>3. \A u \in Threads : state'[u] = "RUNNING" => running' = u
    BY <2>1 DEF ProcessorOK
  <2> QED BY <1>1, <1>2, <2>2, <2>3 DEF ProcessorOK
<1>4. \A u \in Threads : JoinOK(u)'
  <2>1. \A u \in Threads : u # t => JoinOK(u)'
    BY <1>1, KernelParts DEF JoinOK
  <2>2. JoinOK(t)'
    BY <1>1 DEF JoinOK
  <2> QED BY <2>1, <2>2
<1> QED BY <1>1, <1>3, <1>4, KernelPartsNext

\* A step inside a section: the thread was RUNNING unless it is in chopstx_join.
LEMMA LockedFacts ==
  ASSUME KernelInv, NEW t \in Threads, NEW l, Locked(t, l)
  PROVE  /\ running = t /\ cpu = "lock" /\ pc[t] = l /\ FrameOK(t, l, fr[t])
         /\ state[t] = IF l = "join_pi" THEN "WAIT_EXIT" ELSE "RUNNING"
         /\ pendsv \in BOOLEAN
BY ThreadFacts, KernelParts DEF Locked, ProcessorOK, ProcessorTypes

\* A thread linked by itself in a queue of threads that sleep.
LEMMA MutexHead ==
  ASSUME KernelInv, NEW n \in Queues, n \in {"ready", "timer"} \cup Mutexes, q[n] # << >>
  PROVE  /\ Head(q[n]) \in Threads
         /\ Unlinked(q, [q EXCEPT ![n] = Tail(@)], Head(q[n]))
         /\ Places(Head(q[n]), state[Head(q[n])], parent[Head(q[n])]) = {n}
         /\ n \in Mutexes => state[Head(q[n])] = "WAIT_MTX"
<1>1. Linkage(q, state, parent, v) /\ ListsOK(q) /\ n \in Queues
  BY KernelParts DEF Linkage, Queues, Objects
<1>2. Head(q[n]) \in Threads /\ n \in Where(q, Head(q[n]))
  BY <1>1, PopLists
<1>3. /\ Unlinked(q, [q EXCEPT ![n] = Tail(@)], Head(q[n]))
      /\ Places(Head(q[n]), state[Head(q[n])], parent[Head(q[n])]) = {n}
  <2>1. Unlinked(q, [q EXCEPT ![n] = Tail(@)], Head(q[n]))
    BY <1>1, <1>2, PopUnlinks
  <2> DEFINE h == Head(q[n])
  <2>2. h \in Threads /\ n \in Where(q, h)
    BY <1>2
  <2> HIDE DEF h
  <2>3. Places(h, state[h], parent[h]) = {n}
    BY <1>1, <2>2, LinkedPlace
  <2> QED BY <2>1, <2>3 DEF h
<1>4. n \in Mutexes => state[Head(q[n])] = "WAIT_MTX"
  BY <1>1, <1>2, <1>3, StateOfPlace
<1> QED BY <1>2, <1>3, <1>4

\* chx_mutex_unlock.
LEMMA MutexReleaseLinks ==
  ASSUME KernelInv, NEW t \in Threads, NEW m \in Mutexes, MutexRelease(t, m)
  PROVE  /\ Linkage(q', state', parent', v') /\ OnlyWakes
         /\ prio' \in [Nodes -> Prios]
         /\ owner' \in [Mutexes -> Threads \cup {None}]
         /\ list' \in [Mutexes -> Mutexes \cup {None}]
         /\ mutex_list' \in [Threads -> Mutexes \cup {None}]
<1>1. Linkage(q, state, parent, v) /\ ResourceTypes
  BY KernelParts
<1>2. /\ owner' \in [Mutexes -> Threads \cup {None}]
      /\ list' \in [Mutexes -> Mutexes \cup {None}]
      /\ mutex_list' \in [Threads -> Mutexes \cup {None}]
  BY <1>1 DEF MutexRelease, ResourceTypes
<1>3. CASE q[m] = << >>
  <2>1. UNCHANGED <<queueVars, prio>>
    BY <1>3 DEF MutexRelease
  <2> QED BY <1>1, <1>2, <2>1 DEF queueVars, ResourceTypes, OnlyWakes
<1>4. CASE q[m] # << >>
  <2> DEFINE w == Head(q[m])
             Q == [q EXCEPT ![m] = Tail(@)]
  <2>a. m \in Queues
    BY DEF Queues, Objects
  <2>1. w \in Threads /\ Unlinked(q, Q, w) /\ state[w] = "WAIT_MTX"
    BY <1>4, <2>a, MutexHead
  <2>2. /\ MakeReady(Q, w) /\ v' = [v EXCEPT ![w] = 0]
        /\ \E pr \in Claims(t, Chain(list[m]), Q) : prio' = [prio EXCEPT ![t] = pr]
    BY <1>4 DEF MutexRelease
  <2> HIDE DEF w, Q
  <2>3. Linkage(q', state', parent', v')
    <3>1. /\ q' = PrioEnqueue(Q, "ready", w, prio) /\ state' = [state EXCEPT ![w] = "READY"]
          /\ parent' = [parent EXCEPT ![w] = "ready"]
      BY <2>2 DEF MakeReady
    <3> QED BY <1>1, <2>1, <2>2, <3>1, ReadyLinks
  <2>4. OnlyWakes
    <3>1. state \in [Threads -> States] /\ v \in [Threads -> Threads \cup {-1, 0, 1}]
      BY <1>1 DEF Linkage
    <3> QED BY <2>1, <2>2, <3>1 DEF OnlyWakes, MakeReady
  <2>5. Claims(t, Chain(list[m]), Q) \subseteq Prios
    <3>1. Q \in [Queues -> Seq(Nodes)]
      BY <2>1 DEF Unlinked, ListsOK
    <3>2. \A x \in Mutexes : Q[x] # << >> => prio[Head(Q[x])] \in Prios
      <4>1. \A x \in Mutexes : Q[x] \in Seq(Nodes)
        BY <3>1 DEF Queues, Objects
      <4>2. \A x \in Mutexes : Q[x] # << >> => Head(Q[x]) \in Nodes
        BY <4>1, HeadTailProperties
      <4> QED BY <1>1, <4>2 DEF ResourceTypes
    <3>3. prio_orig[t] \in Prios
      BY <1>1 DEF ResourceTypes
    <3> QED BY <3>2, <3>3 DEF Claims
  <2>6. prio' \in [Nodes -> Prios]
    BY <1>1, <2>2, <2>5 DEF ResourceTypes
  <2> QED BY <1>2, <2>3, <2>4, <2>6
<1> QED BY <1>3, <1>4

\* A sleeper whose sleep is cut short leaves the timer list, or is linked nowhere.
LEMMA SleeperUnlinks ==
  ASSUME NEW Q, Linkage(Q, state, parent, v), NEW x \in Threads,
         state[x] \in {"WAIT_TIME", "WAIT_POLL"}
  PROVE  Unlinked(Q, IF Timed(x) THEN Dequeue(Q, x) ELSE Q, x)
<1>1. CASE Timed(x)
  BY <1>1, DequeueUnlinks
<1>2. CASE ~Timed(x)
  <2>1. StateOK(x, state[x], parent[x], v[x])
    BY DEF Linkage
  <2>2. Places(x, state[x], parent[x]) = {}
    BY <1>2, <2>1 DEF Timed, StateOK, Places
  <2> QED BY <1>2, <2>2, NowhereUnlinked
<1> QED BY <1>1, <1>2

\* requeue keeps a thread in the queue it is linked in.
LEMMA RequeueLinks ==
  ASSUME KernelInv, NEW x \in Threads, NEW prios, Requeue(x, prios)
  PROVE  Linkage(q', state, parent, v)
<1>1. Linkage(q, state, parent, v)
  BY KernelParts
<1>2. CASE state[x] \in {"READY", "WAIT_MTX", "WAIT_CND"}
  <2>1. q' = PrioEnqueue(Dequeue(q, x), parent[x], x, prios)
    BY <1>2 DEF Requeue
  <2>2. StateOK(x, state[x], parent[x], v[x]) /\ FieldsOf(x, state, parent, v, state, parent, v)
    BY <1>1 DEF Linkage, FieldsOf
  <2>3. Places(x, state[x], parent[x]) = {parent[x]} /\ parent[x] \in Queues
    BY <1>2, <2>2 DEF StateOK, Places, Queues, Objects
  <2>4. Unlinked(q, Dequeue(q, x), x)
    BY <1>1, DequeueUnlinks
  <2>5. Linkage(PrioEnqueue(Dequeue(q, x), parent[x], x, prios), state, parent, v)
    BY <1>1, <2>2, <2>3, <2>4, LinkEnqueue
  <2> QED BY <2>1, <2>5
<1>3. CASE state[x] \notin {"READY", "WAIT_MTX", "WAIT_CND"}
  BY <1>1, <1>3 DEF Requeue
<1> QED BY <1>2, <1>3

\* What requeue returns is a thread, or NULL.
LEMMA WakerType ==
  ASSUME KernelInv, NEW x \in Threads
  PROVE  Waker(x) \in Threads \cup {None}
<1>1. StateOK(x, state[x], parent[x], v[x]) /\ owner \in [Mutexes -> Threads \cup {None}]
  BY KernelParts DEF Linkage, ResourceTypes
<1> QED BY <1>1 DEF Waker, StateOK

\* The running thread leaves the CPU for queue n.
LEMMA EnqueueLinks ==
  ASSUME KernelInv, NEW t \in Threads, state[t] = "RUNNING", NEW n \in Queues,
         NEW st \in States, NEW w \in Threads \cup {-1, 0, 1},
         Places(t, st, n) = {n}, StateOK(t, st, n, w)
  PROVE  Linkage(PrioEnqueue(StopSlice(q, t), n, t, prio), [state EXCEPT ![t] = st],
                 [parent EXCEPT ![t] = n], [v EXCEPT ![t] = w])
<1> DEFINE st1 == [state EXCEPT ![t] = st]
           pa1 == [parent EXCEPT ![t] = n]
           vv1 == [v EXCEPT ![t] = w]
<1>1. Linkage(q, state, parent, v)
  BY KernelParts
<1>2. FieldsOf(t, state, parent, v, st1, pa1, vv1) /\ st1[t] = st /\ pa1[t] = n /\ vv1[t] = w
  BY <1>1 DEF Linkage, FieldsOf
<1>3. Unlinked(q, StopSlice(q, t), t)
  BY <1>1, StopSliceUnlinks
<1> HIDE DEF st1, pa1, vv1
<1>4. Linkage(PrioEnqueue(StopSlice(q, t), n, t, prio), st1, pa1, vv1)
  BY <1>1, <1>2, <1>3, LinkEnqueue
<1> QED BY <1>4 DEF st1, pa1, vv1

-----------------------------------------------------------------------------
(* The sections of chopstx_mutex_lock and chopstx_mutex_unlock.              *)

\* chopstx_mutex_lock finds the mutex held and starts at its owner.
LEMMA LockHeldInv ==
  ASSUME KernelInv, NEW t \in Threads, LockHeld(t)
  PROVE  KernelInv'
<1> DEFINE f == [fr[t] EXCEPT !.tp0 = owner[fr[t].mtx]]
<1>1. running = t /\ pendsv \in BOOLEAN /\ FrameOK(t, "mtx_lock", fr[t]) /\ state[t] = "RUNNING"
  BY RunsFacts, KernelParts DEF LockHeld, ProcessorTypes
<1>2. /\ running' = t /\ cpu' = "lock" /\ pendsv' = pendsv /\ UNCHANGED queueVars
      /\ pc' = [pc EXCEPT ![t] = "mtx_pi"] /\ fr' = [fr EXCEPT ![t] = f]
  BY <1>1 DEF LockHeld, Goto
<1>3. ResourceTypes'
  BY ThreadFacts DEF LockHeld
<1>4. owner[fr[t].mtx] \in Threads \cup {None}
  BY <1>1, ThreadFacts DEF FrameOK, ResourceTypes
<1>5. /\ f \in Frame /\ f.mtx = fr[t].mtx /\ f.then = fr[t].then /\ f.idx = fr[t].idx
      /\ f.timed = fr[t].timed
  BY <1>4, ThreadFacts DEF Frame
<1> HIDE DEF f
<1>6. FrameOK(t, "mtx_pi", f) /\ "mtx_pi" \in Labels
  BY <1>1, <1>5 DEF FrameOK, PollLabels, Labels
<1>7. OnlyWakes /\ Linkage(q', state', parent', v')
  BY <1>2, KernelParts DEF OnlyWakes, queueVars
<1> QED BY <1>1, <1>2, <1>3, <1>5, <1>6, <1>7, WakeStepInv

\* A turn of the inheritance loop: a sleeper is woken up, another thread is requeued.
LEMMA LockInheritInv ==
  ASSUME KernelInv, NEW t \in Threads, LockInherit(t)
  PROVE  KernelInv'
<1> DEFINE x == fr[t].tp0
           prios == [prio EXCEPT ![x] = prio[t]]
<1>1. /\ running = t /\ cpu = "lock" /\ pc[t] = "mtx_pi" /\ FrameOK(t, "mtx_pi", fr[t])
      /\ state[t] = "RUNNING" /\ pendsv \in BOOLEAN
  BY LockedFacts DEF LockInherit
<1>2. x \in Threads
  BY ThreadFacts DEF LockInherit, Inherits, Frame
<1>3. /\ running' = t /\ cpu' = "lock" /\ pendsv' = pendsv
      /\ pc' = [pc EXCEPT ![t] = "mtx_pi"]
  BY <1>1, ThreadFacts DEF LockInherit, cpuVars
<1>4. ResourceTypes'
  <2>1. prios \in [Nodes -> Prios] /\ prio' = prios
    BY <1>2, ThreadFacts DEF ResourceTypes, LockInherit, Nodes
  <2> QED BY <2>1, ThreadFacts DEF LockInherit, ResourceTypes, flagVars, mutexVars, pollVars, irqVars
<1>5. ASSUME NEW y \in Threads \cup {None}, fr' = [fr EXCEPT ![t].tp0 = y],
             OnlyWakes, Linkage(q', state', parent', v')
      PROVE  KernelInv'
  <2> DEFINE f == [fr[t] EXCEPT !.tp0 = y]
  <2>1. /\ f \in Frame /\ f.mtx = fr[t].mtx /\ f.then = fr[t].then /\ f.idx = fr[t].idx
        /\ f.timed = fr[t].timed
    BY ThreadFacts DEF Frame
  <2>2. fr' = [fr EXCEPT ![t] = f]
    BY <1>5
  <2> HIDE DEF f
  <2>3. FrameOK(t, "mtx_pi", f) /\ "mtx_pi" \in Labels
    BY <1>1, <2>1 DEF FrameOK, PollLabels, Labels
  <2> QED BY <1>1, <1>3, <1>4, <1>5, <2>1, <2>2, <2>3, WakeStepInv
<1>6. CASE state[x] \in {"WAIT_TIME", "WAIT_POLL"}
  <2> DEFINE Q == IF Timed(x) THEN Dequeue(q, x) ELSE q
  <2>1. Unlinked(q, Q, x)
    BY <1>2, <1>6, SleeperUnlinks, KernelParts
  <2>2. PICK ticks \in {-1, 0, 1} : v' = [v EXCEPT ![x] = ticks]
    BY <1>6 DEF LockInherit, TicksRemained
  <2>3. /\ q' = PrioEnqueue(Q, "ready", x, prios) /\ state' = [state EXCEPT ![x] = "READY"]
        /\ parent' = [parent EXCEPT ![x] = "ready"] /\ fr' = [fr EXCEPT ![t].tp0 = None]
    BY <1>6 DEF LockInherit
  <2> HIDE DEF Q, prios
  <2>4. Linkage(q, state, parent, v)
    BY KernelParts
  <2>5. Linkage(q', state', parent', v')
    BY <1>2, <2>1, <2>2, <2>3, <2>4, ReadyLinks
  <2>6. OnlyWakes
    BY <1>2, <1>6, <2>2, <2>3, <2>4 DEF OnlyWakes, Linkage
  <2> QED BY <1>5, <2>3, <2>5, <2>6
<1>7. CASE state[x] \notin {"WAIT_TIME", "WAIT_POLL"}
  <2>1. /\ Requeue(x, prios) /\ fr' = [fr EXCEPT ![t].tp0 = Waker(x)]
        /\ state' = state /\ parent' = parent /\ v' = v
    BY <1>7 DEF LockInherit
  <2> HIDE DEF prios
  <2>2. Linkage(q', state', parent', v')
    BY <1>2, <2>1, RequeueLinks
  <2>3. OnlyWakes
    BY <2>1 DEF OnlyWakes
  <2> QED BY <1>2, <1>5, <2>1, <2>2, <2>3, WakerType
<1> QED BY <1>6, <1>7

\* The locker is queued at the mutex, which is the place its new state tells.
LEMMA LockBlockInv ==
  ASSUME KernelInv, NEW t \in Threads, LockBlock(t)
  PROVE  KernelInv'
<1> DEFINE f == [fr[t] EXCEPT !.tp0 = None]
           m == fr[t].mtx
           w == IF t \in RR THEN 0 ELSE v[t]
<1>1. /\ running = t /\ FrameOK(t, "mtx_pi", fr[t]) /\ state[t] = "RUNNING" /\ pendsv \in BOOLEAN
  BY LockedFacts DEF LockBlock
<1>2. /\ running' = t /\ cpu' = "sleep" /\ pendsv' = pendsv
      /\ pc' = [pc EXCEPT ![t] = "mtx_lock"] /\ fr' = [fr EXCEPT ![t] = f]
  BY <1>1 DEF LockBlock, Goto
<1>3. ResourceTypes'
  BY ThreadFacts DEF LockBlock
<1>4. /\ f \in Frame /\ f.mtx = fr[t].mtx /\ f.then = fr[t].then /\ f.idx = fr[t].idx
      /\ f.timed = fr[t].timed
  BY ThreadFacts DEF Frame
<1>5. m \in Mutexes /\ m \in Queues /\ m \notin Conds
  BY <1>1, AddressAssumption DEF FrameOK, Queues, Objects
<1>6. Linkage(q, state, parent, v) /\ StateOK(t, state[t], parent[t], v[t])
  BY KernelParts DEF Linkage
<1>7. w \in Threads \cup {-1, 0, 1} /\ w \notin Threads /\ v' = [v EXCEPT ![t] = w]
  BY <1>1, <1>6, AddressAssumption DEF LockBlock, Linkage, StateOK
<1>8. /\ q' = PrioEnqueue(StopSlice(q, t), m, t, prio) /\ state' = [state EXCEPT ![t] = "WAIT_MTX"]
      /\ parent' = [parent EXCEPT ![t] = m]
  BY DEF LockBlock
<1> HIDE DEF f, m, w
<1>9. Places(t, "WAIT_MTX", m) = {m} /\ StateOK(t, "WAIT_MTX", m, w) /\ "WAIT_MTX" \in States
  BY <1>5, <1>7 DEF Places, StateOK, States
<1>10. Linkage(q', state', parent', v')
  BY <1>1, <1>5, <1>7, <1>8, <1>9, EnqueueLinks
<1>11. state'[t] # "RUNNING" /\ \A u \in Threads : u # t => state'[u] = state[u] /\ v'[u] = v[u]
  BY <1>6, <1>7, <1>8 DEF Linkage
<1>12. FrameOK(t, "mtx_lock", f) /\ "mtx_lock" \in Labels
  BY <1>1, <1>4 DEF FrameOK, PollLabels, Labels
<1> QED BY <1>1, <1>2, <1>3, <1>4, <1>10, <1>11, <1>12, BlockStepInv

\* A section of the running thread that releases a mutex.
LEMMA ReleaseStepInv ==
  ASSUME KernelInv, NEW t \in Threads, running = t, state[t] = "RUNNING", running' = t,
         cpu' \in {"user", "lock", "yield"}, pendsv' = pendsv,
         NEW m \in Mutexes, MutexRelease(t, m),
         UNCHANGED <<prio_orig, flagVars, pollVars, irqVars>>,
         NEW l \in Labels, l \notin {"join_pi", "join_woken"}, NEW f \in Frame, FrameOK(t, l, f),
         pc' = [pc EXCEPT ![t] = l], fr' = [fr EXCEPT ![t] = f]
  PROVE  KernelInv'
<1>1. pendsv' \in BOOLEAN
  BY KernelParts DEF ProcessorTypes
<1>2. /\ Linkage(q', state', parent', v') /\ OnlyWakes
      /\ prio' \in [Nodes -> Prios]
      /\ owner' \in [Mutexes -> Threads \cup {None}]
      /\ list' \in [Mutexes -> Mutexes \cup {None}]
      /\ mutex_list' \in [Threads -> Mutexes \cup {None}]
  BY MutexReleaseLinks
<1>3. ResourceTypes'
  BY <1>2, ThreadFacts DEF ResourceTypes, flagVars, pollVars, irqVars
<1> QED BY <1>1, <1>2, <1>3, WakeStepInv

\* chopstx_mutex_unlock wakes the first waiter, if any, and may yield.
LEMMA UnlockCallInv ==
  ASSUME KernelInv, NEW t \in Threads, UnlockCall(t)
  PROVE  KernelInv'
<1> DEFINE m == mutex_list[t]
<1>1. running = t /\ state[t] = "RUNNING" /\ pc[t] = "user"
  BY RunsFacts DEF UnlockCall, Calls
<1>2. m \in Mutexes
  BY ThreadFacts DEF UnlockCall, ResourceTypes
<1>3. /\ MutexRelease(t, m) /\ cpu' \in {"user", "lock", "yield"} /\ running' = t
      /\ pendsv' = pendsv /\ UNCHANGED <<prio_orig, flagVars, pollVars, irqVars>>
  BY <1>1 DEF UnlockCall, Unlock
<1>4. pc' = [pc EXCEPT ![t] = "user"] /\ fr' = [fr EXCEPT ![t] = fr[t]]
  BY <1>1, ThreadFacts DEF UnlockCall
<1>5. FrameOK(t, "user", fr[t]) /\ fr[t] \in Frame /\ "user" \in Labels
  BY <1>1, ThreadFacts
<1> HIDE DEF m
<1> QED BY <1>1, <1>2, <1>3, <1>4, <1>5, ReleaseStepInv

\* chx_cond_hook unlocks the mutex of its descriptor, if there is one.
LEMMA HookUnlockInv ==
  ASSUME KernelInv, NEW t \in Threads, HookUnlock(t)
  PROVE  KernelInv'
<1> DEFINE f == [fr[t] EXCEPT !.idx = @ + 1]
           m == PdMutex[Pd(t)]
<1>1. running = t /\ cpu = "user" /\ state[t] = "RUNNING"
  BY RunsFacts DEF HookUnlock
<1>2. /\ fr[t].idx >= 1 /\ (t \in RR => fr[t].timed) /\ fr[t].idx \in DOMAIN PollArray[t]
  BY RunsFacts DEF HookUnlock, FrameOK, PollLabels
<1>3. m \in Mutexes \cup {None}
  BY <1>2, PdFacts
<1>4. f \in Frame /\ FrameOK(t, "hook", f) /\ "hook" \in Labels
  BY <1>2, NextPdFacts DEF Labels
<1>5. pc' = [pc EXCEPT ![t] = "hook"] /\ fr' = [fr EXCEPT ![t] = f]
  BY DEF HookUnlock, Goto
<1>6. CASE m = None
  <2>1. ResourceTypes' /\ UNCHANGED <<cpuVars, queueVars>>
    BY <1>6, ThreadFacts DEF HookUnlock
  <2> HIDE DEF f
  <2> QED BY <1>1, <1>4, <1>5, <2>1, QuietInv
<1>7. CASE m # None
  <2>1. /\ MutexRelease(t, m) /\ cpu' \in {"user", "lock", "yield"} /\ running' = t
        /\ pendsv' = pendsv /\ UNCHANGED <<prio_orig, flagVars, pollVars, irqVars>>
    BY <1>1, <1>7 DEF HookUnlock, Unlock
  <2>2. m \in Mutexes
    BY <1>3, <1>7
  <2> HIDE DEF f, m
  <2> QED BY <1>1, <1>4, <1>5, <2>1, <2>2, ReleaseStepInv
<1> QED BY <1>6, <1>7

\* chopstx_exit releases a mutex the thread still holds.
LEMMA ExitReleaseInv ==
  ASSUME KernelInv, NEW t \in Threads, ExitRelease(t)
  PROVE  KernelInv'
<1> DEFINE m == fr[t].mtx
           f == [fr[t] EXCEPT !.mtx = list[m]]
<1>1. running = t /\ cpu = "user" /\ state[t] = "RUNNING" /\ pc[t] = "release"
  BY RunsFacts DEF ExitRelease
<1>2. m \in Mutexes
  BY ThreadFacts DEF ExitRelease, Frame
<1>a. list[m] \in Mutexes \cup {None}
  BY <1>2, ThreadFacts DEF ResourceTypes
<1>3. f \in Frame
  BY <1>a, ThreadFacts DEF Frame
<1>4. /\ MutexRelease(t, m) /\ cpu' = "user" /\ running' = t /\ pendsv' = pendsv
      /\ UNCHANGED <<prio_orig, flagVars, pollVars, irqVars>>
  BY <1>1 DEF ExitRelease, cpuVars
<1>5. pc' = [pc EXCEPT ![t] = "release"] /\ fr' = [fr EXCEPT ![t] = f]
  BY <1>1, ThreadFacts DEF ExitRelease
<1> HIDE DEF f, m
<1>6. FrameOK(t, "release", f) /\ "release" \in Labels
  BY DEF FrameOK, PollLabels, Labels
<1> QED BY <1>1, <1>2, <1>3, <1>4, <1>5, <1>6, ReleaseStepInv

-----------------------------------------------------------------------------
(* The sections of chopstx_cond_wait.                                        *)

\* chopstx_cond_wait releases its mutex, if there is one, and stays in the section.
LEMMA WaitReleaseInv ==
  ASSUME KernelInv, NEW t \in Threads, WaitRelease(t)
  PROVE  KernelInv'
<1> DEFINE m == fr[t].mtx
<1>1. running = t /\ state[t] = "RUNNING" /\ FrameOK(t, "cond_wait", fr[t])
  BY RunsFacts DEF WaitRelease
<1>2. /\ cpu' \in {"user", "lock", "yield"} /\ running' = t /\ pendsv' = pendsv
      /\ pc' = [pc EXCEPT ![t] = "cond_block"] /\ fr' = [fr EXCEPT ![t] = fr[t]]
      /\ UNCHANGED <<prio_orig, flagVars, pollVars, irqVars>>
  BY <1>1, ThreadFacts DEF WaitRelease, Goto
<1>3. FrameOK(t, "cond_block", fr[t]) /\ "cond_block" \in Labels /\ fr[t] \in Frame
  BY <1>1, ThreadFacts DEF FrameOK, PollLabels, Labels
<1>4. CASE m = None
  <2>1. UNCHANGED <<queueVars, mutexVars, prio>>
    BY <1>4 DEF WaitRelease
  <2>2. ResourceTypes' /\ pendsv' \in BOOLEAN
    BY <1>2, <2>1, ThreadFacts, KernelParts
       DEF ResourceTypes, ProcessorTypes, flagVars, mutexVars, pollVars, irqVars
  <2>3. OnlyWakes /\ Linkage(q', state', parent', v')
    BY <2>1, KernelParts DEF OnlyWakes, queueVars
  <2> QED BY <1>1, <1>2, <1>3, <2>2, <2>3, WakeStepInv
<1>5. CASE m # None
  <2>1. m \in Mutexes
    BY <1>5, ThreadFacts DEF Frame
  <2>2. MutexRelease(t, m)
    BY <1>5 DEF WaitRelease
  <2> HIDE DEF m
  <2> QED BY <1>1, <1>2, <1>3, <2>1, <2>2, ReleaseStepInv
<1> QED BY <1>4, <1>5

\* ... and is queued at the condition variable.
LEMMA WaitBlockInv ==
  ASSUME KernelInv, NEW t \in Threads, WaitBlock(t)
  PROVE  KernelInv'
<1> DEFINE c == fr[t].cnd
           w == IF t \in RR THEN 0 ELSE v[t]
<1>1. /\ running = t /\ FrameOK(t, "cond_block", fr[t]) /\ state[t] = "RUNNING" /\ pendsv \in BOOLEAN
  BY LockedFacts DEF WaitBlock
<1>2. /\ running' = t /\ cpu' = "sleep" /\ pendsv' = pendsv
      /\ pc' = [pc EXCEPT ![t] = "cond_woken"] /\ fr' = [fr EXCEPT ![t] = fr[t]]
  BY <1>1, ThreadFacts DEF WaitBlock, Goto
<1>3. ResourceTypes'
  BY ThreadFacts DEF WaitBlock
<1>5. c \in Conds /\ c \in Queues /\ c \notin Mutexes
  BY <1>1, AddressAssumption DEF FrameOK, Queues, Objects
<1>6. Linkage(q, state, parent, v) /\ StateOK(t, state[t], parent[t], v[t])
  BY KernelParts DEF Linkage
<1>7. w \in Threads \cup {-1, 0, 1} /\ w \notin Threads /\ v' = [v EXCEPT ![t] = w]
  BY <1>1, <1>6, AddressAssumption DEF WaitBlock, Linkage, StateOK
<1>8. /\ q' = PrioEnqueue(StopSlice(q, t), c, t, prio) /\ state' = [state EXCEPT ![t] = "WAIT_CND"]
      /\ parent' = [parent EXCEPT ![t] = c]
  BY DEF WaitBlock
<1> HIDE DEF c, w
<1>9. Places(t, "WAIT_CND", c) = {c} /\ StateOK(t, "WAIT_CND", c, w) /\ "WAIT_CND" \in States
  BY <1>5, <1>7 DEF Places, StateOK, States
<1>10. Linkage(q', state', parent', v')
  BY <1>1, <1>5, <1>7, <1>8, <1>9, EnqueueLinks
<1>11. state'[t] # "RUNNING" /\ \A u \in Threads : u # t => state'[u] = state[u] /\ v'[u] = v[u]
  BY <1>6, <1>7, <1>8 DEF Linkage
<1>12. FrameOK(t, "cond_woken", fr[t]) /\ "cond_woken" \in Labels /\ fr[t] \in Frame
  BY ThreadFacts DEF FrameOK, PollLabels, Labels
<1> QED BY <1>1, <1>2, <1>3, <1>10, <1>11, <1>12, BlockStepInv

-----------------------------------------------------------------------------
(* chx_wakeup, and the sections that wake up the waiters of a queue.         *)

\* chx_wakeup of x, in lists Q that x was taken out of.
LEMMA WakeupLinks ==
  ASSUME KernelInv, NEW x \in Nodes, NEW Q, Wakeup(x, Q),
         x \in Pds => Linkage(Q, state, parent, v),
         x \in Threads => Unlinked(q, Q, x) /\ state[x] \in {"WAIT_CND", "WAIT_EXIT"}
  PROVE  /\ Linkage(q', state', parent', v') /\ OnlyWakes
         /\ ready' \in [Pds -> {0, 1}] /\ counter' \in [Threads -> Nat]
<1>1. /\ Linkage(q, state, parent, v) /\ ready \in [Pds -> {0, 1}] /\ counter \in [Threads -> Nat]
      /\ state \in [Threads -> States] /\ v \in [Threads -> Threads \cup {-1, 0, 1}]
  BY KernelParts DEF ResourceTypes, Linkage
<1>2. CASE x \in Threads
  <2>1. x \notin Pds /\ ThreadOf(x) = x
    BY <1>2, AddressAssumption DEF ThreadOf
  <2>2. MakeReady(Q, x) /\ v' = [v EXCEPT ![x] = 1] /\ UNCHANGED pollVars
    BY <2>1 DEF Wakeup
  <2>3. Linkage(q', state', parent', v')
    BY <1>1, <1>2, <2>2, ReadyLinks DEF MakeReady
  <2>4. OnlyWakes
    BY <1>1, <1>2, <2>2 DEF OnlyWakes, MakeReady
  <2> QED BY <1>1, <2>2, <2>3, <2>4 DEF pollVars
<1>3. CASE x \in Pds
  <2> DEFINE t == Master(x)
             Q0 == IF Timed(t) THEN Dequeue(Q, t) ELSE Q
  <2>1. t \in Threads
    BY <1>3, AddressAssumption DEF Master
  <2>2. ready' = [ready EXCEPT ![x] = 1] /\ counter' = [counter EXCEPT ![t] = @ + 1]
    BY <1>3 DEF Wakeup, ThreadOf
  <2>3. ready' \in [Pds -> {0, 1}] /\ counter' \in [Threads -> Nat]
    BY <1>1, <1>3, <2>1, <2>2
  <2>4. CASE state[t] # "WAIT_POLL"
    <3>1. q' = Q /\ state' = state /\ parent' = parent /\ v' = v
      BY <1>3, <2>4 DEF Wakeup, ThreadOf
    <3> QED BY <1>3, <2>3, <3>1 DEF OnlyWakes
  <2>5. CASE state[t] = "WAIT_POLL"
    <3>1. MakeReady(Q0, t) /\ \E w \in {-1, 0, 1} : v' = [v EXCEPT ![t] = w]
      BY <1>3, <2>5 DEF Wakeup, ThreadOf, TicksRemained
    <3>2. PICK w \in {-1, 0, 1} : v' = [v EXCEPT ![t] = w]
      BY <3>1
    <3>3. Unlinked(Q, Q0, t)
      BY <1>3, <2>1, <2>5, SleeperUnlinks
    <3> HIDE DEF t, Q0
    <3>4. Linkage(q', state', parent', v')
      <4>1. Linkage(Q, state, parent, v)
        BY <1>3
      <4> QED BY <2>1, <3>1, <3>2, <3>3, <4>1, ReadyLinks DEF MakeReady
    <3>5. OnlyWakes
      BY <1>1, <2>1, <2>5, <3>1, <3>2 DEF OnlyWakes, MakeReady
    <3> QED BY <2>3, <3>4, <3>5
  <2> QED BY <2>4, <2>5
<1> QED BY <1>2, <1>3 DEF Nodes

\* The first waiter of a condition variable is woken up.
LEMMA CondWakeLinks ==
  ASSUME KernelInv, NEW c \in Conds, q[c] # << >>, Wakeup(Head(q[c]), [q EXCEPT ![c] = Tail(@)])
  PROVE  /\ Linkage(q', state', parent', v') /\ OnlyWakes
         /\ ready' \in [Pds -> {0, 1}] /\ counter' \in [Threads -> Nat]
<1> DEFINE x == Head(q[c])
           Q == [q EXCEPT ![c] = Tail(@)]
<1>1. Linkage(q, state, parent, v) /\ ListsOK(q) /\ c \in Queues
  BY KernelParts DEF Linkage, Queues, Objects
<1>2. x \in Nodes /\ c \in Where(q, x)
  BY <1>1, PopLists
<1>3. x \in Pds => Linkage(Q, state, parent, v)
  BY <1>1, ProxyPop
<1>4. x \in Threads => Unlinked(q, Q, x)
  BY <1>1, PopUnlinks
<1>6. Wakeup(x, Q)
  OBVIOUS
<1> HIDE DEF x, Q
<1>5. x \in Threads => Places(x, state[x], parent[x]) = {c}
  BY <1>1, <1>2, LinkedPlace
<1>7. x \in Threads => state[x] = "WAIT_CND"
  BY <1>1, <1>5, StateOfPlace
<1> QED BY <1>2, <1>3, <1>4, <1>6, <1>7, WakeupLinks

\* chopstx_cond_signal wakes the first waiter.
LEMMA SignalCallInv ==
  ASSUME KernelInv, NEW t \in Threads, NEW c \in Conds, SignalCall(t, c)
  PROVE  KernelInv'
<1>1. running = t /\ state[t] = "RUNNING" /\ pc[t] = "user" /\ cpu = "user"
  BY RunsFacts DEF SignalCall, Calls
<1>2. /\ running' = t /\ cpu' \in {"user", "lock", "yield"} /\ pendsv' = pendsv
      /\ pc' = [pc EXCEPT ![t] = "user"] /\ fr' = [fr EXCEPT ![t] = fr[t]]
  BY <1>1, ThreadFacts DEF SignalCall
<1>3. /\ Linkage(q', state', parent', v') /\ OnlyWakes
      /\ ready' \in [Pds -> {0, 1}] /\ counter' \in [Threads -> Nat]
  <2>1. CASE q[c] = << >>
    BY <2>1, KernelParts DEF SignalCall, queueVars, pollVars, OnlyWakes, ResourceTypes
  <2>2. CASE q[c] # << >>
    BY <2>2, CondWakeLinks DEF SignalCall
  <2> QED BY <2>1, <2>2
<1>4. ResourceTypes' /\ pendsv' \in BOOLEAN
  BY <1>2, <1>3, ThreadFacts, KernelParts
     DEF SignalCall, ResourceTypes, ProcessorTypes, prioVars, flagVars, mutexVars, irqVars
<1>5. FrameOK(t, "user", fr[t]) /\ fr[t] \in Frame /\ "user" \in Labels
  BY <1>1, ThreadFacts
<1> QED BY <1>1, <1>2, <1>3, <1>4, <1>5, WakeStepInv

\* chopstx_cond_broadcast enters its section.
LEMMA BroadcastCallInv ==
  ASSUME KernelInv, NEW t \in Threads, NEW c \in Conds, BroadcastCall(t, c)
  PROVE  KernelInv'
<1> DEFINE f == [fr[t] EXCEPT !.cnd = c, !.yield = FALSE]
<1>1. running = t /\ state[t] = "RUNNING"
  BY RunsFacts DEF BroadcastCall, Calls
<1>2. /\ running' = t /\ cpu' = "lock" /\ pendsv' = pendsv /\ UNCHANGED queueVars
      /\ pc' = [pc EXCEPT ![t] = "bcast"] /\ fr' = [fr EXCEPT ![t] = f]
  BY <1>1 DEF BroadcastCall, Goto
<1>3. ResourceTypes' /\ pendsv' \in BOOLEAN
  BY <1>2, ThreadFacts, KernelParts DEF BroadcastCall, ProcessorTypes
<1>4. f \in Frame /\ f.cnd = c
  BY ThreadFacts DEF Frame
<1> HIDE DEF f
<1>5. FrameOK(t, "bcast", f) /\ "bcast" \in Labels
  BY <1>4 DEF FrameOK, PollLabels, Labels
<1>6. OnlyWakes /\ Linkage(q', state', parent', v')
  BY <1>2, KernelParts DEF OnlyWakes, queueVars
<1> QED BY <1>1, <1>2, <1>3, <1>4, <1>5, <1>6, WakeStepInv

\* It wakes the waiters, threads and proxies, one after the other.
LEMMA BroadcastWakeInv ==
  ASSUME KernelInv, NEW t \in Threads, BroadcastWake(t)
  PROVE  KernelInv'
<1> DEFINE c == fr[t].cnd
           y == fr[t].yield \/ Outranks(Head(q[c]))
           f == [fr[t] EXCEPT !.yield = y]
<1>1. /\ running = t /\ cpu = "lock" /\ state[t] = "RUNNING" /\ pc[t] = "bcast"
      /\ FrameOK(t, "bcast", fr[t]) /\ pendsv \in BOOLEAN
  BY LockedFacts DEF BroadcastWake
<1>2. c \in Conds
  BY <1>1 DEF FrameOK
<1>3. /\ running' = t /\ cpu' = "lock" /\ pendsv' = pendsv
      /\ pc' = [pc EXCEPT ![t] = "bcast"] /\ fr' = [fr EXCEPT ![t] = f]
  BY <1>1, ThreadFacts DEF BroadcastWake, cpuVars
<1>4. y \in BOOLEAN
  OBVIOUS
<1>5. q[c] # << >> /\ Wakeup(Head(q[c]), [q EXCEPT ![c] = Tail(@)])
  BY DEF BroadcastWake
<1> HIDE DEF y
<1>6. f \in Frame /\ f.cnd = c
  BY <1>4, ThreadFacts DEF Frame
<1> HIDE DEF c, f
<1>7. /\ Linkage(q', state', parent', v') /\ OnlyWakes
      /\ ready' \in [Pds -> {0, 1}] /\ counter' \in [Threads -> Nat]
  BY <1>2, <1>5, CondWakeLinks
<1>8. ResourceTypes'
  BY <1>7, ThreadFacts DEF BroadcastWake, ResourceTypes, prioVars, flagVars, mutexVars, irqVars
<1>9. FrameOK(t, "bcast", f) /\ "bcast" \in Labels
  BY <1>2, <1>6 DEF FrameOK, PollLabels, Labels
<1> QED BY <1>1, <1>3, <1>6, <1>7, <1>8, <1>9, WakeStepInv

\* It leaves the section when the queue is empty.
LEMMA BroadcastReturnInv ==
  ASSUME KernelInv, NEW t \in Threads, BroadcastReturn(t)
  PROVE  KernelInv'
<1>1. running = t /\ state[t] = "RUNNING" /\ pendsv \in BOOLEAN
  BY LockedFacts DEF BroadcastReturn
<1>2. /\ running' = t /\ cpu' \in {"user", "lock", "yield"} /\ pendsv' = pendsv /\ UNCHANGED queueVars
      /\ pc' = [pc EXCEPT ![t] = "user"] /\ fr' = [fr EXCEPT ![t] = NoFrame]
  BY <1>1 DEF BroadcastReturn, Goto
<1>3. ResourceTypes'
  BY ThreadFacts DEF BroadcastReturn
<1>4. FrameOK(t, "user", NoFrame) /\ "user" \in Labels
  BY DEF FrameOK, PollLabels, Labels
<1>5. OnlyWakes /\ Linkage(q', state', parent', v')
  BY <1>2, KernelParts DEF OnlyWakes, queueVars
<1> QED BY <1>1, <1>2, <1>3, <1>4, <1>5, NoFrameType, WakeStepInv

-----------------------------------------------------------------------------
(* Creation, exit, cancellation and priorities.                              *)

\* chopstx_create: the new thread was linked nowhere, and is ready.
LEMMA CreateCallInv ==
  ASSUME KernelInv, NEW t \in Threads, NEW u \in Threads, CreateCall(t, u)
  PROVE  KernelInv'
<1>1. running = t /\ state[t] = "RUNNING" /\ pc[t] = "user" /\ ~pendsv
  BY RunsFacts DEF CreateCall, Calls
<1>2. /\ MakeReady(q, u) /\ v' = v /\ state[u] = "NONE" /\ running' = t /\ pendsv' = pendsv
      /\ cpu' \in {"user", "yield"} /\ pc' = [pc EXCEPT ![u] = "user"] /\ fr' = [fr EXCEPT ![u] = fr[u]]
  BY <1>1, ThreadFacts DEF CreateCall, Goto
<1>3. ResourceTypes'
  BY ThreadFacts DEF CreateCall
<1>4. Linkage(q, state, parent, v) /\ StateOK(u, state[u], parent[u], v[u])
  BY KernelParts DEF Linkage
<1>5. PICK w \in {-1, 0, 1} : v' = [v EXCEPT ![u] = w]
  <2>1. v[u] \in {-1, 0, 1} /\ v' = [v EXCEPT ![u] = v[u]]
    BY <1>2, <1>4 DEF Linkage, StateOK
  <2> QED BY <2>1
<1>6. Unlinked(q, q, u)
  BY <1>2, <1>4, NowhereUnlinked DEF Places
<1>7. Linkage(q', state', parent', v')
  <2> DEFINE Q0 == q
  <2>1. Unlinked(q, Q0, u)
    BY <1>6
  <2>2. /\ q' = PrioEnqueue(Q0, "ready", u, prio) /\ state' = [state EXCEPT ![u] = "READY"]
        /\ parent' = [parent EXCEPT ![u] = "ready"]
    BY <1>2 DEF MakeReady
  <2> HIDE DEF Q0
  <2> QED BY <1>4, <1>5, <2>1, <2>2, ReadyLinks
<1>8. state' = [state EXCEPT ![u] = "READY"] /\ state \in [Threads -> States]
  BY <1>2, <1>4 DEF MakeReady, Linkage
<1>9. FrameOK(u, "user", fr[u]) /\ "user" \in Labels /\ fr[u] \in Frame
  BY ThreadFacts DEF FrameOK, PollLabels, Labels
<1>10. ControlOK' /\ pc'[u] = "user" /\ \A y \in Threads : y # u => pc'[y] = pc[y]
  BY <1>2, <1>9, KernelParts, ControlMoves
<1>11. u # t /\ t # None
  BY <1>1, <1>2, AddressAssumption DEF Nodes
<1>12. ProcessorTypes' /\ ProcessorOK'
  <2>1. ProcessorOK /\ ProcessorTypes
    BY KernelParts
  <2>2. \A y \in Threads : state'[y] = "RUNNING" => running' = y
    BY <1>1, <1>2, <1>8, <2>1 DEF ProcessorOK
  <2> QED BY <1>1, <1>2, <1>8, <1>11, <2>1, <2>2 DEF ProcessorOK, ProcessorTypes
<1>13. \A y \in Threads : JoinOK(y)'
  BY <1>2, <1>8, <1>10, KernelParts DEF JoinOK
<1> QED BY <1>3, <1>7, <1>10, <1>12, <1>13, KernelPartsNext

\* chopstx_setpriority changes no list: the running thread is in none that is sorted.
LEMMA SetPriorityCallInv ==
  ASSUME KernelInv, NEW t \in Threads, NEW new \in NewPrios, SetPriorityCall(t, new)
  PROVE  KernelInv'
<1>1. running = t /\ state[t] = "RUNNING" /\ pc[t] = "user" /\ FrameOK(t, "user", fr[t])
  BY RunsFacts DEF SetPriorityCall, Calls
<1>2. /\ running' = t /\ cpu' \in {"user", "lock", "yield"} /\ pendsv' = pendsv /\ UNCHANGED queueVars
      /\ pc' = [pc EXCEPT ![t] = "user"] /\ fr' = [fr EXCEPT ![t] = fr[t]]
  BY <1>1, ThreadFacts DEF SetPriorityCall
<1>3. new \in Prios /\ prio[t] \in Prios
  BY ConstantsAssumption, ThreadFacts DEF ResourceTypes, Nodes
<1>4. ResourceTypes' /\ pendsv' \in BOOLEAN
  BY <1>2, <1>3, ThreadFacts, KernelParts
     DEF SetPriorityCall, ResourceTypes, ProcessorTypes, flagVars, mutexVars, pollVars, irqVars
<1>5. OnlyWakes /\ Linkage(q', state', parent', v')
  BY <1>2, KernelParts DEF OnlyWakes, queueVars
<1>6. "user" \in Labels /\ fr[t] \in Frame
  BY <1>1, ThreadFacts
<1> QED BY <1>1, <1>2, <1>4, <1>5, <1>6, WakeStepInv

\* chopstx_cancel takes a sleeper off its list, if its state says that it is in one.
LEMMA CancelCallInv ==
  ASSUME KernelInv, NEW t \in Threads, NEW u \in Threads, CancelCall(t, u)
  PROVE  KernelInv'
<1>1. running = t /\ state[t] = "RUNNING" /\ pc[t] = "user" /\ cpu = "user" /\ FrameOK(t, "user", fr[t])
  BY RunsFacts DEF CancelCall, Calls
<1>2. /\ running' = t /\ cpu' \in {"user", "lock", "yield"} /\ pendsv' = pendsv
      /\ pc' = [pc EXCEPT ![t] = "user"] /\ fr' = [fr EXCEPT ![t] = fr[t]]
  BY <1>1, ThreadFacts DEF CancelCall
<1>3. ResourceTypes' /\ pendsv' \in BOOLEAN
  BY <1>2, ThreadFacts, KernelParts
     DEF CancelCall, ResourceTypes, ProcessorTypes, prioVars, mutexVars, pollVars, irqVars
<1>4. Linkage(q, state, parent, v) /\ state \in [Threads -> States]
      /\ v \in [Threads -> Threads \cup {-1, 0, 1}]
  BY KernelParts DEF Linkage
<1>6. CASE UNCHANGED queueVars
  <2>1. OnlyWakes /\ Linkage(q', state', parent', v')
    BY <1>4, <1>6 DEF OnlyWakes, queueVars
  <2> QED BY <1>1, <1>2, <1>3, <2>1, ThreadFacts, WakeStepInv
<1>7. CASE /\ state[u] \in {"WAIT_CND", "WAIT_TIME", "WAIT_EXIT", "WAIT_POLL"}
           /\ MakeReady(IF CancelUnlinks(u) THEN Dequeue(q, u) ELSE q, u) /\ v' = [v EXCEPT ![u] = -1]
  <2> DEFINE Q == IF CancelUnlinks(u) THEN Dequeue(q, u) ELSE q
  <2>1. Unlinked(q, Q, u)
    <3>1. CASE CancelUnlinks(u)
      BY <1>4, <3>1, DequeueUnlinks
    <3>2. CASE ~CancelUnlinks(u)
      <4>1. Places(u, state[u], parent[u]) = {}
        BY <3>2 DEF CancelUnlinks, Timed, Places
      <4> QED BY <1>4, <3>2, <4>1, NowhereUnlinked
    <3> QED BY <3>1, <3>2
  <2>2. MakeReady(Q, u)
    BY <1>7
  <2> HIDE DEF Q
  <2>a. PICK w \in {-1, 0, 1} : v' = [v EXCEPT ![u] = w]
    BY <1>7
  <2>3. Linkage(q', state', parent', v')
    BY <1>4, <2>1, <2>2, <2>a, ReadyLinks DEF MakeReady
  <2>4. OnlyWakes
    BY <1>4, <1>7, <2>2 DEF OnlyWakes, MakeReady
  <2> QED BY <1>1, <1>2, <1>3, <2>3, <2>4, ThreadFacts, WakeStepInv
<1> QED BY <1>6, <1>7 DEF CancelCall

\* chx_exit wakes a joiner or the proxy of one, found in the join queue.
LEMMA ExitNotifyInv ==
  ASSUME KernelInv, NEW t \in Threads, ExitNotify(t)
  PROVE  KernelInv'
<1>1. running = t /\ state[t] = "RUNNING"
  BY RunsFacts DEF ExitNotify
<1>2. /\ running' = t /\ cpu' \in {"user", "lock", "yield"} /\ pendsv' = pendsv
      /\ pc' = [pc EXCEPT ![t] = "dying"] /\ fr' = [fr EXCEPT ![t] = fr[t]]
  BY <1>1, ThreadFacts DEF ExitNotify, Goto
<1>3. Linkage(q, state, parent, v) /\ ListsOK(q)
  BY KernelParts DEF Linkage
<1>4. "join" \in Queues
  BY DEF Queues
<1>5. /\ Linkage(q', state', parent', v') /\ OnlyWakes
      /\ ready' \in [Pds -> {0, 1}] /\ counter' \in [Threads -> Nat]
  <2>1. CASE \E i \in DOMAIN q["join"] : Wakeup(q["join"][i], Dequeue(q, q["join"][i]))
    <3>1. PICK i \in DOMAIN q["join"] : Wakeup(q["join"][i], Dequeue(q, q["join"][i]))
      BY <2>1
    <3> DEFINE x == q["join"][i]
    <3>2. x \in Nodes /\ "join" \in Where(q, x)
      BY <1>3, <1>4 DEF ListsOK, Where, ToSet
    <3>3. Wakeup(x, Dequeue(q, x))
      BY <3>1
    <3> HIDE DEF x
    <3>4. x \in Pds => Linkage(Dequeue(q, x), state, parent, v)
      BY <1>3, ProxyDequeue
    <3>5. x \in Threads => Unlinked(q, Dequeue(q, x), x)
      BY <1>3, DequeueUnlinks
    <3>6. x \in Threads => state[x] = "WAIT_EXIT"
      BY <1>3, <1>4, <3>2, LinkedPlace, StateOfPlace
    <3> QED BY <3>2, <3>3, <3>4, <3>5, <3>6, WakeupLinks
  <2>2. CASE UNCHANGED <<queueVars, pollVars>>
    BY <1>3, <2>2, KernelParts DEF queueVars, pollVars, OnlyWakes, ResourceTypes
  <2> QED BY <2>1, <2>2 DEF ExitNotify
<1>6. ResourceTypes' /\ pendsv' \in BOOLEAN
  BY <1>2, <1>5, ThreadFacts, KernelParts
     DEF ExitNotify, ResourceTypes, ProcessorTypes, prioVars, flagVars, mutexVars, irqVars
<1>7. FrameOK(t, "dying", fr[t]) /\ fr[t] \in Frame /\ "dying" \in Labels
  BY ThreadFacts DEF FrameOK, PollLabels, Labels
<1> QED BY <1>1, <1>2, <1>5, <1>6, <1>7, WakeStepInv

\* The exiting thread leaves the CPU, linked nowhere.
LEMMA ExitEndInv ==
  ASSUME KernelInv, NEW t \in Threads, ExitEnd(t)
  PROVE  KernelInv'
<1> DEFINE Q0 == StopSlice(q, t)
<1>1. running = t /\ state[t] = "RUNNING" /\ pendsv \in BOOLEAN
  BY LockedFacts DEF ExitEnd
<1>2. /\ running' = t /\ cpu' = "sleep" /\ pendsv' = pendsv
      /\ pc' = [pc EXCEPT ![t] = "dead"] /\ fr' = [fr EXCEPT ![t] = fr[t]]
  BY <1>1, ThreadFacts DEF ExitEnd, Goto
<1>3. ResourceTypes'
  BY ThreadFacts DEF ExitEnd
<1>4. Linkage(q, state, parent, v) /\ Unlinked(q, Q0, t)
  BY <1>1, KernelParts, StopSliceUnlinks
<1>5. PICK st \in {"FINISHED", "EXITED"} : state' = [state EXCEPT ![t] = st]
  BY DEF ExitEnd
<1>6. q' = Q0 /\ parent' = parent /\ v' = [v EXCEPT ![t] = 0]
  BY DEF ExitEnd
<1> HIDE DEF Q0
<1>7. FieldsOf(t, state, parent, v, state', parent', v') /\ state'[t] = st /\ v'[t] = 0
  BY <1>4, <1>5, <1>6 DEF Linkage, FieldsOf, States
<1>8. Places(t, state'[t], parent'[t]) = {} /\ StateOK(t, state'[t], parent'[t], v'[t])
  BY <1>5, <1>7, AddressAssumption DEF Places, StateOK
<1>9. Linkage(q', state', parent', v')
  BY <1>4, <1>6, <1>7, <1>8, LinkOut
<1>10. FrameOK(t, "dead", fr[t]) /\ fr[t] \in Frame /\ "dead" \in Labels
  BY ThreadFacts DEF FrameOK, PollLabels, Labels
<1>11. state'[t] # "RUNNING" /\ \A u \in Threads : u # t => state'[u] = state[u] /\ v'[u] = v[u]
  BY <1>5, <1>7 DEF FieldsOf
<1> QED BY <1>1, <1>2, <1>3, <1>9, <1>10, <1>11, BlockStepInv

-----------------------------------------------------------------------------
(* chopstx_join.                                                             *)

\* chopstx_join of a thread that has exited finishes it.
LEMMA JoinExitedInv ==
  ASSUME KernelInv, NEW t \in Threads, JoinExited(t)
  PROVE  KernelInv'
<1> DEFINE u == fr[t].tgt
<1>1. running = t /\ state[t] = "RUNNING" /\ cpu = "user" /\ FrameOK(t, "join", fr[t])
  BY RunsFacts DEF JoinExited
<1>2. u \in Threads
  BY <1>1 DEF FrameOK
<1>3. /\ running' = t /\ cpu' = "user" /\ pendsv' = pendsv
      /\ pc' = [pc EXCEPT ![t] = "user"] /\ fr' = [fr EXCEPT ![t] = NoFrame]
  BY <1>1 DEF JoinExited, Goto, cpuVars
<1>4. ResourceTypes' /\ pendsv' \in BOOLEAN
  BY <1>3, ThreadFacts, KernelParts DEF JoinExited, ProcessorTypes
<1>5. /\ state[u] = "EXITED" /\ state' = [state EXCEPT ![u] = "FINISHED"]
      /\ q' = q /\ parent' = parent /\ v' = v
  BY DEF JoinExited
<1> HIDE DEF u
<1>6. Linkage(q, state, parent, v) /\ StateOK(u, state[u], parent[u], v[u])
  BY <1>2, KernelParts DEF Linkage
<1>7. Unlinked(q, q, u)
  BY <1>2, <1>5, <1>6, NowhereUnlinked DEF Places
<1>8. FieldsOf(u, state, parent, v, state', parent', v') /\ state'[u] = "FINISHED" /\ v'[u] = v[u]
  BY <1>2, <1>5, <1>6 DEF Linkage, FieldsOf, States
<1>9. Places(u, state'[u], parent'[u]) = {} /\ StateOK(u, state'[u], parent'[u], v'[u])
  BY <1>5, <1>6, <1>8 DEF Places, StateOK
<1>10. Linkage(q', state', parent', v')
  BY <1>2, <1>5, <1>6, <1>7, <1>8, <1>9, LinkOut
<1>11. OnlyWakes
  BY <1>2, <1>5, <1>6 DEF OnlyWakes, Linkage
<1>12. FrameOK(t, "user", NoFrame) /\ "user" \in Labels
  BY DEF FrameOK, PollLabels, Labels
<1> QED BY <1>1, <1>3, <1>4, <1>10, <1>11, <1>12, NoFrameType, WakeStepInv

\* chopstx_join queues the caller, still on the CPU, in the join queue.
LEMMA JoinBlockInv ==
  ASSUME KernelInv, NEW t \in Threads, JoinBlock(t)
  PROVE  KernelInv'
<1> DEFINE u == fr[t].tgt
           f == [fr[t] EXCEPT !.tp0 = u]
<1>1. running = t /\ state[t] = "RUNNING" /\ ~pendsv /\ FrameOK(t, "join", fr[t])
  BY RunsFacts DEF JoinBlock
<1>2. u \in Threads
  BY <1>1 DEF FrameOK
<1>3. /\ running' = t /\ cpu' = "lock" /\ pendsv' = pendsv
      /\ pc' = [pc EXCEPT ![t] = "join_pi"] /\ fr' = [fr EXCEPT ![t] = f]
  BY <1>1 DEF JoinBlock, Goto
<1>4. f \in Frame /\ f.tgt = u
  BY <1>2, ThreadFacts DEF Frame
<1>5. /\ q' = PrioEnqueue(StopSlice(q, t), "join", t, prio)
      /\ state' = [state EXCEPT ![t] = "WAIT_EXIT"] /\ parent' = [parent EXCEPT ![t] = "join"]
      /\ v' = [v EXCEPT ![t] = u]
  BY DEF JoinBlock
<1>6. join_req' = [join_req EXCEPT ![u] = TRUE]
  BY DEF JoinBlock
<1> HIDE DEF u, f
<1>7. ResourceTypes'
  BY <1>2, <1>6, ThreadFacts DEF JoinBlock, ResourceTypes, prioVars, mutexVars, pollVars, irqVars
<1>8. pendsv' \in BOOLEAN
  BY <1>3, KernelParts DEF ProcessorTypes
<1>9. /\ "join" \in Queues /\ "WAIT_EXIT" \in States
      /\ Places(t, "WAIT_EXIT", "join") = {"join"} /\ StateOK(t, "WAIT_EXIT", "join", u)
  BY <1>2 DEF Queues, States, Places, StateOK
<1>10. Linkage(q', state', parent', v')
  BY <1>1, <1>2, <1>5, <1>9, EnqueueLinks
<1>11. /\ state'[t] = "WAIT_EXIT"
       /\ \A y \in Threads : y # t => state'[y] = state[y] /\ v'[y] = v[y]
  BY <1>5, KernelParts DEF Linkage
<1>12. FrameOK(t, "join_pi", f) /\ "join_pi" \in Labels
  BY <1>2, <1>4 DEF FrameOK, PollLabels, Labels
<1> QED BY <1>1, <1>3, <1>4, <1>7, <1>8, <1>10, <1>11, <1>12, BlockStepInv

\* A turn of its inheritance loop requeues, and wakes nobody up.
LEMMA JoinInheritInv ==
  ASSUME KernelInv, NEW t \in Threads, JoinInherit(t)
  PROVE  KernelInv'
<1> DEFINE x == fr[t].tp0
           prios == [prio EXCEPT ![x] = prio[t]]
           f == [fr[t] EXCEPT !.tp0 = Waker(x)]
<1>1. /\ running = t /\ cpu = "lock" /\ pc[t] = "join_pi" /\ FrameOK(t, "join_pi", fr[t])
      /\ state[t] = "WAIT_EXIT" /\ pendsv \in BOOLEAN
  BY LockedFacts DEF JoinInherit
<1>2. x \in Threads
  BY ThreadFacts DEF JoinInherit, Inherits, Frame
<1>3. /\ running' = t /\ cpu' = "lock" /\ pendsv' = pendsv
      /\ pc' = [pc EXCEPT ![t] = "join_pi"] /\ fr' = [fr EXCEPT ![t] = f]
  BY <1>1, ThreadFacts DEF JoinInherit, cpuVars
<1>4. ResourceTypes'
  <2>1. prios \in [Nodes -> Prios] /\ prio' = prios
    BY <1>2, ThreadFacts DEF ResourceTypes, JoinInherit, Nodes
  <2> QED BY <2>1, ThreadFacts DEF JoinInherit, ResourceTypes, flagVars, mutexVars, pollVars, irqVars
<1>5. Requeue(x, prios) /\ state' = state /\ parent' = parent /\ v' = v
  BY DEF JoinInherit
<1>6. f \in Frame /\ f.tgt = fr[t].tgt
  BY <1>2, WakerType, ThreadFacts DEF Frame
<1> HIDE DEF x, prios, f
<1>7. Linkage(q', state', parent', v')
  BY <1>2, <1>5, RequeueLinks
<1>8. FrameOK(t, "join_pi", f) /\ "join_pi" \in Labels
  BY <1>1, <1>6 DEF FrameOK, PollLabels, Labels
<1> QED BY <1>1, <1>3, <1>4, <1>5, <1>6, <1>7, <1>8, BlockStepInv

\* The joiner leaves the CPU; ->v is the joined thread, which is not 0.
LEMMA JoinSleepInv ==
  ASSUME KernelInv, NEW t \in Threads, JoinSleep(t)
  PROVE  KernelInv'
<1> DEFINE f == [fr[t] EXCEPT !.tp0 = None]
<1>1. /\ running = t /\ FrameOK(t, "join_pi", fr[t]) /\ state[t] = "WAIT_EXIT" /\ pendsv \in BOOLEAN
  BY LockedFacts DEF JoinSleep
<1>2. /\ running' = t /\ cpu' = "sleep" /\ pendsv' = pendsv /\ UNCHANGED queueVars
      /\ pc' = [pc EXCEPT ![t] = "join_woken"] /\ fr' = [fr EXCEPT ![t] = f]
  BY <1>1 DEF JoinSleep, Goto
<1>3. ResourceTypes'
  BY ThreadFacts DEF JoinSleep
<1>4. Linkage(q, state, parent, v) /\ StateOK(t, state[t], parent[t], v[t])
  BY KernelParts DEF Linkage
<1>5. v[t] # 0
  BY <1>1, <1>4, AddressAssumption DEF StateOK
<1>6. f \in Frame /\ f.tgt = fr[t].tgt
  BY ThreadFacts DEF Frame
<1> HIDE DEF f
<1>7. FrameOK(t, "join_woken", f) /\ "join_woken" \in Labels
  BY <1>1, <1>6 DEF FrameOK, PollLabels, Labels
<1> QED BY <1>1, <1>2, <1>3, <1>4, <1>5, <1>6, <1>7, BlockStepInv DEF queueVars

\* chopstx_join never sees chx_sched return 0.
LEMMA JoinReturnInv ==
  ASSUME KernelInv, NEW t \in Threads, JoinReturn(t)
  PROVE  KernelInv'
<1>1. cpu = "user" /\ pc[t] = "join_woken" /\ (t \in RR => v[t] = 1)
  BY RunsFacts DEF JoinReturn
<1>2. v[t] # 0
  BY <1>1, KernelParts DEF JoinOK
<1>3. ResourceTypes' /\ UNCHANGED <<cpuVars, queueVars>>
  BY <1>2, ThreadFacts DEF JoinReturn, queueVars
<1>4. fr' = [fr EXCEPT ![t] = NoFrame] /\ \E l \in PlainLabels : pc' = [pc EXCEPT ![t] = l]
  BY DEF JoinReturn, Goto, PlainLabels
<1> QED BY <1>1, <1>3, <1>4, NoFrameType, PlainInv

-----------------------------------------------------------------------------
(* Sleeping: chx_snooze, and chopstx_poll without a limit.                   *)

\* chx_snooze: the sleeper is linked in the timer list, in place of its slice.
LEMMA SnoozeInv ==
  ASSUME KernelInv, NEW t \in Threads, NEW k, Runs(t, k), NEW st \in {"WAIT_TIME", "WAIT_POLL"},
         NEW l \in {"snoozed", "poll_snoozed"}, Snooze(t, st, l),
         l = "poll_snoozed" => fr[t].idx >= 1 /\ (t \in RR => fr[t].timed)
  PROVE  KernelInv'
<1>1. running = t /\ state[t] = "RUNNING" /\ cpu = "user" /\ ~pendsv
  BY RunsFacts
<1>2. ResourceTypes'
  BY ThreadFacts DEF Snooze
<1>3. pc' = [pc EXCEPT ![t] = l] /\ l \in Labels /\ l # "join_woken"
  BY DEF Snooze, Goto, Labels
<1>4. CASE fr[t].left = 0
  <2> DEFINE f == [fr[t] EXCEPT !.r = 1]
  <2>1. f \in Frame /\ f.r = 1 /\ f.idx = fr[t].idx /\ f.timed = fr[t].timed
    BY ThreadFacts DEF Frame
  <2>2. fr' = [fr EXCEPT ![t] = f] /\ UNCHANGED <<cpuVars, queueVars>>
    BY <1>4 DEF Snooze, cpuVars
  <2> HIDE DEF f
  <2>3. FrameOK(t, l, f)
    BY <2>1 DEF FrameOK, PollLabels
  <2> QED BY <1>1, <1>2, <1>3, <2>1, <2>2, <2>3, QuietInv
<1>5. CASE fr[t].left > 0
  <2> DEFINE f == [fr[t] EXCEPT !.r = 0]
             Q0 == StopSlice(q, t)
  <2>1. /\ f \in Frame /\ f.r = 0 /\ f.idx = fr[t].idx /\ f.timed = fr[t].timed
        /\ f.left = fr[t].left
    BY ThreadFacts DEF Frame
  <2>2. /\ fr' = [fr EXCEPT ![t] = f] /\ cpu' = "sleep" /\ running' = t /\ pendsv' = pendsv
        /\ state' = [state EXCEPT ![t] = st] /\ parent' = [parent EXCEPT ![t] = "timer"]
        /\ v' = [v EXCEPT ![t] = 1]
    BY <1>1, <1>5 DEF Snooze
  <2>3. PICK i \in TimerPlaces(Q0) : q' = TimerInsert(Q0, t, i)
    BY <1>5 DEF Snooze
  <2>4. Linkage(q, state, parent, v) /\ Unlinked(q, Q0, t)
    BY <1>1, KernelParts, StopSliceUnlinks
  <2> HIDE DEF f, Q0
  <2>5. /\ FieldsOf(t, state, parent, v, state', parent', v')
        /\ state'[t] = st /\ parent'[t] = "timer" /\ v'[t] = 1
    BY <2>2, <2>4 DEF Linkage, FieldsOf, States, Queues
  <2>6. Places(t, state'[t], parent'[t]) = {"timer"} /\ StateOK(t, state'[t], parent'[t], v'[t])
    BY <2>5, AddressAssumption DEF Places, StateOK
  <2>7. Linkage(TimerInsert(Q0, t, i), state', parent', v')
    BY <2>4, <2>5, <2>6, LinkTimer
  <2>8. Linkage(q', state', parent', v')
    BY <2>3, <2>7
  <2>9. state'[t] # "RUNNING" /\ \A u \in Threads : u # t => state'[u] = state[u] /\ v'[u] = v[u]
    BY <2>5 DEF FieldsOf
  <2>10. FrameOK(t, l, f)
    BY <1>5, <2>1 DEF FrameOK, PollLabels
  <2>11. pendsv' \in BOOLEAN
    BY <2>2, KernelParts DEF ProcessorTypes
  <2> QED BY <1>1, <1>2, <1>3, <2>1, <2>2, <2>8, <2>9, <2>10, <2>11, BlockStepInv
<1> QED BY <1>4, <1>5 DEF Snooze

\* A slice of chopstx_usec_wait.
LEMMA SleepBlockInv ==
  ASSUME KernelInv, NEW t \in Threads, SleepBlock(t)
  PROVE  KernelInv'
BY SnoozeInv DEF SleepBlock

\* A slice of chopstx_poll with a limit.
LEMMA PollSnoozeInv ==
  ASSUME KernelInv, NEW t \in Threads, PollSnooze(t)
  PROVE  KernelInv'
<1>1. /\ Runs(t, "poll_snooze") /\ cpu = "user" /\ fr[t].idx >= 1 /\ (t \in RR => fr[t].timed)
  BY RunsFacts DEF PollSnooze, FrameOK, PollLabels
<1>2. CASE Snooze(t, "WAIT_POLL", "poll_snoozed")
  BY <1>1, <1>2, SnoozeInv
<1>3. CASE ~Snooze(t, "WAIT_POLL", "poll_snoozed")
  <2>1. /\ UNCHANGED <<cpuVars, queueVars>> /\ ResourceTypes'
        /\ pc' = [pc EXCEPT ![t] = "poll_clean"] /\ fr' = [fr EXCEPT ![t] = fr[t]]
    BY <1>3, ThreadFacts DEF PollSnooze, Goto
  <2>2. FrameOK(t, "poll_clean", fr[t]) /\ fr[t] \in Frame /\ "poll_clean" \in PollLabels
    BY <1>1, ThreadFacts DEF FrameOK, PollLabels
  <2> QED BY <1>1, <2>1, <2>2, PollMoveInv
<1> QED BY <1>2, <1>3

\* chopstx_poll without a limit: the thread is linked nowhere but by its proxies.
LEMMA PollBlockInv ==
  ASSUME KernelInv, NEW t \in Threads, PollBlock(t)
  PROVE  KernelInv'
<1>1. /\ running = t /\ state[t] = "RUNNING" /\ cpu = "user" /\ ~pendsv
      /\ fr[t].idx >= 1 /\ (t \in RR => fr[t].timed)
  BY RunsFacts DEF PollBlock, FrameOK, PollLabels
<1>2. ResourceTypes' /\ fr' = [fr EXCEPT ![t] = fr[t]] /\ fr[t] \in Frame
  BY ThreadFacts DEF PollBlock
<1>3. /\ \A l \in {"poll_clean", "poll_timed", "poll_woken"} : FrameOK(t, l, fr[t]) /\ l \in PollLabels
      /\ "poll_woken" \in Labels
  BY <1>1 DEF FrameOK, PollLabels, Labels
<1>4. CASE counter[t] > 0
  <2>1. UNCHANGED <<cpuVars, queueVars>> /\ pc' = [pc EXCEPT ![t] = "poll_clean"]
    BY <1>4, ThreadFacts DEF PollBlock, Goto, cpuVars
  <2> QED BY <1>1, <1>2, <1>3, <2>1, PollMoveInv
<1>5. CASE counter[t] = 0 /\ fr[t].timed
  <2>1. UNCHANGED <<cpuVars, queueVars>> /\ pc' = [pc EXCEPT ![t] = "poll_timed"]
    BY <1>5, ThreadFacts DEF PollBlock, Goto, cpuVars
  <2> QED BY <1>1, <1>2, <1>3, <2>1, PollMoveInv
<1>6. CASE counter[t] = 0 /\ ~fr[t].timed
  <2> DEFINE Q0 == StopSlice(q, t)
  <2>1. /\ pc' = [pc EXCEPT ![t] = "poll_woken"] /\ cpu' = "sleep" /\ running' = t /\ pendsv' = pendsv
        /\ q' = Q0 /\ state' = [state EXCEPT ![t] = "WAIT_POLL"] /\ parent' = parent /\ v' = v
    BY <1>1, <1>6 DEF PollBlock, Goto
  <2>2. Linkage(q, state, parent, v) /\ Unlinked(q, Q0, t)
    BY <1>1, KernelParts, StopSliceUnlinks
  <2> HIDE DEF Q0
  <2>3. StateOK(t, state[t], parent[t], v[t]) /\ t \notin RR
    BY <1>1, <1>6, <2>2 DEF Linkage
  <2>4. /\ FieldsOf(t, state, parent, v, state', parent', v')
        /\ state'[t] = "WAIT_POLL" /\ parent'[t] = parent[t] /\ v'[t] = v[t]
    BY <2>1, <2>2 DEF Linkage, FieldsOf, States
  <2>5. Places(t, state'[t], parent'[t]) = {} /\ StateOK(t, state'[t], parent'[t], v'[t])
    BY <1>1, <2>3, <2>4 DEF Places, StateOK
  <2>6. Linkage(q', state', parent', v')
    BY <2>1, <2>2, <2>4, <2>5, LinkOut
  <2>7. state'[t] # "RUNNING" /\ \A u \in Threads : u # t => state'[u] = state[u] /\ v'[u] = v[u]
    BY <2>4 DEF FieldsOf
  <2>8. pendsv' \in BOOLEAN
    BY <2>1, KernelParts DEF ProcessorTypes
  <2> QED BY <1>1, <1>2, <1>3, <2>1, <2>6, <2>7, <2>8, BlockStepInv
<1> QED BY <1>4, <1>5, <1>6 DEF PollBlock

-----------------------------------------------------------------------------
(* The svc handler, PendSV and the other interrupts.                         *)

\* A dispatch, with the fields that the running thread was left with.
LEMMA DispatchInv ==
  ASSUME KernelInv, NEW st, NEW pa, NEW vv, NEW Q, Linkage(Q, st, pa, vv),
         \A t \in Threads : st[t] # "RUNNING",
         \A t \in Threads : pc[t] = "join_woken" =>
           st[t] \in {"WAIT_EXIT", "READY"} /\ (t \notin RR => vv[t] # 0),
         Dispatch(Q, st, pa, vv), cpu' = "user", pendsv' \in BOOLEAN,
         UNCHANGED <<prioVars, flagVars, mutexVars, pollVars, irqVars, pc, fr>>
  PROVE  KernelInv'
<1>1. /\ Linkage(q', state', parent', v')
      /\ running' \in Threads \cup {None}
      /\ \A t \in Threads : t # running' => state'[t] = st[t] /\ v'[t] = vv[t]
      /\ running' # None => /\ st[running'] = "READY" /\ state'[running'] = "RUNNING"
                            /\ running' \notin RR => v'[running'] = vv[running']
  BY DispatchLinks
<1>2. ResourceTypes' /\ ControlOK'
  BY KernelParts DEF ResourceTypes, prioVars, flagVars, mutexVars, pollVars, irqVars, ControlOK
<1>3. ProcessorTypes' /\ ProcessorOK'
  BY <1>1 DEF ProcessorTypes, ProcessorOK
<1>4. ASSUME NEW t \in Threads PROVE JoinOK(t)'
  <2>1. CASE t = running'
    <3>1. t # None
      BY AddressAssumption DEF Nodes
    <3> QED BY <1>1, <2>1, <3>1 DEF JoinOK
  <2>2. CASE t # running'
    BY <1>1, <2>2 DEF JoinOK
  <2> QED BY <2>1, <2>2
<1> QED BY <1>1, <1>2, <1>3, <1>4, KernelPartsNext

\* What chopstx_join may rely on when the running thread t has been put off the CPU.
LEMMA ParkedJoin ==
  ASSUME KernelInv, NEW t \in Threads, NEW st, NEW vv,
         \A u \in Threads : u # t => st[u] = state[u] /\ vv[u] = v[u] /\ state[u] # "RUNNING",
         pc[t] = "join_woken" => st[t] \in {"WAIT_EXIT", "READY"} /\ (t \notin RR => vv[t] # 0)
  PROVE  \A u \in Threads : pc[u] = "join_woken" =>
           st[u] \in {"WAIT_EXIT", "READY"} /\ (u \notin RR => vv[u] # 0)
BY KernelParts DEF JoinOK

\* The running thread t is put back into the ready list.
LEMMA ParkLinks ==
  ASSUME KernelInv, NEW t \in Threads, running = t, state[t] = "RUNNING",
         NEW Q, Q = PrioEnqueue(StopSlice(q, t), "ready", t, prio)
                \/ (t \notin RR /\ Q = PrioPush(q, "ready", t, prio)),
         NEW vv, vv = IF t \in RR THEN [v EXCEPT ![t] = 0] ELSE v
  PROVE  LET st == [state EXCEPT ![t] = "READY"]
             pa == [parent EXCEPT ![t] = "ready"]
         IN  /\ Linkage(Q, st, pa, vv)
             /\ \A u \in Threads : st[u] # "RUNNING"
             /\ \A u \in Threads : pc[u] = "join_woken" =>
                  st[u] \in {"WAIT_EXIT", "READY"} /\ (u \notin RR => vv[u] # 0)
<1> DEFINE st == [state EXCEPT ![t] = "READY"]
           pa == [parent EXCEPT ![t] = "ready"]
           Q0 == StopSlice(q, t)
<1>1. /\ Linkage(q, state, parent, v) /\ state \in [Threads -> States]
      /\ v \in [Threads -> Threads \cup {-1, 0, 1}] /\ StateOK(t, state[t], parent[t], v[t])
  BY KernelParts DEF Linkage
<1>2. Unlinked(q, Q0, t) /\ (t \notin RR => Q0 = q)
  BY <1>1, StopSliceUnlinks DEF StopSlice
<1>3. PICK w \in {-1, 0, 1} : vv = [v EXCEPT ![t] = w]
  <2>1. CASE t \in RR
    BY <2>1
  <2>2. CASE t \notin RR
    <3>1. v[t] \in {-1, 0, 1} /\ vv = [v EXCEPT ![t] = v[t]]
      BY <1>1, <2>2 DEF StateOK
    <3> QED BY <3>1
  <2> QED BY <2>1, <2>2
<1>4. Q = PrioEnqueue(Q0, "ready", t, prio) \/ Q = PrioPush(Q0, "ready", t, prio)
  BY <1>2
<1> HIDE DEF Q0
<1>5. Linkage(Q, st, pa, vv)
  <2> DEFINE ww == [v EXCEPT ![t] = w]
  <2>1. /\ Linkage(PrioEnqueue(Q0, "ready", t, prio), st, pa, ww)
        /\ Linkage(PrioPush(Q0, "ready", t, prio), st, pa, ww)
    BY <1>1, <1>2, ReadyLinks
  <2> HIDE DEF ww, st, pa
  <2> QED BY <1>3, <1>4, <2>1 DEF ww
<1>6. \A u \in Threads : u # t => st[u] = state[u] /\ vv[u] = v[u] /\ state[u] # "RUNNING"
  BY <1>1, <1>3, KernelParts DEF ProcessorOK
<1>7. st[t] = "READY"
  BY <1>1
<1>8. \A u \in Threads : st[u] # "RUNNING"
  BY <1>6, <1>7
<1>9. pc[t] = "join_woken" => (t \notin RR => vv[t] # 0)
  BY KernelParts DEF JoinOK
<1> HIDE DEF st, pa
<1>10. \A u \in Threads : pc[u] = "join_woken" =>
         st[u] \in {"WAIT_EXIT", "READY"} /\ (u \notin RR => vv[u] # 0)
  BY <1>6, <1>7, <1>9, ParkedJoin
<1> QED BY <1>5, <1>8, <1>10 DEF st, pa

\* No thread is in state RUNNING.
LEMMA NoneRunning ==
  ASSUME KernelInv, \A t \in Threads : state[t] # "RUNNING"
  PROVE  \A t \in Threads : pc[t] = "join_woken" =>
           state[t] \in {"WAIT_EXIT", "READY"} /\ (t \notin RR => v[t] # 0)
BY KernelParts DEF JoinOK

\* chx_sched: the caller has left the CPU already, or is put back into the ready list.
LEMMA SchedInv ==
  ASSUME KernelInv, Sched
  PROVE  KernelInv'
<1> DEFINE t == running
<1>1. t \in Threads /\ cpu \in {"sleep", "yield"}
  BY KernelParts DEF Sched, ProcessorOK, ProcessorTypes
<1>2. /\ cpu' = "user" /\ pendsv' \in BOOLEAN
      /\ UNCHANGED <<prioVars, flagVars, mutexVars, pollVars, irqVars, pc, fr>>
  BY KernelParts DEF Sched, ProcessorTypes
<1>3. CASE cpu = "yield"
  <2> DEFINE st == [state EXCEPT ![t] = "READY"]
             pa == [parent EXCEPT ![t] = "ready"]
             vv == IF t \in RR THEN [v EXCEPT ![t] = 0] ELSE v
  <2>1. state[t] = "RUNNING"
    BY <1>3, KernelParts DEF ProcessorOK
  <2>2. PICK Q : /\ Q = PrioEnqueue(StopSlice(q, t), "ready", t, prio)
                 /\ Dispatch(Q, st, pa, vv)
    BY <1>3 DEF Sched
  <2>3. /\ Linkage(Q, st, pa, vv)
        /\ \A u \in Threads : st[u] # "RUNNING"
        /\ \A u \in Threads : pc[u] = "join_woken" =>
             st[u] \in {"WAIT_EXIT", "READY"} /\ (u \notin RR => vv[u] # 0)
    BY <1>1, <2>1, <2>2, ParkLinks, ZenonT(30)
  <2> HIDE DEF st, pa, vv, t
  <2> QED BY <1>2, <2>2, <2>3, DispatchInv
<1>4. CASE cpu = "sleep"
  <2>1. state[t] # "RUNNING"
    BY <1>4, KernelParts DEF ProcessorOK
  <2>2. \A u \in Threads : state[u] # "RUNNING"
    BY <2>1, KernelParts DEF ProcessorOK
  <2>3. Dispatch(q, state, parent, v) /\ Linkage(q, state, parent, v)
    BY <1>4, KernelParts DEF Sched
  <2> QED BY <1>2, <2>2, <2>3, NoneRunning, DispatchInv
<1> QED BY <1>1, <1>3, <1>4

\* PendSV: the running thread is put back, unless its slice has expired and it is queued.
LEMMA PreemptInv ==
  ASSUME KernelInv, Preempt
  PROVE  KernelInv'
<1> DEFINE t == running
<1>1. cpu = "user" /\ t \in Threads \cup {None}
  BY KernelParts DEF Preempt, Interruptible, ProcessorTypes
<1>2. /\ cpu' = "user" /\ pendsv' \in BOOLEAN
      /\ UNCHANGED <<prioVars, flagVars, mutexVars, pollVars, irqVars, pc, fr>>
  BY <1>1 DEF Preempt
<1>3. Linkage(q, state, parent, v)
  BY KernelParts
<1>4. CASE t = None \/ (t # None /\ t \in RR /\ state[t] = "READY")
  <2>1. \A u \in Threads : state[u] # "RUNNING"
    BY <1>4, KernelParts, AddressAssumption DEF ProcessorOK, Nodes
  <2>2. Dispatch(q, state, parent, v)
    BY <1>4 DEF Preempt
  <2> QED BY <1>2, <1>3, <2>1, <2>2, NoneRunning, DispatchInv
<1>5. CASE ~(t = None \/ (t # None /\ t \in RR /\ state[t] = "READY"))
  <2> DEFINE st == [state EXCEPT ![t] = "READY"]
             pa == [parent EXCEPT ![t] = "ready"]
             vv == IF t \in RR THEN [v EXCEPT ![t] = 0] ELSE v
  <2>1. t \in Threads /\ state[t] = "RUNNING"
    BY <1>1, <1>5, KernelParts DEF ProcessorOK
  <2>2. PICK Q : /\ Q = PrioEnqueue(StopSlice(q, t), "ready", t, prio)
                    \/ (t \notin RR /\ Q = PrioPush(q, "ready", t, prio))
                 /\ Dispatch(Q, st, pa, vv)
    <3>1. CASE t \in RR
      BY <1>5, <2>1, <3>1 DEF Preempt, StopSlice
    <3>2. CASE t \notin RR
      BY <1>5, <2>1, <3>2 DEF Preempt
    <3> QED BY <3>1, <3>2
  <2>3. /\ Linkage(Q, st, pa, vv)
        /\ \A u \in Threads : st[u] # "RUNNING"
        /\ \A u \in Threads : pc[u] = "join_woken" =>
             st[u] \in {"WAIT_EXIT", "READY"} /\ (u \notin RR => vv[u] # 0)
    BY <2>1, <2>2, ParkLinks, ZenonT(30)
  <2> HIDE DEF st, pa, vv, t
  <2> QED BY <1>2, <2>2, <2>3, DispatchInv
<1> QED BY <1>4, <1>5

\* An interrupt handler, which may wake up threads and ask for a preemption.
LEMMA HandlerInv ==
  ASSUME KernelInv, cpu = "user", UNCHANGED <<running, cpu, pc, fr>>,
         pendsv' \in BOOLEAN, pendsv => pendsv',
         OnlyWakes, Linkage(q', state', parent', v'), ResourceTypes'
  PROVE  KernelInv'
<1>1. ControlOK'
  BY KernelParts DEF ControlOK
<1>2. ProcessorTypes /\ ProcessorOK /\ state \in [Threads -> States]
  BY KernelParts DEF Linkage
<1>3. ProcessorTypes' /\ ProcessorOK'
  <2>1. ProcessorTypes'
    BY <1>2 DEF ProcessorTypes
  <2>2. \A u \in Threads : state'[u] = "RUNNING" => running' = u
    BY <1>2 DEF ProcessorOK, OnlyWakes
  <2>3. running # None => state'[running] = state[running]
    BY <1>2 DEF ProcessorOK, ProcessorTypes, OnlyWakes
  <2> QED BY <1>2, <2>1, <2>2, <2>3 DEF ProcessorOK
<1>4. \A u \in Threads : JoinOK(u)'
  BY JoinKept
<1> QED BY <1>1, <1>3, <1>4, KernelPartsNext

\* chx_timer_expired: a sleeper, or the running thread at the end of its slice, is ready.
LEMMA TimerExpiredInv ==
  ASSUME KernelInv, TimerExpired
  PROVE  KernelInv'
<1> DEFINE t == Head(q["timer"])
           Q == [q EXCEPT !["timer"] = Tail(@)]
<1>1. /\ cpu = "user" /\ q["timer"] # << >> /\ UNCHANGED <<running, cpu, pc, fr>>
      /\ "timer" \in Queues
  BY DEF TimerExpired, Interruptible, Queues
<1>2. /\ Linkage(q, state, parent, v) /\ state \in [Threads -> States]
      /\ v \in [Threads -> Threads \cup {-1, 0, 1}] /\ pendsv \in BOOLEAN
  BY KernelParts DEF Linkage, ProcessorTypes
<1>3. t \in Threads /\ Unlinked(q, Q, t) /\ Places(t, state[t], parent[t]) = {"timer"}
  BY <1>1, MutexHead
<1>4. /\ MakeReady(Q, t) /\ v' = [v EXCEPT ![t] = 0]
      /\ pendsv' \in BOOLEAN /\ (pendsv => pendsv') /\ (t = running => pendsv')
  BY <1>2 DEF TimerExpired, RequestPreemption
<1>5. ResourceTypes'
  BY ThreadFacts, <1>3 DEF TimerExpired
<1> HIDE DEF t, Q
<1>6. /\ q' = PrioEnqueue(Q, "ready", t, prio) /\ state' = [state EXCEPT ![t] = "READY"]
      /\ parent' = [parent EXCEPT ![t] = "ready"]
  BY <1>4 DEF MakeReady
<1>7. Linkage(q', state', parent', v')
  <2>1. PICK w \in {-1, 0, 1} : v' = [v EXCEPT ![t] = w]
    BY <1>4
  <2> QED BY <1>2, <1>3, <1>6, <2>1, ReadyLinks
<1>8. state[t] \in {"WAIT_TIME", "WAIT_POLL"} \/ (state[t] = "RUNNING" /\ t \in RR)
  BY <1>1, <1>2, <1>3, StateOfPlace
<1>9. CASE state[t] \in {"WAIT_TIME", "WAIT_POLL"}
  <2>1. OnlyWakes
    BY <1>2, <1>3, <1>4, <1>6, <1>9 DEF OnlyWakes
  <2> QED BY <1>1, <1>4, <1>5, <1>7, <2>1, HandlerInv
<1>10. CASE state[t] = "RUNNING" /\ t \in RR
  <2>1. ProcessorOK /\ ProcessorTypes
    BY KernelParts
  <2>2. t = running /\ t # None
    BY <1>3, <1>10, <2>1, AddressAssumption DEF ProcessorOK, Nodes
  <2>3. \A u \in Threads : u # t => state'[u] = state[u] /\ v'[u] = v[u] /\ state[u] # "RUNNING"
    BY <1>2, <1>4, <1>6, <2>1, <2>2 DEF ProcessorOK
  <2>4. state'[t] = "READY"
    BY <1>2, <1>3, <1>6
  <2>5. ProcessorTypes' /\ ProcessorOK'
    BY <1>1, <1>4, <1>10, <2>1, <2>2, <2>3, <2>4 DEF ProcessorOK, ProcessorTypes
  <2>6. ControlOK' /\ \A u \in Threads : JoinOK(u)'
    BY <1>1, <1>10, <2>3, <2>4, KernelParts DEF ControlOK, JoinOK
  <2> QED BY <1>5, <1>7, <2>5, <2>6, KernelPartsNext
<1> QED BY <1>8, <1>9, <1>10

\* chx_handle_intr wakes the proxy of the interrupt; the queue has no threads.
LEMMA HandleIntrInv ==
  ASSUME KernelInv, NEW irq \in Irqs, HandleIntr(irq)
  PROVE  KernelInv'
<1>1. cpu = "user" /\ UNCHANGED <<running, cpu, pc, fr>> /\ "intr" \in Queues
  BY DEF HandleIntr, Interruptible, Queues
<1>2. Linkage(q, state, parent, v) /\ ListsOK(q) /\ pendsv \in BOOLEAN /\ ResourceTypes
  BY KernelParts DEF Linkage, ProcessorTypes
<1>3. /\ Linkage(q', state', parent', v') /\ OnlyWakes
      /\ ready' \in [Pds -> {0, 1}] /\ counter' \in [Threads -> Nat]
      /\ pendsv' \in BOOLEAN /\ (pendsv => pendsv')
  <2>1. CASE \E i \in DOMAIN q["intr"] :
               LET p == q["intr"][i]
               IN  Wakeup(p, Dequeue(q, p)) /\ RequestPreemption(prio[Master(p)])
    <3>1. PICK i \in DOMAIN q["intr"] : /\ Wakeup(q["intr"][i], Dequeue(q, q["intr"][i]))
                                        /\ RequestPreemption(prio[Master(q["intr"][i])])
      BY <2>1
    <3> DEFINE p == q["intr"][i]
    <3>2. p \in Nodes /\ "intr" \in Where(q, p)
      BY <1>1, <1>2 DEF ListsOK, Where, ToSet
    <3>3. Wakeup(p, Dequeue(q, p)) /\ pendsv' \in BOOLEAN /\ (pendsv => pendsv')
      BY <1>2, <3>1 DEF RequestPreemption
    <3> HIDE DEF p
    <3>4. p \notin Threads
      BY <1>1, <1>2, <3>2, LinkedPlace, StateOfPlace
    <3>5. p \in Pds => Linkage(Dequeue(q, p), state, parent, v)
      BY <1>2, ProxyDequeue
    <3> QED BY <3>2, <3>3, <3>4, <3>5, WakeupLinks
  <2>2. CASE UNCHANGED <<queueVars, pollVars, pendsv>>
    BY <1>2, <2>2 DEF queueVars, pollVars, OnlyWakes, ResourceTypes
  <2> QED BY <2>1, <2>2 DEF HandleIntr
<1>4. ResourceTypes'
  BY <1>2, <1>3 DEF HandleIntr, Disabled, ResourceTypes, prioVars, flagVars, mutexVars
<1> QED BY <1>1, <1>3, <1>4, HandlerInv

\* A device raises its line.
LEMMA RaiseIrqInv ==
  ASSUME KernelInv, NEW irq \in Irqs, RaiseIrq(irq)
  PROVE  KernelInv'
<1>1. /\ UNCHANGED <<running, cpu, pendsv, q, state, parent, v, pc, fr>>
  BY DEF RaiseIrq, cpuVars, queueVars
<1>2. ResourceTypes'
  BY KernelParts DEF RaiseIrq, ResourceTypes, prioVars, flagVars, mutexVars, pollVars
<1>3. ProcessorTypes' /\ ProcessorOK' /\ ControlOK' /\ \A t \in Threads : JoinOK(t)'
  BY <1>1, KernelParts DEF ProcessorTypes, ProcessorOK, ControlOK, JoinOK
<1>4. Linkage(q', state', parent', v')
  BY <1>1, KernelParts
<1> QED BY <1>2, <1>3, <1>4, KernelPartsNext

-----------------------------------------------------------------------------
(* The invariant.                                                            *)

\* Nothing happens.
LEMMA StutterInv ==
  ASSUME KernelInv, UNCHANGED vars
  PROVE  KernelInv'
<1>1. UNCHANGED <<running, cpu, pendsv, q, state, parent, v, pc, fr>>
  BY DEF vars, cpuVars, queueVars
<1>2. ResourceTypes'
  BY KernelParts DEF vars, ResourceTypes, prioVars, flagVars, mutexVars, pollVars, irqVars
<1>3. ProcessorTypes' /\ ProcessorOK' /\ ControlOK' /\ \A t \in Threads : JoinOK(t)'
  BY <1>1, KernelParts DEF ProcessorTypes, ProcessorOK, ControlOK, JoinOK
<1>4. Linkage(q', state', parent', v')
  BY <1>1, KernelParts
<1> QED BY <1>2, <1>3, <1>4, KernelPartsNext

\* A call of a program.
LEMMA CallInv ==
  ASSUME KernelInv, NEW t \in Threads, Call(t)
  PROVE  KernelInv'
BY LockCallInv, UnlockCallInv, CondQuietInv, SignalCallInv, BroadcastCallInv, CreateCallInv,
   ThreadQuietInv, JoinCallInv, CancelCallInv, SetPriorityCallInv, PollCallInv, IrqCallInv
   DEF Call

\* A thread goes on inside a call.
LEMMA StepInv ==
  ASSUME KernelInv, NEW t \in Threads, Step(t)
  PROVE  KernelInv'
<1>1. CASE MutexStep(t)
  BY <1>1, LockAcquireInv, LockHeldInv, LockInheritInv, LockBlockInv DEF MutexStep
<1>2. CASE CondStep(t)
  BY <1>2, WaitReleaseInv, WaitBlockInv, CondQuietInv, BroadcastWakeInv, BroadcastReturnInv DEF CondStep
<1>3. CASE ThreadStep(t)
  BY <1>3, ThreadQuietInv, SleepBlockInv, ExitReleaseInv, ExitNotifyInv, ExitEndInv, JoinExitedInv,
     JoinBlockInv, JoinInheritInv, JoinSleepInv, JoinReturnInv DEF ThreadStep
<1>4. CASE PollStep(t)
  BY <1>4, HookBeginInv, HookCheckInv, HookCountInv, HookUnlockInv, HookCondInv, HookIntrInv,
     PollQuietInv, PollBlockInv, PollSnoozeInv DEF PollStep
<1> QED BY <1>1, <1>2, <1>3, <1>4 DEF Step

\* Every step of the kernel.
LEMMA NextInv ==
  ASSUME KernelInv, Next
  PROVE  KernelInv'
<1>1. CASE \E t \in Threads : Call(t) \/ Step(t)
  BY <1>1, CallInv, StepInv
<1>2. CASE Sched \/ Preempt
  BY <1>2, SchedInv, PreemptInv
<1>3. CASE Interrupt
  BY <1>3, TimerExpiredInv, HandleIntrInv, RaiseIrqInv DEF Interrupt
<1> QED BY <1>1, <1>2, <1>3 DEF Next

\* After chx_init.
LEMMA InitInv ==
  ASSUME Init
  PROVE  KernelInv
<1>1. TypeOK
  <2>1. Main \in Threads /\ InitPrio \in [Threads -> Prios] /\ 0 \in Prios
    BY ConstantsAssumption DEF Prios
  <2>2. running \in Threads \cup {None} /\ cpu \in {"user", "lock", "sleep", "yield"} /\ pendsv \in BOOLEAN
    BY <2>1 DEF Init
  <2>3. q \in [Queues -> Seq(Nodes)]
    <3>1. <<Main>> \in Seq(Nodes) /\ << >> \in Seq(Nodes)
      BY <2>1 DEF Nodes
    <3> QED BY <3>1 DEF Init
  <2>4. /\ state \in [Threads -> States] /\ parent \in [Threads -> Queues \cup {None}]
        /\ v \in [Threads -> Threads \cup {-1, 0, 1}]
    BY <2>1 DEF Init, States, Queues
  <2>5. prio \in [Nodes -> Prios] /\ prio_orig \in [Threads -> Prios]
    BY <2>1 DEF Init, Nodes
  <2>6. /\ got_cancel \in [Threads -> BOOLEAN] /\ cancelable \in [Threads -> BOOLEAN]
        /\ join_req \in [Threads -> BOOLEAN] /\ clp \in [Threads -> Nat]
    BY DEF Init
  <2>7. /\ owner \in [Mutexes -> Threads \cup {None}] /\ list \in [Mutexes -> Mutexes \cup {None}]
        /\ mutex_list \in [Threads -> Mutexes \cup {None}]
    BY DEF Init
  <2>8. /\ ready \in [Pds -> {0, 1}] /\ counter \in [Threads -> Nat]
        /\ irq_enabled \in [Irqs -> BOOLEAN] /\ irq_pending \in [Irqs -> BOOLEAN]
    BY DEF Init
  <2>9. pc \in [Threads -> Labels] /\ fr \in [Threads -> Frame]
    BY NoFrameType DEF Init, Labels
  <2> QED BY <2>2, <2>3, <2>4, <2>5, <2>6, <2>7, <2>8, <2>9 DEF TypeOK
<1>2. Linkage(q, state, parent, v)
  <2>1. \A n \in Queues : q[n] = IF n = "timer" /\ Main \in RR THEN <<Main>> ELSE << >>
    BY DEF Init
  <2>2. \A n \in Queues : ToSet(q[n]) = IF n = "timer" /\ Main \in RR THEN {Main} ELSE {}
    BY <2>1 DEF ToSet
  <2>3. Main \in Threads /\ Main \notin Pds /\ "timer" \in Queues
    BY ConstantsAssumption, AddressAssumption DEF Queues
  <2>4. \A n \in Queues, t \in Threads : \A i, j \in DOMAIN q[n] : q[n][i] = t /\ q[n][j] = t => i = j
    BY <2>1
  <2>a. \A n \in Queues, p \in Pds : p \notin ToSet(q[n])
    BY <2>2, <2>3
  <2>b. \A n \in {"ready", "timer"} \cup Mutexes : n \in Queues
    BY DEF Queues, Objects
  <2>5. ListsOK(q)
    BY <1>1, <2>4, <2>a, <2>b DEF ListsOK, TypeOK
  <2>6. ASSUME NEW t \in Threads
        PROVE  Where(q, t) = Places(t, state[t], parent[t]) /\ StateOK(t, state[t], parent[t], v[t])
    <3>1. Where(q, t) = IF t = Main /\ t \in RR THEN {"timer"} ELSE {}
      BY <2>2, <2>3 DEF Where
    <3>2. /\ state[t] = IF t = Main THEN "RUNNING" ELSE "NONE"
          /\ parent[t] = IF t = Main /\ t \in RR THEN "timer" ELSE None
          /\ v[t] = IF t = Main /\ t \in RR THEN 1 ELSE 0
      BY DEF Init
    <3>3. None # "timer" /\ 0 \notin Threads /\ 1 \notin Threads
      BY AddressAssumption
    <3>4. Where(q, t) = Places(t, state[t], parent[t])
      BY <3>1, <3>2 DEF Places
    <3>5. StateOK(t, state[t], parent[t], v[t])
      BY <3>2, <3>3 DEF StateOK
    <3> QED BY <3>4, <3>5
  <2> QED BY <1>1, <2>5, <2>6 DEF Linkage, TypeOK
<1>3. ProcessorOK
  BY ConstantsAssumption DEF Init, ProcessorOK
<1>4. \A t \in Threads : FrameOK(t, pc[t], fr[t]) /\ JoinOK(t)
  BY DEF Init, FrameOK, JoinOK, NoFrame, PollLabels
<1> QED BY <1>1, <1>2, <1>3, <1>4 DEF KernelInv

\* KernelInv holds in every state of the kernel, for every number of threads and objects.
THEOREM KernelInvariant == Spec => []KernelInv
<1>1. Init => KernelInv
  BY InitInv
<1>2. KernelInv /\ [Next]_vars => KernelInv'
  BY NextInv, StutterInv
<1> QED BY <1>1, <1>2, PTL DEF Spec

\* Every variable keeps its type: no handler, however it is interleaved with the others,
\* writes a field of struct chx_thread, chx_mtx or chx_poll_cond that it should not.
THEOREM KernelTypes == Spec => []TypeOK
<1>1. KernelInv => TypeOK
  BY DEF KernelInv
<1> QED BY <1>1, KernelInvariant, PTL

\* The queue KernelInv finds a thread in is the one QueuesMatchStates names.
LEMMA InvMatchesStates ==
  ASSUME KernelInv
  PROVE  QueuesMatchStates
<1>1. Linkage(q, state, parent, v) /\ ListsOK(q)
  BY KernelParts DEF Linkage
<1>2. ASSUME NEW t \in Threads, NEW n \in Queues PROVE Linked(t, n) <=> n = Home(t)
  <2>1. Linked(t, n) <=> n \in Places(t, state[t], parent[t])
    BY <1>1 DEF Linkage, Linked, Where
  <2>2. n # None
    BY AddressAssumption DEF Queues
  <2> QED BY <2>1, <2>2 DEF Places, Home
<1>3. ThreadLinkedOnce
  BY <1>1 DEF ThreadLinkedOnce, ListsOK
<1> QED BY <1>2, <1>3 DEF QueuesMatchStates

\* A thread is linked in the queue its state tells, in no other, and once, whatever wakes,
\* cancels, requeues, preempts or times it out (ll_dequeue, chx_ready_enqueue,
\* chx_wakeup, chx_timer_expired, chopstx_cancel).
THEOREM QueuesMatch == Spec => []QueuesMatchStates
<1>1. KernelInv => QueuesMatchStates
  BY InvMatchesStates
<1> QED BY <1>1, KernelInvariant, PTL

\* At most one thread is RUNNING, and it is the one the processor executes.
THEOREM OneRunning == Spec => []RunningOne
<1>1. KernelInv => RunningOne
  BY KernelParts DEF ProcessorOK, RunningOne
<1> QED BY <1>1, KernelInvariant, PTL

\* A thread that chopstx_join has put to sleep never sees chx_sched return 0: the exit of
\* the joined thread wakes it up with 1, a cancellation with -1.
JoinNeverZero == \A t \in Threads : pc[t] = "join_woken" /\ state[t] = "RUNNING" => v[t] # 0

\* So the branch of chopstx_join that finishes the joined thread and returns 0 after a
\* sleep is never taken, for any number of threads.
THEOREM JoinReturnsNonzero == Spec => []JoinNeverZero
<1>1. KernelInv => JoinNeverZero
  <2> SUFFICES ASSUME KernelInv, NEW t \in Threads, pc[t] = "join_woken", state[t] = "RUNNING"
               PROVE  v[t] # 0
    BY DEF JoinNeverZero
  <2>1. JoinOK(t) /\ StateOK(t, state[t], parent[t], v[t])
    BY KernelParts DEF Linkage
  <2> QED BY <2>1 DEF JoinOK, StateOK
<1> QED BY <1>1, KernelInvariant, PTL
=============================================================================
