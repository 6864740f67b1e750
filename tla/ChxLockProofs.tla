---------------------------- MODULE ChxLockProofs ----------------------------
(***************************************************************************)
(* Mutexes, and the life of a thread: LocksInv is inductive.  Hence the    *)
(* list of the mutexes a thread holds is exact, waiters are not left with  *)
(* a mutex nobody will take, and a thread that has exited is gone.         *)
(***************************************************************************)
EXTENDS ChxKernelProofs

\* The loop over m->list visits the mutexes that ListOf says are linked.
LEMMA ChainIsList ==
  ASSUME NEW S \in SUBSET Mutexes, NEW x, ListOf(list, x, S)
  PROVE  Chain(x) = S
<1>1. LockRank \in [Mutexes -> Nat] /\ None \notin Mutexes
  BY ConstantsAssumption, AddressAssumption DEF Objects
<1>2. \A y \in S : IsTop(list[y], Below(y, S))
  BY DEF ListOf
<1>3. Follows(S) /\ (x # None => x \in S)
  BY <1>1, <1>2 DEF Follows, IsTop, Below, ListOf
<1>4. ASSUME NEW R \in SUBSET Mutexes, x # None => x \in R, Follows(R), NEW z \in S PROVE z \in R
  <2>1. x \in S /\ x \in R /\ (z # x => LockRank[z] < LockRank[x])
    BY <1>1, <1>4 DEF ListOf, IsTop
  <2>2. SUFFICES ASSUME z \notin R PROVE FALSE
    OBVIOUS
  <2> DEFINE Y == {y \in S \cap R : LockRank[z] < LockRank[y]}
             N == {LockRank[y] : y \in Y}
  <2>3. N \in SUBSET Nat /\ N # {}
    BY <1>1, <2>1, <2>2
  <2> HIDE DEF N
  <2>4. PICK n \in N : \A m \in N : n <= m
    BY <2>3, LeastNat
  <2>5. PICK y \in Y : LockRank[y] = n
    BY <2>4 DEF N
  <2>6. z \in Below(y, S) /\ y \in R /\ y \in S
    BY <2>5 DEF Below
  <2>7. list[y] \in Below(y, S) /\ (z # list[y] => LockRank[z] < LockRank[list[y]])
    BY <1>2, <2>6 DEF IsTop
  <2>8. list[y] \in S /\ LockRank[list[y]] < LockRank[y] /\ list[y] # None
    BY <1>1, <2>7 DEF Below
  <2>9. list[y] \in R
    BY <1>4, <2>6, <2>8 DEF Follows
  <2>a. list[y] \in Y
    BY <2>2, <2>7, <2>8, <2>9
  <2>b. LockRank[list[y]] \in N
    BY <2>a DEF N
  <2>c. n <= LockRank[list[y]] /\ LockRank[list[y]] \in Nat /\ n \in Nat
    BY <1>1, <2>3, <2>4, <2>8, <2>b
  <2> QED BY <2>5, <2>8, <2>c
<1>5. Chain(x) \subseteq S
  BY <1>3 DEF Chain
<1>6. S \subseteq Chain(x)
  BY <1>4 DEF Chain
<1> QED BY <1>5, <1>6

-----------------------------------------------------------------------------
(* What a step may do to the threads that do not take it.                    *)

OnCpu == {"READY", "RUNNING"}
Waiting == {"WAIT_MTX", "WAIT_CND", "WAIT_TIME", "WAIT_EXIT", "WAIT_POLL"}

SameFields(u) == state'[u] = state[u] /\ parent'[u] = parent[u] /\ v'[u] = v[u]
SameCall(u) == pc'[u] = pc[u] /\ fr'[u] = fr[u]

\* u stays where it is; it may be woken up, put on the CPU, or taken off it; and it is joined
\* when it has exited.
Drifts(u) ==
  /\ SameCall(u)
  /\ \/ SameFields(u)
     \/ state[u] \in OnCpu \cup Waiting /\ state'[u] \in OnCpu
     \/ state[u] = "EXITED" /\ state'[u] = "FINISHED"
Others(t) == \A u \in Threads : u # t => Drifts(u)
Wakes == \A u \in Threads : SameFields(u) \/ (state[u] \in Waiting /\ state'[u] = "READY")

\* Thread t goes to label l with locals f.
Moves(t, l, f) == pc' = [pc EXCEPT ![t] = l] /\ fr' = [fr EXCEPT ![t] = f]

\* What a step of thread t that moves it says of its label, locals and state.
LEMMA MovesFacts ==
  ASSUME KernelInv, NEW t \in Threads, NEW l, NEW f, Moves(t, l, f)
  PROVE  pc'[t] = l /\ fr'[t] = f /\ \A u \in Threads : u # t => SameCall(u)
BY KernelParts DEF ControlOK, Moves, SameCall

\* A step that only wakes up threads, besides moving t.
LEMMA WakesOthers ==
  ASSUME KernelInv, NEW t \in Threads, NEW l, NEW f, Moves(t, l, f), Wakes
  PROVE  Others(t)
BY MovesFacts DEF Others, Drifts, Wakes, OnCpu

\* What a thread sleeps for does not change while it does.
LEMMA SleepKept ==
  ASSUME NEW u \in Threads, SleepOK(u), Drifts(u)
  PROVE  SleepOK(u)'
<1>1. CASE SameFields(u)
  BY <1>1 DEF Drifts, SameCall, SameFields, SleepOK, Dead
<1>2. CASE state[u] \in OnCpu \cup Waiting /\ state'[u] \in OnCpu
  BY <1>2 DEF Drifts, SameCall, SleepOK, Dead, OnCpu, Waiting
<1>3. CASE state[u] = "EXITED" /\ state'[u] = "FINISHED"
  BY <1>3 DEF Drifts, SameCall, SleepOK, Dead
<1> QED BY <1>1, <1>2, <1>3 DEF Drifts

\* Nor does a thread that is about to look at a mutex forget it.
LEMMA RetriesKept ==
  ASSUME NEW u \in Threads, NEW m, Retries(u, m), Drifts(u)
  PROVE  Retries(u, m)'
BY DEF Drifts, SameCall, SameFields, Retries, OnCpu

\* No mutex changes hands; t moves, and does not give up a mutex it is offered.
LEMMA LocksKept ==
  ASSUME LocksInv, NEW t, running = t \/ cpu # "lock", UNCHANGED <<owner, list, mutex_list>>, Others(t),
         t \in Threads => /\ SleepOK(t)' /\ OfferOK(t)'
                         /\ CallOK(t, pc'[t], fr'[t], Held(t), mutex_list[t])
                         /\ \A m : Retries(t, m) => owner[m] # None \/ Retries(t, m)'
  PROVE  LocksInv'
<1>1. \A u \in Threads : u # t => SleepOK(u)'
  BY SleepKept DEF LocksInv, Others
<1>2. \A u \in Threads : Held(u)' = Held(u) /\ ListOf(list, mutex_list[u], Held(u))'
  BY DEF LocksInv, ListOf, IsTop, Below, Held
<1>3. \A u \in Threads : u # t => pc'[u] = pc[u] /\ fr'[u] = fr[u]
  BY DEF Others, Drifts, SameCall
<1>4. \A u \in Threads : CallOK(u, pc'[u], fr'[u], Held(u)', mutex_list'[u])
  BY <1>2, <1>3 DEF LocksInv
<1>5. ASSUME NEW u \in Threads, u # t PROVE OfferOK(u)'
  <2>1. OfferOK(u) /\ pc'[u] = pc[u] /\ fr'[u] = fr[u] /\ pc[u] # "mtx_pi"
    BY <1>3, <1>5 DEF LocksInv, OfferOK
  <2>2. ASSUME NEW m, m = fr[u].mtx, state'[u] = "WAIT_MTX", owner'[m] = None
        PROVE  \E w \in Threads : Retries(w, m)'
    <3>1. state[u] = "WAIT_MTX" /\ owner[fr[u].mtx] = None
      BY <1>5, <2>1, <2>2 DEF Others, Drifts, SameFields, OnCpu
    <3>2. PICK w \in Threads : Retries(w, m)
      BY <2>1, <2>2, <3>1 DEF OfferOK
    <3>3. CASE w = t
      BY <2>2, <3>1, <3>2, <3>3
    <3>4. CASE w # t
      BY <3>2, <3>4, RetriesKept DEF Others
    <3> QED BY <3>3, <3>4
  <2> QED BY <2>1, <2>2 DEF OfferOK, Retries
<1>6. LocksInv' <=> /\ \A u \in Threads : SleepOK(u)'
                    /\ \A u \in Threads : ListOf(list, mutex_list[u], Held(u))'
                    /\ \A u \in Threads : CallOK(u, pc'[u], fr'[u], Held(u)', mutex_list'[u])
                    /\ \A u \in Threads : OfferOK(u)'
  BY DEF LocksInv, CallOK, Polling, Hooked, Above
<1> QED BY <1>1, <1>2, <1>4, <1>5, <1>6

\* A thread that runs on, and at most wakes up others, with the mutexes as they are.
LEMMA RunsOnLocks ==
  ASSUME KernelInv, LocksInv, NEW t \in Threads, state[t] = "RUNNING", pc[t] # "mtx_lock",
         UNCHANGED mutexVars, Wakes, NEW l, NEW f, Moves(t, l, f), l \notin {"none", "dead", "mtx_pi"},
         CallOK(t, l, f, Held(t), mutex_list[t])
  PROVE  LocksInv'
<1>1. Others(t) /\ pc'[t] = l /\ fr'[t] = f
  BY MovesFacts, WakesOthers
<1>2. state'[t] = "RUNNING"
  BY DEF Wakes, SameFields, Waiting
<1>3. SleepOK(t)' /\ OfferOK(t)'
  BY <1>1, <1>2 DEF SleepOK, OfferOK, Dead
<1>4. \A m : ~Retries(t, m)
  BY DEF Retries
<1>5. running = t
  BY KernelParts DEF ProcessorOK
<1> QED BY <1>1, <1>3, <1>4, <1>5, LocksKept DEF mutexVars

\* The labels at which a thread relies on nothing about its mutexes.
FreeLabels == {"user", "usleep", "snooze", "snoozed", "join", "join_pi", "join_woken", "fatal",
               "exit", "handlers", "cond_relocked", "bcast"}
\* At the labels where nothing is relied on, CallOK holds of any locals.
LEMMA FreeCallOK ==
  ASSUME NEW t, NEW l \in FreeLabels, NEW f, NEW S, NEW x
  PROVE  CallOK(t, l, f, S, x)
BY DEF FreeLabels, CallOK, Polling, Hooked, PollLabels

\* A step that touches neither queues nor states wakes up nobody.
LEMMA QuietWakes ==
  ASSUME UNCHANGED queueVars
  PROVE  Wakes
BY DEF queueVars, Wakes, SameFields

\* A thread that runs on at such a label.
LEMMA RunsFreeLocks ==
  ASSUME KernelInv, LocksInv, NEW t \in Threads, state[t] = "RUNNING", pc[t] # "mtx_lock",
         UNCHANGED mutexVars, Wakes, NEW l \in FreeLabels, NEW f, Moves(t, l, f)
  PROVE  LocksInv'
BY FreeCallOK, RunsOnLocks DEF FreeLabels

\* A thread's own part of the invariant.
LEMMA LocksOf ==
  ASSUME LocksInv, NEW t \in Threads
  PROVE  /\ SleepOK(t) /\ OfferOK(t)
         /\ ListOf(list, mutex_list[t], Held(t))
         /\ CallOK(t, pc[t], fr[t], Held(t), mutex_list[t])
BY DEF LocksInv

-----------------------------------------------------------------------------
(* chopstx_mutex_lock.                                                       *)

\* chopstx_mutex_lock is called where the mutex comes after all those held.
LEMMA LockCallLocks ==
  ASSUME KernelInv, LocksInv, NEW t \in Threads, NEW m \in Mutexes, LockCall(t, m)
  PROVE  LocksInv'
<1> DEFINE f == [fr[t] EXCEPT !.mtx = m, !.then = "user"]
<1>1. /\ state[t] = "RUNNING" /\ pc[t] = "user" /\ UNCHANGED <<queueVars, mutexVars>>
      /\ Moves(t, "mtx_lock", f) /\ f.mtx = m /\ f.then = "user"
  BY RunsFacts, ThreadFacts, SMTT(60), ZenonT(60) DEF LockCall, Calls, Goto, Moves, Frame
<1>2. Above(m, Held(t))
  BY DEF LockCall, Held, Above
<1>3. CallOK(t, "mtx_lock", f, Held(t), mutex_list[t])
  BY <1>1, <1>2 DEF CallOK, Polling, Hooked, PollLabels
<1> QED BY <1>1, <1>3, RunsOnLocks, QuietWakes

\* The mutex is held by another thread: inheritance is what comes next.
LEMMA LockHeldLocks ==
  ASSUME KernelInv, LocksInv, NEW t \in Threads, LockHeld(t)
  PROVE  LocksInv'
<1> DEFINE m == fr[t].mtx
           f == [fr[t] EXCEPT !.tp0 = owner[m]]
<1>1. /\ state[t] = "RUNNING" /\ pc[t] = "mtx_lock" /\ UNCHANGED <<queueVars, mutexVars>>
      /\ Moves(t, "mtx_pi", f) /\ f.mtx = m /\ f.then = fr[t].then /\ f.idx = fr[t].idx
      /\ owner[m] # None /\ running = t /\ running' = t /\ cpu' = "lock"
  BY RunsFacts, ThreadFacts DEF LockHeld, Goto, Moves, Frame
<1>2. CallOK(t, "mtx_pi", f, Held(t), mutex_list[t])
  BY <1>1, LocksOf DEF CallOK, Polling, Hooked, PollLabels
<1>3. Others(t) /\ pc'[t] = "mtx_pi" /\ fr'[t] = f
  BY <1>1, MovesFacts, WakesOthers, QuietWakes
<1>4. SleepOK(t)' /\ OfferOK(t)'
  BY <1>1, <1>3 DEF SleepOK, OfferOK, Dead, queueVars, mutexVars
<1>5. \A n : Retries(t, n) => owner[n] # None
  BY <1>1 DEF Retries
<1> QED BY <1>1, <1>2, <1>3, <1>4, <1>5, LocksKept DEF mutexVars

\* The owner gets the priority, and the processor stays locked.
LEMMA LockInheritLocks ==
  ASSUME KernelInv, LocksInv, NEW t \in Threads, LockInherit(t)
  PROVE  LocksInv'
<1> DEFINE x == fr[t].tp0
<1>1. /\ state[t] = "RUNNING" /\ pc[t] = "mtx_pi" /\ UNCHANGED mutexVars /\ x \in Threads
      /\ running = t /\ running' = t /\ cpu' = "lock"
  BY LockedFacts, ThreadFacts DEF LockInherit, Inherits, Frame, cpuVars
<1>2. Wakes
  BY <1>1, KernelParts DEF LockInherit, Wakes, SameFields, Waiting, Linkage
<1>3. \E y : Moves(t, "mtx_pi", [fr[t] EXCEPT !.tp0 = y])
  BY <1>1, ThreadFacts DEF LockInherit, Moves
<1>4. PICK y : Moves(t, "mtx_pi", [fr[t] EXCEPT !.tp0 = y])
  BY <1>3
<1> DEFINE f == [fr[t] EXCEPT !.tp0 = y]
<1>5. f.mtx = fr[t].mtx /\ f.then = fr[t].then /\ f.idx = fr[t].idx
  BY ThreadFacts DEF Frame
<1>6. Others(t) /\ pc'[t] = "mtx_pi" /\ fr'[t] = f
  BY <1>2, <1>4, MovesFacts, WakesOthers
<1>7. CallOK(t, "mtx_pi", f, Held(t), mutex_list[t])
  BY <1>1, <1>5, LocksOf DEF CallOK, Polling, Hooked, PollLabels
<1>8. state'[t] = "RUNNING"
  BY <1>1, <1>2 DEF Wakes, SameFields, Waiting
<1>9. SleepOK(t)' /\ OfferOK(t)'
  BY <1>1, <1>5, <1>6, <1>8, LocksOf DEF SleepOK, OfferOK, Dead, mutexVars
<1>a. \A n : ~Retries(t, n)
  BY <1>1 DEF Retries
<1> QED BY <1>1, <1>6, <1>7, <1>9, <1>a, LocksKept DEF mutexVars

\* The thread goes to sleep in the queue of a mutex that is held.
LEMMA LockBlockLocks ==
  ASSUME KernelInv, LocksInv, NEW t \in Threads, LockBlock(t)
  PROVE  LocksInv'
<1> DEFINE m == fr[t].mtx
           f == [fr[t] EXCEPT !.tp0 = None]
<1>1. /\ pc[t] = "mtx_pi" /\ UNCHANGED mutexVars /\ Moves(t, "mtx_lock", f)
      /\ f.mtx = m /\ f.then = fr[t].then /\ f.idx = fr[t].idx
      /\ state' = [state EXCEPT ![t] = "WAIT_MTX"] /\ parent' = [parent EXCEPT ![t] = m]
      /\ running = t /\ \A u \in Threads : u # t => v'[u] = v[u]
  BY LockedFacts, ThreadFacts DEF LockBlock, Goto, Moves, Frame
<1>2. pc'[t] = "mtx_lock" /\ fr'[t] = f /\ Others(t)
  BY <1>1, MovesFacts DEF Others, Drifts, SameFields
<1>3. state'[t] = "WAIT_MTX" /\ parent'[t] = m /\ owner[m] # None
  BY <1>1, KernelParts, LocksOf DEF Linkage, OfferOK
<1>4. SleepOK(t)' /\ OfferOK(t)'
  BY <1>1, <1>2, <1>3 DEF SleepOK, OfferOK, Dead, mutexVars
<1>5. CallOK(t, "mtx_lock", f, Held(t), mutex_list[t])
  BY <1>1, LocksOf DEF CallOK, Polling, Hooked, PollLabels
<1>6. \A n : ~Retries(t, n)
  BY <1>1 DEF Retries
<1> QED BY <1>1, <1>2, <1>4, <1>5, <1>6, LocksKept DEF mutexVars

\* The mutex locked last goes to the head of the list ...
LEMMA AcquireList ==
  ASSUME NEW S \in SUBSET Mutexes, NEW x, NEW ls, DOMAIN ls = Mutexes, ListOf(ls, x, S),
         NEW m \in Mutexes, Above(m, S)
  PROVE  ListOf([ls EXCEPT ![m] = x], m, S \cup {m})
<1> DEFINE ls1 == [ls EXCEPT ![m] = x]
<1>1. LockRank \in [Mutexes -> Nat]
  BY ConstantsAssumption
<1>2. m \notin S /\ \A n \in S : LockRank[n] < LockRank[m]
  BY <1>1 DEF Above
<1>3. ls1[m] = x /\ \A n \in S : ls1[n] = ls[n]
  BY <1>2
<1>4. Below(m, S \cup {m}) = S /\ \A n \in S : Below(n, S \cup {m}) = Below(n, S)
  BY <1>1, <1>2 DEF Below
<1>5. \A n1, n2 \in S \cup {m} : LockRank[n1] = LockRank[n2] => n1 = n2
  BY <1>1, <1>2 DEF ListOf
<1>6. IsTop(m, S \cup {m})
  BY <1>2 DEF IsTop
<1>7. \A n \in S \cup {m} : IsTop(ls1[n], Below(n, S \cup {m}))
  BY <1>3, <1>4 DEF ListOf
<1> QED BY <1>5, <1>6, <1>7 DEF ListOf

\* ... and is popped from there.
LEMMA ReleaseList ==
  ASSUME NEW S \in SUBSET Mutexes, NEW x \in Mutexes, NEW ls, DOMAIN ls = Mutexes, ListOf(ls, x, S)
  PROVE  /\ ListOf(ls, ls[x], S \ {x}) /\ ListOf([ls EXCEPT ![x] = None], ls[x], S \ {x})
         /\ Above(x, S \ {x}) /\ x \in S
<1> DEFINE ls1 == [ls EXCEPT ![x] = None]
<1>1. LockRank \in [Mutexes -> Nat] /\ None \notin Mutexes
  BY ConstantsAssumption, AddressAssumption DEF Objects
<1>2. x \in S /\ \A n \in S : n # x => LockRank[n] < LockRank[x]
  BY <1>1 DEF ListOf, IsTop
<1>3. Below(x, S) = S \ {x} /\ \A n \in S \ {x} : Below(n, S \ {x}) = Below(n, S) /\ ls1[n] = ls[n]
  BY <1>1, <1>2 DEF Below
<1>4. IsTop(ls[x], S \ {x}) /\ \A n \in S \ {x} : IsTop(ls[n], Below(n, S \ {x}))
  BY <1>2, <1>3 DEF ListOf
<1> QED BY <1>2, <1>3, <1>4 DEF ListOf, Above

\* Mutexes change hands, but those of the other threads do not.
LEMMA LocksChange ==
  ASSUME LocksInv, NEW t \in Threads, Others(t),
         \A u \in Threads : u # t => /\ Held(u)' = Held(u) /\ mutex_list'[u] = mutex_list[u]
                                    /\ \A m \in Held(u) : list'[m] = list[m],
         SleepOK(t)', \A u \in Threads : OfferOK(u)',
         ListOf(list, mutex_list[t], Held(t))', CallOK(t, pc'[t], fr'[t], Held(t)', mutex_list'[t])
  PROVE  LocksInv'
<1>1. \A u \in Threads : SleepOK(u)'
  BY SleepKept DEF LocksInv, Others
<1>2. ASSUME NEW u \in Threads, u # t
      PROVE  /\ ListOf(list', mutex_list'[u], Held(u)')
             /\ CallOK(u, pc'[u], fr'[u], Held(u)', mutex_list'[u])
  <2>1. /\ ListOf(list, mutex_list[u], Held(u))
        /\ CallOK(u, pc[u], fr[u], Held(u), mutex_list[u])
    BY LocksOf
  <2>2. Held(u)' = Held(u) /\ mutex_list'[u] = mutex_list[u] /\ pc'[u] = pc[u] /\ fr'[u] = fr[u]
    BY <1>2 DEF Others, Drifts, SameCall
  <2>3. \A m \in Held(u) : list'[m] = list[m]
    BY <1>2
  <2> QED BY <2>1, <2>2, <2>3 DEF ListOf
<1>3. LocksInv' <=> /\ \A u \in Threads : SleepOK(u)'
                    /\ \A u \in Threads : ListOf(list', mutex_list'[u], Held(u)')
                    /\ \A u \in Threads : CallOK(u, pc'[u], fr'[u], Held(u)', mutex_list'[u])
                    /\ \A u \in Threads : OfferOK(u)'
  BY DEF LocksInv, CallOK, Polling, Hooked, Above, ListOf, IsTop, Below
<1>4. ListOf(list', mutex_list'[t], Held(t)')
  BY DEF ListOf, IsTop, Below
<1> QED BY <1>1, <1>2, <1>3, <1>4

\* The mutex is acquired: whoever else waits for it, it is held now.
LEMMA LockAcquireLocks ==
  ASSUME KernelInv, LocksInv, NEW t \in Threads, LockAcquire(t)
  PROVE  LocksInv'
<1> DEFINE m == fr[t].mtx
           l == fr[t].then
           f == [fr[t] EXCEPT !.mtx = None, !.then = "user"]
           S == Held(t)
<1>1. /\ running = t /\ state[t] = "RUNNING" /\ pc[t] = "mtx_lock" /\ FrameOK(t, "mtx_lock", fr[t])
      /\ fr[t] \in Frame /\ ResourceTypes
  BY RunsFacts, ThreadFacts DEF LockAcquire
<1>2. /\ m \in Mutexes /\ l \in {"user", "cond_relocked", "hook_check"}
      /\ f.mtx = None /\ f.then = "user" /\ f.idx = fr[t].idx
  BY <1>1 DEF FrameOK, Frame
<1>3. /\ owner[m] = None /\ owner' = [owner EXCEPT ![m] = t] /\ list' = [list EXCEPT ![m] = mutex_list[t]]
      /\ mutex_list' = [mutex_list EXCEPT ![t] = m] /\ Moves(t, l, f) /\ UNCHANGED queueVars
  BY DEF LockAcquire, Goto, Moves
<1>4. pc'[t] = l /\ fr'[t] = f /\ Others(t) /\ state'[t] = "RUNNING"
  BY <1>1, <1>3, MovesFacts, QuietWakes, WakesOthers DEF queueVars
<1>5. t # None /\ None \notin Mutexes
  BY AddressAssumption DEF Nodes, Objects
<1>6. S \in SUBSET Mutexes /\ m \notin S /\ Held(t)' = S \cup {m} /\ mutex_list'[t] = m
  BY <1>1, <1>2, <1>3, <1>5 DEF Held, ResourceTypes
<1>7. \A u \in Threads : u # t => /\ Held(u)' = Held(u) /\ mutex_list'[u] = mutex_list[u]
                                 /\ \A n \in Held(u) : list'[n] = list[n]
  <2>1. ASSUME NEW u \in Threads, u # t PROVE u # None /\ m \notin Held(u)
    BY <1>3, AddressAssumption DEF Held, Nodes
  <2>2. ASSUME NEW u \in Threads, u # t PROVE Held(u)' = Held(u) /\ mutex_list'[u] = mutex_list[u]
    BY <1>1, <1>2, <1>3, <2>1, <2>2 DEF Held, ResourceTypes
  <2> QED BY <1>1, <1>2, <1>3, <2>1, <2>2 DEF ResourceTypes
<1>8. ListOf(list, mutex_list[t], S) /\ CallOK(t, "mtx_lock", fr[t], S, mutex_list[t])
  BY <1>1, LocksOf
<1>9. Above(m, S)
  BY <1>8 DEF CallOK
<1>a. ListOf(list', m, S \cup {m})
  <2>1. DOMAIN list = Mutexes
    BY <1>1 DEF ResourceTypes
  <2> HIDE DEF S, m
  <2> QED BY <1>2, <1>3, <1>6, <1>8, <1>9, <2>1, AcquireList
<1>b. CallOK(t, l, f, S \cup {m}, m)
  <2>1. CASE l # "hook_check"
    BY <1>2, <2>1, FreeCallOK DEF FreeLabels
  <2>2. CASE l = "hook_check"
    <3> DEFINE p == PollArray[t][fr[t].idx]
    <3>1. /\ m = PdMutex[p] /\ PdKind[p] = "cond"
          /\ \A p1 \in ToSet(PollArray[t]) : PdMutex[p1] # None => Above(PdMutex[p1], S)
      BY <1>8, <2>2 DEF CallOK, Polling, Hooked, PollLabels
    <3>2. (S \cup {m}) \ {PdMutex[p]} = S
      BY <1>6, <3>1
    <3>3. f.idx = fr[t].idx
      BY <1>2
    <3> HIDE DEF f, m, S
    <3> QED BY <2>2, <3>1, <3>2, <3>3 DEF CallOK, Polling, Hooked, PollLabels
  <2> QED BY <2>1, <2>2
<1>c. SleepOK(t)'
  BY <1>2, <1>4 DEF SleepOK, Dead
<1>d. ASSUME NEW u \in Threads PROVE OfferOK(u)'
  <2>1. CASE u = t
    BY <1>2, <1>4, <2>1 DEF OfferOK
  <2>2. CASE u # t
    <3>1. pc'[u] = pc[u] /\ fr'[u] = fr[u] /\ state'[u] = state[u] /\ OfferOK(u)
      BY <1>3, <1>4, <2>2, LocksOf DEF Others, Drifts, SameCall, queueVars
    <3>2. \A n : owner'[n] = None => owner[n] = None /\ n # m
      BY <1>1, <1>2, <1>3, <1>5 DEF ResourceTypes
    <3>3. ASSUME NEW n, n = fr[u].mtx, state[u] = "WAIT_MTX", owner'[n] = None
          PROVE  \E w \in Threads : Retries(w, n)'
      <4>1. PICK w \in Threads : Retries(w, n)
        BY <3>1, <3>2, <3>3 DEF OfferOK
      <4>2. w # t
        BY <3>2, <3>3, <4>1 DEF Retries
      <4> QED BY <1>4, <4>1, <4>2, RetriesKept DEF Others
    <3>4. pc[u] # "mtx_pi"
      BY <1>1, <2>2, <3>1 DEF OfferOK
    <3> QED BY <3>1, <3>3, <3>4 DEF OfferOK, Retries
  <2> QED BY <2>1, <2>2
<1>e. ListOf(list, mutex_list[t], Held(t))' /\ CallOK(t, pc'[t], fr'[t], Held(t)', mutex_list'[t])
  <2>1. ListOf(list', mutex_list'[t], Held(t)')
    BY <1>6, <1>a
  <2>2. CallOK(t, pc'[t], fr'[t], Held(t)', mutex_list'[t])
    BY <1>4, <1>6, <1>b
  <2> QED BY <2>1, <2>2 DEF ListOf, IsTop, Below
<1> QED BY <1>4, <1>7, <1>c, <1>d, <1>e, LocksChange

-----------------------------------------------------------------------------
(* chx_mutex_unlock.                                                         *)

\* The first waiter of the mutex is woken up, to look at the mutex again.
LEMMA ReleaseWakes ==
  ASSUME KernelInv, LocksInv, NEW t \in Threads, NEW m \in Mutexes, MutexRelease(t, m)
  PROVE  /\ Wakes
         /\ q[m] # << >> => /\ Head(q[m]) \in Threads /\ state'[Head(q[m])] = "READY"
                            /\ fr[Head(q[m])].mtx = m /\ pc[Head(q[m])] = "mtx_lock"
<1>1. Linkage(q, state, parent, v) /\ state \in [Threads -> States] /\ m \in Queues
  BY KernelParts DEF Linkage, Queues, Objects
<1>2. CASE q[m] = << >>
  BY <1>2, QuietWakes DEF MutexRelease
<1>3. CASE q[m] # << >>
  <2>1. PICK w : w = Head(q[m])
    OBVIOUS
  <2>2. w \in Threads /\ state[w] = "WAIT_MTX" /\ Places(w, state[w], parent[w]) = {m}
    BY <1>1, <1>3, <2>1, MutexHead
  <2>3. parent[w] = m
    BY <2>2 DEF Places
  <2>4. fr[w].mtx = m /\ pc[w] = "mtx_lock"
    BY <2>2, <2>3, LocksOf DEF SleepOK
  <2>5. /\ state' = [state EXCEPT ![w] = "READY"] /\ parent' = [parent EXCEPT ![w] = "ready"]
        /\ v' = [v EXCEPT ![w] = 0]
    BY <1>3, <2>1 DEF MutexRelease, MakeReady
  <2>6. Wakes /\ state'[w] = "READY"
    BY <1>1, <2>2, <2>5 DEF Wakes, SameFields, Waiting
  <2> QED BY <2>1, <2>2, <2>4, <2>6
<1> QED BY <1>2, <1>3

\* A mutex that is waited for after it was released is on offer: to its first waiter, which
\* has been woken up.
LEMMA ReleaseOffers ==
  ASSUME KernelInv, LocksInv, NEW t \in Threads, state[t] = "RUNNING", pc[t] # "mtx_lock",
         NEW m \in Mutexes, owner[m] = t, MutexRelease(t, m), Others(t),
         pc'[t] # "mtx_pi", state'[t] = "RUNNING"
  PROVE  \A u \in Threads : OfferOK(u)'
<1>1. running = t /\ Linkage(q, state, parent, v) /\ ResourceTypes
  BY KernelParts DEF ProcessorOK
<1>2. /\ q[m] # << >> => /\ Head(q[m]) \in Threads /\ state'[Head(q[m])] = "READY"
                         /\ fr[Head(q[m])].mtx = m /\ pc[Head(q[m])] = "mtx_lock"
      /\ owner' = [owner EXCEPT ![m] = None]
  <2>1. owner' = [owner EXCEPT ![m] = None]
    BY DEF MutexRelease
  <2> QED BY <2>1, ReleaseWakes
<1>3. ASSUME NEW u \in Threads, u # t PROVE OfferOK(u)'
  <2>1. OfferOK(u) /\ SleepOK(u) /\ pc'[u] = pc[u] /\ fr'[u] = fr[u] /\ pc[u] # "mtx_pi"
    BY <1>1, <1>3, LocksOf DEF Others, Drifts, SameCall, OfferOK
  <2>2. ASSUME NEW n, n = fr[u].mtx, state'[u] = "WAIT_MTX", owner'[n] = None
        PROVE  \E w \in Threads : Retries(w, n)'
    <3>1. state[u] = "WAIT_MTX"
      BY <1>3, <2>2 DEF Others, Drifts, SameFields, OnCpu
    <3>2. CASE n # m
      <4>1. n \in Mutexes /\ owner[n] = None
        <5>1. n \in Mutexes
          BY <1>1, <2>1, <2>2, <3>1 DEF SleepOK, Linkage, StateOK
        <5> QED BY <1>1, <1>2, <2>2, <3>2, <5>1 DEF ResourceTypes
      <4>2. PICK w \in Threads : Retries(w, n)
        BY <2>1, <2>2, <3>1, <4>1 DEF OfferOK
      <4>3. w # t
        BY <4>2 DEF Retries
      <4> QED BY <4>2, <4>3, RetriesKept DEF Others
    <3>3. CASE n = m
      <4>1. parent[u] = m /\ u \in Threads /\ Where(q, u) = {m}
        <5>1. parent[u] = m
          BY <2>1, <2>2, <3>1, <3>3 DEF SleepOK
        <5> QED BY <1>1, <3>1, <5>1 DEF Linkage, Places
      <4>2. q[m] # << >>
        BY <4>1 DEF Where, ToSet
      <4>3. PICK w \in Threads : w = Head(q[m]) /\ state'[w] = "READY" /\ fr[w].mtx = m /\ pc[w] = "mtx_lock"
        BY <1>2, <4>2
      <4>4. w # t
        BY <4>3
      <4>5. pc'[w] = pc[w] /\ fr'[w] = fr[w]
        BY <4>3, <4>4 DEF Others, Drifts, SameCall
      <4> QED BY <3>3, <4>3, <4>5 DEF Retries
    <3> QED BY <3>2, <3>3
  <2> QED BY <2>1, <2>2 DEF OfferOK, Retries
<1>4. OfferOK(t)'
  BY DEF OfferOK
<1> QED BY <1>3, <1>4

\* The thread gives up the mutex it has locked last, and runs on.
LEMMA ReleaseStepLocks ==
  ASSUME KernelInv, LocksInv, NEW t \in Threads, state[t] = "RUNNING", pc[t] # "mtx_lock",
         NEW m \in Mutexes, m = mutex_list[t], MutexRelease(t, m),
         NEW l, NEW f, Moves(t, l, f), l \notin {"none", "dead", "mtx_pi"},
         CallOK(t, l, f, Held(t) \ {m}, list[m])
  PROVE  LocksInv'
<1>1. Wakes
  BY ReleaseWakes
<1>2. Others(t) /\ pc'[t] = l /\ fr'[t] = f
  BY <1>1, MovesFacts, WakesOthers
<1>3. state'[t] = "RUNNING"
  BY <1>1 DEF Wakes, SameFields, Waiting
<1>4. SleepOK(t)'
  BY <1>2, <1>3 DEF SleepOK, Dead
<1>5. /\ ResourceTypes /\ owner' = [owner EXCEPT ![m] = None]
      /\ mutex_list' = [mutex_list EXCEPT ![t] = list[m]] /\ list' = [list EXCEPT ![m] = None]
  BY KernelParts DEF MutexRelease
<1>6. ListOf(list, m, Held(t))
  BY LocksOf
<1>7. DOMAIN list = Mutexes /\ Held(t) \in SUBSET Mutexes
  BY <1>5 DEF ResourceTypes, Held
<1>8. m \in Held(t) /\ ListOf(list', list[m], Held(t) \ {m})
  <2>1. PICK S : S = Held(t)
    OBVIOUS
  <2>2. S \in SUBSET Mutexes /\ ListOf(list, m, S) /\ DOMAIN list = Mutexes
    BY <1>6, <1>7, <2>1
  <2>3. m \in S /\ ListOf([list EXCEPT ![m] = None], list[m], S \ {m})
    BY ONLY <2>2, ReleaseList, m \in Mutexes
  <2> QED BY <1>5, <2>1, <2>3
<1>9. owner[m] = t
  BY <1>8 DEF Held
<1>a. Held(t)' = Held(t) \ {m} /\ mutex_list'[t] = list[m]
  BY <1>5, AddressAssumption DEF Held, ResourceTypes, Nodes
<1>b. \A u \in Threads : u # t => /\ Held(u)' = Held(u) /\ mutex_list'[u] = mutex_list[u]
                                 /\ \A n \in Held(u) : list'[n] = list[n]
  <2>1. ASSUME NEW u \in Threads, u # t PROVE u # None /\ m \notin Held(u)
    BY <1>9, <2>1, AddressAssumption DEF Held, Nodes
  <2>2. ASSUME NEW u \in Threads, u # t PROVE Held(u)' = Held(u) /\ mutex_list'[u] = mutex_list[u]
    BY <1>5, <2>1, <2>2 DEF Held, ResourceTypes
  <2> QED BY <1>5, <2>1, <2>2 DEF ResourceTypes
<1>c. \A u \in Threads : OfferOK(u)'
  BY <1>2, <1>3, <1>9, ReleaseOffers
<1>d. ListOf(list, mutex_list[t], Held(t))' /\ CallOK(t, pc'[t], fr'[t], Held(t)', mutex_list'[t])
  <2>1. ListOf(list', mutex_list'[t], Held(t)')
    BY <1>8, <1>a
  <2>2. CallOK(t, pc'[t], fr'[t], Held(t)', mutex_list'[t])
    BY <1>2, <1>a
  <2> QED BY <2>1, <2>2 DEF ListOf, IsTop, Below
<1> QED BY <1>2, <1>4, <1>b, <1>c, <1>d, LocksChange

\* chopstx_mutex_unlock.
LEMMA UnlockCallLocks ==
  ASSUME KernelInv, LocksInv, NEW t \in Threads, UnlockCall(t)
  PROVE  LocksInv'
<1>1. PICK m : m = mutex_list[t]
  OBVIOUS
<1>2. m \in Mutexes /\ MutexRelease(t, m)
  BY <1>1, ThreadFacts DEF UnlockCall, Unlock, ResourceTypes
<1>3. state[t] = "RUNNING" /\ pc[t] = "user" /\ Moves(t, "user", fr[t])
  BY RunsFacts, ThreadFacts DEF UnlockCall, Calls, Moves
<1>4. CallOK(t, "user", fr[t], Held(t) \ {m}, list[m])
  BY FreeCallOK DEF FreeLabels
<1> QED BY <1>1, <1>2, <1>3, <1>4, ReleaseStepLocks

\* The loop of chopstx_exit: the mutex after m on the list is the next one.
LEMMA ExitReleaseLocks ==
  ASSUME KernelInv, LocksInv, NEW t \in Threads, ExitRelease(t)
  PROVE  LocksInv'
<1>1. PICK m : m = fr[t].mtx
  OBVIOUS
<1> DEFINE f == [fr[t] EXCEPT !.mtx = list[m]]
<1>2. state[t] = "RUNNING" /\ pc[t] = "release" /\ m # None /\ MutexRelease(t, m)
  BY <1>1, RunsFacts DEF ExitRelease
<1>3. m = mutex_list[t] /\ m \in Mutexes
  BY <1>1, <1>2, LocksOf, ThreadFacts DEF CallOK, Frame
<1>4. Moves(t, "release", f) /\ f.mtx = list[m]
  BY <1>1, <1>2, ThreadFacts DEF ExitRelease, Moves, Frame
<1>5. CallOK(t, "release", f, Held(t) \ {m}, list[m])
  BY <1>4 DEF CallOK, Polling, Hooked, PollLabels
<1> QED BY <1>2, <1>3, <1>4, <1>5, ReleaseStepLocks

\* chopstx_cond_wait releases the mutex it will lock again, which comes after the others.
LEMMA WaitReleaseLocks ==
  ASSUME KernelInv, LocksInv, NEW t \in Threads, WaitRelease(t)
  PROVE  LocksInv'
<1>1. PICK m : m = fr[t].mtx
  OBVIOUS
<1>2. /\ state[t] = "RUNNING" /\ pc[t] = "cond_wait" /\ m = mutex_list[t] /\ m \in Mutexes \cup {None}
      /\ Moves(t, "cond_block", fr[t])
  BY <1>1, RunsFacts, LocksOf, ThreadFacts DEF WaitRelease, Goto, Moves, CallOK, Frame
<1>3. CASE m = None
  <2>1. UNCHANGED <<queueVars, mutexVars>>
    BY <1>1, <1>3 DEF WaitRelease
  <2>2. CallOK(t, "cond_block", fr[t], Held(t), mutex_list[t])
    BY <1>1, <1>3 DEF CallOK, Polling, Hooked, PollLabels
  <2> QED BY <1>2, <2>1, <2>2, QuietWakes, RunsOnLocks
<1>4. CASE m # None
  <2>1. MutexRelease(t, m)
    BY <1>1, <1>4 DEF WaitRelease
  <2>2. Above(m, Held(t) \ {m})
    <3>1. PICK S : S = Held(t)
      OBVIOUS
    <3>2. S \in SUBSET Mutexes /\ ListOf(list, m, S) /\ DOMAIN list = Mutexes /\ m \in Mutexes
      BY <1>2, <1>4, <3>1, LocksOf, KernelParts DEF Held, ResourceTypes
    <3> QED BY <3>1, <3>2, ReleaseList
  <2>3. CallOK(t, "cond_block", fr[t], Held(t) \ {m}, list[m])
    BY <1>1, <2>2 DEF CallOK, Polling, Hooked, PollLabels
  <2> QED BY <1>2, <1>4, <2>1, <2>3, ReleaseStepLocks
<1> QED BY <1>3, <1>4

\* The hook of a condition variable gives its mutex back.
LEMMA HookUnlockLocks ==
  ASSUME KernelInv, LocksInv, NEW t \in Threads, HookUnlock(t)
  PROVE  LocksInv'
<1>1. PICK p : p = PollArray[t][fr[t].idx]
  OBVIOUS
<1>2. PICK m : m = PdMutex[p]
  OBVIOUS
<1> DEFINE f == [fr[t] EXCEPT !.idx = @ + 1]
<1>3. state[t] = "RUNNING" /\ pc[t] = "hook_unlock" /\ FrameOK(t, "hook_unlock", fr[t])
  BY RunsFacts DEF HookUnlock
<1>4. Moves(t, "hook", f) /\ p = Pd(t)
  BY <1>1, <1>3 DEF HookUnlock, Goto, Moves, Pd
<1>5. p \in ToSet(PollArray[t]) /\ m \in Mutexes \cup {None}
  <2>1. fr[t].idx \in DOMAIN PollArray[t]
    BY <1>3 DEF FrameOK
  <2> QED BY <1>1, <1>2, <1>4, <2>1, PdFacts DEF ToSet
<1>6. CallOK(t, "hook_unlock", fr[t], Held(t), mutex_list[t])
  BY <1>3, LocksOf
<1>7. /\ PdKind[p] = "cond" /\ (m # None => mutex_list[t] = m)
      /\ \A p1 \in ToSet(PollArray[t]) : PdMutex[p1] # None => Above(PdMutex[p1], Held(t) \ {m})
  BY <1>1, <1>2, <1>6 DEF CallOK, Polling, Hooked, PollLabels
<1>8. CASE m = None
  <2>1. UNCHANGED <<queueVars, mutexVars>>
    BY <1>2, <1>4, <1>8 DEF HookUnlock
  <2>2. m \notin Held(t)
    BY <1>8, AddressAssumption DEF Held, Objects
  <2>3. CallOK(t, "hook", f, Held(t), mutex_list[t])
    BY <1>7, <2>2 DEF CallOK, Polling, Hooked, PollLabels, Above
  <2> HIDE DEF f
  <2> QED BY <1>3, <1>4, <2>1, <2>3, QuietWakes, RunsOnLocks
<1>9. CASE m # None
  <2>1. MutexRelease(t, m) /\ m = mutex_list[t] /\ m \in Mutexes
    BY <1>2, <1>4, <1>5, <1>7, <1>9 DEF HookUnlock, Unlock
  <2>2. CallOK(t, "hook", f, Held(t) \ {m}, list[m])
    BY <1>7 DEF CallOK, Polling, Hooked, PollLabels
  <2> HIDE DEF f
  <2> QED BY <1>3, <1>4, <2>1, <2>2, ReleaseStepLocks
<1> QED BY <1>8, <1>9

-----------------------------------------------------------------------------
(* Condition variables.                                                      *)

\* chx_wakeup only wakes up a thread that sleeps.
LEMMA WakeupWakes ==
  ASSUME KernelInv, NEW x \in Nodes, NEW Q, Wakeup(x, Q),
         x \in Threads => state[x] \in {"WAIT_CND", "WAIT_EXIT"}
  PROVE  Wakes
<1> DEFINE t == ThreadOf(x)
<1>1. /\ state \in [Threads -> States] /\ parent \in [Threads -> Queues \cup {None}]
      /\ v \in [Threads -> Threads \cup {-1, 0, 1}]
  BY KernelParts DEF Linkage
<1>2. t \in Threads /\ (x \in Threads => t = x /\ x \notin Pds)
  BY AddressAssumption DEF Master, ThreadOf, Nodes
<1>3. CASE x \in Pds /\ state[t] # "WAIT_POLL"
  BY <1>3 DEF Wakeup, Wakes, SameFields
<1>4. CASE ~(x \in Pds /\ state[t] # "WAIT_POLL")
  <2>1. state[t] \in Waiting
    BY <1>2, <1>4 DEF Waiting, Nodes
  <2>2. /\ state' = [state EXCEPT ![t] = "READY"] /\ parent' = [parent EXCEPT ![t] = "ready"]
        /\ \E w : v' = [v EXCEPT ![t] = w]
    BY <1>4 DEF Wakeup, MakeReady
  <2> HIDE DEF t
  <2> QED BY <1>1, <1>2, <2>1, <2>2 DEF Wakes, SameFields
<1> QED BY <1>3, <1>4

\* The first waiter of a condition variable, a thread or a proxy, is woken up.
LEMMA CondWakes ==
  ASSUME KernelInv, NEW c \in Conds, q[c] # << >>, Wakeup(Head(q[c]), [q EXCEPT ![c] = Tail(@)])
  PROVE  Wakes
<1>1. Linkage(q, state, parent, v) /\ ListsOK(q) /\ c \in Queues
  BY KernelParts DEF Linkage, Queues, Objects
<1>2. PICK x : x = Head(q[c])
  OBVIOUS
<1>3. x \in Nodes /\ c \in Where(q, x)
  BY <1>1, <1>2, PopLists
<1>4. x \in Threads => Places(x, state[x], parent[x]) = {c}
  BY <1>1, <1>3, LinkedPlace
<1>5. x \in Threads => state[x] = "WAIT_CND"
  BY <1>1, <1>4, StateOfPlace
<1>6. PICK Q : Wakeup(x, Q)
  BY <1>2
<1> QED BY <1>3, <1>5, <1>6, WakeupWakes

\* A thread that moves on inside chopstx_cond_wait, signals or broadcasts.
LEMMA CondLocks ==
  ASSUME KernelInv, LocksInv, NEW t \in Threads,
         \/ \E c \in Conds, m \in Mutexes \cup {None} : WaitCall(t, c, m)
         \/ \E c \in Conds : SignalCall(t, c) \/ BroadcastCall(t, c)
         \/ WaitWoken(t) \/ WaitReturn(t) \/ BroadcastWake(t) \/ BroadcastReturn(t)
  PROVE  LocksInv'
<1>1. CASE \E c \in Conds, m \in Mutexes \cup {None} : WaitCall(t, c, m)
  <2>1. PICK c \in Conds, m \in Mutexes \cup {None} : WaitCall(t, c, m)
    BY <1>1
  <2> DEFINE f == [fr[t] EXCEPT !.cnd = c, !.mtx = m]
  <2>4. fr[t] \in Frame /\ fr = [fr EXCEPT ![t] = fr[t]] /\ f.mtx = m
    BY ThreadFacts DEF Frame
  <2>5. state[t] = "RUNNING" /\ pc[t] = "user"
    BY <2>1, RunsFacts DEF WaitCall, Calls
  <2>6. Moves(t, "exit", fr[t]) \/ Moves(t, "cond_wait", f)
    <3>1. CASE Canceled(t)
      BY <2>1, <2>4, <3>1 DEF WaitCall, Goto, Moves
    <3>2. CASE ~Canceled(t)
      BY <2>1, <2>4, <3>2 DEF WaitCall, Goto, Moves
    <3> QED BY <3>1, <3>2
  <2>2. /\ state[t] = "RUNNING" /\ pc[t] = "user" /\ UNCHANGED <<queueVars, mutexVars>>
        /\ m = mutex_list[t] /\ f.mtx = m
        /\ (Moves(t, "exit", fr[t]) \/ Moves(t, "cond_wait", f))
    BY <2>1, <2>4, <2>5, <2>6 DEF WaitCall
  <2>3. CallOK(t, "cond_wait", f, Held(t), mutex_list[t])
    BY <2>2 DEF CallOK, Polling, Hooked, PollLabels
  <2> HIDE DEF f
  <2> QED BY <2>2, <2>3, QuietWakes, RunsOnLocks, RunsFreeLocks DEF FreeLabels
<1>2. CASE \E c \in Conds : SignalCall(t, c)
  <2>1. PICK c \in Conds : SignalCall(t, c)
    BY <1>2
  <2>2. state[t] = "RUNNING" /\ pc[t] = "user" /\ UNCHANGED mutexVars /\ Moves(t, "user", fr[t])
    BY <2>1, RunsFacts, ThreadFacts DEF SignalCall, Calls, Moves
  <2>3. Wakes
    BY <2>1, CondWakes, QuietWakes DEF SignalCall
  <2> QED BY <2>2, <2>3, RunsFreeLocks DEF FreeLabels
<1>3. CASE \E c \in Conds : BroadcastCall(t, c)
  <2>1. PICK c \in Conds : BroadcastCall(t, c)
    BY <1>3
  <2>2. /\ state[t] = "RUNNING" /\ pc[t] = "user" /\ UNCHANGED <<queueVars, mutexVars>>
        /\ Moves(t, "bcast", [fr[t] EXCEPT !.cnd = c, !.yield = FALSE])
    BY <2>1, RunsFacts DEF BroadcastCall, Calls, Goto, Moves
  <2> QED BY <2>2, QuietWakes, RunsFreeLocks DEF FreeLabels
<1>4. CASE WaitWoken(t)
  <2> DEFINE l == IF fr[t].mtx = None THEN "cond_relocked" ELSE "mtx_lock"
             th == IF fr[t].mtx = None THEN "user" ELSE "cond_relocked"
             f == [fr[t] EXCEPT !.r = v[t], !.cnd = None, !.then = th]
  <2>4. f.mtx = fr[t].mtx /\ f.then = th
    BY ThreadFacts DEF Frame
  <2>5. state[t] = "RUNNING" /\ pc[t] = "cond_woken"
    BY <1>4, RunsFacts DEF WaitWoken
  <2>6. Moves(t, l, f)
    BY <1>4 DEF WaitWoken, Goto, Moves
  <2>1. /\ state[t] = "RUNNING" /\ pc[t] = "cond_woken" /\ UNCHANGED <<queueVars, mutexVars>>
        /\ Moves(t, l, f) /\ f.mtx = fr[t].mtx /\ f.then = th
    BY <1>4, <2>4, <2>5, <2>6 DEF WaitWoken
  <2>2. CASE fr[t].mtx = None
    BY <2>1, <2>2, QuietWakes, RunsFreeLocks DEF FreeLabels
  <2>3. CASE fr[t].mtx # None
    <3>1. Above(fr[t].mtx, Held(t))
      BY <2>1, <2>3, LocksOf DEF CallOK
    <3>2. CallOK(t, "mtx_lock", f, Held(t), mutex_list[t])
      BY <2>1, <2>3, <3>1 DEF CallOK, Polling, Hooked, PollLabels
    <3>3. Moves(t, "mtx_lock", f)
      BY <2>1, <2>3
    <3> HIDE DEF f
    <3> QED BY <2>1, <3>2, <3>3, QuietWakes, RunsOnLocks
  <2> QED BY <2>2, <2>3
<1>5. CASE WaitReturn(t)
  <2>1. /\ state[t] = "RUNNING" /\ pc[t] = "cond_relocked" /\ UNCHANGED <<queueVars, mutexVars>>
        /\ \E l \in {"exit", "user"} : Moves(t, l, NoFrame)
    BY <1>5, RunsFacts DEF WaitReturn, Goto, Moves
  <2> QED BY <2>1, QuietWakes, RunsFreeLocks DEF FreeLabels
<1>6. CASE BroadcastWake(t)
  <2>1. PICK c : c = fr[t].cnd
    OBVIOUS
  <2>2. state[t] = "RUNNING" /\ pc[t] = "bcast" /\ UNCHANGED mutexVars /\ c \in Conds
    BY <1>6, <2>1, LockedFacts DEF BroadcastWake, FrameOK
  <2>3. \E y : Moves(t, "bcast", [fr[t] EXCEPT !.yield = y])
    BY <1>6, <2>2, ThreadFacts DEF BroadcastWake, Moves
  <2>4. q[c] # << >> /\ Wakeup(Head(q[c]), [q EXCEPT ![c] = Tail(@)])
    BY <1>6, <2>1 DEF BroadcastWake
  <2>5. Wakes
    BY <2>2, <2>4, CondWakes
  <2> QED BY <2>2, <2>3, <2>5, RunsFreeLocks DEF FreeLabels
<1>7. CASE BroadcastReturn(t)
  <2>1. /\ state[t] = "RUNNING" /\ pc[t] = "bcast" /\ UNCHANGED <<queueVars, mutexVars>>
        /\ Moves(t, "user", NoFrame)
    BY <1>7, LockedFacts DEF BroadcastReturn, Goto, Moves
  <2> QED BY <2>1, QuietWakes, RunsFreeLocks DEF FreeLabels
<1> QED BY <1>1, <1>2, <1>3, <1>4, <1>5, <1>6, <1>7

\* The waiter goes to sleep; the mutex it will lock again comes after those it holds.
LEMMA WaitBlockLocks ==
  ASSUME KernelInv, LocksInv, NEW t \in Threads, WaitBlock(t)
  PROVE  LocksInv'
<1>1. /\ pc[t] = "cond_block" /\ UNCHANGED mutexVars /\ Moves(t, "cond_woken", fr[t])
      /\ state' = [state EXCEPT ![t] = "WAIT_CND"] /\ running = t
      /\ \A u \in Threads : u # t => parent'[u] = parent[u] /\ v'[u] = v[u]
  BY LockedFacts, ThreadFacts DEF WaitBlock, Goto, Moves
<1>2. pc'[t] = "cond_woken" /\ fr'[t] = fr[t] /\ Others(t)
  BY <1>1, MovesFacts DEF Others, Drifts, SameFields
<1>3. state'[t] = "WAIT_CND"
  BY <1>1, KernelParts DEF Linkage
<1>4. SleepOK(t)' /\ OfferOK(t)'
  BY <1>2, <1>3 DEF SleepOK, OfferOK, Dead
<1>5. CallOK(t, "cond_woken", fr[t], Held(t), mutex_list[t])
  BY <1>1, LocksOf DEF CallOK, Polling, Hooked, PollLabels
<1>6. \A n : ~Retries(t, n)
  BY <1>1 DEF Retries
<1> QED BY <1>1, <1>2, <1>4, <1>5, <1>6, LocksKept DEF mutexVars

-----------------------------------------------------------------------------
(* The life of a thread.                                                     *)

\* chopstx_create: thread u is there, and holds nothing.
LEMMA CreateCallLocks ==
  ASSUME KernelInv, LocksInv, NEW t \in Threads, NEW u \in Threads, CreateCall(t, u)
  PROVE  LocksInv'
<1>1. /\ state[t] = "RUNNING" /\ cpu = "user" /\ state[u] = "NONE" /\ UNCHANGED <<mutexVars, fr, v>>
      /\ pc' = [pc EXCEPT ![u] = "user"]
      /\ state' = [state EXCEPT ![u] = "READY"] /\ parent' = [parent EXCEPT ![u] = "ready"]
  BY RunsFacts DEF CreateCall, Calls, Goto, MakeReady
<1>2. Others(u)
  BY <1>1 DEF Others, Drifts, SameCall, SameFields
<1>3. pc'[u] = "user" /\ state'[u] = "READY" /\ fr'[u] = fr[u]
  BY <1>1, KernelParts DEF ControlOK, Linkage
<1>4. SleepOK(u)' /\ OfferOK(u)'
  BY <1>3 DEF SleepOK, OfferOK, Dead
<1>5. CallOK(u, "user", fr[u], Held(u), mutex_list[u])
  BY FreeCallOK DEF FreeLabels
<1>6. \A n : ~Retries(u, n)
  BY <1>1 DEF Retries
<1> QED BY <1>1, <1>2, <1>3, <1>4, <1>5, <1>6, LocksKept DEF mutexVars

\* A thread goes on at a label where it relies on nothing, and nobody is woken up.
LEMMA QuietLocks ==
  ASSUME KernelInv, LocksInv, NEW t \in Threads, NEW k, Runs(t, k), k # "mtx_lock",
         UNCHANGED <<queueVars, mutexVars>>, NEW l \in FreeLabels, NEW f, Moves(t, l, f)
  PROVE  LocksInv'
BY RunsFacts, QuietWakes, RunsFreeLocks

\* The calls and steps of ChxThread that change neither queues nor mutexes.
LEMMA ThreadQuietLocks ==
  ASSUME KernelInv, LocksInv, NEW t \in Threads,
         \/ \E n \in 0..MaxSleep : SleepCall(t, n)
         \/ SleepLoop(t) \/ SleepWoken(t)
         \/ CleanupPush(t) \/ CleanupPop(t) \/ TestCancelCall(t)
         \/ \E enable \in BOOLEAN : SetCancelStateCall(t, enable)
         \/ \E new \in NewPrios : SetPriorityCall(t, new)
         \/ ExitCall(t) \/ ExitBegin(t) \/ ExitHandler(t) \/ JoinFatal(t)
         \/ \E u \in Threads : JoinCall(t, u)
  PROVE  LocksInv'
<1>0. fr = [fr EXCEPT ![t] = fr[t]] /\ pc = [pc EXCEPT ![t] = pc[t]]
  BY ThreadFacts
<1>1. UNCHANGED <<queueVars, mutexVars>>
  BY DEF SleepCall, SleepLoop, SleepWoken, CleanupPush, CleanupPop, TestCancelCall, SetCancelStateCall,
         SetPriorityCall, ExitCall, ExitBegin, ExitHandler, JoinFatal, JoinCall
<1>2. \E k : Runs(t, k) /\ k # "mtx_lock" /\ pc[t] = k /\ (k = "user" \/ k \in FreeLabels)
  BY DEF SleepCall, SleepLoop, SleepWoken, CleanupPush, CleanupPop, TestCancelCall, SetCancelStateCall,
         SetPriorityCall, ExitCall, ExitBegin, ExitHandler, JoinFatal, JoinCall, Calls, Runs, FreeLabels
<1>3. \E l \in FreeLabels : \E f : Moves(t, l, f)
  <2>1. CASE (\E n \in 0..MaxSleep : SleepCall(t, n)) \/ SleepLoop(t) \/ ExitCall(t) \/ TestCancelCall(t)
    BY <1>0, <2>1 DEF SleepCall, SleepLoop, ExitCall, TestCancelCall, Goto, Moves, FreeLabels
  <2>2. CASE SleepWoken(t)
    BY <1>0, <2>2 DEF SleepWoken, Goto, Moves, FreeLabels
  <2>3. CASE CleanupPush(t) \/ CleanupPop(t) \/ \E new \in NewPrios : SetPriorityCall(t, new)
    BY <1>0, <2>3 DEF CleanupPush, CleanupPop, SetPriorityCall, Calls, Runs, Moves, FreeLabels
  <2>4. CASE (\E enable \in BOOLEAN : SetCancelStateCall(t, enable)) \/ JoinFatal(t) \/ ExitBegin(t)
    BY <1>0, <2>4 DEF SetCancelStateCall, JoinFatal, ExitBegin, Goto, Moves, FreeLabels
  <2>5. CASE ExitHandler(t)
    BY <1>0, <2>5 DEF ExitHandler, Goto, Moves, FreeLabels
  <2>6. CASE \E u \in Threads : JoinCall(t, u)
    <3>1. PICK u \in Threads : JoinCall(t, u)
      BY <2>6
    <3>2. CASE Canceled(t)
      BY <1>0, <3>1, <3>2 DEF JoinCall, Goto, Moves, FreeLabels
    <3>3. CASE ~Canceled(t)
      BY <1>0, <3>1, <3>3 DEF JoinCall, Goto, Moves, FreeLabels
    <3> QED BY <3>2, <3>3
  <2> QED BY <2>1, <2>2, <2>3, <2>4, <2>5, <2>6
<1> QED BY <1>1, <1>2, <1>3, QuietLocks

\* The rest of chopstx_exit: its loop starts at the mutex locked last, ...
LEMMA ExitHandlersDoneLocks ==
  ASSUME KernelInv, LocksInv, NEW t \in Threads, ExitHandlersDone(t)
  PROVE  LocksInv'
<1> DEFINE f == [fr[t] EXCEPT !.mtx = mutex_list[t]]
<1>1. state[t] = "RUNNING" /\ pc[t] = "handlers" /\ f.mtx = mutex_list[t]
  BY RunsFacts, ThreadFacts DEF ExitHandlersDone, Frame
<1>2. UNCHANGED <<queueVars, mutexVars>> /\ Moves(t, "release", f)
  BY DEF ExitHandlersDone, Goto, Moves
<1>3. CallOK(t, "release", f, Held(t), mutex_list[t])
  BY <1>1 DEF CallOK, Polling, Hooked, PollLabels
<1> HIDE DEF f
<1> QED BY <1>1, <1>2, <1>3, QuietWakes, RunsOnLocks

\* ... and ends when none is left; the joiner is woken up.
LEMMA ExitNotifyLocks ==
  ASSUME KernelInv, LocksInv, NEW t \in Threads, ExitNotify(t)
  PROVE  LocksInv'
<1>1. /\ state[t] = "RUNNING" /\ pc[t] = "release" /\ fr[t].mtx = None
      /\ UNCHANGED mutexVars /\ Moves(t, "dying", fr[t])
  BY RunsFacts, ThreadFacts DEF ExitNotify, Goto, Moves
<1>2. mutex_list[t] = None /\ Held(t) = {}
  <2>1. mutex_list[t] = None /\ IsTop(None, Held(t))
    BY <1>1, LocksOf DEF CallOK, ListOf
  <2> QED BY <2>1, AddressAssumption DEF IsTop, Held, Objects
<1>3. CallOK(t, "dying", fr[t], Held(t), mutex_list[t])
  BY <1>2 DEF CallOK, Polling, Hooked, PollLabels
<1>4. Wakes
  <2>1. CASE \E i \in DOMAIN q["join"] : Wakeup(q["join"][i], Dequeue(q, q["join"][i]))
    <3>1. PICK i \in DOMAIN q["join"] : Wakeup(q["join"][i], Dequeue(q, q["join"][i]))
      BY <2>1
    <3>2. PICK x : x = q["join"][i]
      OBVIOUS
    <3>3. Linkage(q, state, parent, v) /\ ListsOK(q) /\ "join" \in Queues
      BY KernelParts DEF Linkage, Queues
    <3>4. x \in Nodes /\ "join" \in Where(q, x)
      BY <3>1, <3>2, <3>3 DEF ListsOK, Where, ToSet
    <3>5. x \in Threads => state[x] = "WAIT_EXIT"
      BY <3>3, <3>4, LinkedPlace, StateOfPlace
    <3>6. PICK Q : Wakeup(x, Q)
      BY <3>1, <3>2
    <3> QED BY <3>4, <3>5, <3>6, WakeupWakes
  <2>2. CASE UNCHANGED queueVars
    BY <2>2, QuietWakes
  <2> QED BY <2>1, <2>2 DEF ExitNotify
<1> QED BY <1>1, <1>3, <1>4, RunsOnLocks

\* The last section of chopstx_exit: no mutex is held there.
LEMMA ExitEndLocks ==
  ASSUME KernelInv, LocksInv, NEW t \in Threads, ExitEnd(t)
  PROVE  LocksInv'
<1>1. /\ pc[t] = "dying" /\ running = t /\ UNCHANGED <<mutexVars, parent>> /\ Moves(t, "dead", fr[t])
      /\ \A u \in Threads : u # t => v'[u] = v[u] /\ state'[u] = state[u]
      /\ \E s \in {"EXITED", "FINISHED"} : state' = [state EXCEPT ![t] = s]
  <2>1. /\ pc[t] = "dying" /\ running = t /\ UNCHANGED <<mutexVars, parent>> /\ Moves(t, "dead", fr[t])
    BY LockedFacts, ThreadFacts DEF ExitEnd, Goto, Moves
  <2>2. \E s \in {"EXITED", "FINISHED"} : state' = [state EXCEPT ![t] = s]
    BY DEF ExitEnd
  <2>3. \A u \in Threads : u # t => v'[u] = v[u] /\ state'[u] = state[u]
    BY <2>2, KernelParts DEF ExitEnd, Linkage
  <2> QED BY <2>1, <2>2, <2>3
<1>2. pc'[t] = "dead" /\ fr'[t] = fr[t] /\ Others(t)
  BY <1>1, MovesFacts DEF Others, Drifts, SameFields
<1>3. state'[t] \in {"EXITED", "FINISHED"}
  BY <1>1, KernelParts DEF Linkage
<1>4. SleepOK(t)' /\ OfferOK(t)'
  BY <1>2, <1>3 DEF SleepOK, OfferOK, Dead
<1>5. CallOK(t, "dead", fr[t], Held(t), mutex_list[t])
  BY <1>1, LocksOf DEF CallOK, Polling, Hooked, PollLabels
<1>6. \A n : ~Retries(t, n)
  BY <1>1 DEF Retries
<1> QED BY <1>1, <1>2, <1>4, <1>5, <1>6, LocksKept DEF mutexVars

\* chopstx_join of a thread that has exited: nobody else is touched.
LEMMA JoinExitedLocks ==
  ASSUME KernelInv, LocksInv, NEW t \in Threads, JoinExited(t)
  PROVE  LocksInv'
<1>1. PICK u : u = fr[t].tgt
  OBVIOUS
<1>2. /\ state[t] = "RUNNING" /\ pc[t] = "join" /\ UNCHANGED mutexVars /\ Moves(t, "user", NoFrame)
      /\ running = t /\ state[u] = "EXITED" /\ state' = [state EXCEPT ![u] = "FINISHED"]
      /\ UNCHANGED <<parent, v>> /\ state \in [Threads -> States]
  BY <1>1, RunsFacts, KernelParts DEF JoinExited, Goto, Moves, Linkage
<1>3. u # t
  BY <1>2
<1>4. pc'[t] = "user" /\ fr'[t] = NoFrame /\ state'[t] = "RUNNING" /\ \A w \in Threads : w # t => SameCall(w)
  BY <1>2, <1>3, MovesFacts
<1>5. Others(t)
  BY <1>2, <1>4 DEF Others, Drifts, SameFields
<1>6. SleepOK(t)' /\ OfferOK(t)'
  BY <1>4 DEF SleepOK, OfferOK, Dead
<1>7. CallOK(t, "user", NoFrame, Held(t), mutex_list[t])
  BY FreeCallOK DEF FreeLabels
<1>8. \A n : ~Retries(t, n)
  BY <1>2 DEF Retries
<1> QED BY <1>2, <1>4, <1>5, <1>6, <1>7, <1>8, LocksKept DEF mutexVars

\* The sections of chopstx_join.
LEMMA JoinLocks ==
  ASSUME KernelInv, LocksInv, NEW t \in Threads, JoinBlock(t) \/ JoinInherit(t) \/ JoinSleep(t)
  PROVE  LocksInv'
<1>1. /\ pc[t] \in {"join", "join_pi"} /\ running = t /\ UNCHANGED mutexVars
      /\ JoinBlock(t) \/ state[t] = "WAIT_EXIT"
  BY RunsFacts, LockedFacts DEF JoinBlock, JoinInherit, JoinSleep
<1>2. /\ \A u \in Threads : u # t => SameFields(u)
      /\ state'[t] = "WAIT_EXIT" /\ v'[t] = fr[t].tgt
  <2>1. CASE JoinBlock(t)
    BY <2>1, KernelParts DEF JoinBlock, SameFields, Linkage
  <2>2. CASE JoinInherit(t) \/ JoinSleep(t)
    <3>1. state[t] = "WAIT_EXIT" /\ UNCHANGED <<state, parent, v>>
      BY <2>2, LockedFacts DEF JoinInherit, JoinSleep, queueVars
    <3>2. v[t] = fr[t].tgt
      BY <3>1, LocksOf DEF SleepOK
    <3> QED BY <3>1, <3>2 DEF SameFields
  <2> QED BY <2>1, <2>2
<1>3. \E l \in {"join_pi", "join_woken"} : \E x : Moves(t, l, [fr[t] EXCEPT !.tp0 = x])
  <2>1. JoinInherit(t) => pc = [pc EXCEPT ![t] = "join_pi"]
    BY ThreadFacts DEF JoinInherit, Locked
  <2> QED BY <2>1 DEF JoinBlock, JoinInherit, JoinSleep, Goto, Moves
<1>4. PICK l \in {"join_pi", "join_woken"} : \E x : Moves(t, l, [fr[t] EXCEPT !.tp0 = x])
  BY <1>3
<1>5. PICK x : Moves(t, l, [fr[t] EXCEPT !.tp0 = x])
  BY <1>4
<1> DEFINE f == [fr[t] EXCEPT !.tp0 = x]
<1>6. f.tgt = fr[t].tgt
  BY ThreadFacts DEF Frame
<1>7. pc'[t] = l /\ fr'[t] = f /\ Others(t)
  BY <1>2, <1>5, MovesFacts DEF Others, Drifts
<1>8. SleepOK(t)' /\ OfferOK(t)'
  BY <1>2, <1>4, <1>6, <1>7 DEF SleepOK, OfferOK, Dead
<1>9. CallOK(t, l, f, Held(t), mutex_list[t])
  BY <1>4, FreeCallOK DEF FreeLabels
<1>a. \A n : ~Retries(t, n)
  BY <1>1 DEF Retries
<1> QED BY <1>1, <1>7, <1>8, <1>9, <1>a, LocksKept DEF mutexVars

\* The return of chopstx_join; chx_sched has not returned 0.
LEMMA JoinReturnLocks ==
  ASSUME KernelInv, LocksInv, NEW t \in Threads, JoinReturn(t)
  PROVE  LocksInv'
<1>1. v[t] # 0
  BY RunsFacts, KernelParts DEF JoinReturn, JoinOK
<1>2. Runs(t, "join_woken") /\ UNCHANGED <<queueVars, mutexVars>>
  BY <1>1 DEF JoinReturn, queueVars
<1>3. \E l \in FreeLabels : \E f : Moves(t, l, f)
  BY DEF JoinReturn, Goto, Moves, FreeLabels
<1> QED BY <1>2, <1>3, QuietLocks

\* chopstx_cancel wakes up a thread that sleeps in a cancellation point.
LEMMA CancelCallLocks ==
  ASSUME KernelInv, LocksInv, NEW t \in Threads, NEW u \in Threads, CancelCall(t, u)
  PROVE  LocksInv'
<1>1. state[t] = "RUNNING" /\ pc[t] = "user" /\ UNCHANGED mutexVars /\ Moves(t, "user", fr[t])
  BY RunsFacts, ThreadFacts DEF CancelCall, Calls, Moves
<1>2. Wakes
  <2>1. CASE UNCHANGED queueVars
    BY <2>1, QuietWakes
  <2>2. CASE ~UNCHANGED queueVars
    <3>1. /\ state[u] \in Waiting
          /\ state' = [state EXCEPT ![u] = "READY"] /\ parent' = [parent EXCEPT ![u] = "ready"]
          /\ v' = [v EXCEPT ![u] = -1]
      BY <2>2 DEF CancelCall, MakeReady, Waiting
    <3> QED BY <3>1, KernelParts DEF Wakes, SameFields, Linkage
  <2> QED BY <2>1, <2>2
<1> QED BY <1>1, <1>2, RunsFreeLocks DEF FreeLabels

\* chx_snooze: thread t sleeps in state st and goes on at label l, or goes on at once.
LEMMA SnoozeLocks ==
  ASSUME KernelInv, LocksInv, NEW t \in Threads, NEW k, Runs(t, k), k # "mtx_lock",
         NEW st, NEW l, Snooze(t, st, l),
         (st = "WAIT_TIME" /\ l = "snoozed") \/ (st = "WAIT_POLL" /\ l = "poll_snoozed"),
         \A f : f.idx = fr[t].idx => CallOK(t, l, f, Held(t), mutex_list[t])
  PROVE  LocksInv'
<1>1. state[t] = "RUNNING" /\ pc[t] = k /\ running = t /\ UNCHANGED mutexVars
  BY RunsFacts DEF Snooze
<1>2. \E r \in {0, 1} : Moves(t, l, [fr[t] EXCEPT !.r = r])
  BY DEF Snooze, Goto, Moves
<1>3. PICK r \in {0, 1} : Moves(t, l, [fr[t] EXCEPT !.r = r])
  BY <1>2
<1> DEFINE f == [fr[t] EXCEPT !.r = r]
<1>4. f.idx = fr[t].idx
  BY ThreadFacts DEF Frame
<1>5. CallOK(t, l, f, Held(t), mutex_list[t])
  BY <1>4
<1>6. CASE UNCHANGED queueVars
  BY <1>1, <1>3, <1>5, <1>6, QuietWakes, RunsOnLocks
<1>7. CASE ~UNCHANGED queueVars
  <2>1. /\ state' = [state EXCEPT ![t] = st] /\ parent' = [parent EXCEPT ![t] = "timer"]
        /\ v' = [v EXCEPT ![t] = 1]
    BY <1>7 DEF Snooze
  <2>2. Others(t) /\ pc'[t] = l
    BY <1>3, <2>1, MovesFacts, KernelParts DEF Others, Drifts, SameFields, Linkage
  <2>3. state'[t] = st
    BY <2>1, KernelParts DEF Linkage
  <2>4. SleepOK(t)' /\ OfferOK(t)'
    BY <2>2, <2>3 DEF SleepOK, OfferOK, Dead
  <2>5. fr'[t] = f
    BY <1>3, MovesFacts
  <2>6. \A n : ~Retries(t, n)
    BY <1>1 DEF Retries
  <2>7. CallOK(t, pc'[t], fr'[t], Held(t), mutex_list[t])
    BY <1>5, <2>2, <2>5
  <2> QED BY <1>1, <2>2, <2>4, <2>6, <2>7, LocksKept DEF mutexVars
<1> QED BY <1>6, <1>7

\* chopstx_usec_wait, and its loop, go to sleep.
LEMMA SleepBlockLocks ==
  ASSUME KernelInv, LocksInv, NEW t \in Threads, SleepBlock(t)
  PROVE  LocksInv'
<1>1. \A f : f.idx = fr[t].idx => CallOK(t, "snoozed", f, Held(t), mutex_list[t])
  BY FreeCallOK DEF FreeLabels
<1> QED BY <1>1, SnoozeLocks DEF SleepBlock

-----------------------------------------------------------------------------
(* chopstx_poll.                                                             *)

\* The mutexes of the descriptors come after those the polling thread holds.
PollFree(t) ==
  \A p \in ToSet(PollArray[t]) : PdMutex[p] # None => Above(PdMutex[p], Held(t))

\* Labels of chopstx_poll where no hook holds a mutex.
FreePolls == {"hook", "poll", "poll_woken", "poll_timed", "poll_snooze", "poll_snoozed", "poll_clean"}

\* The labels of chopstx_poll between two hooks rely on the mutexes of the array only.
LEMMA FreePollOK ==
  ASSUME NEW t, PollFree(t), NEW l \in FreePolls, NEW f, NEW x
  PROVE  CallOK(t, l, f, Held(t), x)
BY DEF FreePolls, PollFree, CallOK, Polling, Hooked, PollLabels

\* What a thread knows at such a label, and at the start of a section.
LEMMA PollFreeFacts ==
  ASSUME LocksInv, NEW t \in Threads,
         pc[t] \in FreePolls \/ (pc[t] = "hook_reg" /\ PdKind[Pd(t)] # "cond")
  PROVE  PollFree(t)
<1>1. CallOK(t, pc[t], fr[t], Held(t), mutex_list[t])
  BY LocksOf
<1>2. Polling(pc[t], fr[t]) /\ ~Hooked(t, pc[t], fr[t])
  BY DEF FreePolls, Polling, Hooked, PollLabels, Pd
<1> QED BY <1>1, <1>2 DEF CallOK, PollFree

\* From such a label to another, or out of chopstx_poll; proxies may be linked meanwhile.
LEMMA PollMovesLocks ==
  ASSUME KernelInv, LocksInv, NEW t \in Threads, NEW k, Runs(t, k),
         k \in FreePolls \/ (k = "hook_reg" /\ PdKind[Pd(t)] # "cond"),
         UNCHANGED <<state, parent, v, mutexVars>>,
         NEW l \in FreePolls \cup FreeLabels, NEW f, Moves(t, l, f)
  PROVE  LocksInv'
<1>1. state[t] = "RUNNING" /\ pc[t] = k /\ k # "mtx_lock"
  BY RunsFacts DEF FreePolls
<1>2. PollFree(t)
  BY <1>1, PollFreeFacts
<1>3. CallOK(t, l, f, Held(t), mutex_list[t])
  BY <1>2, FreePollOK, FreeCallOK
<1>4. Wakes
  BY DEF Wakes, SameFields
<1>5. l \notin {"none", "dead", "mtx_pi"}
  BY DEF FreePolls, FreeLabels
<1> QED BY <1>1, <1>3, <1>4, <1>5, RunsOnLocks

\* chopstx_poll is called where the mutexes of its descriptors may be locked.
LEMMA PollCallLocks ==
  ASSUME KernelInv, LocksInv, NEW t \in Threads, NEW timed \in BOOLEAN, NEW n \in 0..MaxSleep,
         PollCall(t, timed, n)
  PROVE  LocksInv'
<1> DEFINE f == [fr[t] EXCEPT !.idx = 1, !.timed = timed, !.left = n]
<1>1. /\ state[t] = "RUNNING" /\ pc[t] = "user" /\ UNCHANGED <<queueVars, mutexVars>>
      /\ fr = [fr EXCEPT ![t] = fr[t]]
  BY RunsFacts, ThreadFacts DEF PollCall, Calls
<1>2. PollFree(t)
  BY DEF PollCall, PollFree, Above, Held
<1>3. Moves(t, "exit", fr[t]) \/ Moves(t, "hook", f)
  <2>1. CASE Canceled(t)
    BY <1>1, <2>1 DEF PollCall, Goto, Moves
  <2>2. CASE ~Canceled(t)
    BY <2>2 DEF PollCall, Goto, Moves
  <2> QED BY <2>1, <2>2
<1>4. CallOK(t, "hook", f, Held(t), mutex_list[t])
  BY <1>2, FreePollOK DEF FreePolls
<1> HIDE DEF f
<1> QED BY <1>1, <1>3, <1>4, QuietWakes, RunsOnLocks, RunsFreeLocks DEF FreeLabels

\* The start of a hook.
LEMMA HookBeginLocks ==
  ASSUME KernelInv, LocksInv, NEW t \in Threads, HookBegin(t)
  PROVE  LocksInv'
<1>1. PICK p : p = PollArray[t][fr[t].idx]
  OBVIOUS
<1>2. /\ state[t] = "RUNNING" /\ pc[t] = "hook" /\ UNCHANGED <<queueVars, mutexVars>>
      /\ fr = [fr EXCEPT ![t] = fr[t]] /\ fr[t].idx >= 1 /\ MorePds(t) /\ fr[t] \in Frame
  BY RunsFacts, ThreadFacts DEF HookBegin, FrameOK, PollLabels
<1>3. p = Pd(t) /\ p \in ToSet(PollArray[t])
  <2>1. fr[t].idx \in DOMAIN PollArray[t]
    BY <1>2, ConstantsAssumption DEF MorePds, Frame
  <2> QED BY <1>1, <2>1 DEF Pd, ToSet
<1>4. PollFree(t)
  BY <1>2, PollFreeFacts DEF FreePolls
<1>5. CASE Canceled(t)
  <2>1. Moves(t, "exit", fr[t])
    BY <1>2, <1>5 DEF HookBegin, Goto, Moves
  <2> QED BY <1>2, <2>1, QuietWakes, RunsFreeLocks DEF FreeLabels
<1>6. CASE ~Canceled(t) /\ PdKind[p] = "cond" /\ PdMutex[p] # None
  <2> DEFINE f == [fr[t] EXCEPT !.mtx = PdMutex[p], !.then = "hook_check"]
  <2>1. Moves(t, "mtx_lock", f)
    BY <1>3, <1>6 DEF HookBegin, Goto, Moves
  <2>2. f.mtx = PdMutex[p] /\ f.then = "hook_check" /\ f.idx = fr[t].idx
    BY <1>2 DEF Frame
  <2>3. CallOK(t, "mtx_lock", f, Held(t), mutex_list[t])
    BY <1>1, <1>3, <1>4, <1>6, <2>2 DEF PollFree, CallOK, Polling, Hooked, PollLabels
  <2> HIDE DEF f
  <2> QED BY <1>2, <2>1, <2>3, QuietWakes, RunsOnLocks
<1>7. CASE ~Canceled(t) /\ PdKind[p] = "cond" /\ PdMutex[p] = None
  <2>1. Moves(t, "hook_check", fr[t])
    BY <1>2, <1>3, <1>7 DEF HookBegin, Goto, Moves
  <2>2. CallOK(t, "hook_check", fr[t], Held(t), mutex_list[t])
    BY <1>1, <1>4, <1>7 DEF PollFree, CallOK, Polling, Hooked, PollLabels, Above
  <2> QED BY <1>2, <2>1, <2>2, QuietWakes, RunsOnLocks
<1>8. CASE ~Canceled(t) /\ PdKind[p] # "cond"
  <2>1. Moves(t, "hook_reg", fr[t])
    BY <1>2, <1>3, <1>8 DEF HookBegin, Goto, Moves
  <2>2. CallOK(t, "hook_reg", fr[t], Held(t), mutex_list[t])
    BY <1>1, <1>4, <1>8 DEF PollFree, CallOK, Polling, Hooked, PollLabels, Above
  <2> QED BY <1>2, <2>1, <2>2, QuietWakes, RunsOnLocks
<1> QED BY <1>5, <1>6, <1>7, <1>8

\* Inside the hook of a condition variable.
LEMMA HookCondLocks ==
  ASSUME KernelInv, LocksInv, NEW t \in Threads,
         (\E met \in BOOLEAN : HookCheck(t, met)) \/ HookCount(t) \/ HookCond(t)
  PROVE  LocksInv'
<1>1. PICK p : p = PollArray[t][fr[t].idx]
  OBVIOUS
<1>2. /\ state[t] = "RUNNING" /\ pc[t] \in {"hook_check", "hook_count", "hook_reg"}
      /\ UNCHANGED <<state, parent, v, mutexVars>> /\ fr[t] \in Frame /\ fr = [fr EXCEPT ![t] = fr[t]]
      /\ pc[t] = "hook_reg" => PdKind[p] = "cond"
  BY <1>1, RunsFacts, ThreadFacts DEF HookCheck, HookCount, HookCond, Pd, queueVars
<1>3. \E l \in {"hook_count", "hook_reg", "hook_unlock"} : \E r : Moves(t, l, [fr[t] EXCEPT !.r = r])
  <2>1. CASE \E met \in BOOLEAN : HookCheck(t, met)
    <3>1. PICK met \in BOOLEAN : HookCheck(t, met)
      BY <2>1
    <3>2. fr[t] = [fr[t] EXCEPT !.r = fr[t].r]
      BY <1>2 DEF Frame
    <3>3. CASE met
      BY <3>1, <3>3 DEF HookCheck, Goto, Moves
    <3>4. CASE ~met
      <4>1. Moves(t, "hook_reg", fr[t])
        BY <1>2, <3>1, <3>4 DEF HookCheck, Goto, Moves
      <4> QED BY <3>2, <4>1
    <3> QED BY <3>3, <3>4
  <2>2. CASE HookCount(t)
    BY <2>2 DEF HookCount, Goto, Moves
  <2>3. CASE HookCond(t)
    <3>1. fr[t] = [fr[t] EXCEPT !.r = fr[t].r]
      BY <1>2 DEF Frame
    <3>2. Moves(t, "hook_unlock", fr[t])
      BY <1>2, <2>3 DEF HookCond, Goto, Moves
    <3> QED BY <3>1, <3>2
  <2> QED BY <2>1, <2>2, <2>3
<1>4. PICK l \in {"hook_count", "hook_reg", "hook_unlock"} : \E r : Moves(t, l, [fr[t] EXCEPT !.r = r])
  BY <1>3
<1>5. PICK r : Moves(t, l, [fr[t] EXCEPT !.r = r])
  BY <1>4
<1> DEFINE f == [fr[t] EXCEPT !.r = r]
<1>6. f.idx = fr[t].idx
  BY <1>2 DEF Frame
<1>7. CallOK(t, pc[t], fr[t], Held(t), mutex_list[t])
  BY LocksOf
<1>8. /\ PdKind[p] = "cond" /\ (PdMutex[p] # None => mutex_list[t] = PdMutex[p])
      /\ \A p1 \in ToSet(PollArray[t]) : PdMutex[p1] # None => Above(PdMutex[p1], Held(t) \ {PdMutex[p]})
  BY <1>1, <1>2, <1>7 DEF CallOK, Polling, Hooked, PollLabels
<1> HIDE DEF f
<1>9. CallOK(t, l, f, Held(t), mutex_list[t])
  BY <1>1, <1>4, <1>6, <1>8 DEF CallOK, Polling, Hooked, PollLabels
<1>a. Wakes
  BY <1>2 DEF Wakes, SameFields
<1> QED BY <1>2, <1>4, <1>5, <1>9, <1>a, RunsOnLocks DEF f

\* The other steps of chopstx_poll.
LEMMA PollLocks ==
  ASSUME KernelInv, LocksInv, NEW t \in Threads,
         \/ HookIntr(t) \/ HookJoin(t) \/ HookFatal(t) \/ HooksDone(t)
         \/ PollWoken(t) \/ PollLoop(t) \/ PollSnoozed(t) \/ PollClean(t) \/ PollReturn(t)
  PROVE  LocksInv'
<1>0. fr = [fr EXCEPT ![t] = fr[t]] /\ pc = [pc EXCEPT ![t] = pc[t]]
  BY ThreadFacts
<1>1. /\ UNCHANGED <<state, parent, v, mutexVars>>
      /\ \E k : /\ Runs(t, k) /\ pc[t] = k
                /\ k \in FreePolls \/ (k = "hook_reg" /\ PdKind[Pd(t)] # "cond")
  <2>1. CASE HookIntr(t) \/ HookJoin(t) \/ HookFatal(t)
    BY <2>1 DEF HookIntr, HookJoin, HookFatal, Runs, queueVars
  <2>2. CASE HooksDone(t) \/ PollWoken(t) \/ PollLoop(t) \/ PollSnoozed(t) \/ PollClean(t) \/ PollReturn(t)
    BY <2>2 DEF HooksDone, PollWoken, PollLoop, PollSnoozed, PollClean, PollReturn, Runs, FreePolls, queueVars
  <2> QED BY <2>1, <2>2
<1>2. \E l \in FreePolls \cup FreeLabels : \E f : Moves(t, l, f)
  <2>1. CASE HookIntr(t) \/ HookJoin(t) \/ HookFatal(t) \/ HooksDone(t)
    BY <1>0, <2>1 DEF HookIntr, HookJoin, HookFatal, HooksDone, Goto, Moves, FreePolls, FreeLabels
  <2>2. CASE PollWoken(t) \/ PollLoop(t) \/ PollSnoozed(t)
    BY <1>0, <2>2 DEF PollWoken, PollLoop, PollSnoozed, Goto, Moves, FreePolls, FreeLabels
  <2>3. CASE PollClean(t) \/ PollReturn(t)
    BY <1>0, <2>3 DEF PollClean, PollReturn, Runs, Goto, Moves, FreePolls, FreeLabels
  <2> QED BY <2>1, <2>2, <2>3
<1>3. PICK k : /\ Runs(t, k)
               /\ k \in FreePolls \/ (k = "hook_reg" /\ PdKind[Pd(t)] # "cond")
  BY <1>1
<1>4. PICK l \in FreePolls \cup FreeLabels : \E f : Moves(t, l, f)
  BY <1>2
<1>5. PICK f : Moves(t, l, f)
  BY <1>4
<1> QED BY <1>1, <1>3, <1>4, <1>5, PollMovesLocks

\* The sections in which a polling thread goes to sleep.
LEMMA PollSleepLocks ==
  ASSUME KernelInv, LocksInv, NEW t \in Threads, PollBlock(t) \/ PollSnooze(t)
  PROVE  LocksInv'
<1>1. /\ state[t] = "RUNNING" /\ pc[t] \in FreePolls /\ pc[t] # "mtx_lock" /\ Runs(t, pc[t])
      /\ running = t /\ UNCHANGED mutexVars
  BY RunsFacts DEF PollBlock, PollSnooze, Snooze, FreePolls, Runs
<1>2. PollFree(t)
  BY <1>1, PollFreeFacts
<1>3. CASE PollSnooze(t) /\ Snooze(t, "WAIT_POLL", "poll_snoozed")
  <2>1. \A f : CallOK(t, "poll_snoozed", f, Held(t), mutex_list[t])
    BY <1>2, FreePollOK DEF FreePolls
  <2> QED BY <1>1, <1>3, <2>1, SnoozeLocks
<1>4. CASE UNCHANGED queueVars /\ fr' = fr /\ \E l \in FreePolls : Goto(t, l)
  <2>1. \E l \in FreePolls : Moves(t, l, fr[t])
    BY <1>4, ThreadFacts DEF Goto, Moves
  <2>2. UNCHANGED <<state, parent, v, mutexVars>>
    BY <1>1, <1>4 DEF queueVars
  <2> QED BY <1>1, <2>1, <2>2, PollMovesLocks
<1>5. CASE /\ state' = [state EXCEPT ![t] = "WAIT_POLL"] /\ UNCHANGED <<parent, v, fr>>
           /\ Goto(t, "poll_woken")
  <2>1. Moves(t, "poll_woken", fr[t])
    BY <1>5, ThreadFacts DEF Goto, Moves
  <2>2. pc'[t] = "poll_woken" /\ fr'[t] = fr[t] /\ Others(t) /\ state'[t] = "WAIT_POLL"
    BY <1>5, <2>1, MovesFacts, KernelParts DEF Others, Drifts, SameFields, Linkage
  <2>3. SleepOK(t)' /\ OfferOK(t)'
    BY <2>2 DEF SleepOK, OfferOK, Dead
  <2>4. CallOK(t, "poll_woken", fr[t], Held(t), mutex_list[t])
    BY <1>2, FreePollOK DEF FreePolls
  <2>5. \A n : ~Retries(t, n)
    BY <1>1 DEF Retries
  <2> QED BY <1>1, <2>2, <2>3, <2>4, <2>5, LocksKept DEF mutexVars
<1>6. \/ PollSnooze(t) /\ Snooze(t, "WAIT_POLL", "poll_snoozed")
      \/ UNCHANGED queueVars /\ fr' = fr /\ \E l \in FreePolls : Goto(t, l)
      \/ /\ state' = [state EXCEPT ![t] = "WAIT_POLL"] /\ UNCHANGED <<parent, v, fr>>
         /\ Goto(t, "poll_woken")
  BY DEF PollBlock, PollSnooze, FreePolls
<1> QED BY <1>3, <1>4, <1>5, <1>6

-----------------------------------------------------------------------------
(* The scheduler and interrupts.                                             *)

\* Nobody moves, and no mutex changes hands.
LEMMA AllDrift ==
  ASSUME LocksInv, cpu # "lock", UNCHANGED mutexVars, \A u \in Threads : Drifts(u)
  PROVE  LocksInv'
<1>1. None \notin Threads
  BY AddressAssumption DEF Nodes
<1> QED BY <1>1, LocksKept DEF Others, mutexVars

\* With which lists and fields chx_ready_pop is entered: the running thread has been put
\* back into the ready list, unless it has left the CPU already.
Parks(Q, st, pa, vv) ==
  \/ /\ Q = q /\ st = state /\ pa = parent /\ vv = v
     /\ \A u \in Threads : state[u] # "RUNNING"
  \/ /\ running \in Threads /\ state[running] = "RUNNING"
     /\ \/ Q = PrioEnqueue(StopSlice(q, running), "ready", running, prio)
        \/ running \notin RR /\ Q = PrioPush(q, "ready", running, prio)
     /\ st = [state EXCEPT ![running] = "READY"]
     /\ pa = [parent EXCEPT ![running] = "ready"]
     /\ vv = IF running \in RR THEN [v EXCEPT ![running] = 0] ELSE v

\* Every switch parks the thread that gives up the processor as Parks says.
LEMMA SwitchParks ==
  ASSUME KernelInv, Sched \/ Preempt
  PROVE  /\ cpu # "lock" /\ UNCHANGED <<prioVars, flagVars, mutexVars, pollVars, irqVars, pc, fr>>
         /\ \E Q, st, pa, vv : Parks(Q, st, pa, vv) /\ Dispatch(Q, st, pa, vv)
<1> DEFINE t == running
<1>1. /\ cpu # "lock" /\ UNCHANGED <<prioVars, flagVars, mutexVars, pollVars, irqVars, pc, fr>>
      /\ t \in Threads \cup {None}
  BY KernelParts DEF Sched, Preempt, Interruptible, ProcessorTypes
<1>2. CASE Sched
  <2>1. t \in Threads /\ cpu \in {"sleep", "yield"}
    BY <1>2, KernelParts DEF Sched, ProcessorOK, ProcessorTypes
  <2>2. CASE cpu = "sleep"
    <3>1. \A u \in Threads : state[u] # "RUNNING"
      BY <2>2, KernelParts DEF ProcessorOK
    <3> QED BY <1>1, <1>2, <2>2, <3>1 DEF Sched, Parks
  <2>3. CASE cpu = "yield"
    <3>1. state[t] = "RUNNING"
      BY <2>3, KernelParts DEF ProcessorOK
    <3> QED BY <1>1, <1>2, <2>1, <2>3, <3>1 DEF Sched, Parks
  <2> QED BY <2>1, <2>2, <2>3
<1>3. CASE Preempt
  <2>1. CASE t = None \/ (t # None /\ t \in RR /\ state[t] = "READY")
    <3>1. \A u \in Threads : state[u] # "RUNNING"
      BY <2>1, KernelParts, AddressAssumption DEF ProcessorOK, Nodes
    <3> QED BY <1>1, <1>3, <2>1, <3>1 DEF Preempt, Parks
  <2>2. CASE ~(t = None \/ (t # None /\ t \in RR /\ state[t] = "READY"))
    <3>1. t \in Threads /\ state[t] = "RUNNING"
      BY <1>1, <1>3, <2>2, KernelParts DEF Preempt, Interruptible, ProcessorOK
    <3>2. CASE t \in RR
      BY <1>1, <1>3, <2>2, <3>1, <3>2 DEF Preempt, Parks, StopSlice
    <3>3. CASE t \notin RR
      BY <1>1, <1>3, <2>2, <3>1, <3>3 DEF Preempt, Parks
    <3> QED BY <3>2, <3>3
  <2> QED BY <2>1, <2>2
<1> QED BY <1>2, <1>3

\* The fields it is entered with agree with the lists.
LEMMA ParksLinks ==
  ASSUME KernelInv, NEW Q, NEW st, NEW pa, NEW vv, Parks(Q, st, pa, vv)
  PROVE  Linkage(Q, st, pa, vv) /\ \A u \in Threads : st[u] # "RUNNING"
<1>1. CASE st = state
  BY <1>1, KernelParts DEF Parks, Linkage
<1>2. CASE st # state
  <2>1. PICK t \in Threads : t = running
    BY <1>2 DEF Parks
  <2>2. /\ state[t] = "RUNNING" /\ running = t
        /\ \/ Q = PrioEnqueue(StopSlice(q, t), "ready", t, prio)
           \/ t \notin RR /\ Q = PrioPush(q, "ready", t, prio)
        /\ vv = IF t \in RR THEN [v EXCEPT ![t] = 0] ELSE v
        /\ st = [state EXCEPT ![t] = "READY"] /\ pa = [parent EXCEPT ![t] = "ready"]
    BY <1>2, <2>1 DEF Parks
  <2>3. /\ Linkage(Q, [state EXCEPT ![t] = "READY"], [parent EXCEPT ![t] = "ready"], vv)
        /\ \A u \in Threads : [state EXCEPT ![t] = "READY"][u] # "RUNNING"
    BY <2>1, <2>2, ParkLinks, ZenonT(30)
  <2> QED BY <2>2, <2>3
<1> QED BY <1>1, <1>2

\* chx_sched and preempt.
LEMMA SwitchLocks ==
  ASSUME KernelInv, LocksInv, Sched \/ Preempt
  PROVE  LocksInv'
<1>1. /\ cpu # "lock" /\ UNCHANGED <<mutexVars, pc, fr>>
      /\ \E Q, st, pa, vv : Parks(Q, st, pa, vv) /\ Dispatch(Q, st, pa, vv)
  BY SwitchParks
<1>2. PICK Q, st, pa, vv : Parks(Q, st, pa, vv) /\ Dispatch(Q, st, pa, vv)
  BY <1>1
<1>3. Linkage(Q, st, pa, vv) /\ ListsOK(Q) /\ "ready" \in Queues
  BY <1>2, ParksLinks DEF Linkage, Queues
<1>4. ASSUME NEW u \in Threads
      PROVE  \/ st[u] = state[u] /\ pa[u] = parent[u] /\ vv[u] = v[u]
             \/ state[u] \in OnCpu /\ st[u] \in OnCpu
  BY <1>2, KernelParts DEF Parks, Linkage, OnCpu
<1>5. ASSUME NEW u \in Threads
      PROVE  \/ state'[u] = st[u] /\ parent'[u] = pa[u] /\ v'[u] = vv[u]
             \/ st[u] \in OnCpu /\ state'[u] \in OnCpu
  <2>1. CASE Q["ready"] = << >>
    BY <1>2, <2>1 DEF Dispatch
  <2>2. CASE Q["ready"] # << >>
    <3>1. PICK h : h = Head(Q["ready"])
      OBVIOUS
    <3>2. h \in Threads /\ "ready" \in Where(Q, h)
      BY <1>3, <2>2, <3>1, PopLists
    <3>3. st[h] = "READY"
      BY <1>3, <3>2, LinkedPlace, StateOfPlace
    <3>4. /\ state' = [st EXCEPT ![h] = "RUNNING"]
          /\ parent' = pa \/ parent' = [pa EXCEPT ![h] = "timer"]
          /\ v' = vv \/ v' = [vv EXCEPT ![h] = 1]
      BY <1>2, <2>2, <3>1 DEF Dispatch
    <3> QED BY <1>3, <3>2, <3>3, <3>4 DEF Linkage, OnCpu
  <2> QED BY <2>1, <2>2
<1>6. \A u \in Threads : Drifts(u)
  BY <1>1, <1>4, <1>5 DEF Drifts, SameCall, SameFields
<1> QED BY <1>1, <1>6, AllDrift

\* A timer expires, an interrupt comes in, or is raised.
LEMMA InterruptLocks ==
  ASSUME KernelInv, LocksInv, Interrupt
  PROVE  LocksInv'
<1>1. Linkage(q, state, parent, v) /\ ListsOK(q) /\ "timer" \in Queues /\ "intr" \in Queues
  BY KernelParts DEF Linkage, Queues
<1>2. UNCHANGED <<mutexVars, pc, fr>>
  BY DEF Interrupt, TimerExpired, HandleIntr, RaiseIrq
<1>3. CASE TimerExpired
  <2>1. PICK t : t = Head(q["timer"])
    OBVIOUS
  <2>2. /\ cpu # "lock" /\ q["timer"] # << >>
        /\ state' = [state EXCEPT ![t] = "READY"] /\ parent' = [parent EXCEPT ![t] = "ready"]
        /\ v' = [v EXCEPT ![t] = 0]
    BY <1>3, <2>1 DEF TimerExpired, Interruptible, MakeReady
  <2>3. t \in Threads /\ Places(t, state[t], parent[t]) = {"timer"}
    BY <1>1, <2>1, <2>2, MutexHead
  <2>4. state[t] \in OnCpu \cup Waiting
    BY <1>1, <2>3, StateOfPlace DEF OnCpu, Waiting
  <2>5. \A u \in Threads : Drifts(u)
    BY <1>1, <1>2, <2>2, <2>4 DEF Drifts, SameCall, SameFields, Linkage, OnCpu
  <2> QED BY <1>2, <2>2, <2>5, AllDrift
<1>4. CASE \E irq \in Irqs : HandleIntr(irq)
  <2>1. PICK irq \in Irqs : HandleIntr(irq)
    BY <1>4
  <2>2. Wakes
    <3>1. CASE UNCHANGED queueVars
      BY <3>1, QuietWakes
    <3>2. CASE ~UNCHANGED queueVars
      <4>1. PICK i \in DOMAIN q["intr"] : Wakeup(q["intr"][i], Dequeue(q, q["intr"][i]))
        BY <2>1, <3>2 DEF HandleIntr
      <4>2. PICK x : x = q["intr"][i]
        OBVIOUS
      <4>3. x \in Nodes /\ "intr" \in Where(q, x)
        BY <1>1, <4>1, <4>2 DEF ListsOK, Where, ToSet
      <4>4. x \notin Threads
        BY <1>1, <4>3, LinkedPlace, StateOfPlace
      <4>5. PICK Q : Wakeup(x, Q)
        BY <4>1, <4>2
      <4> QED BY <4>3, <4>4, <4>5, WakeupWakes
    <3> QED BY <3>1, <3>2
  <2>3. cpu # "lock" /\ \A u \in Threads : Drifts(u)
    BY <1>2, <2>1, <2>2 DEF HandleIntr, Interruptible, Wakes, Drifts, SameCall, OnCpu
  <2> QED BY <1>2, <2>3, AllDrift
<1>5. CASE \E irq \in Irqs : RaiseIrq(irq)
  <2>1. UNCHANGED <<running, cpu, queueVars>>
    BY <1>5 DEF RaiseIrq, cpuVars
  <2>2. UNCHANGED <<owner, list, mutex_list, state, parent, v, running, cpu, pc, fr>>
    BY <1>2, <2>1 DEF mutexVars, queueVars
  <2> QED BY <2>2, SMTT(60), ZenonT(60) DEF LocksInv, SleepOK, Dead, ListOf, IsTop, Below, Held, CallOK, Polling, Hooked, Above,
                      OfferOK, Retries
<1> QED BY <1>3, <1>4, <1>5 DEF Interrupt

-----------------------------------------------------------------------------
(* The invariant.                                                            *)

\* Every call of the API preserves LocksInv, ...
LEMMA CallLocks ==
  ASSUME KernelInv, LocksInv, NEW t \in Threads, Call(t)
  PROVE  LocksInv'
<1>1. CASE \E p \in Pds : ClaimIrq(t, p) \/ IntrDone(t, p)
  <2>1. /\ Runs(t, "user") /\ UNCHANGED <<queueVars, mutexVars>> /\ Moves(t, "user", fr[t])
    BY <1>1, RunsFacts, ThreadFacts DEF ClaimIrq, IntrDone, Calls, Moves
  <2> QED BY <2>1, QuietLocks DEF FreeLabels
<1>2. CASE \/ \E m \in Mutexes : LockCall(t, m)
           \/ UnlockCall(t)
           \/ \E c \in Conds, m \in Mutexes \cup {None} : WaitCall(t, c, m)
           \/ \E c \in Conds : SignalCall(t, c) \/ BroadcastCall(t, c)
           \/ \E u \in Threads : CreateCall(t, u) \/ CancelCall(t, u)
           \/ \E timed \in BOOLEAN, n \in 0..MaxSleep : PollCall(t, timed, n)
  BY <1>2, LockCallLocks, UnlockCallLocks, CondLocks, CreateCallLocks, CancelCallLocks, PollCallLocks
<1>3. CASE \/ \E n \in 0..MaxSleep : SleepCall(t, n)
           \/ CleanupPush(t) \/ CleanupPop(t) \/ ExitCall(t) \/ TestCancelCall(t)
           \/ \E u \in Threads : JoinCall(t, u)
           \/ \E enable \in BOOLEAN : SetCancelStateCall(t, enable)
           \/ \E pr \in NewPrios : SetPriorityCall(t, pr)
  BY <1>3, ThreadQuietLocks
<1> QED BY <1>1, <1>2, <1>3 DEF Call

\* ... so does every step inside a call, ...
LEMMA StepLocks ==
  ASSUME KernelInv, LocksInv, NEW t \in Threads, Step(t)
  PROVE  LocksInv'
<1>1. CASE MutexStep(t)
  BY <1>1, LockAcquireLocks, LockHeldLocks, LockInheritLocks, LockBlockLocks DEF MutexStep
<1>2. CASE CondStep(t)
  BY <1>2, WaitReleaseLocks, WaitBlockLocks, CondLocks DEF CondStep
<1>3. CASE ThreadStep(t)
  BY <1>3, ThreadQuietLocks, SleepBlockLocks, ExitHandlersDoneLocks, ExitReleaseLocks, ExitNotifyLocks,
     ExitEndLocks, JoinExitedLocks, JoinLocks, JoinReturnLocks DEF ThreadStep
<1>4. CASE PollStep(t)
  BY <1>4, HookBeginLocks, HookCondLocks, HookUnlockLocks, PollLocks, PollSleepLocks DEF PollStep
<1> QED BY <1>1, <1>2, <1>3, <1>4 DEF Step

\* ... and every step of the system.
LEMMA NextLocks ==
  ASSUME KernelInv, LocksInv, [Next]_vars
  PROVE  LocksInv'
<1>1. CASE \E t \in Threads : Call(t) \/ Step(t)
  BY <1>1, CallLocks, StepLocks
<1>2. CASE Sched \/ Preempt \/ Interrupt
  BY <1>2, SwitchLocks, InterruptLocks
<1>3. CASE UNCHANGED vars
  <2>1. UNCHANGED <<owner, list, mutex_list, state, parent, v, running, cpu, pc, fr>>
    BY <1>3 DEF vars, mutexVars, queueVars, cpuVars
  <2> QED BY <2>1, SMTT(60), ZenonT(60) DEF LocksInv, SleepOK, Dead, ListOf, IsTop, Below, Held, CallOK, Polling, Hooked, Above,
                      OfferOK, Retries
<1> QED BY <1>1, <1>2, <1>3 DEF Next

\* At the start, no mutex is locked and nobody sleeps.
LEMMA InitLocks ==
  ASSUME Init
  PROVE  LocksInv
<1> SUFFICES ASSUME NEW t \in Threads
             PROVE  /\ SleepOK(t) /\ OfferOK(t) /\ ListOf(list, mutex_list[t], Held(t))
                    /\ CallOK(t, pc[t], fr[t], Held(t), mutex_list[t])
  BY DEF LocksInv
<1>1. /\ pc[t] = (IF t = Main THEN "user" ELSE "none") /\ state[t] = IF t = Main THEN "RUNNING" ELSE "NONE"
      /\ mutex_list[t] = None /\ \A m \in Mutexes : owner[m] = None
  BY DEF Init
<1>2. Held(t) = {}
  BY <1>1, AddressAssumption DEF Held, Nodes
<1>3. SleepOK(t) /\ OfferOK(t)
  BY <1>1 DEF SleepOK, OfferOK, Dead
<1>4. ListOf(list, mutex_list[t], Held(t))
  BY <1>1, <1>2 DEF ListOf, IsTop
<1>5. CallOK(t, pc[t], fr[t], Held(t), mutex_list[t])
  BY <1>1, <1>2 DEF CallOK, Polling, Hooked, PollLabels
<1> QED BY <1>3, <1>4, <1>5

\* Where a thread is in a call tells which mutexes it holds, how they are linked, and what it
\* sleeps for: LocksInv holds in every state.
THEOREM LocksInvariant == Spec => []LocksInv
<1>1. Init => LocksInv
  BY InitLocks
<1>2. KernelInv /\ LocksInv /\ [Next]_vars => LocksInv'
  BY NextLocks
<1> QED BY <1>1, <1>2, KernelInvariant, PTL DEF Spec

\* The list at ->mutex_list is the mutexes the thread owns, through any nesting of locks,
\* waits, polls and the unlock loop of chopstx_exit.
THEOREM HeldListIsExact == Spec => []HeldListExact
<1>1. LocksInv => HeldListExact
  <2> SUFFICES ASSUME LocksInv, NEW t \in Threads
               PROVE  Held(t) = IF mutex_list[t] = None THEN {} ELSE Chain(mutex_list[t])
    BY DEF HeldListExact
  <2>1. PICK S, x : S = Held(t) /\ x = mutex_list[t]
    OBVIOUS
  <2>2. S \in SUBSET Mutexes /\ ListOf(list, x, S)
    BY <2>1, LocksOf DEF Held
  <2>3. Chain(x) = S
    BY <2>2, ChainIsList
  <2>4. x = None => S = {}
    BY <2>2, AddressAssumption DEF ListOf, IsTop, Objects
  <2> QED BY <2>1, <2>3, <2>4
<1> QED BY <1>1, LocksInvariant, PTL

\* A free mutex with waiters is about to be taken by a thread that was woken up for it.
THEOREM WaitersNotAbandoned == Spec => []NoAbandonedWaiter
<1>1. KernelInv /\ LocksInv => NoAbandonedWaiter
  <2> SUFFICES ASSUME KernelInv, LocksInv, NEW m \in Mutexes, owner[m] = None, q[m] # << >>
               PROVE  \E t \in Threads : Retries(t, m)
    BY DEF NoAbandonedWaiter, Retries
  <2>1. PICK w : w = Head(q[m])
    OBVIOUS
  <2>2. m \in Queues
    BY DEF Queues, Objects
  <2>3. w \in Threads /\ state[w] = "WAIT_MTX" /\ Places(w, state[w], parent[w]) = {m}
    BY <2>1, <2>2, MutexHead
  <2>4. fr[w].mtx = m
    BY <2>3, LocksOf DEF SleepOK, Places
  <2> QED BY <2>3, <2>4, LocksOf DEF OfferOK
<1> QED BY <1>1, KernelInvariant, LocksInvariant, PTL

-----------------------------------------------------------------------------
(* A thread that has exited.                                                 *)

\* No step of a thread takes one away from where its exit ended.
LEMMA DeadStays ==
  ASSUME KernelInv, LocksInv, [Next]_vars, NEW t \in Threads, pc[t] = "dead"
  PROVE  pc'[t] = "dead"
<1>1. ASSUME NEW w \in Threads, Step(w)
      PROVE  pc' = pc \/ \E l : pc' = [pc EXCEPT ![w] = l] /\ pc[w] # "dead"
  <2>1. CASE MutexStep(w) \/ CondStep(w)
    BY <2>1 DEF MutexStep, CondStep, LockAcquire, LockHeld, LockInherit, LockBlock, WaitRelease, WaitBlock,
                WaitWoken, WaitReturn, BroadcastWake, BroadcastReturn, Runs, Locked, Goto
  <2>2. CASE ThreadStep(w)
    BY <2>2 DEF ThreadStep, SleepLoop, SleepBlock, Snooze, SleepWoken, ExitBegin, ExitHandler,
                ExitHandlersDone, ExitRelease, ExitNotify, ExitEnd, JoinFatal, JoinExited, JoinBlock,
                JoinInherit, JoinSleep, JoinReturn, Runs, Locked, Goto
  <2>3. CASE PollStep(w)
    BY <2>3 DEF PollStep, HookBegin, HookCheck, HookCount, HookUnlock, HookCond, HookIntr, HookJoin, HookFatal,
                HooksDone, PollBlock, PollWoken, PollLoop, PollSnooze, Snooze, PollSnoozed, PollClean,
                PollReturn, Runs, Goto
  <2> QED BY <1>1, <2>1, <2>2, <2>3 DEF Step
<1>2. ASSUME NEW w \in Threads, Call(w)
      PROVE  \/ pc' = pc \/ \E l : pc' = [pc EXCEPT ![w] = l] /\ pc[w] # "dead"
             \/ \E u \in Threads : pc' = [pc EXCEPT ![u] = "user"] /\ state[u] = "NONE"
  BY <1>2 DEF Call, LockCall, UnlockCall, WaitCall, SignalCall, BroadcastCall, CreateCall, SleepCall,
              CleanupPush, CleanupPop, ExitCall, JoinCall, CancelCall, TestCancelCall, SetCancelStateCall,
              SetPriorityCall, PollCall, ClaimIrq, IntrDone, Calls, Runs, Goto
<1>3. CASE Sched \/ Preempt \/ Interrupt
  BY <1>3 DEF Sched, Preempt, Interrupt, TimerExpired, HandleIntr, RaiseIrq
<1>4. CASE UNCHANGED vars
  BY <1>4 DEF vars
<1>5. state[t] # "NONE" /\ pc \in [Threads -> Labels]
  BY LocksOf, KernelParts DEF SleepOK, ControlOK
<1> QED BY <1>1, <1>2, <1>3, <1>4, <1>5 DEF Next

\* chopstx_exit is final: whatever wakes up, cancels or joins the thread afterwards, it never
\* runs again, and it has left no mutex locked.
THEOREM ExitFinal == Spec => ExitIsFinal
<1>1. KernelInv /\ LocksInv /\ LocksInv' /\ [Next]_vars =>
        \A t \in Threads : Dead(t) => Dead(t)' /\ Held(t)' = {}
  <2> SUFFICES ASSUME KernelInv, LocksInv, LocksInv', [Next]_vars, NEW t \in Threads, Dead(t)
               PROVE  Dead(t)' /\ Held(t)' = {}
    OBVIOUS
  <2>1. pc[t] = "dead"
    BY LocksOf DEF SleepOK
  <2>2. pc'[t] = "dead"
    BY <2>1, DeadStays
  <2>3. SleepOK(t)' /\ CallOK(t, pc[t], fr[t], Held(t), mutex_list[t])'
    BY DEF LocksInv
  <2>4. Held(t)' = {}
    BY <2>2, <2>3 DEF CallOK
  <2> QED BY <2>2, <2>3, <2>4 DEF SleepOK
<1>2. KernelInv /\ LocksInv /\ LocksInv' /\ [Next]_vars =>
        [\A t \in Threads : Dead(t) => Dead(t)' /\ Held(t)' = {}]_vars
  BY <1>1
<1> QED BY <1>2, KernelInvariant, LocksInvariant, PTL DEF Spec, ExitIsFinal
=============================================================================
