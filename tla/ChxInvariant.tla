---------------------------- MODULE ChxInvariant ----------------------------
(***************************************************************************)
(* An inductive invariant of the kernel: what every section relies on when *)
(* it is entered, and restores before it is left.  It says why a thread is *)
(* linked in the queue its state tells, and in no other.                   *)
(***************************************************************************)
EXTENDS ChxKernel

\* The queues x is linked in.
Where(Q, x) == {n \in Queues : x \in ToSet(Q[n])}

\* The queues thread t has to be linked in, with ->state st and ->parent pa.
Places(t, st, pa) ==
  CASE st = "READY"                    -> {"ready"}
    [] st = "RUNNING"                  -> IF t \in RR THEN {"timer"} ELSE {}
    [] st = "WAIT_TIME"                -> {"timer"}
    [] st = "WAIT_EXIT"                -> {"join"}
    [] st \in {"WAIT_MTX", "WAIT_CND"} -> {pa}
    [] st = "WAIT_POLL"                -> IF pa = "timer" THEN {"timer"} ELSE {}
    [] OTHER                           -> {}

\* What ->state says of ->parent and ->v.
StateOK(t, st, pa, vv) ==
  /\ st = "READY" => pa = "ready"
  /\ st = "WAIT_MTX" => pa \in Mutexes
  /\ st = "WAIT_CND" => pa \in Conds
  /\ st = "WAIT_TIME" => pa = "timer"
  /\ st = "WAIT_EXIT" <=> vv \in Threads
  /\ st = "RUNNING" => IF t \in RR THEN vv = 1 ELSE pa # "timer"

\* Well-formed lists; no thread is twice in one, and no proxy in one whose nodes the
\* kernel takes for threads.
ListsOK(Q) ==
  /\ Q \in [Queues -> Seq(Nodes)]
  /\ \A n \in Queues, t \in Threads : \A i, j \in DOMAIN Q[n] : Q[n][i] = t /\ Q[n][j] = t => i = j
  /\ \A p \in Pds, n \in {"ready", "timer"} \cup Mutexes : p \notin ToSet(Q[n])

\* The lists and the fields ->state, ->parent and ->v agree.
Linkage(Q, st, pa, vv) ==
  /\ ListsOK(Q)
  /\ st \in [Threads -> States]
  /\ pa \in [Threads -> Queues \cup {None}]
  /\ vv \in [Threads -> Threads \cup {-1, 0, 1}]
  /\ \A t \in Threads : Where(Q, t) = Places(t, st[t], pa[t]) /\ StateOK(t, st[t], pa[t], vv[t])

\* The running thread, by the stage of the section the processor is in.
ProcessorOK ==
  /\ \A t \in Threads : state[t] = "RUNNING" => running = t
  /\ cpu # "user" => running # None
  /\ cpu = "user" /\ running # None =>
       state[running] = "RUNNING" \/ (state[running] = "READY" /\ pendsv /\ running \in RR)
  /\ cpu = "lock" => state[running] = IF pc[running] = "join_pi" THEN "WAIT_EXIT" ELSE "RUNNING"
  /\ cpu = "sleep" => state[running] # "RUNNING"
  /\ cpu = "yield" => state[running] = "RUNNING"

\* The locals f of a thread t that is inside a call, at label l.
FrameOK(t, l, f) ==
  /\ l \in {"mtx_lock", "mtx_pi"} =>
       /\ f.mtx \in Mutexes
       /\ f.then \in {"user", "cond_relocked", "hook_check"}
       /\ f.then = "hook_check" => f.idx \in DOMAIN PollArray[t]
  /\ l \in {"cond_wait", "cond_block", "bcast"} => f.cnd \in Conds
  /\ l \in {"join", "join_pi", "join_woken"} => f.tgt \in Threads
  /\ l \in {"hook_check", "hook_count", "hook_reg", "hook_unlock"} => f.idx \in DOMAIN PollArray[t]
  /\ l \in PollLabels => f.idx >= 1
  /\ l = "hook_count" => f.r >= 0
  /\ l \in {"snoozed", "poll_snoozed"} => f.r = 1 \/ (f.r = 0 /\ f.left > 0)
  /\ t \in RR /\ (l \in PollLabels \/ (l \in {"mtx_lock", "mtx_pi"} /\ f.then \in PollLabels)) => f.timed

\* chx_sched never returns 0 to chopstx_join.
JoinOK(t) ==
  pc[t] = "join_woken" =>
    /\ state[t] \in {"WAIT_EXIT", "READY", "RUNNING"}
    /\ t \notin RR => v[t] # 0

\* The strengthening of TypeOK and QueuesMatchStates that every step preserves.
KernelInv ==
  /\ TypeOK
  /\ Linkage(q, state, parent, v)
  /\ ProcessorOK
  /\ \A t \in Threads : FrameOK(t, pc[t], fr[t])
  /\ \A t \in Threads : JoinOK(t)

-----------------------------------------------------------------------------
(* Mutexes: the second half of the invariant, which relates what a thread    *)
(* holds to where it is in a call.                                           *)

\* What a thread sleeps for is what it is doing.
SleepOK(t) ==
  /\ state[t] = "NONE" <=> pc[t] = "none"
  /\ Dead(t) <=> pc[t] = "dead"
  /\ state[t] = "WAIT_MTX" => pc[t] = "mtx_lock" /\ parent[t] = fr[t].mtx
  /\ state[t] = "WAIT_CND" => pc[t] = "cond_woken"
  /\ state[t] = "WAIT_TIME" => pc[t] = "snoozed"
  /\ state[t] = "WAIT_EXIT" => pc[t] \in {"join_pi", "join_woken"} /\ v[t] = fr[t].tgt
  /\ state[t] = "WAIT_POLL" => pc[t] \in {"poll_woken", "poll_snoozed"}

\* x is the mutex of S that a program following LockRank has locked last.
IsTop(x, S) ==
  /\ S = {} => x = None
  /\ S # {} => x \in S /\ \A n \in S : n # x => LockRank[n] < LockRank[x]
Above(m, S) == \A n \in S : LockRank[n] < LockRank[m]
Below(m, S) == {n \in S : LockRank[n] < LockRank[m]}

\* From x on, the links ls (->list) go through the mutexes held, S, from the last to the first.
ListOf(ls, x, S) ==
  /\ \A m, n \in S : LockRank[m] = LockRank[n] => m = n
  /\ IsTop(x, S)
  /\ \A m \in S : IsTop(ls[m], Below(m, S))

\* At label l with locals f, a thread is inside chopstx_poll, and its hook has the mutex of the
\* descriptor, if there is one.
Polling(l, f) == l \in PollLabels \/ (l \in {"mtx_lock", "mtx_pi"} /\ f.then \in PollLabels)
Hooked(t, l, f) == \/ l \in {"hook_check", "hook_count", "hook_unlock"}
                   \/ l = "hook_reg" /\ PdKind[PollArray[t][f.idx]] = "cond"

\* What a thread t that holds the mutexes S, linked from x on, may rely on at label l with
\* locals f: the mutex it is about to release was locked last, those it is about to lock
\* come after all it holds.
CallOK(t, l, f, S, x) ==
  /\ l \in {"cond_wait", "release"} => f.mtx = x
  /\ l \in {"mtx_lock", "mtx_pi"} => Above(f.mtx, S)
  /\ l \in {"cond_block", "cond_woken"} /\ f.mtx # None => Above(f.mtx, S)
  /\ l \in {"none", "dying", "dead"} => S = {}
  /\ l \in {"mtx_lock", "mtx_pi"} /\ Polling(l, f) =>
       f.mtx = PdMutex[PollArray[t][f.idx]] /\ PdKind[PollArray[t][f.idx]] = "cond"
  /\ Hooked(t, l, f) =>
       LET p == PollArray[t][f.idx]
       IN  PdKind[p] = "cond" /\ (PdMutex[p] # None => x = PdMutex[p])
  /\ Polling(l, f) =>
       \A p \in ToSet(PollArray[t]) : PdMutex[p] # None =>
         Above(PdMutex[p], IF Hooked(t, l, f) THEN S \ {PdMutex[PollArray[t][f.idx]]} ELSE S)

\* Thread u is about to look at mutex m again.
Retries(u, m) == fr[u].mtx = m /\ pc[u] = "mtx_lock" /\ state[u] \in {"READY", "RUNNING"}

\* A mutex that is waited for is held, or on offer.
OfferOK(t) ==
  /\ pc[t] = "mtx_pi" => running = t /\ cpu = "lock" /\ owner[fr[t].mtx] # None
  /\ state[t] = "WAIT_MTX" /\ owner[fr[t].mtx] = None => \E u \in Threads : Retries(u, fr[t].mtx)

LocksInv ==
  /\ \A t \in Threads : SleepOK(t)
  /\ \A t \in Threads : ListOf(list, mutex_list[t], Held(t))
  /\ \A t \in Threads : CallOK(t, pc[t], fr[t], Held(t), mutex_list[t])
  /\ \A t \in Threads : OfferOK(t)

-----------------------------------------------------------------------------
(* Poll and exits: the third part of the invariant.                          *)

\* The queue of what descriptor p waits for.
ProxyHome(p) == IF PdKind[p] = "cond" THEN PdObj[p] ELSE PdKind[p]

\* The hook of the k-th descriptor of an array has been called by a thread at label l with locals
\* f: its proxy is linked, or its event has been counted.
Active(l, f, k) ==
  /\ Polling(l, f)
  /\ l \in {"hook", "hook_check", "hook_count", "hook_reg", "mtx_lock", "mtx_pi"} => k < f.idx
  /\ l = "hook_unlock" => k <= f.idx

\* The proxy is linked: nothing has happened, and it has not been taken back yet.
Armed(l, f, k, rd) ==
  Active(l, f, k) /\ (l = "poll_clean" => k >= f.idx) /\ rd = 0

\* The proxies of thread t are linked where they belong, while they are armed; and those that are not
\* were left behind.
ProxiesOK(t) ==
  \A k \in DOMAIN PollArray[t] :
    LET p == PollArray[t][k]
    IN  /\ Armed(pc[t], fr[t], k, ready[p]) => Linked(p, ProxyHome(p))
        /\ \A n \in Queues :
             /\ Linked(p, n) => n = ProxyHome(p) /\ (Armed(pc[t], fr[t], k, ready[p]) \/ CutOff(t))
             /\ \A i, j \in DOMAIN q[n] : q[n][i] = p /\ q[n][j] = p => i = j

\* Between the hooks and the clean-up.
WaitLabels == {"poll", "poll_woken", "poll_timed", "poll_snooze", "poll_snoozed"}

\* The counter is positive exactly if an event has been counted; the clean-up will start with the
\* first descriptor.
CountOK(t) ==
  /\ pc[t] \in WaitLabels => fr[t].idx = 1
  /\ Polling(pc[t], fr[t]) =>
       (counter[t] = 0 <=> \A k \in DOMAIN PollArray[t] :
                             Active(pc[t], fr[t], k) => ready[PollArray[t][k]] = 0)
  /\ pc[t] = "hook_reg" /\ PdKind[Pd(t)] = "cond" => ready[Pd(t)] = 0
  /\ state[t] = "WAIT_POLL" => counter[t] = 0

\* The exit of u will be noticed by those who wait for it.
Noticed(u) == join_req[u] /\ (pc[u] \in {"dying", "dead"} => StaleWaiter(u))

\* One thread waits for the exit of u, and finds it EXITED if it comes too late.
AwaitedOK(u) ==
  /\ \A t, w \in Threads : Awaits(t, u) /\ Awaits(w, u) => t = w
  /\ (\E t \in Threads : Awaits(t, u)) /\ state[u] = "FINISHED" => u \in Detached
  /\ pc[u] = "dying" => running = u /\ cpu = "lock"

PollInv ==
  /\ \A t \in Threads : ProxiesOK(t)
  /\ \A t \in Threads : CountOK(t)
  /\ IrqFollowsProxy
  /\ \A u \in Threads : AwaitedOK(u)
  /\ \A t \in Threads : state[t] = "WAIT_EXIT" => Noticed(v[t])
  /\ \A p \in Pds : Linked(p, "join") => Noticed(PdObj[p])

-----------------------------------------------------------------------------
(* Priorities: the last part.                                                *)

\* The labels of the inheritance loops.
LoopLabels == {"mtx_pi", "join_pi"}

\* Thread w is asleep for mutex m, or about to be.
WaitsAt(w, m) == \/ state[w] = "WAIT_MTX" /\ parent[w] = m
                 \/ pc[w] = "mtx_pi" /\ fr[w].mtx = m

\* Thread t has a claim to priority pr, by one who waits for a mutex it holds, or for its exit.
Deserves(t, pr) ==
  join_req[t] \/ \E m \in Held(t), w \in Threads : WaitsAt(w, m) /\ pr <= prio[w]

\* What a thread inherited, it has a claim to.
ClaimOK(t) == prio_orig[t] <= prio[t] /\ (prio[t] > prio_orig[t] => Deserves(t, prio[t]))

\* So has the thread an inheritance loop has come to; the owner of the mutex is the first it
\* comes to.
CursorOK(t) ==
  pc[t] \in LoopLabels =>
    /\ running = t /\ cpu = "lock"
    /\ fr[t].tp0 # None => Deserves(fr[t].tp0, prio[t])
    /\ pc[t] = "mtx_pi" => \/ fr[t].tp0 = owner[fr[t].mtx]
                           \/ prio[t] <= prio[owner[fr[t].mtx]]

\* The running thread has the highest priority, or has had the priority of a joiner.
Leads == \A t \in Threads : state[t] = "READY" =>
           running # None /\ (join_req[running] \/ prio[t] <= prio[running])

\* It leads unless a switch is to come: by PendSV, or at the end of a section.
HighInv ==
  /\ cpu # "user" => ~pendsv
  /\ cpu = "user" /\ ~pendsv /\ (running = None \/ pc[running] # "release") => Leads
  /\ cpu = "lock" /\ pc[running] = "bcast" /\ ~fr[running].yield => Leads

PrioInv ==
  /\ QueuesSorted
  /\ \A t \in Threads : ClaimOK(t)
  /\ \A t \in Threads : CursorOK(t)
  /\ HighInv

\* The whole invariant, each step of the kernel preserves it.
ChxInv == KernelInv /\ LocksInv /\ PollInv /\ PrioInv
=============================================================================
