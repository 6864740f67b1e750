----------------------------- MODULE ChxKernel -----------------------------
(***************************************************************************)
(* The Chopstx kernel as a whole: every thread runs a program that makes   *)
(* the calls of May[t] in any order the contracts of the calls allow,      *)
(* interrupts come in whenever they are not masked.                        *)
(***************************************************************************)
EXTENDS ChxPoll

\* A thread's program makes a call.
Call(t) ==
  \/ \E m \in Mutexes : LockCall(t, m)
  \/ UnlockCall(t)
  \/ \E c \in Conds, m \in Mutexes \cup {None} : WaitCall(t, c, m)
  \/ \E c \in Conds : SignalCall(t, c)
  \/ \E c \in Conds : BroadcastCall(t, c)
  \/ \E u \in Threads : CreateCall(t, u)
  \/ \E n \in 0..MaxSleep : SleepCall(t, n)
  \/ CleanupPush(t)
  \/ CleanupPop(t)
  \/ ExitCall(t)
  \/ \E u \in Threads : JoinCall(t, u)
  \/ \E u \in Threads : CancelCall(t, u)
  \/ TestCancelCall(t)
  \/ \E enable \in BOOLEAN : SetCancelStateCall(t, enable)
  \/ \E pr \in NewPrios : SetPriorityCall(t, pr)
  \/ \E timed \in BOOLEAN, n \in 0..MaxSleep : PollCall(t, timed, n)
  \/ \E p \in Pds : ClaimIrq(t, p)
  \/ \E p \in Pds : IntrDone(t, p)

\* A thread goes on inside a call.
MutexStep(t) == LockAcquire(t) \/ LockHeld(t) \/ LockInherit(t) \/ LockBlock(t)

CondStep(t) ==
  WaitRelease(t) \/ WaitBlock(t) \/ WaitWoken(t) \/ WaitReturn(t) \/ BroadcastWake(t) \/ BroadcastReturn(t)

ThreadStep(t) ==
  \/ SleepLoop(t) \/ SleepBlock(t) \/ SleepWoken(t)
  \/ ExitBegin(t) \/ ExitHandler(t) \/ ExitHandlersDone(t) \/ ExitRelease(t) \/ ExitNotify(t) \/ ExitEnd(t)
  \/ JoinFatal(t) \/ JoinExited(t) \/ JoinBlock(t) \/ JoinInherit(t) \/ JoinSleep(t) \/ JoinReturn(t)

PollStep(t) ==
  \/ HookBegin(t) \/ (\E met \in BOOLEAN : HookCheck(t, met)) \/ HookCount(t) \/ HookUnlock(t)
  \/ HookCond(t) \/ HookIntr(t) \/ HookJoin(t) \/ HookFatal(t) \/ HooksDone(t)
  \/ PollBlock(t) \/ PollWoken(t) \/ PollLoop(t) \/ PollSnooze(t) \/ PollSnoozed(t)
  \/ PollClean(t) \/ PollReturn(t)

Step(t) == MutexStep(t) \/ CondStep(t) \/ ThreadStep(t) \/ PollStep(t)

Interrupt == TimerExpired \/ \E i \in Irqs : HandleIntr(i) \/ RaiseIrq(i)

Next ==
  \/ \E t \in Threads : Call(t) \/ Step(t)
  \/ Sched \/ Preempt
  \/ Interrupt

Spec == Init /\ [][Next]_vars

\* The processor runs on, interrupts are taken and timers expire; a program that has
\* locked a mutex and is given the CPU again and again unlocks it.
Fairness ==
  /\ \A t \in Threads : WF_vars(Step(t))
  /\ WF_vars(Sched) /\ WF_vars(Preempt) /\ WF_vars(TimerExpired)
  /\ \A i \in Irqs : WF_vars(HandleIntr(i))
  /\ \A t \in Threads : []<>(t \notin ToSet(q["timer"]))
  /\ \A t \in Threads, m \in Mutexes : SF_vars(mutex_list[t] = m /\ UnlockCall(t))

FairSpec == Spec /\ Fairness

-----------------------------------------------------------------------------
(* Types.                                                                    *)

States == {"NONE", "RUNNING", "READY", "WAIT_MTX", "WAIT_CND", "WAIT_TIME", "WAIT_EXIT",
           "WAIT_POLL", "EXITED", "FINISHED"}

\* Every variable has its type.
TypeOK ==
  /\ running \in Threads \cup {None}
  /\ cpu \in {"user", "lock", "sleep", "yield"}
  /\ pendsv \in BOOLEAN
  /\ q \in [Queues -> Seq(Nodes)]
  /\ state \in [Threads -> States]
  /\ parent \in [Threads -> Queues \cup {None}]
  /\ v \in [Threads -> Threads \cup {-1, 0, 1}]
  /\ prio \in [Nodes -> Prios]
  /\ prio_orig \in [Threads -> Prios]
  /\ got_cancel \in [Threads -> BOOLEAN]
  /\ cancelable \in [Threads -> BOOLEAN]
  /\ join_req \in [Threads -> BOOLEAN]
  /\ clp \in [Threads -> Nat]
  /\ owner \in [Mutexes -> Threads \cup {None}]
  /\ list \in [Mutexes -> Mutexes \cup {None}]
  /\ mutex_list \in [Threads -> Mutexes \cup {None}]
  /\ ready \in [Pds -> {0, 1}]
  /\ counter \in [Threads -> Nat]
  /\ irq_enabled \in [Irqs -> BOOLEAN]
  /\ irq_pending \in [Irqs -> BOOLEAN]
  /\ pc \in [Threads -> Labels]
  /\ fr \in [Threads -> Frame]

-----------------------------------------------------------------------------
(* Queues, states and scheduling.                                            *)

Linked(x, n) == x \in ToSet(q[n])
Dead(t) == state[t] \in {"EXITED", "FINISHED"}

\* The queue a thread must be linked in: the one its state tells, and the timer list
\* while a slice or a sleep of its is timed.  None: no queue at all.
Home(t) ==
  CASE state[t] = "READY"                    -> "ready"
    [] state[t] = "RUNNING"                  -> IF t \in RR THEN "timer" ELSE None
    [] state[t] = "WAIT_TIME"                -> "timer"
    [] state[t] = "WAIT_EXIT"                -> "join"
    [] state[t] \in {"WAIT_MTX", "WAIT_CND"} -> parent[t]
    [] state[t] = "WAIT_POLL"                -> IF parent[t] = "timer" THEN "timer" ELSE None
    [] OTHER                                 -> None

\* A thread is linked in the queue its state tells and in no other, and once: no wake-up,
\* cancellation, expiry, requeue or preemption leaves a thread behind in a second list,
\* or loses it.
ThreadLinkedOnce ==
  \A n \in Queues : \A i, j \in DOMAIN q[n] : q[n][i] = q[n][j] /\ q[n][i] \in Threads => i = j
QueuesMatchStates ==
  /\ \A t \in Threads, n \in Queues : Linked(t, n) <=> n = Home(t)
  /\ ThreadLinkedOnce

\* At most one thread is in state RUNNING, and RUNNING points to it; the thread it points
\* to is on its way out otherwise, or its slice has expired and PendSV is pending.
RunningOne ==
  /\ \A t \in Threads : state[t] = "RUNNING" => running = t
  /\ running # None /\ cpu = "user" =>
       state[running] = "RUNNING" \/ (state[running] = "READY" /\ pendsv)

\* The lists kept by priority are sorted, whatever happened to the priorities of the
\* nodes since they were linked: only the running thread's changes without a requeue.
QueuesSorted ==
  \A n \in {"ready"} \cup Objects : \A i, j \in DOMAIN q[n] : i < j => prio[q[n][i]] >= prio[q[n][j]]

\* When thread code runs, no ready thread has a higher priority; and the CPU is idle only
\* when no thread is ready.  A thread that is exiting releases its mutexes without
\* yielding (chopstx_exit), and then sleeps.  A thread that is joined loses the joiner's
\* priority at an unlock, and goes on unless the waiter it wakes up outranks it.
HighestRuns ==
  cpu = "user" /\ ~pendsv =>
     IF running = None THEN q["ready"] = << >>
     ELSE pc[running] # "release" /\ ~join_req[running] =>
            \A t \in Threads : state[t] = "READY" => prio[t] <= prio[running]

-----------------------------------------------------------------------------
(* Mutexes and priority inheritance.                                         *)

Held(t) == {m \in Mutexes : owner[m] = t}

\* The list at ->mutex_list has exactly the mutexes the thread owns, so that no unlock
\* forgets a mutex when it computes the priority and no exit leaves one locked.
HeldListExact ==
  \A t \in Threads : Held(t) = IF mutex_list[t] = None THEN {} ELSE Chain(mutex_list[t])

\* A mutex that is free and has waiters was offered to a thread that is about to take
\* it: the waiters, which chx_mutex_unlock leaves asleep, are not abandoned.
NoAbandonedWaiter ==
  \A m \in Mutexes : owner[m] = None /\ q[m] # << >> =>
     \E t \in Threads : fr[t].mtx = m /\ pc[t] = "mtx_lock" /\ state[t] \in {"READY", "RUNNING"}

\* A priority above a thread's own is one it has a claim to, by the first waiter of a mutex
\* it still holds: what it inherited is given back with the mutex, however the nested
\* mutexes, wake-ups and priority changes went.  (A joined thread keeps the joiner's.)
PriorityGivenBack ==
  cpu = "user" =>
    \A t \in Threads : prio[t] > prio_orig[t] /\ ~join_req[t] =>
       \E m \in Held(t) : \E w \in ToSet(q[m]) : prio[t] <= prio[w]

\* The priority u has, or is about to get from an inheritance loop that has reached it.
PrioSoon(u) ==
  IF \E t \in Threads : pc[t] \in {"mtx_pi", "join_pi"} /\ fr[t].tp0 = u /\ prio[t] > prio[u]
  THEN prio[running] ELSE prio[u]

OwnersOutrankWaiters ==
  \A m \in Mutexes : owner[m] # None => \A w \in ToSet(q[m]) : prio[w] <= PrioSoon(owner[m])

\* Inheritance reaches every owner that holds a waiter up, through any number of mutexes:
\* once owners outrank their waiters, two steps alone can change that.  They are the
\* acquisition of a mutex that has waiters, and a chopstx_setpriority that lowers.
InheritanceKept ==
  [][OwnersOutrankWaiters =>
       \/ OwnersOutrankWaiters'
       \/ \E m \in Mutexes : owner[m] = None /\ owner'[m] # None /\ q[m] # << >>
       \/ \E t \in Threads : prio_orig'[t] < prio_orig[t]]_vars

\* chopstx.c says of requeue "Re-queue TP after priority change.  Returns a thread which
\* can wake up this thread TP": with it the priority reaches whoever holds a waiter up,
\* so that the owner of a mutex has at least the priority of each waiter.
OwnerInherits ==
  cpu = "user" =>
    \A m \in Mutexes : owner[m] # None => \A w \in ToSet(q[m]) : prio[w] <= prio[owner[m]]

-----------------------------------------------------------------------------
(* Exit, join and cancellation.                                              *)

\* Thread t has left chopstx_poll in its middle, or may have: it was cancelled and exits, or has
\* called chx_fatal.
CutOff(t) ==
  \/ pc[t] \in {"exit", "handlers", "release", "dying", "dead"} /\ got_cancel[t]
  \/ pc[t] = "fatal"

\* Such a thread may have left a proxy that waits for the exit of u, and takes the one wake-up.
StaleWaiter(u) == \E p \in Pds : PdKind[p] = "join" /\ PdObj[p] = u /\ CutOff(Master(p))

\* A thread, or a proxy, that waits for the exit of a thread will be found when that thread
\* exits: it has not exited yet, and knows that it is waited for.  (chx_exit wakes up the
\* first waiter, which may be one that was left behind.)
NoMissedExit ==
  /\ \A t \in Threads : state[t] = "WAIT_EXIT" => join_req[v[t]] /\ (Dead(v[t]) => StaleWaiter(v[t]))
  /\ \A p \in Pds :
       Linked(p, "join") => join_req[PdObj[p]] /\ (Dead(PdObj[p]) => StaleWaiter(PdObj[p]))

\* A thread that has exited never runs again, holds no mutex and is linked nowhere.
ExitIsFinal == [][\A t \in Threads : Dead(t) => Dead(t)' /\ Held(t)' = {}]_vars

\* chopstx.c says of chopstx_join "Returns 0 on success, 1 when waiting is interrupted":
\* when the joined thread has exited, the result is 0.
JoinSucceeds ==
  \A t \in Threads : pc[t] = "join_woken" /\ state[t] = "RUNNING" /\ Dead(fr[t].tgt) => v[t] = 0

\* "Cancellation points: cond_wait, usec_wait, join, and poll": a thread with a pending
\* cancellation it accepts does not go to sleep in one.
NoSleepWhenCanceled ==
  \A t \in Threads : state[t] \in {"WAIT_CND", "WAIT_TIME", "WAIT_EXIT", "WAIT_POLL"} => ~Canceled(t)

-----------------------------------------------------------------------------
(* Poll and interrupts.                                                      *)

\* A thread sleeps in chopstx_poll only while none of its descriptors is active, and each
\* of them is armed: whatever happens next will find the proxy.
PollArmed ==
  \A t \in Threads : state[t] = "WAIT_POLL" =>
     /\ counter[t] = 0
     /\ \A p \in ToSet(PollArray[t]) :
          /\ ready[p] = 0
          /\ CASE PdKind[p] = "cond" -> Linked(p, PdObj[p])
               [] PdKind[p] = "intr" -> Linked(p, "intr") /\ irq_enabled[PdObj[p]]
               [] PdKind[p] = "join" -> Linked(p, "join") /\ (Dead(PdObj[p]) => StaleWaiter(PdObj[p]))

\* An active descriptor makes chopstx_poll return a positive count, even if the increment
\* of the counter in chx_cond_hook loses that of an interrupt.
PollCountsActive ==
  \A t \in Threads : pc[t] = "poll_clean" /\ ~MorePds(t) =>
     (counter[t] = 0 <=> \A p \in ToSet(PollArray[t]) : ready[p] = 0)

\* "Returns number of active descriptors."
PollCountExact ==
  \A t \in Threads : pc[t] = "poll_clean" /\ ~MorePds(t) =>
     counter[t] = Cardinality({p \in ToSet(PollArray[t]) : ready[p] = 1})

\* An interrupt is enabled exactly while the proxy of its descriptor is linked, so that it
\* never comes in with nobody to wake up.
IrqFollowsProxy ==
  \A i \in Irqs : irq_enabled[i] <=> \E p \in Pds : PdKind[p] = "intr" /\ PdObj[p] = i /\ Linked(p, "intr")

\* NEWS, 0.11: "IRQ is enabled only when a thread is blocked in polling.  When it (the
\* thread in polling) is canceled, IRQ is disabled."
IrqOffWhenDead ==
  \A p \in Pds : PdKind[p] = "intr" /\ Dead(Master(p)) => ~irq_enabled[PdObj[p]]

\* After chopstx_poll the proxies, which were on its stack, are linked nowhere; the
\* exceptions are a thread that is cancelled inside chopstx_poll, and chx_fatal.
ProxiesTakenBack ==
  \A p \in Pds, n \in Queues : Linked(p, n) => InPoll(Master(p)) \/ CutOff(Master(p))

-----------------------------------------------------------------------------
(* Progress.                                                                 *)

Top(t) == \A u \in Threads \ {t} : InitPrio[u] < InitPrio[t]

\* Priority inversion is bounded: the thread of highest priority gets the mutex it waits
\* for, whatever the threads of middle priority do, even if they never give up the CPU
\* (chopstx_mutex_lock and requeue).  It holds where programs hold one mutex at a time: with
\* nested ones a chain may end at a mutex that is free but promised (OwnerInherits).
InversionBounded ==
  \A t \in Threads, m \in Mutexes :
    Top(t) => (pc[t] = "mtx_lock" /\ fr[t].mtx = m ~> owner[m] = t)
=============================================================================
