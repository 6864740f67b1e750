------------------------------ MODULE ChxBase ------------------------------
(***************************************************************************)
(* The state of the Chopstx kernel and its primitives: the intrusive       *)
(* queues, the ready list, the timer list, dispatching, preemption,        *)
(* wake-up and the two interrupt entries (chopstx.c, chopstx-cortex-m.c).  *)
(*                                                                         *)
(* One CPU.  The code between chx_cpu_sched_lock and                       *)
(* chx_cpu_sched_unlock / chx_sched runs with interrupts masked, so a      *)
(* locked section is one action; where a section loops over other threads  *)
(* or ends in the svc exception, it is a chain of actions taken with cpu # *)
(* "user", during which nothing else is enabled.  Between sections any     *)
(* interrupt may come in, and a pending PendSV is taken before any thread  *)
(* runs on.                                                                *)
(*                                                                         *)
(* A definition BugX that stands before X is X with a defect a programmer  *)
(* might have put into the code.  Nothing uses it: it is put in the place  *)
(* of X to see that the properties would notice.                           *)
(***************************************************************************)
EXTENDS Integers, FiniteSets, SequencesExt

CONSTANTS
  Threads,      \* thread identities (struct chx_thread)
  Main,         \* the thread that enters chx_init
  Mutexes, Conds, Irqs,
  None,         \* the NULL pointer
  RR,           \* threads created with CHOPSTX_SCHED_RR
  Detached,     \* threads created with CHOPSTX_DETACHED
  InitPrio,     \* priority given to chopstx_create, or CHX_PRIO_MAIN_INIT
  Inhibit,      \* CHOPSTX_PRIO_INHIBIT_PREEMPTION
  Pds,          \* poll descriptors; a descriptor names the proxy chopstx_poll makes for it
  PollArray,    \* [Threads -> Seq(Pds)]: the pd_array a thread polls with
  PdKind,       \* [Pds -> {"cond", "intr", "join"}]: ->type
  PdObj,        \* [Pds -> Conds \cup Irqs \cup Threads]: what the descriptor waits for
  PdMutex,      \* [Pds -> Mutexes \cup {None}]: ->mutex of a chx_poll_cond
  May,          \* [Threads -> SUBSET STRING]: the calls a thread's program makes
  LockRank,     \* [Mutexes -> Nat]: the order in which the programs nest mutexes
  NewPrios,     \* priorities the programs pass to chopstx_setpriority
  MaxSleep,     \* bound: a sleep is at most this many MAX_USEC_FOR_TIMER slices
  MaxCleanup    \* bound: clean-ups a thread registers at a time

Prios   == 0..255                     \* the 8-bit fields prio and prio_orig
Nodes   == Threads \cup Pds           \* what a queue links: struct chx_pq
Objects == Mutexes \cup Conds
Queues  == {"ready", "timer", "join", "intr"} \cup Objects

Labels == {"none", "user", "mtx_lock", "mtx_pi",
           "cond_wait", "cond_block", "cond_woken", "cond_relocked", "bcast",
           "usleep", "snooze", "snoozed",
           "join", "join_pi", "join_woken", "fatal",
           "exit", "handlers", "release", "final", "dying", "dead",
           "hook", "hook_check", "hook_count", "hook_reg", "hook_unlock",
           "poll", "poll_woken", "poll_timed", "poll_snooze", "poll_snoozed",
           "poll_clean"}

\* The labels inside chopstx_poll.
PollLabels == {"hook", "hook_check", "hook_count", "hook_reg", "hook_unlock", "poll", "poll_woken",
               "poll_timed", "poll_snooze", "poll_snoozed", "poll_clean"}

ASSUME ConstantsAssumption ==
  /\ Main \in Threads /\ RR \subseteq Threads /\ Detached \subseteq Threads
  /\ IsFiniteSet(Mutexes)
  /\ InitPrio \in [Threads -> Prios] /\ Inhibit \in Prios /\ NewPrios \subseteq Prios
  /\ MaxSleep \in Nat /\ MaxCleanup \in Nat
  /\ PollArray \in [Threads -> Seq(Pds)]
  /\ PdKind \in [Pds -> {"cond", "intr", "join"}]
  /\ PdMutex \in [Pds -> Mutexes \cup {None}]
  /\ \A p \in Pds : /\ PdKind[p] = "cond" => PdObj[p] \in Conds
                    /\ PdKind[p] = "intr" => PdObj[p] \in Irqs
                    /\ PdKind[p] = "join" => PdObj[p] \in Threads
  /\ LockRank \in [Mutexes -> Nat]

\* Nodes, objects and the NULL pointer are distinct addresses; a descriptor belongs
\* to one thread, and occurs once in its array.
ASSUME AddressAssumption ==
  /\ Threads \cap Pds = {} /\ Mutexes \cap Conds = {} /\ Threads \cap {-1, 0, 1} = {}
  /\ Objects \cap {"ready", "timer", "join", "intr"} = {}
  /\ None \notin Nodes \cup Objects \cup {"ready", "timer", "join", "intr"}
  /\ \A p \in Pds : \E t \in Threads : p \in ToSet(PollArray[t])
  /\ \A t, u \in Threads : t # u => ToSet(PollArray[t]) \cap ToSet(PollArray[u]) = {}
  /\ \A t \in Threads : \A i, j \in DOMAIN PollArray[t] : PollArray[t][i] = PollArray[t][j] => i = j

VARIABLES
  \* the processor
  running,      \* the thread RUNNING points to; None in the idle loop
  cpu,          \* "user": outside a section; "lock": inside one; "sleep", "yield": in chx_sched
  pendsv,       \* PendSV is pending (chx_request_preemption)
  \* struct chx_thread and struct chx_pq
  q,            \* [Queues -> Seq(Nodes)]: the linked lists, from head to tail
  state,        \* ->state; "NONE" before chopstx_create
  parent,       \* ->parent: the queue a thread was last inserted in, kept by ll_dequeue
  v,            \* ->v of a thread: 0, 1 (any positive number), -1, or the thread being joined
  prio,         \* ->prio of threads and of proxies
  prio_orig,
  got_cancel, cancelable, join_req,
  clp,          \* number of clean-ups linked at ->clp
  \* struct chx_mtx
  owner, list,
  mutex_list,   \* ->mutex_list of a thread
  \* poll descriptors and the interrupt controller
  ready,        \* ->ready of a descriptor
  counter,      \* the counter of a thread's chopstx_poll
  irq_enabled, irq_pending,
  \* control
  pc, fr        \* fr[t]: the locals of the calls t is in

cpuVars   == <<running, cpu, pendsv>>
queueVars == <<q, state, parent, v>>
prioVars  == <<prio, prio_orig>>
flagVars  == <<got_cancel, cancelable, join_req, clp>>
mutexVars == <<owner, list, mutex_list>>
pollVars  == <<ready, counter>>
irqVars   == <<irq_enabled, irq_pending>>
vars == <<cpuVars, queueVars, prioVars, flagVars, mutexVars, pollVars, irqVars, pc, fr>>

\* The locals: mutex and return label of chopstx_mutex_lock, condition variable, cursor
\* of a priority inheritance loop, thread being joined, result of chx_sched, slices of
\* the sleep left, index of a loop, whether chopstx_poll was given a time limit, and
\* the yield flag of a broadcast.
Frame == [mtx : Mutexes \cup {None}, then : Labels, cnd : Conds \cup {None},
          tp0 : Threads \cup {None}, tgt : Threads \cup {None}, r : Int,
          left : Nat, idx : Nat, timed : BOOLEAN, yield : BOOLEAN]
NoFrame == [mtx |-> None, then |-> "user", cnd |-> None, tp0 |-> None, tgt |-> None,
            r |-> 0, left |-> 0, idx |-> 0, timed |-> FALSE, yield |-> FALSE]

Master(p) == CHOOSE t \in Threads : p \in ToSet(PollArray[t])     \* px->master
ThreadOf(x) == IF x \in Pds THEN Master(x) ELSE x

-----------------------------------------------------------------------------
(* Linked lists.  An operator on q maps a value of q to another.            *)

\* ll_dequeue: X leaves the list it is linked in; a node alone stays alone.
Without(s, x) == RemoveAt(s, CHOOSE i \in DOMAIN s : s[i] = x)
Dequeue(Q, x) ==
  IF \A n \in Queues : x \notin ToSet(Q[n]) THEN Q
  ELSE LET n == CHOOSE n \in Queues : x \in ToSet(Q[n]) IN [Q EXCEPT ![n] = Without(@, x)]

\* Where ll_prio_enqueue stops: behind the leading nodes of priority PRIO or higher.
EnqueueAt(s, prios, pr) == 1 + Cardinality({i \in DOMAIN s : \A j \in 1..i : prios[s[j]] >= pr})
\* Where ll_prio_push stops: behind the leading nodes of priority higher than PRIO.
PushAt(s, prios, pr) == 1 + Cardinality({i \in DOMAIN s : \A j \in 1..i : prios[s[j]] > pr})

PrioEnqueue(Q, n, x, prios) ==
  [Q EXCEPT ![n] = InsertAt(@, EnqueueAt(@, prios, prios[x]), x)]
PrioPush(Q, n, x, prios) ==
  [Q EXCEPT ![n] = InsertAt(@, PushAt(@, prios, prios[x]), x)]

\* chx_timer_insert: the list is kept by expiry; when that comes is abstracted, so the
\* place in the list is any place.
TimerInsert(Q, t, i) == [Q EXCEPT !["timer"] = InsertAt(@, i, t)]
TimerPlaces(Q) == 1..(Len(Q["timer"]) + 1)
\* The ticks chx_timer_dequeue finds remaining: zero or positive.
TicksRemained == {0, 1}

\* chx_timer_dequeue of a round-robin thread that is about to leave the CPU.
BugStopSlice(Q, t) == Q                                 \* the slice is left in the list
StopSlice(Q, t) == IF t \in RR THEN Dequeue(Q, t) ELSE Q

-----------------------------------------------------------------------------
(* Scheduling.                                                               *)

\* chx_ready_enqueue on queues Q.
MakeReady(Q, t) ==
  /\ q' = PrioEnqueue(Q, "ready", t, prio)
  /\ state' = [state EXCEPT ![t] = "READY"]
  /\ parent' = [parent EXCEPT ![t] = "ready"]

\* chx_ready_pop and the start of a slice, on queues Q with the other fields st, pa, vv.
Dispatch(Q, st, pa, vv) ==
  LET h  == Head(Q["ready"])
      Q1 == [Q EXCEPT !["ready"] = Tail(@)]
  IN  \/ /\ Q["ready"] = << >>
         /\ running' = None
         /\ q' = Q /\ state' = st /\ parent' = pa /\ v' = vv
      \/ /\ Q["ready"] # << >> /\ h \notin RR
         /\ running' = h
         /\ q' = Q1 /\ state' = [st EXCEPT ![h] = "RUNNING"] /\ parent' = pa /\ v' = vv
      \/ /\ Q["ready"] # << >> /\ h \in RR
         /\ running' = h
         /\ \E i \in TimerPlaces(Q1) : q' = TimerInsert(Q1, h, i)
         /\ state' = [st EXCEPT ![h] = "RUNNING"]
         /\ parent' = [pa EXCEPT ![h] = "timer"]
         /\ v' = [vv EXCEPT ![h] = 1]

\* The second half of a section that ends in chx_sched: the svc handler.
Sched ==
  /\ cpu \in {"sleep", "yield"}
  /\ IF cpu = "yield"
     THEN LET Q == PrioEnqueue(StopSlice(q, running), "ready", running, prio)
          IN  Dispatch(Q, [state EXCEPT ![running] = "READY"],
                       [parent EXCEPT ![running] = "ready"],
                       IF running \in RR THEN [v EXCEPT ![running] = 0] ELSE v)
     ELSE Dispatch(q, state, parent, v)
  /\ cpu' = "user"
  /\ UNCHANGED <<pendsv, prioVars, flagVars, mutexVars, pollVars, irqVars, pc, fr>>

\* Interrupts are masked inside a section, and while the running thread has a priority
\* of CHOPSTX_PRIO_INHIBIT_PREEMPTION or higher.
Interruptible ==
  /\ cpu = "user"
  /\ running # None => prio[running] < Inhibit

\* preempt: the PendSV handler.
Preempt ==
  /\ Interruptible /\ pendsv
  /\ \/ /\ running = None
        /\ Dispatch(q, state, parent, v)
     \/ /\ running # None /\ running \in RR /\ state[running] = "READY"  \* slice expired
        /\ Dispatch(q, state, parent, v)
     \/ /\ running # None /\ running \in RR /\ state[running] = "RUNNING"
        /\ Dispatch(PrioEnqueue(Dequeue(q, running), "ready", running, prio),
                    [state EXCEPT ![running] = "READY"],
                    [parent EXCEPT ![running] = "ready"], [v EXCEPT ![running] = 0])
     \/ /\ running # None /\ running \notin RR
        /\ Dispatch(PrioPush(q, "ready", running, prio),
                    [state EXCEPT ![running] = "READY"],
                    [parent EXCEPT ![running] = "ready"], v)
  /\ pendsv' = FALSE
  /\ UNCHANGED <<cpu, prioVars, flagVars, mutexVars, pollVars, irqVars, pc, fr>>

\* chx_request_preemption for a thread of priority pr.
BugRequestPreemption(pr) == pendsv' = (pendsv \/ running = None)   \* for the idle loop only
RequestPreemption(pr) == pendsv' = (pendsv \/ running = None \/ prio[running] < pr)

\* chx_timer_expired: the head of the timer list expires.  Entries of the same tick
\* are the same interrupt in the code and consecutive ones here; no thread that the
\* earlier ones make runnable can tell.
TimerExpired ==
  /\ Interruptible /\ q["timer"] # << >>
  /\ LET t == Head(q["timer"])
     IN  /\ MakeReady([q EXCEPT !["timer"] = Tail(@)], t)
         /\ v' = [v EXCEPT ![t] = 0]
         /\ IF t = running THEN pendsv' = TRUE ELSE RequestPreemption(prio[t])
  /\ UNCHANGED <<running, cpu, prioVars, flagVars, mutexVars, pollVars, irqVars, pc, fr>>

-----------------------------------------------------------------------------
(* Waking up.                                                                *)

\* A thread in WAIT_TIME or WAIT_POLL that sleeps for a limited time.
BugTimed(t) == FALSE                                    \* the timer list is forgotten
Timed(t) == parent[t] = "timer"

\* chx_wakeup of X, taken off its queue: Q are the queues without X.
Wakeup(x, Q) ==
  LET t == ThreadOf(x)
      timed == x \in Pds /\ Timed(t)
  IN  /\ IF x \in Pds
         THEN /\ counter' = [counter EXCEPT ![t] = @ + 1]
              /\ ready' = [ready EXCEPT ![x] = 1]
         ELSE UNCHANGED pollVars
      /\ IF x \in Pds /\ state[t] # "WAIT_POLL"
         THEN q' = Q /\ UNCHANGED <<state, parent, v>>
         ELSE /\ MakeReady(IF timed THEN Dequeue(Q, t) ELSE Q, t)
              /\ \E ticks \in IF timed THEN TicksRemained ELSE {1} :
                   v' = [v EXCEPT ![t] = ticks]

\* What chx_wakeup of X returns: the thread it makes ready outranks the running one.
Outranks(x) ==
  /\ x \in Pds => state[Master(x)] = "WAIT_POLL"
  /\ running = None \/ prio[ThreadOf(x)] > prio[running]

\* chx_disable_intr.
BugDisabled(irq) == irq_enabled                         \* the interrupt stays enabled
Disabled(irq) == [irq_enabled EXCEPT ![irq] = FALSE]

\* chx_handle_intr.
HandleIntr(irq) ==
  /\ Interruptible
  /\ irq_enabled[irq] /\ irq_pending[irq]
  /\ irq_enabled' = Disabled(irq)
  /\ irq_pending' = [irq_pending EXCEPT ![irq] = FALSE]
  /\ \/ \E i \in DOMAIN q["intr"] :
          LET p == q["intr"][i]
          IN  /\ PdObj[p] = irq
              /\ \A j \in 1..(i-1) : PdObj[q["intr"][j]] # irq
              /\ Wakeup(p, Dequeue(q, p))
              /\ RequestPreemption(prio[Master(p)])
     \/ /\ \A i \in DOMAIN q["intr"] : PdObj[q["intr"][i]] # irq
        /\ UNCHANGED <<queueVars, pollVars, pendsv>>
  /\ UNCHANGED <<running, cpu, prioVars, flagVars, mutexVars, pc, fr>>

\* The device raises its interrupt line (external).
RaiseIrq(irq) ==
  /\ ~irq_pending[irq]
  /\ irq_pending' = [irq_pending EXCEPT ![irq] = TRUE]
  /\ UNCHANGED <<cpuVars, queueVars, prioVars, flagVars, mutexVars, pollVars, irq_enabled, pc, fr>>

-----------------------------------------------------------------------------
(* Thread code.                                                              *)

\* Thread t is about to run the code at label l, outside a section.
Runs(t, l) == running = t /\ cpu = "user" /\ ~pendsv /\ pc[t] = l
\* Thread t is inside a section, at label l.
Locked(t, l) == running = t /\ cpu = "lock" /\ pc[t] = l
\* Thread t is in its own code, and its program has the call c.
Calls(t, c) == Runs(t, "user") /\ c \in May[t]

Goto(t, l) == pc' = [pc EXCEPT ![t] = l]

\* Thread t is inside chopstx_poll, or in a chopstx_mutex_lock called from there.
InPoll(t) == pc[t] \in PollLabels \/ (pc[t] \in {"mtx_lock", "mtx_pi"} /\ fr[t].then \in PollLabels)

\* chopstx_testcancel would end the thread.
Canceled(t) == cancelable[t] /\ got_cancel[t]

\* chx_init: the main thread runs, the queues are empty (but for its own slice).
Init ==
  /\ running = Main /\ cpu = "user" /\ pendsv = FALSE
  /\ q = [n \in Queues |-> IF n = "timer" /\ Main \in RR THEN <<Main>> ELSE << >>]
  /\ state = [t \in Threads |-> IF t = Main THEN "RUNNING" ELSE "NONE"]
  /\ parent = [t \in Threads |-> IF t = Main /\ t \in RR THEN "timer" ELSE None]
  /\ v = [t \in Threads |-> IF t = Main /\ t \in RR THEN 1 ELSE 0]
  /\ prio = [x \in Nodes |-> IF x \in Threads THEN InitPrio[x] ELSE 0]
  /\ prio_orig = InitPrio
  /\ got_cancel = [t \in Threads |-> FALSE]
  /\ cancelable = [t \in Threads |-> TRUE]
  /\ join_req = [t \in Threads |-> FALSE]
  /\ clp = [t \in Threads |-> 0]
  /\ owner = [m \in Mutexes |-> None]
  /\ list = [m \in Mutexes |-> None]
  /\ mutex_list = [t \in Threads |-> None]
  /\ ready = [p \in Pds |-> 0]
  /\ counter = [t \in Threads |-> 0]
  /\ irq_enabled = [i \in Irqs |-> FALSE]
  /\ irq_pending = [i \in Irqs |-> FALSE]
  /\ pc = [t \in Threads |-> IF t = Main THEN "user" ELSE "none"]
  /\ fr = [t \in Threads |-> NoFrame]
=============================================================================
