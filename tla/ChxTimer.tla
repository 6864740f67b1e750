----------------------------- MODULE ChxTimer ------------------------------
(***************************************************************************)
(* The timer of the kernel to the tick (chopstx.c): the delta list of      *)
(* q_timer, the one-shot SysTick that counts down to its head, the slices  *)
(* of round-robin threads, chx_snooze and chopstx_usec_wait.  ChxBase has  *)
(* the same list without the numbers.                                      *)
(*                                                                         *)
(* One CPU; a section with interrupts masked is one action.  Priorities    *)
(* are constant here, and mutexes have no contention (ChxMutex has both).  *)
(***************************************************************************)
EXTENDS Integers, SequencesExt

CONSTANTS
  Threads, None,
  RR,           \* threads of flag_sched_rr
  Prio,         \* [Threads -> Nat]: ->prio
  MHZ,          \* ticks per micro second
  MaxUsec,      \* MAX_USEC_FOR_TIMER
  SliceUsec,    \* PREEMPTION_USEC
  Usecs         \* the times the programs sleep

ASSUME TimerAssumption ==
  /\ IsFiniteSet(Threads) /\ RR \subseteq Threads /\ None \notin Threads
  /\ Prio \in [Threads -> Nat]
  /\ MHZ \in Nat \ {0} /\ MaxUsec \in Nat \ {0} /\ SliceUsec \in 1..MaxUsec
  /\ Usecs \subseteq Nat

VARIABLES
  timer,    \* [q: the list from head to tail, v: ->v of every thread, tick: the SysTick counter]
  alarm,    \* the SysTick exception: "no"; "raised": pending; "due": pending, and nothing masks it
  running, pendsv,
  state,    \* ->state
  pc,       \* the call a thread is in
  usec,     \* *usec_p, the time chx_snooze has left to sleep
  todo      \* ghost: ticks till the chopstx_usec_wait of a thread may return

timerVars == <<timer, alarm>>
schedVars == <<running, pendsv, state>>
callVars  == <<pc, usec, todo>>
vars      == <<timerVars, schedVars, callVars>>

BugSlept(u) == u                                   \* the 24 bits forgotten
Slept(u) == IF u > MaxUsec THEN MaxUsec ELSE u     \* usec0 of chx_snooze
MaxTicks == MHZ * MaxUsec

-----------------------------------------------------------------------------
(* The delta list.  ->v of an entry is the time from its expiry to that of *)
(* the next entry; SysTick counts down to the expiry of the head.          *)

\* Ticks till the entry at place i of the list expires.
Expiry(T, i) ==
  LET e[j \in 1..(Len(T.q) + 1)] == IF j = 1 THEN T.tick ELSE e[j-1] + T.v[T.q[j-1]]
  IN  e[i]

\* chx_timer_insert, n ticks from now: in front of the first entry that expires later.
\* At the end of the list, ->v is 1, "non-zero for the last entry".
TimerInsert(T, t, n) ==
  LET i == 1 + Cardinality({j \in DOMAIN T.q : Expiry(T, j) <= n})
      rest == IF i = 1 THEN n ELSE n - Expiry(T, i - 1)
      gap  == IF i <= Len(T.q) THEN Expiry(T, i) - n ELSE 1
  IN  [q |-> InsertAt(T.q, i, t),
       v |-> [u \in Threads |-> IF u = t THEN gap
                                ELSE IF i > 1 /\ u = T.q[i-1] THEN rest ELSE T.v[u]],
       tick |-> IF i = 1 THEN rest ELSE T.tick]

Place(T, t) == CHOOSE i \in DOMAIN T.q : T.q[i] = t

\* The ticks chx_timer_dequeue returns.
Remained(T, t) == Expiry(T, Place(T, t))

\* chx_timer_dequeue: the time to the next entry goes to the one before, or to SysTick.
BugDequeue(T, t) ==                       \* the head leaves, and SysTick counts on
  LET i == Place(T, t)
  IN  [q |-> RemoveAt(T.q, i),
       v |-> [u \in Threads |-> IF u = t THEN 0
                                ELSE IF i > 1 /\ u = T.q[i-1] THEN T.v[u] + T.v[t] ELSE T.v[u]],
       tick |-> IF i = 1 /\ Len(T.q) = 1 THEN 0 ELSE T.tick]
TimerDequeue(T, t) ==
  LET i == Place(T, t)
  IN  [q |-> RemoveAt(T.q, i),
       v |-> [u \in Threads |-> IF u = t THEN 0
                                ELSE IF i > 1 /\ u = T.q[i-1] THEN T.v[u] + T.v[t] ELSE T.v[u]],
       tick |-> IF i > 1 THEN T.tick ELSE IF Len(T.q) = 1 THEN 0 ELSE T.tick + T.v[t]]

\* How many entries chx_timer_expired pops: the head, and those without a gap behind it.
BugPopped(T) == 1                        \* the entries of the same tick are left
Popped(T) == CHOOSE k \in DOMAIN T.q :
               /\ k = Len(T.q) \/ T.v[T.q[k]] # 0
               /\ \A j \in 1..(k-1) : T.v[T.q[j]] = 0

\* The list chx_timer_expired leaves.
BugExpired(T) ==                         \* SysTick is not reloaded
  LET k == Popped(T)
      gone == {T.q[j] : j \in 1..k}
  IN  [T EXCEPT !.q = SubSeq(T.q, k + 1, Len(T.q)),
                !.v = [u \in Threads |-> IF u \in gone THEN 0 ELSE T.v[u]]]
Expired(T) ==
  LET k == Popped(T)
      gone == {T.q[j] : j \in 1..k}
  IN  [q |-> SubSeq(T.q, k + 1, Len(T.q)),
       v |-> [u \in Threads |-> IF u \in gone THEN 0 ELSE T.v[u]],
       tick |-> IF k < Len(T.q) THEN T.v[T.q[k]] ELSE T.tick]

-----------------------------------------------------------------------------
(* Scheduling: the part of it that inserts and dequeues.                    *)

\* A section that leaves the list T: a SysTick exception that came up in it is taken next.
Leave(T) ==
  /\ timer' = T
  /\ alarm' = IF alarm = "raised" THEN "due" ELSE alarm

\* The slice of a round-robin thread that leaves the CPU.
BugStopSlice(T, t) == T                            \* the slice goes on
StopSlice(T, t) == IF t \in RR THEN TimerDequeue(T, t) ELSE T

\* chx_ready_pop, and the start of a slice: the list is T, st the ->state of the threads.
\* Which of several ready threads of the same priority is left open.
Dispatch(T, st) ==
  LET ready == {t \in Threads : st[t] = "READY"}
  IN  \/ /\ ready = {} /\ running' = None /\ state' = st /\ Leave(T)
      \/ \E t \in ready :
           /\ \A u \in ready : Prio[u] <= Prio[t]
           /\ running' = t /\ state' = [st EXCEPT ![t] = "RUNNING"]
           /\ Leave(IF t \in RR THEN TimerInsert(T, t, SliceUsec * MHZ) ELSE T)

\* The thread t goes to sleep with chx_sched in the state s; T is the list without its slice.
Sleep(t, s, T) == Dispatch(T, [state EXCEPT ![t] = s])

\* preempt.
Preempt ==
  /\ pendsv /\ alarm # "due"
  /\ pendsv' = FALSE
  /\ IF running = None \/ state[running] = "READY"     \* idle, or its slice has expired
     THEN Dispatch(timer, state)
     ELSE Dispatch(StopSlice(timer, running), [state EXCEPT ![running] = "READY"])
  /\ UNCHANGED callVars

\* The section of a call wakes t up, off the list T; the caller yields to a thread of
\* higher priority.
WakeFrom(T, t) ==
  LET st == [state EXCEPT ![t] = "READY"]
  IN  IF Prio[t] > Prio[running]
      THEN Dispatch(StopSlice(T, running), [st EXCEPT ![running] = "READY"])
      ELSE Leave(T) /\ state' = st /\ UNCHANGED running

-----------------------------------------------------------------------------
(* SysTick.                                                                  *)

Down(n, k) == IF n > k THEN n - k ELSE 0

\* A tick of the processor clock (external).
Tick ==
  /\ timer.tick > 0
  /\ timer' = [timer EXCEPT !.tick = @ - 1]
  /\ alarm' = IF timer.tick = 1 /\ alarm = "no" THEN "raised" ELSE alarm
  /\ todo' = [t \in Threads |-> Down(todo[t], 1)]
  /\ UNCHANGED <<schedVars, pc, usec>>

\* chx_timer_expired, the handler of SysTick.  Writing the counter does not take back an
\* exception that is pending: if the head was dequeued in between, the next entry goes
\* early, and with it the clock for those behind it.
TimerExpired ==
  /\ alarm # "no" /\ alarm' = "no"
  /\ IF timer.q = << >>
     THEN UNCHANGED <<timer, state, pendsv, todo>>
     ELSE LET gone == {timer.q[j] : j \in 1..Popped(timer)}
          IN  /\ timer' = Expired(timer)
              /\ state' = [t \in Threads |-> IF t \in gone THEN "READY" ELSE state[t]]
              /\ pendsv' = (\/ pendsv \/ running = None
                            \/ \E t \in gone : t = running \/ Prio[t] > Prio[running])
              /\ todo' = [t \in Threads |-> Down(todo[t], timer.tick)]
  /\ UNCHANGED <<running, pc, usec>>

-----------------------------------------------------------------------------
(* Sleeping.                                                                 *)

\* Thread t runs on at l: nothing that interrupts is pending.
Runs(t, l) == running = t /\ state[t] = "RUNNING" /\ ~pendsv /\ alarm # "due" /\ pc[t] = l

\* chx_snooze up to chx_sched: the slice ends, the sleep begins.
Snooze(t, s) ==
  LET T == StopSlice(timer, t)
  IN  Sleep(t, s, TimerInsert(T, t, Slept(usec[t]) * MHZ))

\* The result of chx_sched is ->v: 0, or the ticks remained.  The start of a slice has
\* overwritten that of a round-robin thread.
Result(t) == timer.v[t]

\* What chx_snooze leaves in *usec_p.
BugUsecLeft(t) == 0                                \* one round is taken for all of it
UsecLeft(t) == usec[t] - (Slept(usec[t]) - Result(t) \div MHZ)

\* chopstx_usec_wait is called.
UsecWait(t) ==
  /\ Runs(t, "user")
  /\ \E u \in Usecs : usec' = [usec EXCEPT ![t] = u] /\ todo' = [todo EXCEPT ![t] = u * MHZ]
  /\ pc' = [pc EXCEPT ![t] = "usleep"]
  /\ UNCHANGED <<timerVars, schedVars>>

\* A round of chopstx_usec_wait_var.
UsecSnooze(t) ==
  /\ Runs(t, "usleep")
  /\ \/ /\ usec[t] = 0
        /\ pc' = [pc EXCEPT ![t] = "user"] /\ todo' = [todo EXCEPT ![t] = 0]
        /\ UNCHANGED <<timerVars, running, state>>
     \/ /\ usec[t] > 0
        /\ Snooze(t, "WAIT_TIME") /\ pc' = [pc EXCEPT ![t] = "slept"]
        /\ UNCHANGED todo
  /\ UNCHANGED <<pendsv, usec>>

\* chx_sched returns to it: after a timeout, sleep the rest.  When the call ends, its time
\* goes out of scope.
UsecSlept(t) ==
  /\ Runs(t, "slept")
  /\ \/ /\ Result(t) = 0
        /\ usec' = [usec EXCEPT ![t] = UsecLeft(t)]
        /\ pc' = [pc EXCEPT ![t] = "usleep"] /\ UNCHANGED todo
     \/ /\ Result(t) # 0
        /\ usec' = [usec EXCEPT ![t] = 0] /\ pc' = [pc EXCEPT ![t] = "user"]
        /\ todo' = [todo EXCEPT ![t] = 0]
  /\ UNCHANGED <<timerVars, schedVars>>
=============================================================================
