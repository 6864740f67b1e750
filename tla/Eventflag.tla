----------------------------- MODULE Eventflag -----------------------------
(***************************************************************************)
(* Event flags (eventflag.c): threads that set flags, and threads that     *)
(* wait for them, for ever or for a time (with chopstx_poll and the timer  *)
(* of ChxTimer).  What a call does while it holds ev->mutex is one action: *)
(* ChxMutex keeps the others out.                                          *)
(***************************************************************************)
EXTENDS ChxTimer

CONSTANTS
  Masks,        \* values of eventmask_t the programs signal or set as mask: sets of bits
  May           \* [Threads -> SUBSET STRING]: the calls a thread's program makes

ASSUME EventAssumption == \A m \in Masks : m \subseteq Nat /\ IsFiniteSet(m)

VARIABLES
  flags, mask,  \* struct eventflag
  cond,         \* the queue of ev->cond: threads, and proxies named by their threads
  counter,      \* of the chopstx_poll a thread is in, and ->ready of its only descriptor
  burst         \* ghost: one wake-up has stood for several flags while somebody slept

evVars  == <<flags, mask, cond, counter, burst>>
allVars == <<vars, evVars>>

Wanted == flags \cap mask
Least(m) == {CHOOSE n \in m : \A k \in m : n <= k}        \* __builtin_ffs

\* ll_prio_enqueue.
Enqueue(s, t) == InsertAt(s, 1 + Cardinality({i \in DOMAIN s : Prio[s[i]] >= Prio[t]}), t)

\* Thread t is in chopstx_poll.
Polls(t) == pc[t] \in {"ev_poll", "ev_polled", "ev_clean"}

\* chopstx_cond_signal, when some flag is wanted: the first waiter is made ready.  A proxy
\* counts, and wakes its thread up only when that sleeps.
BugSignalCond ==                         \* not when a flag was wanted already
  IF Wanted # {} \/ Wanted' = {} \/ cond = << >>
  THEN UNCHANGED <<cond, counter, timerVars, running, state>>
  ELSE LET t == Head(cond)
       IN  /\ cond' = Tail(cond)
           /\ counter' = IF Polls(t) THEN [counter EXCEPT ![t] = 1] ELSE counter
           /\ CASE state[t] = "WAIT_CND"  -> WakeFrom([timer EXCEPT !.v[t] = 1], t)
                [] state[t] = "WAIT_POLL" ->
                     WakeFrom([TimerDequeue(timer, t) EXCEPT !.v[t] = Remained(timer, t)], t)
                [] OTHER -> UNCHANGED <<timerVars, running, state>>
SignalCond ==
  IF Wanted' = {} \/ cond = << >>
  THEN UNCHANGED <<cond, counter, timerVars, running, state>>
  ELSE LET t == Head(cond)
       IN  /\ cond' = Tail(cond)
           /\ counter' = IF Polls(t) THEN [counter EXCEPT ![t] = 1] ELSE counter
           /\ CASE state[t] = "WAIT_CND"  -> WakeFrom([timer EXCEPT !.v[t] = 1], t)
                [] state[t] = "WAIT_POLL" ->
                     WakeFrom([TimerDequeue(timer, t) EXCEPT !.v[t] = Remained(timer, t)], t)
                [] OTHER -> UNCHANGED <<timerVars, running, state>>

\* The ghost: flags newly wanted beyond the one a single signal wakes up for.
Burst == burst' = /\ Wanted' # {} /\ cond # << >>
                  /\ burst \/ Cardinality(Wanted' \ Wanted) > 1

\* eventflag_signal.
EvSignal(t) ==
  /\ Runs(t, "user") /\ "signal" \in May[t]
  /\ \E m \in Masks : flags' = flags \cup m
  /\ mask' = mask
  /\ SignalCond /\ Burst
  /\ UNCHANGED <<pendsv, callVars>>

\* eventflag_set_mask.
EvSetMask(t) ==
  /\ Runs(t, "user") /\ "mask" \in May[t]
  /\ mask' \in Masks
  /\ flags' = flags
  /\ SignalCond /\ Burst
  /\ UNCHANGED <<pendsv, callVars>>

\* The end of eventflag_get and of eventflag_wait: the lowest flag, or none, is taken.
Take ==
  /\ flags' = flags \ (IF Wanted = {} THEN {} ELSE Least(Wanted))
  /\ burst' = (burst /\ Wanted' # {})

\* eventflag_get, called by a program or by eventflag_wait_timeout, whose locals end with it.
EvGet(t) ==
  /\ \/ Runs(t, "user") /\ "get" \in May[t]
     \/ Runs(t, "ev_get")
  /\ mask' = mask /\ Take
  /\ pc' = [pc EXCEPT ![t] = "user"] /\ usec' = [usec EXCEPT ![t] = 0]
  /\ counter' = [counter EXCEPT ![t] = 0]
  /\ UNCHANGED <<timerVars, schedVars, todo, cond>>

\* eventflag_wait, from its call and from the return of chopstx_cond_wait.
EvWait(t) ==
  /\ \/ Runs(t, "user") /\ "wait" \in May[t]
     \/ Runs(t, "ev_wait")
  /\ mask' = mask
  /\ \/ /\ Wanted # {} /\ Take
        /\ pc' = [pc EXCEPT ![t] = "user"]
        /\ UNCHANGED <<timerVars, running, state, cond>>
     \/ /\ Wanted = {}
        /\ cond' = Enqueue(cond, t)
        /\ pc' = [pc EXCEPT ![t] = "ev_wait"]
        /\ Sleep(t, "WAIT_CND", StopSlice(timer, t))
        /\ UNCHANGED <<flags, burst>>
  /\ UNCHANGED <<pendsv, usec, todo, counter>>

\* eventflag_wait_timeout: eventflag_prepare_poll, and chx_cond_hook with eventflag_check.
EvWaitTimeout(t) ==
  /\ Runs(t, "user") /\ "timeout" \in May[t]
  /\ \E u \in Usecs : usec' = [usec EXCEPT ![t] = u]
  /\ pc' = [pc EXCEPT ![t] = "ev_poll"]
  /\ counter' = [counter EXCEPT ![t] = IF Wanted # {} THEN 1 ELSE 0]
  /\ cond' = IF Wanted # {} THEN cond ELSE Enqueue(cond, t)
  /\ UNCHANGED <<timerVars, schedVars, todo, flags, mask, burst>>

\* A round of chopstx_poll.
PollEnds(t) == counter[t] > 0 \/ usec[t] = 0
EvPoll(t) ==
  /\ Runs(t, "ev_poll")
  /\ \/ /\ PollEnds(t)
        /\ pc' = [pc EXCEPT ![t] = "ev_clean"] /\ UNCHANGED <<timerVars, running, state>>
     \/ /\ ~PollEnds(t)
        /\ Snooze(t, "WAIT_POLL") /\ pc' = [pc EXCEPT ![t] = "ev_polled"]
  /\ UNCHANGED <<pendsv, usec, todo, evVars>>

\* chx_sched returns to chx_snooze.
EvPolled(t) ==
  /\ Runs(t, "ev_polled")
  /\ usec' = [usec EXCEPT ![t] = UsecLeft(t)]
  /\ pc' = [pc EXCEPT ![t] = IF Result(t) = 0 THEN "ev_poll" ELSE "ev_clean"]
  /\ UNCHANGED <<timerVars, schedVars, todo, evVars>>

\* The end of chopstx_poll: a proxy nobody has signalled is taken back.
BugTakenBack(t) == cond                  \* the proxy is left in the queue
TakenBack(t) ==
  IF counter[t] > 0 THEN cond ELSE RemoveAt(cond, CHOOSE i \in DOMAIN cond : cond[i] = t)
EvClean(t) ==
  /\ Runs(t, "ev_clean")
  /\ cond' = TakenBack(t)
  /\ pc' = [pc EXCEPT ![t] = "ev_get"]
  /\ UNCHANGED <<timerVars, schedVars, usec, todo, flags, mask, counter, burst>>

\* The calls of ChxTimer.
Kernel(A) == A /\ UNCHANGED evVars

\* All threads are ready, and the idle loop runs; eventflag_init has been called.
Init ==
  /\ timer = [q |-> << >>, v |-> [t \in Threads |-> 0], tick |-> 0]
  /\ alarm = "no" /\ running = None /\ pendsv = TRUE
  /\ state = [t \in Threads |-> "READY"] /\ pc = [t \in Threads |-> "user"]
  /\ usec = [t \in Threads |-> 0] /\ todo = [t \in Threads |-> 0]
  /\ flags = {} /\ mask = UNION Masks /\ cond = << >>
  /\ counter = [t \in Threads |-> 0] /\ burst = FALSE

Step(t) ==
  \/ "sleep" \in May[t] /\ Kernel(UsecWait(t))
  \/ Kernel(UsecSnooze(t)) \/ Kernel(UsecSlept(t))
  \/ EvSignal(t) \/ EvSetMask(t) \/ EvGet(t) \/ EvWait(t)
  \/ EvWaitTimeout(t) \/ EvPoll(t) \/ EvPolled(t) \/ EvClean(t)

Next ==
  \/ Kernel(Tick) \/ Kernel(TimerExpired) \/ Kernel(Preempt)
  \/ \E t \in Threads : Step(t)

Spec == Init /\ [][Next]_allVars

\* SysTick counts, and its exception is taken; what the programs do is up to them.
Fairness == WF_allVars(Kernel(Tick)) /\ WF_allVars(Kernel(TimerExpired))
FairSpec == Spec /\ Fairness
=============================================================================
