------------------------------ MODULE MCTimer ------------------------------
(* The timer and the event flags: the properties the runs check, and the constants of the  *)
(* instance.                                                                                *)
EXTENDS Eventflag

\* The state variables have their types; a gap in the list is at most the longest sleep and
\* the 1 behind the last entry.
TimerTypeOK ==
  /\ ToSet(timer.q) \subseteq Threads /\ timer.v \in [Threads -> 0..(MaxTicks + 1)]
  /\ timer.tick \in 0..MaxTicks /\ alarm \in {"no", "raised", "due"}
  /\ running \in Threads \cup {None} /\ pendsv \in BOOLEAN
  /\ state \in [Threads -> {"READY", "RUNNING", "WAIT_TIME", "WAIT_POLL", "WAIT_CND"}]
  /\ flags \subseteq UNION Masks /\ mask \in Masks \cup {UNION Masks}
  /\ ToSet(cond) \subseteq Threads /\ counter \in [Threads -> 0..1] /\ burst \in BOOLEAN

\* A thread is in the timer list exactly while it sleeps for a time, or runs a slice, and
\* only once: chx_timer_insert and chx_timer_dequeue are always paired.
ListMatchesStates ==
  /\ \A i, j \in DOMAIN timer.q : timer.q[i] = timer.q[j] => i = j
  /\ \A t \in Threads : t \in ToSet(timer.q) <=>
       state[t] \in {"WAIT_TIME", "WAIT_POLL"} \/ (t \in RR /\ state[t] = "RUNNING")

\* While somebody waits for the time, SysTick counts or its exception is on the way:
\* no reload (chx_timer_insert, _dequeue, _expired) stops the clock on the sleepers.
ClockRuns == timer.q # << >> => timer.tick > 0 \/ alarm # "no"

\* The delta list implements deadlines that are independent of each other: every insertion,
\* removal and expiry leaves the time of every other sleeper as it is.
Deadline == [t \in Threads |-> IF t \in ToSet(timer.q) THEN Remained(timer, t) ELSE -1]
D == INSTANCE Deadlines WITH left <- Deadline, alarm <- (alarm # "no"),
                        stray <- (timer.q = << >> /\ timer.tick > 0), on <- running
ImplementsDeadlines == D!Spec

\* "Sleep for @usec": chopstx_usec_wait returns to a thread not before the ticks it asked
\* for are counted, over all rounds of its loop.  Round-robin threads are left out: the
\* slice they are dispatched with overwrites the result of chx_sched.
NeverEarly ==
  [][\A t \in Threads \ RR :
       pc[t] \in {"usleep", "slept"} /\ pc'[t] = "user" => todo[t] = 0]_allVars

\* Whoever sleeps for a time is woken up in the end.
SleepersWake ==
  \A t \in Threads : state[t] \in {"WAIT_TIME", "WAIT_POLL"} ~> state[t] \in {"READY", "RUNNING"}

\* As long as no single call makes several flags wanted at a time, nobody sleeps on an event
\* flag that has more wanted flags than threads on their way to take one: neither a flag
\* taken by somebody else, nor a waiter that times out, loses a wake-up.
OnTheWay == {t \in Threads : \/ pc[t] = "ev_get"
                             \/ pc[t] = "ev_wait" /\ t \notin ToSet(cond)
                             \/ Polls(t) /\ counter[t] > 0}
FlagsServed == cond # << >> /\ ~burst => Cardinality(Wanted) <= Cardinality(OnTheWay)

\* Only a thread that still waits is in the queue of the condition variable, and only once:
\* the proxy, on the stack of chopstx_poll, is gone when eventflag_wait_timeout returns.
NoStaleProxy ==
  /\ \A i, j \in DOMAIN cond : cond[i] = cond[j] => i = j
  /\ \A t \in ToSet(cond) : \/ pc[t] = "ev_wait" /\ state[t] = "WAIT_CND"
                            \/ Polls(t) /\ counter[t] = 0

CONSTANTS a, b, r
TimerPrio == a :> 2 @@ b :> 1 @@ r :> 2
TimerMay  == a :> {"timeout", "wait", "signal"}
             @@ b :> {"sleep", "timeout", "signal", "mask", "get"}
             @@ r :> {"sleep", "timeout"}
TimerMasks == {{0}, {0, 1}}
=============================================================================
