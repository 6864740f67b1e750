------------------------------ MODULE ChxCond ------------------------------
(***************************************************************************)
(* Condition variables: chopstx_cond_wait, chopstx_cond_signal and         *)
(* chopstx_cond_broadcast of chopstx.c.                                    *)
(***************************************************************************)
EXTENDS ChxMutex

\* chopstx_cond_wait with the mutex locked last, or without one; testcancel comes first.
WaitCall(t, c, m) ==
  /\ Calls(t, "wait") /\ m = mutex_list[t]
  /\ IF Canceled(t)
     THEN Goto(t, "exit") /\ UNCHANGED fr
     ELSE /\ Goto(t, "cond_wait")
          /\ fr' = [fr EXCEPT ![t].cnd = c, ![t].mtx = m]
  /\ UNCHANGED <<cpuVars, queueVars, prioVars, flagVars, mutexVars, pollVars, irqVars>>

\* The section releases the mutex ...
WaitRelease(t) ==
  LET m == fr[t].mtx
  IN  /\ Runs(t, "cond_wait")
      /\ IF m = None THEN UNCHANGED <<queueVars, mutexVars, prio>> ELSE MutexRelease(t, m)
      /\ cpu' = "lock"
      /\ Goto(t, "cond_block")
      /\ UNCHANGED <<running, pendsv, prio_orig, flagVars, pollVars, irqVars, fr>>

\* ... and links the thread to the condition variable.
WaitBlock(t) ==
  LET cv == fr[t].cnd
  IN  /\ Locked(t, "cond_block")
      /\ q' = PrioEnqueue(StopSlice(q, t), cv, t, prio)
      /\ state' = [state EXCEPT ![t] = "WAIT_CND"]
      /\ parent' = [parent EXCEPT ![t] = cv]
      /\ v' = IF t \in RR THEN [v EXCEPT ![t] = 0] ELSE v
      /\ cpu' = "sleep"
      /\ Goto(t, "cond_woken")
      /\ UNCHANGED <<running, pendsv, prioVars, flagVars, mutexVars, pollVars, irqVars, fr>>

\* chx_sched has returned: its result is kept while the mutex is locked again.
WaitWoken(t) ==
  /\ Runs(t, "cond_woken")
  /\ fr' = [fr EXCEPT ![t].r = v[t], ![t].cnd = None,
                      ![t].then = IF fr[t].mtx = None THEN "user" ELSE "cond_relocked"]
  /\ Goto(t, IF fr[t].mtx = None THEN "cond_relocked" ELSE "mtx_lock")
  /\ UNCHANGED <<cpuVars, queueVars, prioVars, flagVars, mutexVars, pollVars, irqVars>>

\* The waiter holds its mutex again: it returns, or exits when it was cancelled.
WaitReturn(t) ==
  /\ Runs(t, "cond_relocked")
  /\ Goto(t, IF fr[t].r < 0 THEN "exit" ELSE "user")
  /\ fr' = [fr EXCEPT ![t] = NoFrame]
  /\ UNCHANGED <<cpuVars, queueVars, prioVars, flagVars, mutexVars, pollVars, irqVars>>

-----------------------------------------------------------------------------
\* chopstx_cond_signal: the first waiter, a thread or a proxy, is woken up.
SignalCall(t, c) ==
  /\ Calls(t, "signal")
  /\ \/ /\ q[c] = << >>
        /\ UNCHANGED <<cpu, queueVars, pollVars>>
     \/ /\ q[c] # << >>
        /\ Wakeup(Head(q[c]), [q EXCEPT ![c] = Tail(@)])
        /\ cpu' = IF Outranks(Head(q[c])) THEN "yield" ELSE "user"
  /\ UNCHANGED <<running, pendsv, prioVars, flagVars, mutexVars, irqVars, pc, fr>>

\* chopstx_cond_broadcast: the section wakes the waiters up one after the other.
BroadcastCall(t, c) ==
  /\ Calls(t, "broadcast")
  /\ cpu' = "lock"
  /\ fr' = [fr EXCEPT ![t].cnd = c, ![t].yield = FALSE]
  /\ Goto(t, "bcast")
  /\ UNCHANGED <<running, pendsv, queueVars, prioVars, flagVars, mutexVars, pollVars, irqVars>>

BroadcastWake(t) ==
  LET cv == fr[t].cnd
  IN  /\ Locked(t, "bcast") /\ q[cv] # << >>
      /\ Wakeup(Head(q[cv]), [q EXCEPT ![cv] = Tail(@)])
      /\ fr' = [fr EXCEPT ![t].yield = @ \/ Outranks(Head(q[cv]))]
      /\ UNCHANGED <<cpuVars, prioVars, flagVars, mutexVars, irqVars, pc>>

BroadcastReturn(t) ==
  /\ Locked(t, "bcast") /\ q[fr[t].cnd] = << >>
  /\ cpu' = IF fr[t].yield THEN "yield" ELSE "user"
  /\ fr' = [fr EXCEPT ![t] = NoFrame]
  /\ Goto(t, "user")
  /\ UNCHANGED <<running, pendsv, queueVars, prioVars, flagVars, mutexVars, pollVars, irqVars>>
=============================================================================
