------------------------------ MODULE ChxPoll ------------------------------
(***************************************************************************)
(* chopstx_poll: a thread waits for condition variables, interrupts and    *)
(* the exit of threads at a time, with or without a time limit; and        *)
(* chopstx_claim_irq and chopstx_intr_done (chopstx.c).                    *)
(*                                                                         *)
(* For each descriptor of its array, a polling thread links a proxy        *)
(* (struct chx_px, on its stack) to the queue of what it waits for.  The   *)
(* descriptor stands for its proxy here: prio[p] is the proxy's priority.  *)
(***************************************************************************)
EXTENDS ChxThread, ChxCond

\* An interrupt has one owner (chopstx_claim_irq), and an array waits for the exit of a thread once.
ASSUME DescriptorAssumption ==
  /\ \A x, y \in Pds : PdKind[x] = "intr" /\ PdKind[y] = "intr" /\ PdObj[x] = PdObj[y] => x = y
  /\ \A t \in Threads : \A x, y \in ToSet(PollArray[t]) :
        PdKind[x] = "join" /\ PdKind[y] = "join" /\ PdObj[x] = PdObj[y] => x = y

\* The descriptor fr[t].idx of the array.
Pd(t) == PollArray[t][fr[t].idx]
MorePds(t) == fr[t].idx <= Len(PollArray[t])

\* chopstx_poll with a limit of n slices, or none.  A round-robin thread polls with one.
PollCall(t, timed, n) ==
  /\ Calls(t, "poll") /\ PollArray[t] # << >> /\ (t \in RR => timed) /\ (~timed => n = 0)
  /\ \A p \in ToSet(PollArray[t]) :
        /\ PdKind[p] = "join" => Joinable(t, PdObj[p])
        /\ \A m \in Mutexes : PdMutex[p] # None /\ owner[m] = t => LockRank[m] < LockRank[PdMutex[p]]
  /\ IF Canceled(t)
     THEN Goto(t, "exit") /\ UNCHANGED <<prio, counter, fr>>
     ELSE /\ prio' = [x \in Nodes |-> IF x \in ToSet(PollArray[t]) THEN prio[t] ELSE prio[x]]
          /\ counter' = [counter EXCEPT ![t] = 0]
          /\ fr' = [fr EXCEPT ![t].idx = 1, ![t].timed = timed, ![t].left = n]
          /\ Goto(t, "hook")
  /\ UNCHANGED <<cpuVars, queueVars, prio_orig, flagVars, mutexVars, ready, irqVars>>

\* The start of a hook, a cancellation point: chx_cond_hook locks the mutex of the
\* descriptor, the others enter their section.
HookBegin(t) ==
  /\ Runs(t, "hook") /\ MorePds(t)
  /\ \/ /\ Canceled(t)
        /\ Goto(t, "exit") /\ UNCHANGED fr
     \/ /\ ~Canceled(t) /\ PdKind[Pd(t)] = "cond" /\ PdMutex[Pd(t)] # None
        /\ fr' = [fr EXCEPT ![t].mtx = PdMutex[Pd(t)], ![t].then = "hook_check"]
        /\ Goto(t, "mtx_lock")
     \/ /\ ~Canceled(t) /\ PdKind[Pd(t)] = "cond" /\ PdMutex[Pd(t)] = None
        /\ Goto(t, "hook_check") /\ UNCHANGED fr
     \/ /\ ~Canceled(t) /\ PdKind[Pd(t)] # "cond"
        /\ Goto(t, "hook_reg") /\ UNCHANGED fr
  /\ UNCHANGED <<cpuVars, queueVars, prioVars, flagVars, mutexVars, pollVars, irqVars>>

\* The program's check function.  When it says yes the counter is incremented outside of
\* any section: it is read here, and written in the next step.
HookCheck(t, met) ==
  /\ Runs(t, "hook_check")
  /\ IF met
     THEN /\ fr' = [fr EXCEPT ![t].r = counter[t]]
          /\ Goto(t, "hook_count") /\ UNCHANGED ready
     ELSE /\ ready' = [ready EXCEPT ![Pd(t)] = 0]
          /\ Goto(t, "hook_reg") /\ UNCHANGED fr
  /\ UNCHANGED <<cpuVars, queueVars, prioVars, flagVars, mutexVars, counter, irqVars>>

BugHookCount(t) ==                                      \* the counter is not written back
  /\ Runs(t, "hook_count")
  /\ ready' = [ready EXCEPT ![Pd(t)] = 1]
  /\ fr' = [fr EXCEPT ![t].r = 0]
  /\ Goto(t, "hook_unlock")
  /\ UNCHANGED <<cpuVars, queueVars, prioVars, flagVars, mutexVars, counter, irqVars>>
HookCount(t) ==
  /\ Runs(t, "hook_count")
  /\ counter' = [counter EXCEPT ![t] = fr[t].r + 1]
  /\ ready' = [ready EXCEPT ![Pd(t)] = 1]
  /\ fr' = [fr EXCEPT ![t].r = 0]
  /\ Goto(t, "hook_unlock")
  /\ UNCHANGED <<cpuVars, queueVars, prioVars, flagVars, mutexVars, irqVars>>

HookUnlock(t) ==
  LET m == PdMutex[Pd(t)]
  IN  /\ Runs(t, "hook_unlock")
      /\ IF m = None
         THEN UNCHANGED <<cpuVars, queueVars, prioVars, flagVars, mutexVars, pollVars, irqVars>>
         ELSE Unlock(t, m)
      /\ fr' = [fr EXCEPT ![t].idx = @ + 1]
      /\ Goto(t, "hook")

\* The sections that register a proxy, by kind of descriptor.
HookCond(t) ==
  /\ Runs(t, "hook_reg") /\ PdKind[Pd(t)] = "cond"
  /\ q' = PrioEnqueue(q, PdObj[Pd(t)], Pd(t), prio)
  /\ Goto(t, "hook_unlock")
  /\ UNCHANGED <<cpuVars, state, parent, v, prioVars, flagVars, mutexVars, pollVars, irqVars, fr>>

HookIntr(t) ==
  LET p == Pd(t)
  IN  /\ Runs(t, "hook_reg") /\ PdKind[p] = "intr"
      /\ \/ /\ ready[p] = 1
            /\ counter' = [counter EXCEPT ![t] = @ + 1]
            /\ UNCHANGED <<q, irq_enabled>>
         \/ /\ ready[p] = 0
            /\ q' = PrioEnqueue(q, "intr", p, prio)
            /\ irq_enabled' = [irq_enabled EXCEPT ![PdObj[p]] = TRUE]
            /\ UNCHANGED counter
      /\ fr' = [fr EXCEPT ![t].idx = @ + 1]
      /\ Goto(t, "hook")
      /\ UNCHANGED <<cpuVars, state, parent, v, prioVars, flagVars, mutexVars, ready, irq_pending>>

HookJoin(t) ==
  LET p == Pd(t)
      u == PdObj[p]
  IN  /\ Runs(t, "hook_reg") /\ PdKind[p] = "join" /\ u \notin Detached
      /\ \/ /\ state[u] = "EXITED"
            /\ counter' = [counter EXCEPT ![t] = @ + 1]
            /\ ready' = [ready EXCEPT ![p] = 1]
            /\ UNCHANGED <<q, join_req>>
         \/ /\ state[u] # "EXITED"
            /\ ready' = [ready EXCEPT ![p] = 0]
            /\ q' = PrioEnqueue(q, "join", p, prio)
            /\ join_req' = [join_req EXCEPT ![u] = TRUE]
            /\ UNCHANGED counter
      /\ fr' = [fr EXCEPT ![t].idx = @ + 1]
      /\ Goto(t, "hook")
      /\ UNCHANGED <<cpuVars, state, parent, v, prioVars, got_cancel, cancelable, clp, mutexVars, irqVars>>

HookFatal(t) ==
  /\ Runs(t, "hook_reg") /\ PdKind[Pd(t)] = "join" /\ PdObj[Pd(t)] \in Detached
  /\ Goto(t, "fatal")
  /\ UNCHANGED <<cpuVars, queueVars, prioVars, flagVars, mutexVars, pollVars, irqVars, fr>>

HooksDone(t) ==
  /\ Runs(t, "hook") /\ ~MorePds(t)
  /\ Goto(t, "poll")
  /\ fr' = [fr EXCEPT ![t].idx = 1]
  /\ UNCHANGED <<cpuVars, queueVars, prioVars, flagVars, mutexVars, pollVars, irqVars>>

\* The section that decides whether to wait.
PollBlock(t) ==
  /\ Runs(t, "poll")
  /\ \/ /\ counter[t] > 0
        /\ Goto(t, "poll_clean") /\ UNCHANGED <<cpu, queueVars>>
     \/ /\ counter[t] = 0 /\ ~fr[t].timed
        /\ q' = StopSlice(q, t)
        /\ state' = [state EXCEPT ![t] = "WAIT_POLL"]
        /\ cpu' = "sleep"
        /\ Goto(t, "poll_woken") /\ UNCHANGED <<parent, v>>
     \/ /\ counter[t] = 0 /\ fr[t].timed
        /\ Goto(t, "poll_timed") /\ UNCHANGED <<cpu, queueVars>>
  /\ UNCHANGED <<running, pendsv, prioVars, flagVars, mutexVars, pollVars, irqVars, fr>>

PollWoken(t) ==
  /\ Runs(t, "poll_woken")
  /\ fr' = [fr EXCEPT ![t].r = v[t]]
  /\ Goto(t, "poll_clean")
  /\ UNCHANGED <<cpuVars, queueVars, prioVars, flagVars, mutexVars, pollVars, irqVars>>

\* The loop that waits with a limit: a cancellation point, ...
PollLoop(t) ==
  /\ Runs(t, "poll_timed")
  /\ Goto(t, IF Canceled(t) THEN "exit" ELSE "poll_snooze")
  /\ UNCHANGED <<cpuVars, queueVars, prioVars, flagVars, mutexVars, pollVars, irqVars, fr>>

\* ... a section that sleeps unless a descriptor has become active, ...
BugPollSnooze(t) ==                                     \* the counter is not looked at again
  Runs(t, "poll_snooze") /\ Snooze(t, "WAIT_POLL", "poll_snoozed")
PollSnooze(t) ==
  /\ Runs(t, "poll_snooze")
  /\ \/ /\ counter[t] > 0
        /\ Goto(t, "poll_clean")
        /\ UNCHANGED <<cpuVars, queueVars, prioVars, flagVars, mutexVars, pollVars, irqVars, fr>>
     \/ counter[t] = 0 /\ Snooze(t, "WAIT_POLL", "poll_snoozed")

\* ... and another turn after a timeout.
PollSnoozed(t) ==
  /\ Runs(t, "poll_snoozed")
  /\ IF SnoozeResult(t) = 0
     THEN Goto(t, "poll_timed") /\ fr' = [fr EXCEPT ![t].left = @ - 1]
     ELSE Goto(t, "poll_clean") /\ fr' = [fr EXCEPT ![t].r = SnoozeResult(t)]
  /\ UNCHANGED <<cpuVars, queueVars, prioVars, flagVars, mutexVars, pollVars, irqVars>>

\* What tells the clean-up that a proxy is still linked.
BugStillLinked(p) == ready[p] = 0 /\ PdKind[p] = "intr"  \* interrupts only
StillLinked(p) == ready[p] = 0

\* The sections that take back the proxies that are still linked.
PollClean(t) ==
  LET p == Pd(t)
  IN  /\ Runs(t, "poll_clean") /\ MorePds(t)
      /\ q' = IF StillLinked(p) THEN Dequeue(q, p) ELSE q
      /\ irq_enabled' = IF StillLinked(p) /\ PdKind[p] = "intr" THEN Disabled(PdObj[p]) ELSE irq_enabled
      /\ fr' = [fr EXCEPT ![t].idx = @ + 1]
      /\ UNCHANGED <<cpuVars, state, parent, v, prioVars, flagVars, mutexVars, pollVars, irq_pending, pc>>

PollReturn(t) ==
  /\ Runs(t, "poll_clean") /\ ~MorePds(t)
  /\ Goto(t, IF fr[t].r < 0 THEN "exit" ELSE "user")
  /\ counter' = [counter EXCEPT ![t] = 0]
  /\ fr' = [fr EXCEPT ![t] = NoFrame]
  /\ UNCHANGED <<cpuVars, queueVars, prioVars, flagVars, mutexVars, ready, irqVars>>

-----------------------------------------------------------------------------
\* chopstx_claim_irq and chopstx_intr_done of an interrupt descriptor of the caller.
ClaimIrq(t, p) ==
  /\ Calls(t, "claim") /\ p \in ToSet(PollArray[t]) /\ PdKind[p] = "intr"
  /\ ready' = [ready EXCEPT ![p] = 0]
  /\ irq_enabled' = Disabled(PdObj[p])
  /\ irq_pending' = [irq_pending EXCEPT ![PdObj[p]] = FALSE]
  /\ UNCHANGED <<cpuVars, queueVars, prioVars, flagVars, mutexVars, counter, pc, fr>>

IntrDone(t, p) ==
  /\ Calls(t, "poll") /\ p \in ToSet(PollArray[t]) /\ PdKind[p] = "intr" /\ ready[p] = 1
  /\ ready' = [ready EXCEPT ![p] = 0]
  /\ irq_pending' = [irq_pending EXCEPT ![PdObj[p]] = FALSE]
  /\ UNCHANGED <<cpuVars, queueVars, prioVars, flagVars, mutexVars, counter, irq_enabled, pc, fr>>
=============================================================================
