----------------------------- MODULE ChxThread -----------------------------
(***************************************************************************)
(* The life of a thread: chopstx_create, chopstx_exit with its clean-ups,  *)
(* chopstx_join, cancellation, chopstx_usec_wait and chopstx_setpriority   *)
(* of chopstx.c.                                                           *)
(***************************************************************************)
EXTENDS ChxMutex

\* chopstx_create of thread u.
CreateCall(t, u) ==
  /\ Calls(t, "create") /\ state[u] = "NONE"
  /\ MakeReady(q, u)
  /\ cpu' = IF prio[u] > prio[t] THEN "yield" ELSE "user"
  /\ Goto(u, "user")
  /\ UNCHANGED <<running, pendsv, v, prioVars, flagVars, mutexVars, pollVars, irqVars, fr>>

-----------------------------------------------------------------------------
(* chopstx_usec_wait of fr[t].left slices of MAX_USEC_FOR_TIMER.             *)

SleepCall(t, n) ==
  /\ Calls(t, "sleep")
  /\ fr' = [fr EXCEPT ![t].left = n]
  /\ Goto(t, "usleep")
  /\ UNCHANGED <<cpuVars, queueVars, prioVars, flagVars, mutexVars, pollVars, irqVars>>

\* The head of the loop of chopstx_usec_wait_var.
SleepLoop(t) ==
  /\ Runs(t, "usleep")
  /\ Goto(t, IF Canceled(t) THEN "exit" ELSE "snooze")
  /\ UNCHANGED <<cpuVars, queueVars, prioVars, flagVars, mutexVars, pollVars, irqVars, fr>>

\* chx_snooze in state st, going on at label l: thread t sleeps for one slice, unless
\* no time is left.
Snooze(t, st, l) ==
  /\ \/ /\ fr[t].left = 0
        /\ Goto(t, l)
        /\ fr' = [fr EXCEPT ![t].r = 1]
        /\ UNCHANGED <<cpu, queueVars>>
     \/ /\ fr[t].left > 0
        /\ LET Q == StopSlice(q, t)
           IN  \E i \in TimerPlaces(Q) : q' = TimerInsert(Q, t, i)
        /\ state' = [state EXCEPT ![t] = st]
        /\ parent' = [parent EXCEPT ![t] = "timer"]
        /\ v' = [v EXCEPT ![t] = 1]
        /\ cpu' = "sleep"
        /\ fr' = [fr EXCEPT ![t].r = 0]
        /\ Goto(t, l)
  /\ UNCHANGED <<running, pendsv, prioVars, flagVars, mutexVars, pollVars, irqVars>>

SleepBlock(t) == Runs(t, "snooze") /\ Snooze(t, "WAIT_TIME", "snoozed")

\* What chx_snooze returns after sleeping is the result of chx_sched; a full slice is
\* taken off the time left on a timeout only.
SnoozeResult(t) == IF fr[t].r = 1 THEN 1 ELSE v[t]

SleepWoken(t) ==
  /\ Runs(t, "snoozed")
  /\ IF SnoozeResult(t) = 0
     THEN Goto(t, "usleep") /\ fr' = [fr EXCEPT ![t].left = @ - 1]
     ELSE Goto(t, "user") /\ fr' = [fr EXCEPT ![t] = NoFrame]
  /\ UNCHANGED <<cpuVars, queueVars, prioVars, flagVars, mutexVars, pollVars, irqVars>>

-----------------------------------------------------------------------------
(* Clean-ups and exit.                                                       *)

CleanupPush(t) ==
  /\ Calls(t, "cleanup") /\ clp[t] < MaxCleanup
  /\ clp' = [clp EXCEPT ![t] = @ + 1]
  /\ UNCHANGED <<cpuVars, queueVars, prioVars, got_cancel, cancelable, join_req, mutexVars,
                 pollVars, irqVars, pc, fr>>

CleanupPop(t) ==
  /\ Calls(t, "cleanup") /\ clp[t] > 0
  /\ clp' = [clp EXCEPT ![t] = @ - 1]
  /\ UNCHANGED <<cpuVars, queueVars, prioVars, got_cancel, cancelable, join_req, mutexVars,
                 pollVars, irqVars, pc, fr>>

\* The program calls chopstx_exit, or returns from the thread's entry function.
ExitCall(t) ==
  /\ Calls(t, "exit")
  /\ Goto(t, "exit")
  /\ UNCHANGED <<cpuVars, queueVars, prioVars, flagVars, mutexVars, pollVars, irqVars, fr>>

ExitBegin(t) ==
  /\ Runs(t, "exit")
  /\ clp' = [clp EXCEPT ![t] = 0]
  /\ fr' = [fr EXCEPT ![t] = [NoFrame EXCEPT !.idx = clp[t]]]
  /\ Goto(t, "handlers")
  /\ UNCHANGED <<cpuVars, queueVars, prioVars, got_cancel, cancelable, join_req, mutexVars,
                 pollVars, irqVars>>

\* One clean-up routine runs.  A routine is the program's code: it may reach a
\* cancellation point, which enters chopstx_exit again.
ExitHandler(t) ==
  /\ Runs(t, "handlers") /\ fr[t].idx > 0
  /\ \/ Goto(t, "handlers") /\ fr' = [fr EXCEPT ![t].idx = @ - 1]
     \/ "cleanup_point" \in May[t] /\ Canceled(t) /\ Goto(t, "exit") /\ UNCHANGED fr
  /\ UNCHANGED <<cpuVars, queueVars, prioVars, flagVars, mutexVars, pollVars, irqVars>>

\* The clean-ups are done; the loop over the mutexes still held starts.
BugExitHandlersDone(t) ==                               \* the mutexes stay locked
  /\ Runs(t, "handlers") /\ fr[t].idx = 0
  /\ fr' = [fr EXCEPT ![t].mtx = None]
  /\ Goto(t, "release")
  /\ UNCHANGED <<cpuVars, queueVars, prioVars, flagVars, mutexVars, pollVars, irqVars>>
ExitHandlersDone(t) ==
  /\ Runs(t, "handlers") /\ fr[t].idx = 0
  /\ fr' = [fr EXCEPT ![t].mtx = mutex_list[t]]
  /\ Goto(t, "release")
  /\ UNCHANGED <<cpuVars, queueVars, prioVars, flagVars, mutexVars, pollVars, irqVars>>

\* One held mutex is released; unlike chopstx_mutex_unlock, the section does not yield.
ExitRelease(t) ==
  LET m == fr[t].mtx
  IN  /\ Runs(t, "release") /\ m # None
      /\ fr' = [fr EXCEPT ![t].mtx = list[m]]
      /\ MutexRelease(t, m)
      /\ UNCHANGED <<cpuVars, prio_orig, flagVars, pollVars, irqVars, pc>>

\* Node x of the join queue waits for thread t.
BugWaitsFor(x, t) == x \in Pds /\ PdObj[x] = t           \* proxies only
WaitsFor(x, t) == IF x \in Pds THEN PdObj[x] = t ELSE v[x] = t

\* chx_exit: the first node of the join queue that waits for this thread is woken up ...
ExitNotify(t) ==
  LET s == q["join"]
  IN  /\ Runs(t, "release") /\ fr[t].mtx = None
      /\ \/ /\ join_req[t]
            /\ \E i \in DOMAIN s : /\ WaitsFor(s[i], t)
                                   /\ \A j \in 1..(i-1) : ~WaitsFor(s[j], t)
                                   /\ Wakeup(s[i], Dequeue(q, s[i]))
         \/ /\ join_req[t] => \A i \in DOMAIN s : ~WaitsFor(s[i], t)
            /\ UNCHANGED <<queueVars, pollVars>>
      /\ cpu' = "lock"
      /\ Goto(t, "dying")
      /\ UNCHANGED <<running, pendsv, prioVars, flagVars, mutexVars, irqVars, fr>>

\* ... and the thread leaves the CPU for good.
ExitEnd(t) ==
  /\ Locked(t, "dying")
  /\ q' = StopSlice(q, t)
  /\ state' = [state EXCEPT ![t] = IF t \in Detached THEN "FINISHED" ELSE "EXITED"]
  /\ v' = [v EXCEPT ![t] = 0]                                     \* the return value
  /\ cpu' = "sleep"
  /\ Goto(t, "dead")
  /\ UNCHANGED <<running, pendsv, parent, prioVars, flagVars, mutexVars, pollVars, irqVars, fr>>

-----------------------------------------------------------------------------
(* chopstx_join.                                                             *)

\* Thread t waits for the exit of u, by chopstx_join or by chopstx_poll.
Awaits(t, u) ==
  \/ fr[t].tgt = u /\ pc[t] \in {"join", "join_pi", "join_woken"}
  \/ InPoll(t) /\ \E p \in ToSet(PollArray[t]) : PdKind[p] = "join" /\ PdObj[p] = u

\* Programs wait for a thread that exists, is not themselves and has not been joined, and
\* one at most does at a time.
Joinable(t, u) == /\ u # t /\ state[u] \notin {"NONE", "FINISHED"}
                  /\ \A w \in Threads : ~Awaits(w, u)

JoinCall(t, u) ==
  /\ Calls(t, "join") /\ Joinable(t, u)
  /\ IF Canceled(t)
     THEN Goto(t, "exit") /\ UNCHANGED fr
     ELSE Goto(t, "join") /\ fr' = [fr EXCEPT ![t].tgt = u]
  /\ UNCHANGED <<cpuVars, queueVars, prioVars, flagVars, mutexVars, pollVars, irqVars>>

\* A detached thread cannot be joined: chx_fatal.
JoinFatal(t) ==
  /\ Runs(t, "join") /\ fr[t].tgt \in Detached
  /\ Goto(t, "fatal")
  /\ UNCHANGED <<cpuVars, queueVars, prioVars, flagVars, mutexVars, pollVars, irqVars, fr>>

\* The thread has exited already: there is nothing to wait for.
JoinExited(t) ==
  LET u == fr[t].tgt
  IN  /\ Runs(t, "join") /\ u \notin Detached /\ state[u] = "EXITED"
      /\ state' = [state EXCEPT ![u] = "FINISHED"]
      /\ Goto(t, "user")
      /\ fr' = [fr EXCEPT ![t] = NoFrame]
      /\ UNCHANGED <<cpuVars, q, parent, v, prioVars, flagVars, mutexVars, pollVars, irqVars>>

\* The thread lives: the caller is queued, and its priority is passed on.
JoinBlock(t) ==
  LET u == fr[t].tgt
  IN  /\ Runs(t, "join") /\ u \notin Detached /\ state[u] # "EXITED"
      /\ q' = PrioEnqueue(StopSlice(q, t), "join", t, prio)
      /\ parent' = [parent EXCEPT ![t] = "join"]
      /\ v' = [v EXCEPT ![t] = u]
      /\ state' = [state EXCEPT ![t] = "WAIT_EXIT"]
      /\ join_req' = [join_req EXCEPT ![u] = TRUE]
      /\ fr' = [fr EXCEPT ![t].tp0 = u]
      /\ cpu' = "lock"
      /\ Goto(t, "join_pi")
      /\ UNCHANGED <<running, pendsv, prioVars, got_cancel, cancelable, clp, mutexVars, pollVars,
                     irqVars>>

\* One turn of the inheritance loop; sleeping threads sleep on.
JoinInherit(t) ==
  LET x == fr[t].tp0
      prios == [prio EXCEPT ![x] = prio[t]]
  IN  /\ Locked(t, "join_pi") /\ Inherits(t)
      /\ prio' = prios
      /\ Requeue(x, prios)
      /\ fr' = [fr EXCEPT ![t].tp0 = Waker(x)]
      /\ UNCHANGED <<cpuVars, state, parent, v, prio_orig, flagVars, mutexVars, pollVars, irqVars, pc>>

JoinSleep(t) ==
  /\ Locked(t, "join_pi") /\ ~Inherits(t)
  /\ cpu' = "sleep"
  /\ fr' = [fr EXCEPT ![t].tp0 = None]
  /\ Goto(t, "join_woken")
  /\ UNCHANGED <<running, pendsv, queueVars, prioVars, flagVars, mutexVars, pollVars, irqVars>>

\* The return: a cancelled caller exits, and a result of 0 finishes the joined thread.
JoinReturn(t) ==
  /\ Runs(t, "join_woken")
  /\ state' = IF v[t] = 0 THEN [state EXCEPT ![fr[t].tgt] = "FINISHED"] ELSE state
  /\ Goto(t, IF v[t] < 0 THEN "exit" ELSE "user")
  /\ fr' = [fr EXCEPT ![t] = NoFrame]
  /\ UNCHANGED <<cpuVars, q, parent, v, prioVars, flagVars, mutexVars, pollVars, irqVars>>

-----------------------------------------------------------------------------
(* Cancellation.                                                             *)

\* A cancelled sleeper leaves the queue it is linked in; chopstx_poll without a limit has none.
BugCancelUnlinks(u) == state[u] \notin {"WAIT_TIME", "WAIT_POLL"}   \* the timer list is forgotten
CancelUnlinks(u) == state[u] = "WAIT_POLL" => Timed(u)

\* chopstx_cancel of u.
CancelCall(t, u) ==
  LET asleep == state[u] \in {"WAIT_CND", "WAIT_TIME", "WAIT_EXIT", "WAIT_POLL"}
  IN  /\ Calls(t, "cancel") /\ state[u] # "NONE"
      /\ got_cancel' = [got_cancel EXCEPT ![u] = TRUE]
      /\ \/ /\ cancelable[u] /\ asleep
            /\ MakeReady(IF CancelUnlinks(u) THEN Dequeue(q, u) ELSE q, u)
            /\ v' = [v EXCEPT ![u] = -1]
            /\ cpu' = IF prio[u] > prio[t] THEN "yield" ELSE "user"
         \/ /\ ~cancelable[u] \/ ~asleep
            /\ UNCHANGED <<cpu, queueVars>>
      /\ UNCHANGED <<running, pendsv, prioVars, cancelable, join_req, clp, mutexVars, pollVars,
                     irqVars, pc, fr>>

TestCancelCall(t) ==
  /\ Calls(t, "testcancel") /\ Canceled(t)
  /\ Goto(t, "exit")
  /\ UNCHANGED <<cpuVars, queueVars, prioVars, flagVars, mutexVars, pollVars, irqVars, fr>>

\* chopstx_setcancelstate: enabling is a cancellation point.
SetCancelStateCall(t, enable) ==
  /\ Calls(t, "setcancelstate") /\ cancelable[t] # enable
  /\ cancelable' = [cancelable EXCEPT ![t] = enable]
  /\ Goto(t, IF enable /\ got_cancel[t] THEN "exit" ELSE "user")
  /\ UNCHANGED <<cpuVars, queueVars, prioVars, got_cancel, join_req, clp, mutexVars, pollVars,
                 irqVars, fr>>

-----------------------------------------------------------------------------
\* chopstx_setpriority: an inherited priority is only ever raised.
SetPriorityCall(t, new) ==
  LET cur == prio[t]
      np  == IF cur = prio_orig[t] \/ new > cur THEN new ELSE cur
  IN  /\ Calls(t, "setpriority")
      /\ prio_orig' = [prio_orig EXCEPT ![t] = new]
      /\ prio' = [prio EXCEPT ![t] = np]
      /\ cpu' = IF np < cur THEN "yield" ELSE "user"
      /\ UNCHANGED <<running, pendsv, queueVars, flagVars, mutexVars, pollVars, irqVars, pc, fr>>
=============================================================================
