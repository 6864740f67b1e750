----------------------------- MODULE ChxMutex -----------------------------
(***************************************************************************)
(* Mutexes with priority inheritance: chopstx_mutex_lock,                  *)
(* chopstx_mutex_unlock, chx_mutex_unlock and requeue of chopstx.c.        *)
(*                                                                         *)
(* The mutexes a thread holds are linked through ->mutex_list and ->list;  *)
(* unlocking pops that list, so programs unlock in the reverse order of    *)
(* locking.                                                                *)
(***************************************************************************)
EXTENDS ChxBase

\* The mutexes linked from m on, those the loop over m->list in chx_mutex_unlock visits: what
\* is in every set of mutexes that has m and follows ->list.
Follows(S) == \A x \in S : list[x] # None => list[x] \in S
Chain(m) == {x \in Mutexes : \A S \in SUBSET Mutexes : (m # None => m \in S) /\ Follows(S) => x \in S}

\* The priorities a thread left with the mutexes of HELD has a claim to: its own, and that
\* of the first waiter of each mutex it holds, in queues Q.  It gets the highest.
BugClaims(t, held, Q) ==                                \* starts from the inherited priority
  {prio[t]} \cup {prio[Head(Q[m])] : m \in {x \in Mutexes : x \in held /\ Q[x] # << >>}}
Claims(t, held, Q) ==
  {prio_orig[t]} \cup {prio[Head(Q[m])] : m \in {x \in Mutexes : x \in held /\ Q[x] # << >>}}

-----------------------------------------------------------------------------
(* chopstx_mutex_lock of mutex fr[t].mtx; it returns to fr[t].then.          *)

\* The call, from a program that nests its mutexes in the order of LockRank.
LockCall(t, m) ==
  /\ Calls(t, "lock")
  /\ \A n \in Mutexes : owner[n] = t => LockRank[n] < LockRank[m]
  /\ fr' = [fr EXCEPT ![t].mtx = m, ![t].then = "user"]
  /\ Goto(t, "mtx_lock")
  /\ UNCHANGED <<cpuVars, queueVars, prioVars, flagVars, mutexVars, pollVars, irqVars>>

\* The mutex is free: it is acquired.
BugLockAcquire(t) ==                                    \* the mutexes held already are unlinked
  LET m == fr[t].mtx
  IN  /\ Runs(t, "mtx_lock") /\ owner[m] = None
      /\ owner' = [owner EXCEPT ![m] = t]
      /\ mutex_list' = [mutex_list EXCEPT ![t] = m]
      /\ Goto(t, fr[t].then)
      /\ fr' = [fr EXCEPT ![t].mtx = None, ![t].then = "user"]
      /\ UNCHANGED <<cpuVars, queueVars, prioVars, flagVars, list, pollVars, irqVars>>
LockAcquire(t) ==
  LET m == fr[t].mtx
  IN  /\ Runs(t, "mtx_lock") /\ owner[m] = None
      /\ owner' = [owner EXCEPT ![m] = t]
      /\ list' = [list EXCEPT ![m] = mutex_list[t]]
      /\ mutex_list' = [mutex_list EXCEPT ![t] = m]
      /\ Goto(t, fr[t].then)
      /\ fr' = [fr EXCEPT ![t].mtx = None, ![t].then = "user"]
      /\ UNCHANGED <<cpuVars, queueVars, prioVars, flagVars, pollVars, irqVars>>

\* The mutex is held: the section goes on with priority inheritance.
LockHeld(t) ==
  LET m == fr[t].mtx
  IN  /\ Runs(t, "mtx_lock") /\ owner[m] # None
      /\ cpu' = "lock"
      /\ fr' = [fr EXCEPT ![t].tp0 = owner[m]]
      /\ Goto(t, "mtx_pi")
      /\ UNCHANGED <<running, pendsv, queueVars, prioVars, flagVars, mutexVars, pollVars, irqVars>>

\* The condition of the inheritance loops, with cursor tp0.
BugInherits(t) == FALSE                                 \* no inheritance
Inherits(t) == fr[t].tp0 # None /\ prio[fr[t].tp0] < prio[t]

\* The thread requeue of x returns: one that can wake x up.
BugWaker(x) ==                                          \* the mutex in the place of its owner
  IF state[x] = "WAIT_MTX" THEN parent[x] ELSE None
BugNoWaker(x) == None                                   \* inheritance stops at the first owner
Waker(x) ==
  CASE state[x] = "WAIT_MTX"  -> owner[parent[x]]
    [] state[x] = "WAIT_EXIT" -> v[x]
    [] OTHER                  -> None

\* requeue of x after its priority became prios[x].
BugRequeue(x, prios) == UNCHANGED q                     \* the place in the queue is kept
Requeue(x, prios) ==
  q' = IF state[x] \in {"READY", "WAIT_MTX", "WAIT_CND"}
       THEN PrioEnqueue(Dequeue(q, x), parent[x], x, prios)
       ELSE q

\* One turn of the inheritance loop of chopstx_mutex_lock: the cursor gets the locker's
\* priority; a sleeping thread is woken up, another is requeued.
LockInherit(t) ==
  LET x == fr[t].tp0
      prios == [prio EXCEPT ![x] = prio[t]]
      Q == IF Timed(x) THEN Dequeue(q, x) ELSE q
  IN  /\ Locked(t, "mtx_pi") /\ Inherits(t)
      /\ prio' = prios
      /\ \/ /\ state[x] \in {"WAIT_TIME", "WAIT_POLL"}
            /\ \E ticks \in IF Timed(x) THEN TicksRemained ELSE {1} : v' = [v EXCEPT ![x] = ticks]
            /\ q' = PrioEnqueue(Q, "ready", x, prios)
            /\ state' = [state EXCEPT ![x] = "READY"]
            /\ parent' = [parent EXCEPT ![x] = "ready"]
            /\ fr' = [fr EXCEPT ![t].tp0 = None]
         \/ /\ state[x] \notin {"WAIT_TIME", "WAIT_POLL"}
            /\ Requeue(x, prios)
            /\ fr' = [fr EXCEPT ![t].tp0 = Waker(x)]
            /\ UNCHANGED <<state, parent, v>>
      /\ UNCHANGED <<cpuVars, prio_orig, flagVars, mutexVars, pollVars, irqVars, pc>>

\* The end of the section: the locker waits, and will try again when it runs.
LockBlock(t) ==
  LET m == fr[t].mtx
  IN  /\ Locked(t, "mtx_pi") /\ ~Inherits(t)
      /\ q' = PrioEnqueue(StopSlice(q, t), m, t, prio)
      /\ state' = [state EXCEPT ![t] = "WAIT_MTX"]
      /\ parent' = [parent EXCEPT ![t] = m]
      /\ v' = IF t \in RR THEN [v EXCEPT ![t] = 0] ELSE v
      /\ cpu' = "sleep"
      /\ fr' = [fr EXCEPT ![t].tp0 = None]
      /\ Goto(t, "mtx_lock")
      /\ UNCHANGED <<running, pendsv, prioVars, flagVars, mutexVars, pollVars, irqVars>>

-----------------------------------------------------------------------------
(* chopstx_mutex_unlock.                                                     *)

\* chx_mutex_unlock of m by the running thread t: the list of held mutexes is popped, the
\* first waiter becomes ready and t falls back to the priority its mutexes give it.
BugMutexRelease(t, m) ==                                \* the waiters are not woken up
  /\ owner' = [owner EXCEPT ![m] = None]
  /\ mutex_list' = [mutex_list EXCEPT ![t] = list[m]]
  /\ list' = [list EXCEPT ![m] = None]
  /\ UNCHANGED <<queueVars, prio>>
MutexRelease(t, m) ==
  /\ owner' = [owner EXCEPT ![m] = None]
  /\ mutex_list' = [mutex_list EXCEPT ![t] = list[m]]
  /\ list' = [list EXCEPT ![m] = None]
  /\ \/ /\ q[m] = << >>
        /\ UNCHANGED <<queueVars, prio>>
     \/ /\ q[m] # << >>
        /\ LET w == Head(q[m])
               Q == [q EXCEPT ![m] = Tail(@)]
           IN  /\ MakeReady(Q, w)
               /\ v' = [v EXCEPT ![w] = 0]
               /\ \E pr \in Claims(t, Chain(list[m]), Q) :
                    /\ \A c \in Claims(t, Chain(list[m]), Q) : c <= pr
                    /\ prio' = [prio EXCEPT ![t] = pr]

\* The call: the last mutex that was locked is unlocked.
Unlock(t, m) ==
  /\ MutexRelease(t, m)
  /\ cpu' = IF q[m] # << >> /\ prio'[Head(q[m])] > prio'[t] THEN "yield" ELSE "user"
  /\ UNCHANGED <<running, pendsv, prio_orig, flagVars, pollVars, irqVars>>

UnlockCall(t) ==
  /\ Calls(t, "unlock") /\ mutex_list[t] # None
  /\ Unlock(t, mutex_list[t])
  /\ UNCHANGED <<pc, fr>>
=============================================================================
