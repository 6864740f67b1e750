----------------------------- MODULE Deadlines -----------------------------
(***************************************************************************)
(* What the timer of the kernel promises: every sleeper has a deadline of  *)
(* its own, which nothing that happens to the others moves.  The delta     *)
(* list and the one-shot SysTick of chopstx.c implement this (ChxTimer).   *)
(***************************************************************************)
EXTENDS Integers, FiniteSetsExt

CONSTANTS Threads, MaxTicks

VARIABLES
  left,   \* left[t]: ticks till the deadline of t; -1: t has none
  alarm,  \* the clock has reached a deadline, and nobody has been woken for it yet
  stray,  \* the clock counts on though nobody sleeps
  on      \* the thread on the CPU, whose deadline is the end of its slice

vars == <<left, alarm, stray, on>>

Sleepers == {t \in Threads : left[t] >= 0}
Due      == {t \in Threads : left[t] = 0}

Init == left = [t \in Threads |-> -1] /\ alarm = FALSE /\ stray = FALSE
        /\ on \notin Threads

\* A tick of the clock.  It stands still once a deadline is reached: the time till the
\* alarm is handled delays everybody.
Tick ==
  /\ Sleepers # {} /\ Due = {}
  /\ left' = [t \in Threads |-> IF t \in Sleepers THEN left[t] - 1 ELSE -1]
  /\ alarm' = (alarm \/ Due' # {})
  /\ UNCHANGED <<stray, on>>

\* Threads are given deadlines, or lose them; nobody's deadline moves, but that the thread
\* on the CPU has its slice replaced by a sleep, or by another slice, and a sleeper that is
\* woken up gets a slice when it is put on the CPU at once.
Reset ==
  /\ \A t \in Threads :
       \/ left'[t] \in {left[t], -1}
       \/ left'[t] \in 1..MaxTicks /\ (left[t] = -1 \/ t \in {on, on'})
  /\ stray' = (stray /\ Sleepers' = {})
  /\ UNCHANGED alarm

\* The alarm wakes those who are due, and only them.  Had they all been reset before the
\* alarm came through, it is taken for that of the next deadline: the clock jumps, and
\* it counts on when that was the last deadline.
Wake ==
  /\ alarm /\ alarm' = FALSE /\ on' = on
  /\ Sleepers # {} =>
       LET n == Min({left[t] : t \in Sleepers})
       IN  /\ left' = [t \in Threads |-> IF left[t] > n THEN left[t] - n ELSE -1]
           /\ stray' = (n > 0 /\ Sleepers' = {})
  /\ Sleepers = {} => UNCHANGED <<left, stray>>

\* The clock runs out with nobody asleep.
Stray == stray /\ alarm' = TRUE /\ stray' = FALSE /\ UNCHANGED <<left, on>>

Next == Tick \/ Wake \/ Stray \/ Reset

Spec == Init /\ [][Next]_vars
=============================================================================
