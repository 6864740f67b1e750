----------------------------- MODULE MCKernel -----------------------------
(* Small systems for the model checker: which calls the programs make.       *)
EXTENDS ChxInvariant
CONSTANTS a, b, c, d, m1, m2, c1, i1, p1, p2

\* a, b, c, d have falling priorities; a program nests m2 inside m1.
Falling == [t \in Threads |-> CASE t = a -> 4 [] t = b -> 2 [] t = c -> 2 [] OTHER -> 1]
Nested == [m \in Mutexes |-> IF m = m1 THEN 1 ELSE 2]

NoArrays == [t \in Threads |-> << >>]
NoPds == [p \in Pds |-> None]

\* Mutexes and condition variables, nested locking, priority inheritance.
MutexMay == [t \in Threads |->
  CASE t = a -> {"lock", "unlock", "sleep"}
    [] t = b -> {"lock", "unlock", "wait", "signal", "exit"}
    [] t = c -> {"create", "lock", "unlock", "broadcast", "setpriority"}
    [] OTHER -> {"lock", "unlock", "exit"}]

\* The life of threads: main creates, cancels, joins and polls for exits; a sleeps, with
\* clean-ups and a mutex; b waits.
ThreadMay == [t \in Threads |->
  CASE t = c -> {"create", "join", "cancel", "setpriority", "signal", "poll"}
    [] t = a -> {"sleep", "cleanup", "cleanup_point", "setcancelstate", "testcancel", "exit", "lock", "unlock"}
    [] OTHER -> {"lock", "unlock", "wait", "exit", "sleep"}]
JoinArrays == [t \in Threads |-> IF t = c THEN <<p1, p2>> ELSE << >>]
JoinKinds == [p \in Pds |-> "join"]
JoinObjs == [p \in Pds |-> IF p = p1 THEN a ELSE b]

\* Polling: a polls an interrupt and a condition variable; b, which has a higher priority,
\* wakes up from a sleep anywhere in between, signals, and may cancel a.
PollMay == [t \in Threads |->
  CASE t = a -> {"poll", "claim", "setcancelstate"}
    [] t = b -> {"sleep", "lock", "unlock", "signal", "cancel"}
    [] OTHER -> {"create"}]
PollPrio == [t \in Threads |-> CASE t = a -> 2 [] t = b -> 4 [] OTHER -> 1]
PollArrays == [t \in Threads |-> IF t = a THEN <<p1, p2>> ELSE << >>]
PollKinds == [p \in Pds |-> IF p = p1 THEN "intr" ELSE "cond"]
PollObjs == [p \in Pds |-> IF p = p1 THEN i1 ELSE c1]
PollMutexes == [p \in Pds |-> IF p = p1 THEN None ELSE m1]

\* Progress: b never locks, and may keep the CPU for ever.
LiveMay == [t \in Threads |->
  CASE t = b -> {"sleep"}
    [] t = c -> {"create", "lock", "unlock", "sleep"}
    [] OTHER -> {"lock", "unlock", "sleep"}]
Spread == [t \in Threads |-> CASE t = a -> 4 [] t = b -> 3 [] t = c -> 2 [] OTHER -> 1]
=============================================================================
