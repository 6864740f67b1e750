-------------------------------- MODULE Ring --------------------------------
(***************************************************************************)
(* The ring buffer of contrib/usart-stm32f103.c (struct rb), between the   *)
(* driver and the application.                                             *)
(*                                                                         *)
(* head, tail and size are fields of ten bits: they are incremented modulo *)
(* IndexRange, and a buffer of IndexRange characters has the size 0.       *)
(***************************************************************************)
EXTENDS Naturals, Sequences

CONSTANT IndexRange      \* 2^10: how many values head, tail and size can have

ASSUME IndexRangeAssumption == IndexRange \in Nat \ {0}

NoChar == 0              \* what stands in a place never written

\* rb_init.
FreshRing(size) ==
  [buf |-> [i \in 0..size - 1 |-> NoChar], head |-> 0, tail |-> 0,
   size |-> IF size = IndexRange THEN 0 ELSE size, full |-> FALSE, empty |-> TRUE]

\* An index goes on to the next place: x++ in ten bits, and back to 0 at the size.
Increment(x) == IF x + 1 = IndexRange THEN 0 ELSE x + 1
BugNext(rb, x) == IF Increment(x) > rb.size THEN 0 ELSE Increment(x)

NextPlace(rb, x) == IF Increment(x) = rb.size THEN 0 ELSE Increment(x)

\* rb_add.
RbAdd(rb, v) ==
  LET t == NextPlace(rb, rb.tail)
  IN [rb EXCEPT !.buf[rb.tail] = v, !.tail = t, !.full = (t = rb.head) \/ rb.full, !.empty = FALSE]

\* rb_del: what it returns, and what it leaves.
RbFirst(rb) == rb.buf[rb.head]

BugDel(rb) ==
  LET h == NextPlace(rb, rb.head)
  IN [rb EXCEPT !.head = h, !.empty = (h = rb.tail) \/ rb.empty]

RbDel(rb) ==
  LET h == NextPlace(rb, rb.head)
  IN [rb EXCEPT !.head = h, !.empty = (h = rb.tail) \/ rb.empty, !.full = FALSE]

\* rb_ll_flush: rb_del until the buffer is empty.
RbFlush(rb) == IF rb.empty THEN rb ELSE [rb EXCEPT !.head = rb.tail, !.empty = TRUE, !.full = FALSE]

----------------------------------------------------------------------------
\* What a ring buffer of n places holds, from the head on.
Count(rb, n) ==
  IF rb.full THEN n ELSE IF rb.head <= rb.tail THEN rb.tail - rb.head ELSE rb.tail + n - rb.head
Place(rb, n, i) == IF rb.head + i - 1 < n THEN rb.head + i - 1 ELSE rb.head + i - 1 - n
Contents(rb, n) == [i \in 1..Count(rb, n) |-> rb.buf[Place(rb, n, i)]]

\* The ring buffers of n places the program can have: head and tail meet when it is full
\* or empty, and only then.
Rings(n) ==
  {rb \in [buf : [0..n - 1 -> Nat], head : 0..n - 1, tail : 0..n - 1,
           size : {IF n = IndexRange THEN 0 ELSE n}, full : BOOLEAN, empty : BOOLEAN] :
     /\ rb.head = rb.tail <=> (rb.full \/ rb.empty)
     /\ ~(rb.full /\ rb.empty)}
=============================================================================
