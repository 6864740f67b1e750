-------------------------------- MODULE Fifo --------------------------------
(***************************************************************************)
(* What a ring buffer of contrib/usart-stm32f103.c promises: a queue of    *)
(* characters, bounded, first in, first out, that may be flushed.          *)
(***************************************************************************)
EXTENDS Naturals, Sequences

CONSTANT Capacity
VARIABLE items

Init == items = << >>

Put == /\ Len(items) < Capacity
       /\ Len(items') = Len(items) + 1
       /\ \A i \in 1..Len(items) : items'[i] = items[i]

Get == /\ items # << >>
       /\ items' = Tail(items)

Flush == items' = << >>

Spec == Init /\ [][Put \/ Get \/ Flush]_items
=============================================================================
