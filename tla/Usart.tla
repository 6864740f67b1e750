------------------------------- MODULE Usart --------------------------------
(***************************************************************************)
(* The USART driver (contrib/usart-stm32f103.c), for one of the two ports: *)
(* the driver thread usart_main between the controller and two ring        *)
(* buffers, a2h (application to hardware) and h2a, and the functions the   *)
(* application's threads call.                                             *)
(*                                                                         *)
(* A section under the mutex of a ring buffer is one step, except the      *)
(* loops of rb_read and rb_write, a step of which moves one character: the *)
(* thread keeps the mutex between its steps, and is preempted there.       *)
(*                                                                         *)
(* Characters are numbered in the order they come in, from 1; 0 is none.   *)
(***************************************************************************)
EXTENDS Ring, LineCoding, SequencesExt

CONSTANTS A2hSize, H2aSize,    \* the places of the two ring buffers
          BufSize              \* BUFSIZE: what a thread of the application takes at a time

ASSUME SizesAssumption == /\ A2hSize \in 1..IndexRange /\ H2aSize \in 1..IndexRange
                          /\ BufSize \in Nat \ {0}

VARIABLES
  a2h, h2a,   \* the ring buffers
  uart,       \* the controller: data registers out and in, and the flags
  um,         \* usart_main: pc, usart2_tx_ready, the poll's results, the character read
  stat,       \* struct usart_stat: characters in, and errors
  thr,        \* the application's two threads: pc and buffer
  slept,      \* those that sleep and on what, the longest asleep first
  log         \* the model's own record: what came out of the line and was heard by the
              \* host; what the program discarded of either direction; see UsbSerial

Threads == {"u2c", "c2u"}      \* usart_to_cdc_loop, cdc_to_usart_loop

FreshUart == [dr |-> NoChar, rdr |-> NoChar, bad |-> FALSE, ore |-> FALSE,
              txeie |-> FALSE, ue |-> FALSE, sbk |-> FALSE, frame |-> NoFrame]
FreshUm == [pc |-> "off", txready |-> TRUE, intr |-> FALSE, write |-> FALSE, ch |-> NoChar,
            rxne |-> FALSE, bad |-> FALSE, ore |-> FALSE, notify |-> FALSE]

----------------------------------------------------------------------------
\* The controller and the line (external).  bad is any of NE, FE and PE.

TXE == uart.dr = NoChar
Interrupted == (uart.txeie /\ TXE) \/ uart.rdr # NoChar \/ uart.ore

\* The shift register takes the data register over, and sends it: one step here.
LineOut ==
  /\ uart.ue /\ uart.dr # NoChar
  /\ uart' = [uart EXCEPT !.dr = NoChar]
  /\ log' = [log EXCEPT !.wire = Append(@, uart.dr)]

BreakSent ==
  /\ uart.sbk
  /\ uart' = [uart EXCEPT !.sbk = FALSE]
  /\ UNCHANGED log

\* A frame comes in while the last one has not been read: it is lost.
LineIn(c, bad) ==
  /\ uart.ue
  /\ IF uart.rdr = NoChar
     THEN uart' = [uart EXCEPT !.rdr = c, !.bad = bad] /\ UNCHANGED log
     ELSE /\ uart' = [uart EXCEPT !.ore = TRUE]
          /\ log' = [log EXCEPT !.lost = @ \cup {c}, !.missed = @ + 1]

----------------------------------------------------------------------------
\* The application's threads on the condition variables.

Ready(t) == \A i \in DOMAIN slept : slept[i].t # t
Asleep(t, on) == \E i \in DOMAIN slept : slept[i] = [t |-> t, on |-> on]
Sleeps(t, on) == slept' = Append(slept, [t |-> t, on |-> on])

\* chopstx_cond_signal: the one that has slept longest is woken up.
Signalled(s, on) ==
  LET waiting == {i \in DOMAIN s : s[i].on = on}
  IN IF waiting = {} THEN s
     ELSE RemoveAt(s, CHOOSE i \in waiting : \A j \in waiting : i <= j)

\* chopstx_cond_broadcast: those who sleep are woken up one after the other, and there are
\* two threads.
Broadcast(s, on) == Signalled(Signalled(s, on), on)

\* usart_main in chopstx_poll is woken up by the condition variable of a2h.
WriteEvent(m) ==
  IF m.pc = "asleep" /\ m.txready THEN [m EXCEPT !.pc = "status", !.write = TRUE] ELSE m

\* A thread holds the mutex of a ring buffer between the steps of its loop.
A2hHeld == thr["c2u"].pc = "writing"
H2aHeld == thr["u2c"].pc = "reading"

----------------------------------------------------------------------------
\* usart_main.

\* What is left to do: the host is told of an error, and a character is sent.
Onward(notify, txready) ==
  IF notify THEN "notify" ELSE IF txready /\ um.write THEN "write" ELSE "poll"

\* chopstx_poll: the interrupt first, then the ring buffer, which is looked at only
\* when a character may be written.
UmPoll ==
  /\ um.pc = "poll" /\ ~(um.txready /\ A2hHeld)
  /\ LET write == um.txready /\ ~a2h.empty
     IN um' = [um EXCEPT !.intr = Interrupted, !.write = write,
                         !.pc = IF Interrupted \/ write THEN "status" ELSE "asleep"]
  /\ UNCHANGED << a2h, h2a, uart, stat, thr, slept, log >>

UmInterrupt ==
  /\ um.pc = "asleep" /\ Interrupted
  /\ um' = [um EXCEPT !.intr = TRUE, !.pc = "status"]
  /\ UNCHANGED << a2h, h2a, uart, stat, thr, slept, log >>

\* handle_intr: the status register is read, and TXE turns its interrupt off.  An
\* interrupt that comes when chopstx_poll is about to return is served now or later.
UmStatus ==
  \E intr \in {um.intr, um.intr \/ Interrupted} :
  /\ um.pc = "status"
  /\ IF intr
     THEN /\ um' = [um EXCEPT !.txready = TXE, !.rxne = (uart.rdr # NoChar), !.bad = uart.bad,
                              !.ore = uart.ore, !.notify = FALSE,
                              !.pc = IF uart.rdr # NoChar \/ uart.ore THEN "data"
                                     ELSE Onward(FALSE, TXE)]
          /\ uart' = [uart EXCEPT !.txeie = @ /\ ~TXE]
     ELSE um' = [um EXCEPT !.pc = Onward(FALSE, um.txready)] /\ UNCHANGED uart
  /\ UNCHANGED << a2h, h2a, stat, thr, slept, log >>

\* The data register is read, which clears the flags that the status showed.  Without
\* RXNE the character, should one have come in since, is not used.  The host is told of
\* a break or of a wrong parity, not of noise.
UmData ==
  \E notice \in IF um.rxne /\ um.bad THEN BOOLEAN ELSE {FALSE} :
  /\ um.pc = "data"
  /\ uart' = [uart EXCEPT !.rdr = NoChar, !.bad = FALSE, !.ore = @ /\ ~um.ore]
  /\ LET good    == um.rxne /\ ~um.bad
         overrun == um.ore /\ (good \/ ~um.rxne)
         gone    == ~good /\ uart.rdr # NoChar
     IN /\ um' = [um EXCEPT !.ch = IF good THEN uart.rdr ELSE NoChar,
                            !.notify = overrun \/ notice,
                            !.pc = IF good THEN "put" ELSE Onward(overrun \/ notice, um.txready)]
        /\ stat' = [stat EXCEPT !.bad = IF um.rxne /\ um.bad THEN @ + 1 ELSE @,
                                !.overrun = IF overrun THEN @ + 1 ELSE @]
        /\ log' = [log EXCEPT !.lost = IF gone THEN @ \cup {uart.rdr} ELSE @,
                              !.missed = IF gone /\ ~um.rxne THEN @ + 1 ELSE @,
                              !.masked = @ \/ (um.ore /\ ~overrun)]
  /\ UNCHANGED << a2h, h2a, thr, slept >>

\* rb_ll_put: a character is dropped, and counted, when the buffer is full.
BugUmPut ==
  /\ um.pc = "put" /\ ~H2aHeld
  /\ um' = [um EXCEPT !.pc = Onward(um.notify, um.txready), !.ch = NoChar]
  /\ IF h2a.full
     THEN /\ log' = [log EXCEPT !.lost = @ \cup {um.ch}]
          /\ UNCHANGED << h2a, slept, stat >>
     ELSE /\ h2a' = RbAdd(h2a, um.ch)
          /\ stat' = [stat EXCEPT !.rx = @ + 1]
          /\ slept' = Signalled(slept, "data")
          /\ UNCHANGED log
  /\ UNCHANGED << a2h, uart, thr >>

UmPut ==
  /\ um.pc = "put" /\ ~H2aHeld
  /\ um' = [um EXCEPT !.pc = Onward(um.notify, um.txready), !.ch = NoChar]
  /\ IF h2a.full
     THEN /\ stat' = [stat EXCEPT !.overflow = @ + 1]
          /\ log' = [log EXCEPT !.lost = @ \cup {um.ch}]
          /\ UNCHANGED << h2a, slept >>
     ELSE /\ h2a' = RbAdd(h2a, um.ch)
          /\ stat' = [stat EXCEPT !.rx = @ + 1]
          /\ slept' = Signalled(slept, "data")
          /\ UNCHANGED log
  /\ UNCHANGED << a2h, uart, thr >>

\* handle_tx_ready: a character goes to the data register, if there still is one ...
UmWrite ==
  /\ um.pc = "write" /\ ~A2hHeld
  /\ IF a2h.empty
     THEN um' = [um EXCEPT !.pc = "poll"] /\ UNCHANGED << a2h, uart, slept >>
     ELSE /\ um' = [um EXCEPT !.pc = "check"]
          /\ uart' = [uart EXCEPT !.dr = RbFirst(a2h)]
          /\ a2h' = RbDel(a2h)
          /\ slept' = Signalled(slept, "space")
  /\ UNCHANGED << h2a, stat, thr, log >>

\* ... and the status is read again: when the register is not free yet, its interrupt
\* will tell.
BugUmCheck ==
  /\ um.pc = "check"
  /\ um' = [um EXCEPT !.pc = "poll"]
  /\ uart' = [uart EXCEPT !.txeie = @ \/ ~TXE]
  /\ UNCHANGED << a2h, h2a, stat, thr, slept, log >>

UmCheck ==
  /\ um.pc = "check"
  /\ um' = [um EXCEPT !.pc = "poll", !.txready = TXE]
  /\ uart' = [uart EXCEPT !.txeie = @ \/ ~TXE]
  /\ UNCHANGED << a2h, h2a, stat, thr, slept, log >>

----------------------------------------------------------------------------
\* usart_read and usart_write, for the running thread t.

\* rb_read: wait for a character, and take what there is.
RbRead(t) ==
  /\ thr[t].pc \in {"read", "reading"}
  /\ IF h2a.empty
     THEN Sleeps(t, "data") /\ UNCHANGED << h2a, thr >>
     ELSE LET got == Append(thr[t].buf, RbFirst(h2a))
          IN /\ h2a' = RbDel(h2a)
             /\ thr' = [thr EXCEPT ![t] = [buf |-> got,
                                           pc  |-> IF RbDel(h2a).empty \/ Len(got) = BufSize
                                                   THEN "send" ELSE "reading"]]
             /\ UNCHANGED slept
  /\ UNCHANGED << a2h, uart, um, stat, log >>

\* rb_write: all of the buffer, waiting for a place where there is none.
BugRbWrite(t) ==
  /\ thr[t].pc \in {"write", "writing"}
  /\ IF a2h.full
     THEN /\ Sleeps(t, "space")
          /\ thr' = [thr EXCEPT ![t].pc = "write"]
          /\ UNCHANGED << a2h, um >>
     ELSE LET rest == Tail(thr[t].buf)
          IN /\ thr[t].buf # << >>
             /\ a2h' = RbAdd(a2h, Head(thr[t].buf))
             /\ thr' = [thr EXCEPT ![t] = [buf |-> rest,
                                           pc  |-> IF rest = << >> THEN "recv" ELSE "writing"]]
             /\ um' = IF rest = << >> THEN WriteEvent(um) ELSE um
             /\ UNCHANGED slept
  /\ UNCHANGED << h2a, uart, stat, log >>

RbWrite(t) ==
  /\ thr[t].pc \in {"write", "writing"}
  /\ IF a2h.full
     THEN /\ Sleeps(t, "space")
          /\ thr' = [thr EXCEPT ![t].pc = "write"]
          /\ UNCHANGED << a2h, um >>
     ELSE LET rest == Tail(thr[t].buf)
          IN /\ thr[t].buf # << >>
             /\ a2h' = RbAdd(a2h, Head(thr[t].buf))
             /\ thr' = [thr EXCEPT ![t] = [buf |-> rest,
                                           pc  |-> IF rest = << >> THEN "recv" ELSE "writing"]]
             /\ um' = IF rest = << >> \/ RbAdd(a2h, Head(thr[t].buf)).full THEN WriteEvent(um) ELSE um
             /\ UNCHANGED slept
  /\ UNCHANGED << h2a, uart, stat, log >>

\* rb_ll_flush of either buffer.
FlushIn(t) ==
  /\ thr[t].pc = "flush_in" /\ ~H2aHeld
  /\ h2a' = RbFlush(h2a)
  /\ log' = [log EXCEPT !.lost = @ \cup ToSet(Contents(h2a, H2aSize))]
  /\ thr' = [thr EXCEPT ![t].pc = "flush_out"]
  /\ UNCHANGED << a2h, uart, um, stat, slept >>

FlushOut(t) ==
  /\ thr[t].pc = "flush_out" /\ ~A2hHeld
  /\ a2h' = RbFlush(a2h)
  /\ slept' = Signalled(slept, "space")
  /\ log' = [log EXCEPT !.gone = @ \cup ToSet(Contents(a2h, A2hSize))]
  /\ thr' = [thr EXCEPT ![t].pc = "delay"]
  /\ UNCHANGED << h2a, uart, um, stat >>

----------------------------------------------------------------------------
\* usart_config and usart_send_break write the control register CR1; the interrupt of
\* TXE is off afterwards, or what it was when CR1 was read.

Rewritten(txeie) == log' = [log EXCEPT !.rewritten = @ \/ (uart.txeie /\ ~txeie)]

Disabled == uart' = [uart EXCEPT !.ue = FALSE]
Enabled(bits) ==
  IF Refused(bits) THEN UNCHANGED << uart, log >>
  ELSE /\ uart' = [uart EXCEPT !.ue = TRUE, !.txeie = FALSE, !.frame = UsartConfig(bits)]
       /\ Rewritten(FALSE)
SetBreak(txeie) ==
  /\ uart' = [uart EXCEPT !.sbk = TRUE, !.txeie = txeie]
  /\ Rewritten(txeie)
=============================================================================
