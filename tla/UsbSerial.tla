----------------------------- MODULE UsbSerial ------------------------------
(***************************************************************************)
(* The USB serial adapter (example-usb-serial): the two threads of         *)
(* sample.c that carry characters between a USART and a USB port, cdc_main *)
(* and the functions of usb-cdc.c they call, and the host and the line     *)
(* outside.  The adapter's two channels are alike: this is one of them.    *)
(*                                                                         *)
(* The driver thread has the highest priority, then the two carrying       *)
(* threads, then cdc_main.  A thread is preempted between its steps, and a *)
(* section under the mutex of the port is one step.  Of the endpoints only *)
(* what is in them and what they have completed is modelled here; the      *)
(* transfers themselves are UsbStm32's.                                    *)
(***************************************************************************)
EXTENDS Usart

CONSTANTS
  SerialScenarios,   \* what host and line do: [plan, sizes, frames, noise]
  Codings            \* the line codings the host may ask for

\* The requests of the host, and a bus reset.
Requests == {"reset", "addr", "config", "deconf", "dtr0", "dtr1", "coding", "send_break"}

ASSUME ScenariosAssumption ==
  SerialScenarios \subseteq [plan : Seq(Requests), sizes : Seq(0..BufSize), frames : Nat,
                             noise : BOOLEAN]

VARIABLES
  flags,      \* the word of bit-fields of struct cdc
  dev,        \* device_state, input[] and line_coding
  ep,         \* the endpoints: packets in them, and events to be handled
  cm,         \* cdc_main: pc and what it has read
  host        \* what host and line still will do, and what they have done

vars == << a2h, h2a, uart, um, stat, thr, slept, log, flags, dev, ep, cm, host >>
usart == << a2h, h2a, uart, um, stat >>
port == << flags, dev, ep, cm, host >>

FreshFlags == [conn |-> FALSE, ready |-> TRUE, avail |-> FALSE, busy |-> FALSE, len |-> 0]
FreshEp == [on |-> FALSE, tx |-> << >>, txdone |-> FALSE, note |-> FALSE, notedone |-> FALSE,
            armed |-> FALSE, rx |-> << >>, ctl |-> "none", reset |-> FALSE]

Chars(packets) == UNION {ToSet(packets[i]) : i \in DOMAIN packets}
Input == IF flags.avail THEN SubSeq(dev.input, 1, flags.len) ELSE << >>

\* flag_output_ready is set though EP1 has a packet, or its completion is to be handled.
SendingDisturbed == ~flags.ready \/ ep.tx # << >> \/ ep.txdone

Init ==
  \E s \in SerialScenarios :
    /\ a2h = FreshRing(A2hSize) /\ h2a = FreshRing(H2aSize)
    /\ uart = FreshUart /\ um = FreshUm
    /\ stat = [rx |-> 0, overflow |-> 0, bad |-> 0, overrun |-> 0]
    /\ thr = [t \in Threads |-> [pc |-> "conn", buf |-> << >>]]
    /\ slept = << >>
    /\ log = [wire |-> << >>, heard |-> << >>, gone |-> {}, lost |-> {}, missed |-> 0,
              masked |-> FALSE, rewritten |-> FALSE, torn |-> FALSE, disturbed |-> FALSE,
              unseen |-> FALSE]
    /\ flags = FreshFlags
    /\ dev = [state |-> "UNCONNECTED", input |-> << >>, coding |-> DefaultCoding]
    /\ ep = FreshEp
    /\ cm = [pc |-> "wait", saw |-> FreshFlags, len |-> 0, txeie |-> FALSE]
    /\ host = [plan |-> s.plan, sizes |-> s.sizes, frames |-> s.frames, noise |-> s.noise,
               typed |-> 0, came |-> 0, hungup |-> FALSE]

----------------------------------------------------------------------------
\* Who runs: a thread that is ready, and not waiting for a mutex, when none of a higher
\* priority is.  cdc_main holds the mutex of the port while it requests a break.

MtxHeld == cm.pc = "break"
NeedsMtx(t) == thr[t].pc \in {"conn", "send", "recv", "take"}

UmRuns ==
  CASE um.pc = "off"    -> FALSE
    [] um.pc = "asleep" -> Interrupted
    [] um.pc = "poll"   -> ~(um.txready /\ A2hHeld)
    [] um.pc = "put"    -> ~H2aHeld
    [] um.pc = "write"  -> ~A2hHeld
    [] um.pc = "notify" -> ~MtxHeld
    [] OTHER            -> TRUE

CanRun(t) == um.pc # "off" /\ Ready(t) /\ ~(NeedsMtx(t) /\ MtxHeld)
Runs(t) == ~UmRuns /\ CanRun(t)
CmRuns == ~UmRuns /\ \A t \in Threads : ~CanRun(t)

----------------------------------------------------------------------------
\* The host and the line (external).

HostControl ==
  /\ host.plan # << >> /\ Head(host.plan) # "reset"
  /\ ep.ctl = "none" /\ ~ep.reset /\ cm.pc # "reset" /\ dev.state # "UNCONNECTED"
  /\ ep' = [ep EXCEPT !.ctl = Head(host.plan)]
  /\ host' = [host EXCEPT !.plan = Tail(@),
                          !.hungup = @ \/ Head(host.plan) \in {"dtr0", "deconf"}]
  /\ UNCHANGED << usart, thr, slept, log, flags, dev, cm >>

\* A bus reset, as after power-on, clears the endpoints at once, not the packet memory.
HostReset ==
  /\ host.plan # << >> /\ Head(host.plan) = "reset"
  /\ ep' = [FreshEp EXCEPT !.reset = TRUE, !.rx = IF cm.pc = "rx" THEN ep.rx ELSE << >>]
  /\ host' = [host EXCEPT !.plan = Tail(@), !.hungup = @ \/ dev.state # "UNCONNECTED"]
  /\ log' = [log EXCEPT !.lost = @ \cup Chars(ep.tx),
                        !.gone = IF cm.pc = "rx" THEN @ ELSE @ \cup Chars(ep.rx)]
  /\ UNCHANGED << usart, thr, slept, flags, dev, cm >>

\* A packet goes to EP3, or over one that the program has not taken yet.
HostType ==
  /\ host.sizes # << >> /\ ep.on /\ ep.armed
  /\ ep' = [ep EXCEPT !.armed = FALSE,
                      !.rx = << [i \in 1..Head(host.sizes) |-> host.typed + i] >>]
  /\ host' = [host EXCEPT !.sizes = Tail(@), !.typed = @ + Head(host.sizes)]
  /\ log' = [log EXCEPT !.gone = @ \cup Chars(ep.rx)]
  /\ UNCHANGED << usart, thr, slept, flags, dev, cm >>

HostHears ==
  /\ ep.on /\ ep.tx # << >>
  /\ ep' = [ep EXCEPT !.tx = << >>, !.txdone = TRUE]
  /\ log' = [log EXCEPT !.heard = @ \o Head(ep.tx)]
  /\ UNCHANGED << usart, thr, slept, flags, dev, cm, host >>

HostNoticed ==
  /\ ep.on /\ ep.note
  /\ ep' = [ep EXCEPT !.note = FALSE, !.notedone = TRUE]
  /\ UNCHANGED << usart, thr, slept, log, flags, dev, cm, host >>

FrameComes ==
  /\ host.came < host.frames
  /\ \E bad \in {FALSE, host.noise} : LineIn(host.came + 1, bad)
  /\ host' = [host EXCEPT !.came = @ + 1]
  /\ UNCHANGED << a2h, h2a, um, stat, thr, slept, flags, dev, ep, cm >>

Line == /\ LineOut \/ BreakSent
        /\ UNCHANGED << a2h, h2a, um, stat, thr, slept, port >>

----------------------------------------------------------------------------
\* cdc_main.

\* usb_lld_event_handler: a reset first, then the endpoint of the lowest number.
NextEvent ==
  CASE ep.reset         -> "reset"
    [] ~ep.reset /\ ep.ctl # "none" -> ep.ctl
    [] ~ep.reset /\ ep.ctl = "none" ->
         CASE ep.txdone -> "tx"
           [] ~ep.txdone /\ ep.notedone -> "note"
           [] ~ep.txdone /\ ~ep.notedone -> IF ep.rx # << >> THEN "rx" ELSE "none"

\* The line coding a request brings is received before the request is finished.
CmEvent ==
  /\ cm.pc = "wait" /\ CmRuns /\ NextEvent # "none"
  /\ cm' = [cm EXCEPT !.pc = NextEvent]
  /\ ep' = CASE NextEvent = "reset" -> [ep EXCEPT !.reset = FALSE]
             [] NextEvent = "tx"    -> [ep EXCEPT !.txdone = FALSE]
             [] NextEvent = "note"  -> [ep EXCEPT !.notedone = FALSE]
             [] NextEvent = "rx"    -> ep
             [] OTHER               -> [ep EXCEPT !.ctl = "none"]
  /\ \E coding \in IF NextEvent = "coding" THEN Codings ELSE {dev.coding} :
       dev' = [dev EXCEPT !.coding = coding]
  /\ UNCHANGED << usart, thr, slept, log, flags, host >>

\* A call-back that does its work in one step.
Callback(event) ==
  /\ cm.pc = event /\ CmRuns
  /\ cm' = [cm EXCEPT !.pc = "wait"]
  /\ UNCHANGED << usart, thr, host >>

\* usb_device_reset: flag_notify_busy stays, and no thread is woken up.
CmReset ==
  /\ Callback("reset")
  /\ flags' = [FreshFlags EXCEPT !.busy = flags.busy]
  /\ dev' = [dev EXCEPT !.state = "ATTACHED", !.coding = DefaultCoding]
  /\ log' = [log EXCEPT !.gone = @ \cup ToSet(Input), !.disturbed = @ \/ SendingDisturbed]
  /\ UNCHANGED << slept, ep >>

\* std_set_address refuses another address while there is a configuration.
CmAddressed ==
  /\ Callback("addr")
  /\ IF dev.state = "CONFIGURED" THEN UNCHANGED << dev, slept >>
     ELSE /\ dev' = [dev EXCEPT !.state = "ADDRESSED"]
          /\ slept' = Signalled(slept, "rx")
  /\ UNCHANGED << log, flags, ep >>

\* usb_set_configuration, of 1 and of 0.  EP3 is set up and not enabled: when c2u is not at
\* the connection, nor woken up to find that it has ended, it will not enable it: unseen.
CmConfigure ==
  /\ Callback("config")
  /\ IF dev.state = "CONFIGURED" THEN UNCHANGED << dev, ep, slept, log >>
     ELSE /\ dev' = [dev EXCEPT !.state = "CONFIGURED"]
          /\ ep' = [ep EXCEPT !.on = TRUE, !.armed = FALSE]
          /\ slept' = Signalled(slept, "rx")
          /\ log' = [log EXCEPT !.unseen = @ \/ (thr["c2u"].pc # "conn"
                                                 /\ (flags.conn \/ ~Asleep("c2u", "rx")))]
  /\ UNCHANGED flags

CmDeconfigure ==
  /\ Callback("deconf")
  /\ IF dev.state # "CONFIGURED" THEN UNCHANGED << dev, ep, slept, log >>
     ELSE /\ dev' = [dev EXCEPT !.state = "ADDRESSED"]
          /\ ep' = [ep EXCEPT !.on = FALSE, !.armed = FALSE, !.tx = << >>]
          /\ slept' = Signalled(slept, "rx")
          /\ log' = [log EXCEPT !.lost = @ \cup Chars(ep.tx),
                                !.disturbed = @ \/ SendingDisturbed]
  /\ UNCHANGED flags

\* SET_CONTROL_LINE_STATE: the connection is opened or closed.
CmLineState ==
  \E event \in {"dtr0", "dtr1"} :
    /\ Callback(event)
    /\ flags' = [flags EXCEPT !.conn = (event = "dtr1")]
    /\ slept' = Broadcast(slept, "rx")
    /\ UNCHANGED << log, dev, ep >>

\* SET_LINE_CODING: usart_config, once the USART has its clock, disables it first.
CmCoding ==
  /\ cm.pc = "coding" /\ CmRuns
  /\ cm' = [cm EXCEPT !.pc = "configure"]
  /\ IF um.pc = "off" THEN UNCHANGED uart ELSE Disabled
  /\ UNCHANGED << a2h, h2a, um, stat, thr, slept, log, flags, dev, ep, host >>

CmConfigureUsart ==
  /\ cm.pc = "configure" /\ CmRuns
  /\ cm' = [cm EXCEPT !.pc = "wait"]
  /\ IF um.pc = "off" THEN UNCHANGED << uart, log >> ELSE Enabled(SetupConfig(dev.coding))
  /\ UNCHANGED << a2h, h2a, um, stat, thr, slept, flags, dev, ep, host >>

\* SEND_BREAK: CR1 is read, and written with SBK set.
CmSendBreak ==
  /\ cm.pc = "send_break" /\ CmRuns
  /\ cm' = [cm EXCEPT !.pc = IF uart.sbk \/ um.pc = "off" THEN "wait" ELSE "break",
                      !.txeie = uart.txeie]
  /\ UNCHANGED << usart, thr, slept, log, flags, dev, ep, host >>

CmBreak ==
  /\ cm.pc = "break" /\ CmRuns
  /\ cm' = [cm EXCEPT !.pc = "wait"]
  /\ SetBreak(cm.txeie)
  /\ UNCHANGED << a2h, h2a, um, stat, thr, slept, flags, dev, ep, host >>

\* usb_tx_done, of EP1 and of EP2.
CmTxDone ==
  /\ Callback("tx")
  /\ flags' = [flags EXCEPT !.ready = TRUE]
  /\ slept' = IF flags.ready THEN slept ELSE Signalled(slept, "tx")
  /\ UNCHANGED << log, dev, ep >>

CmNoteDone ==
  /\ Callback("note")
  /\ flags' = [flags EXCEPT !.busy = FALSE]
  /\ UNCHANGED << slept, log, dev, ep >>

\* usb_rx_ready: the packet is copied; then the word of flags is read, and written, with
\* no mutex held.  A change that another thread makes in between is undone: torn.
CmRxReady ==
  /\ cm.pc = "rx" /\ CmRuns
  /\ LET pkt == Head(ep.rx)
     IN /\ cm' = [cm EXCEPT !.pc = "rx_flags", !.len = Len(pkt), !.saw = flags]
        /\ dev' = [dev EXCEPT !.input = pkt \o SubSeq(@, Len(pkt) + 1, Len(@))]
  /\ ep' = [ep EXCEPT !.rx = << >>]
  /\ log' = [log EXCEPT !.gone = @ \cup ToSet(Input)]
  /\ UNCHANGED << usart, thr, slept, flags, host >>

CmRxFlags ==
  /\ Callback("rx_flags")
  /\ flags' = [cm.saw EXCEPT !.avail = TRUE, !.len = cm.len]
  /\ slept' = Signalled(slept, "rx")
  /\ log' = [log EXCEPT !.torn = @ \/ flags # cm.saw]
  /\ UNCHANGED << dev, ep >>

----------------------------------------------------------------------------
\* The carrying threads, in usb-cdc.c.

\* cdc_wait_connection: what had come is forgotten, and EP3 takes a packet.
WaitConnection(t) ==
  /\ thr[t].pc = "conn" /\ Runs(t)
  /\ IF ~flags.conn
     THEN Sleeps(t, "rx") /\ UNCHANGED << thr, log, flags, ep >>
     ELSE /\ thr' = [thr EXCEPT ![t].pc = "flush_in"]
          /\ flags' = [flags EXCEPT !.ready = TRUE, !.avail = FALSE, !.len = 0]
          /\ ep' = [ep EXCEPT !.armed = TRUE]
          /\ log' = [log EXCEPT !.gone = @ \cup ToSet(Input),
                                !.torn = @ \/ ep.rx # << >> \/ cm.pc = "rx_flags",
                                !.disturbed = @ \/ SendingDisturbed]
          /\ UNCHANGED slept
  /\ UNCHANGED << usart, dev, cm, host >>

\* chopstx_usec_wait, 50 ms or 100 ms.
Delay(t) ==
  /\ thr[t].pc = "delay" /\ Runs(t)
  /\ Sleeps(t, "delay")
  /\ thr' = [thr EXCEPT ![t].pc = IF t = "c2u" THEN "send" ELSE "read"]
  /\ UNCHANGED << usart, log, port >>

\* cdc_send, one packet: a full one is followed by another, be it empty.  The result of the
\* last one counts, and cdc_to_usart_loop does not look at it.  flag_connected does not
\* matter as long as flag_output_ready is set: a packet may go to an endpoint that is off.
Sent(t, r) ==
  thr' = [thr EXCEPT ![t] = [buf |-> << >>,
                             pc  |-> CASE Len(thr[t].buf) = BufSize -> "send"
                                       [] Len(thr[t].buf) < BufSize /\ t = "c2u" -> "recv"
                                       [] OTHER -> IF r > 0 THEN "read" ELSE "conn"]]

Send(t) ==
  /\ thr[t].pc = "send" /\ Runs(t)
  /\ \/ /\ flags.ready
        /\ Sent(t, 1)
        /\ flags' = [flags EXCEPT !.ready = FALSE]
        /\ IF ep.on
           THEN ep' = [ep EXCEPT !.tx = << thr[t].buf >>]
                /\ log' = [log EXCEPT !.lost = @ \cup Chars(ep.tx)]
           ELSE /\ log' = [log EXCEPT !.lost = @ \cup ToSet(thr[t].buf), !.disturbed = TRUE]
                /\ UNCHANGED ep
        /\ UNCHANGED slept
     \/ /\ ~flags.ready /\ ~flags.conn
        /\ Sent(t, -1)
        /\ log' = [log EXCEPT !.lost = @ \cup ToSet(thr[t].buf)]
        /\ UNCHANGED << slept, flags, ep >>
     \/ /\ ~flags.ready /\ flags.conn
        /\ Sleeps(t, "tx")
        /\ UNCHANGED << thr, log, flags, ep >>
  /\ UNCHANGED << usart, dev, cm, host >>

\* cdc_recv: wait for input, a hang-up or the end of the time ...
Recv ==
  /\ thr["c2u"].pc = "recv" /\ Runs("c2u")
  /\ IF flags.avail \/ ~flags.conn
     THEN thr' = [thr EXCEPT !["c2u"].pc = "take"] /\ UNCHANGED slept
     ELSE Sleeps("c2u", "rx") /\ UNCHANGED thr
  /\ UNCHANGED << usart, log, port >>

\* ... and take it.
Take ==
  /\ thr["c2u"].pc = "take" /\ Runs("c2u")
  /\ IF flags.conn /\ flags.avail
     THEN /\ thr' = [thr EXCEPT !["c2u"] = [buf |-> Input,
                                            pc  |-> IF flags.len > 0 THEN "write" ELSE "recv"]]
          /\ flags' = [flags EXCEPT !.avail = FALSE, !.len = 0]
          /\ ep' = [ep EXCEPT !.armed = TRUE]
     ELSE /\ thr' = [thr EXCEPT !["c2u"].pc = IF flags.conn THEN "recv" ELSE "conn"]
          /\ UNCHANGED << flags, ep >>
  /\ UNCHANGED << usart, slept, log, dev, cm, host >>

\* A sleep of a given time ends: a delay, or the 3 seconds of cdc_recv.
TimeOut ==
  /\ CmRuns
  /\ \E i \in DOMAIN slept :
    LET t == slept[i].t
        recv == thr[t].pc = "recv"
    IN /\ slept[i].on = "delay" \/ recv
       /\ slept' = RemoveAt(slept, i)
       /\ thr' = IF recv THEN [thr EXCEPT ![t].pc = "take"] ELSE thr
       /\ UNCHANGED << usart, log, port >>

Carry(t) == /\ Runs(t)
            /\ (t = "u2c" /\ RbRead(t)) \/ (t = "c2u" /\ RbWrite(t)) \/ FlushIn(t) \/ FlushOut(t)
            /\ UNCHANGED port

----------------------------------------------------------------------------
\* cdc_ss_notify, called by usart_main: one notification at a time.
UmNotify ==
  /\ um.pc = "notify" /\ UmRuns
  /\ um' = [um EXCEPT !.pc = Onward(FALSE, um.txready), !.notify = FALSE]
  /\ IF ~flags.busy
     THEN /\ ep' = [ep EXCEPT !.note = ep.on]
          /\ flags' = [flags EXCEPT !.busy = TRUE]
     ELSE UNCHANGED << ep, flags >>
  /\ UNCHANGED << a2h, h2a, uart, stat, thr, slept, log, dev, cm, host >>

Um == /\ UmPoll \/ UmInterrupt \/ UmStatus \/ UmData \/ UmPut \/ UmWrite \/ UmCheck
      /\ UNCHANGED port

\* main: once configured, the USART and its driver are set up and the threads created.
MainStarts ==
  /\ um.pc = "off" /\ dev.state = "CONFIGURED"
  /\ cm.pc = "wait" /\ NextEvent = "none"
  /\ um' = [um EXCEPT !.pc = "poll"]
  /\ uart' = [uart EXCEPT !.ue = TRUE, !.frame = UsartConfig(SetupConfig(DefaultCoding))]
  /\ UNCHANGED << a2h, h2a, stat, thr, slept, log, port >>

Cm == \/ CmEvent \/ CmReset \/ CmAddressed \/ CmConfigure \/ CmDeconfigure \/ CmLineState
      \/ CmCoding \/ CmConfigureUsart \/ CmSendBreak \/ CmBreak
      \/ CmTxDone \/ CmNoteDone \/ CmRxReady \/ CmRxFlags

Carries(t) == WaitConnection(t) \/ Delay(t) \/ Send(t) \/ Carry(t)

\* What the host does the driver thread does not see: it might as well happen before or
\* after its steps.  A time of 50 ms or more does not end while the threads are running.
Host == ~UmRuns /\ (HostControl \/ HostReset \/ HostType \/ HostHears \/ HostNoticed)
World == Host \/ FrameComes \/ Line

Next == \/ World \/ TimeOut \/ MainStarts
        \/ Um \/ UmNotify
        \/ (\E t \in Threads : Carries(t)) \/ Recv \/ Take
        \/ Cm

Spec == Init /\ [][Next]_vars
=============================================================================
