----------------------------- MODULE UsbStm32 ------------------------------
(***************************************************************************)
(* The USB port for STM32F103 (mcu/usb-stm32f103.c) over its controller.   *)
(*                                                                         *)
(* The controller has a register and two packet buffers per endpoint.  The *)
(* host and the driver change a register concurrently: the status fields   *)
(* (DISABLED, STALL, NAK, VALID) and the data toggles are toggle-on-write, *)
(* the correct-transfer flags clear-on-write-0, and a read-modify-write of *)
(* the driver is taken as one step.  When a transaction has succeeded the  *)
(* controller sets the flag and puts the endpoint to NAK.                  *)
(***************************************************************************)
EXTENDS UsbDevice

StIdle == [rx |-> "DISABLED", tx |-> "DISABLED", dr |-> 0, dt |-> 0,
           cr |-> FALSE, ct |-> FALSE, setup |-> FALSE]

\* The controller after usb_lld_init, or a bus reset: no endpoint has a status.
StFresh == [ep    |-> [n \in Endpoints |-> StIdle],
            rxbuf |-> [n \in Endpoints |-> NoPacket], txbuf |-> [n \in Endpoints |-> NoPacket],
            addr  |-> 0, reset |-> FALSE]

----------------------------------------------------------------------------
\* The controller and the bus (external).

\* What the controller answers, and its state then.  A token of the host finds the
\* device by its address.
StReply(h, resp, pkt, tog) == [hw |-> h, resp |-> resp, pkt |-> pkt, tog |-> tog]

\* A SETUP is taken whatever the status of endpoint 0, unless the last packet has not
\* been fetched; the endpoint is at NAK for the driver to decide.
StSetupToken(h, r) ==
  IF h.ep[0].rx = "DISABLED" \/ h.ep[0].cr THEN StReply(h, "none", NoPacket, 0)
  ELSE StReply([h EXCEPT !.rxbuf[0] = r,
                         !.ep[0] = [@ EXCEPT !.rx = "NAK", !.tx = "NAK", !.dr = 1, !.dt = 1,
                                             !.cr = TRUE, !.setup = TRUE]],
               "ack", NoPacket, 0)

\* A packet out of sequence is acknowledged and dropped.
StOutToken(h, n, pkt, tog) ==
  LET e == h.ep[n]
  IN CASE e.rx = "VALID" /\ tog = e.dr ->
            StReply([h EXCEPT !.rxbuf[n] = pkt,
                              !.ep[n] = [@ EXCEPT !.rx = "NAK", !.dr = 1 - @, !.cr = TRUE,
                                                  !.setup = FALSE]], "ack", NoPacket, 0)
       [] e.rx = "VALID" /\ tog # e.dr -> StReply(h, "ack", NoPacket, 0)
       [] e.rx = "STALL"    -> StReply(h, "stall", NoPacket, 0)
       [] e.rx = "NAK"      -> StReply(h, "nak", NoPacket, 0)
       [] e.rx = "DISABLED" -> StReply(h, "none", NoPacket, 0)

StInToken(h, n) ==
  LET e == h.ep[n]
  IN CASE e.tx = "VALID" ->
            StReply([h EXCEPT !.ep[n] = [@ EXCEPT !.tx = "NAK", !.dt = 1 - @, !.ct = TRUE]],
                    "data", h.txbuf[n], e.dt)
       [] e.tx = "STALL"    -> StReply(h, "stall", NoPacket, 0)
       [] e.tx = "NAK"      -> StReply(h, "nak", NoPacket, 0)
       [] e.tx = "DISABLED" -> StReply(h, "none", NoPacket, 0)

StBusReset(h) == [StFresh EXCEPT !.reset = TRUE]

\* An interrupt is requested.
StPending(h) == h.reset \/ \E n \in Endpoints : h.ep[n].cr \/ h.ep[n].ct

----------------------------------------------------------------------------
\* The functions the application calls.

StRxStatus(u, n, s) == [u EXCEPT !.hw.ep[n].rx = s]
StTxStatus(u, n, s) == [u EXCEPT !.hw.ep[n].tx = s]
StTxEnable(u, n, pkt) == StTxStatus([u EXCEPT !.hw.txbuf[n] = pkt], n, "VALID")
StRxEnable(u, n) == StRxStatus(u, n, "VALID")
StStallTx(u, n)  == StTxStatus(u, n, "STALL")
StStallRx(u, n)  == StRxStatus(u, n, "STALL")

\* usb_lld_setup_endpoint: the toggles and the flags are cleared, and a direction that
\* has a buffer goes to NAK.
StSetupEndpoint(u, n, rx, tx) ==
  [u EXCEPT !.hw.ep[n] = [StIdle EXCEPT !.setup = u.hw.ep[n].setup,
                                        !.rx = IF rx THEN "NAK" ELSE "DISABLED",
                                        !.tx = IF tx THEN "NAK" ELSE "DISABLED"]]

StCtrlError(u) ==
  StTxStatus(StRxStatus([u EXCEPT !.dev.state = "STALLED"], 0, "STALL"), 0, "STALL")

StCtrlAck(u) ==
  StRxStatus(StTxEnable([u EXCEPT !.dev.state = "WAIT_STATUS_IN"], 0, << >>), 0, "NAK")

StCtrlRecv(u, n) == StRxStatus([u EXCEPT !.dev = RecvState(@, n)], 0, "VALID")

StCtrlSend(u, n) ==
  LET d == SendState(u.dev, n)
  IN StRxStatus(StTxEnable([u EXCEPT !.dev = d], 0, Units(0, d.at)), 0, "NAK")

\* usb_lld_reset leaves dev->state and the endpoints alone.
BugStReset(u) == [u EXCEPT !.dev.feature = FALSE, !.hw.addr = 0]

StReset(u) == [u EXCEPT !.dev.conf = 0, !.dev.feature = FALSE, !.hw.addr = 0]

----------------------------------------------------------------------------
\* usb_lld_event_handler: one event per call, the lowest endpoint first.

StDataIn(u) ==
  LET v == [u EXCEPT !.dev = NextInState(@)]
  IN IF v.dev.state = "WAIT_STATUS_OUT" THEN StRxStatus(v, 0, "VALID")
     ELSE StTxEnable(v, 0, NextInPacket(u.dev))

StDataOut(u) ==
  LET v == [u EXCEPT !.dev = NextOutState(@, u.hw.rxbuf[0])]
  IN IF v.dev.state = "WAIT_STATUS_IN" THEN StTxEnable(v, 0, << >>)
     ELSE StRxStatus(v, 0, "VALID")

StHandled(u, ev) == [usb |-> u, ev |-> ev]

StDirection(u, r) == IF IsIn(r) THEN u.hw.ep[EpOf(r)].tx ELSE u.hw.ep[EpOf(r)].rx

\* std_get_status, std_clear_feature and std_set_feature of an endpoint.  Clearing a
\* halt clears the data toggle, and leaves the endpoint stalled.
StEndpointRequest(u) ==
  LET r == u.dev.req
      n == EpOf(r)
  IN CASE StDirection(u, r) = "DISABLED" -> StHandled(StCtrlError(u), Ok)
       [] StDirection(u, r) # "DISABLED" /\ r.req = "get_status" -> StHandled(StCtrlSend(u, 1), Ok)
       [] StDirection(u, r) # "DISABLED" /\ r.req = "clear_feature" ->
            StHandled(IF IsIn(r) THEN [u EXCEPT !.hw.ep[n].dt = 0] ELSE [u EXCEPT !.hw.ep[n].dr = 0],
                      Event("CLEAR_FEATURE_ENDPOINT"))
       [] StDirection(u, r) # "DISABLED" /\ r.req = "set_feature" ->
            StHandled(IF IsIn(r) THEN StStallTx(u, n) ELSE StStallRx(u, n),
                      Event("SET_FEATURE_ENDPOINT"))

StSetup(u) ==
  LET v == [u EXCEPT !.dev = TakeRequest(@, u.hw.rxbuf[0])]
      a == Standard(v.dev)
      w == [v EXCEPT !.dev.feature = FeatureAfter(v.dev, a)]
  IN CASE v.dev.req.type # "std" -> StHandled(v, Event("CTRL_REQUEST"))
       [] v.dev.req.type = "std" /\ a = "error" -> StHandled(StCtrlError(v), Ok)
       [] v.dev.req.type = "std" /\ a = "ack"   -> StHandled(StCtrlAck(v), Ok)
       [] v.dev.req.type = "std" /\ a = "send"  -> StHandled(StCtrlSend(v, 1), Ok)
       [] v.dev.req.type = "std" /\ a = "endpoint" -> StEndpointRequest(v)
       [] OTHER -> StHandled(w, Event(a))

\* handle_in0.  The address takes force when the status stage is over.
StIn(u) ==
  LET ev == WriteFinished(u.dev)
      v  == [u EXCEPT !.dev.state = "WAIT_SETUP"]
  IN CASE u.dev.state \in {"IN_DATA", "LAST_IN_DATA"} -> StHandled(StDataIn(u), Ok)
       [] u.dev.state = "WAIT_STATUS_IN" ->
            StHandled(IF ev.id = "DEVICE_ADDRESSED"
                      THEN [v EXCEPT !.hw.addr = u.dev.req.value] ELSE v, ev)
       [] OTHER -> StHandled(StCtrlError(u), Ok)

StOut(u) ==
  CASE u.dev.state = "OUT_DATA" -> StHandled(StDataOut(u), Ok)
    [] u.dev.state = "WAIT_STATUS_OUT" -> StHandled([u EXCEPT !.dev.state = "WAIT_SETUP"], Ok)
    [] OTHER -> StHandled(StCtrlError(u), Ok)

\* usb_handle_transfer for endpoint n: a transmission on endpoint 0 comes first, a
\* reception on the others.
StTransfer(u, n) ==
  LET e == u.hw.ep[n]
      t == [u EXCEPT !.hw.ep[n].ct = FALSE]
      r == [u EXCEPT !.hw.ep[n].cr = FALSE]
  IN CASE n = 0 /\ e.ct              -> StIn(t)
       [] n = 0 /\ ~e.ct /\ e.setup  -> StSetup(r)
       [] n = 0 /\ ~e.ct /\ ~e.setup -> StOut(r)
       [] n # 0 /\ e.cr              -> StHandled(r, Done(n, "RX", u.hw.rxbuf[n]))
       [] n # 0 /\ ~e.cr             -> StHandled(t, Done(n, "TX", NoPacket))

StEvent(u) ==
  IF u.hw.reset THEN StHandled([u EXCEPT !.hw.reset = FALSE], Event("DEVICE_RESET"))
  ELSE LET busy == {n \in Endpoints : u.hw.ep[n].cr \/ u.hw.ep[n].ct}
       IN StTransfer(u, CHOOSE n \in busy : \A m \in busy : n <= m)
============================================================================
