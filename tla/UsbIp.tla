------------------------------- MODULE UsbIp -------------------------------
(***************************************************************************)
(* The USB port for GNU/Linux (mcu/usb-usbip.c): the device side, called   *)
(* by the firmware, and the server thread, which is a host controller for  *)
(* the USBIP client at the other end of a socket.                          *)
(*                                                                         *)
(* The two sides meet in struct usb_control, one per endpoint and          *)
(* direction and one for endpoint 0: the device makes it READY, NAK or     *)
(* STALL and counts up an event file descriptor; the server waits for the  *)
(* count, does the transaction, and notifies the device with a signal.     *)
(* Only one notification is on its way at a time (usbc.intr); the server   *)
(* waits for its turn with the endpoint's mutex held.                      *)
(***************************************************************************)
EXTENDS UsbDevice

Control(s) == [state |-> s, pkt |-> NoPacket, len |-> 0, efd |-> FALSE, urb |-> 0]
NoIntr == [kind |-> "none", ep |-> 0, dir |-> "out"]
Intr(kind, n, dir) == [kind |-> kind, ep |-> n, dir |-> dir]

\* The server: what it does next, the urb it does it for, what is left of a control
\* transfer, and the notification it waits to post.
Polling == [pc |-> "poll", urb |-> NoRequest, left |-> 0, got |-> << >>, intr |-> NoIntr, next |-> "poll"]

\* sock holds the client's commands, replies the server's; urbs is the list of urbs, the
\* newest at the head, the way the code links them.
IpFresh == [e0 |-> Control("READY"), setup |-> NoRequest,
            in  |-> [n \in Endpoints |-> Control("DISABLED")],
            out |-> [n \in Endpoints |-> Control("DISABLED")],
            intr |-> NoIntr, signal |-> FALSE, srv |-> Polling,
            sock |-> << >>, replies |-> << >>, urbs |-> << >>, attached |-> FALSE]

----------------------------------------------------------------------------
\* The device side.  Every answer of the device is one of these, and wakes the server.

\* buf, len, state = READY, and notify_hostcontroller.
IpReady0(u, pkt, n) ==
  [u EXCEPT !.hw.e0 = [@ EXCEPT !.state = "READY", !.pkt = pkt, !.len = n, !.efd = TRUE]]

IpCtrlError(u) ==
  [u EXCEPT !.dev.state = "STALLED", !.hw.e0 = [@ EXCEPT !.state = "STALL", !.efd = TRUE]]
IpCtrlAck(u) == IpReady0([u EXCEPT !.dev.state = "WAIT_STATUS_IN"], << >>, 0)
IpCtrlRecv(u, n) == IpReady0([u EXCEPT !.dev = RecvState(@, n)], << >>, Lesser(n, PACKET))
IpCtrlSend(u, n) ==
  LET d == SendState(u.dev, n) IN IpReady0([u EXCEPT !.dev = d], Units(0, d.at), d.at)

IpTxEnable(u, n, pkt) ==
  [u EXCEPT !.hw.in[n] = [@ EXCEPT !.state = "READY", !.pkt = pkt, !.len = Len(pkt), !.efd = TRUE]]
BugIpRxEnable(u, n) ==
  [u EXCEPT !.hw.out[n] = [@ EXCEPT !.state = "READY", !.pkt = << >>, !.len = PACKET]]

IpRxEnable(u, n) ==
  [u EXCEPT !.hw.out[n] = [@ EXCEPT !.state = "READY", !.pkt = << >>, !.len = PACKET, !.efd = TRUE]]

IpStallTx(u, n) == [u EXCEPT !.hw.in[n]  = [@ EXCEPT !.state = "STALL", !.efd = TRUE]]
IpStallRx(u, n) == [u EXCEPT !.hw.out[n] = [@ EXCEPT !.state = "STALL", !.efd = TRUE]]

\* usb_lld_setup_endp: the counts and the urbs stay.
IpSetupEndpoint(u, n, rx, tx) ==
  LET Nak(c) == [c EXCEPT !.state = "NAK", !.pkt = NoPacket, !.len = 0]
  IN [u EXCEPT !.hw.out[n] = IF rx /\ n # 0 THEN Nak(@) ELSE @,
               !.hw.in[n]  = IF tx /\ n # 0 THEN Nak(@) ELSE @]

IpReset(u) == [u EXCEPT !.dev.conf = 0, !.dev.feature = FALSE, !.hw.e0.state = "READY"]

IpHandled(u, ev) == [usb |-> u, ev |-> ev]

IpDataIn(u) ==
  LET v == [u EXCEPT !.dev = NextInState(@)]
  IN IF v.dev.state = "WAIT_STATUS_OUT" THEN IpReady0(v, << >>, 0)
     ELSE IpReady0(v, NextInPacket(u.dev), Len(NextInPacket(u.dev)))

IpDataOut(u) ==
  LET v == [u EXCEPT !.dev = NextOutState(@, u.hw.e0.pkt)]
  IN IF v.dev.state = "WAIT_STATUS_IN" THEN IpReady0(v, << >>, 0)
     ELSE IpReady0(v, << >>, Lesser(v.dev.left, PACKET))

\* std_get_status, std_clear_feature and std_set_feature of an endpoint: without the
\* mutex, and without waking the server.
IpEndpointRequest(u) ==
  LET r == u.dev.req
      n == EpOf(r)
      s == (IF IsIn(r) THEN u.hw.in[n] ELSE u.hw.out[n]).state
      To(state) == IF IsIn(r) THEN [u EXCEPT !.hw.in[n].state = state]
                   ELSE [u EXCEPT !.hw.out[n].state = state]
  IN CASE s = "DISABLED" -> IpHandled(IpCtrlError(u), Ok)
       [] s # "DISABLED" /\ r.req = "get_status"    -> IpHandled(IpCtrlSend(u, 1), Ok)
       [] s # "DISABLED" /\ r.req = "clear_feature" ->
            IpHandled(To("NAK"), Event("CLEAR_FEATURE_ENDPOINT"))
       [] s # "DISABLED" /\ r.req = "set_feature"   ->
            IpHandled(To("STALL"), Event("SET_FEATURE_ENDPOINT"))

IpSetup(u) ==
  LET v == [u EXCEPT !.dev = TakeRequest(@, u.hw.setup)]
      a == Standard(v.dev)
      w == [v EXCEPT !.dev.feature = FeatureAfter(v.dev, a)]
  IN CASE v.dev.req.type # "std" -> IpHandled(v, Event("CTRL_REQUEST"))
       [] v.dev.req.type = "std" /\ a = "error" -> IpHandled(IpCtrlError(v), Ok)
       [] v.dev.req.type = "std" /\ a = "ack"   -> IpHandled(IpCtrlAck(v), Ok)
       [] v.dev.req.type = "std" /\ a = "send"  -> IpHandled(IpCtrlSend(v, 1), Ok)
       [] v.dev.req.type = "std" /\ a = "endpoint" -> IpEndpointRequest(v)
       [] OTHER -> IpHandled(w, Event(a))

IpIn(u) ==
  CASE u.dev.state \in {"IN_DATA", "LAST_IN_DATA"} -> IpHandled(IpDataIn(u), Ok)
    [] u.dev.state = "WAIT_STATUS_IN" ->
         IpHandled(IpReady0([u EXCEPT !.dev.state = "WAIT_SETUP"], << >>, 1), WriteFinished(u.dev))
    [] OTHER -> IpHandled(IpCtrlError(u), Ok)

IpOut(u) ==
  CASE u.dev.state = "OUT_DATA" -> IpHandled(IpDataOut(u), Ok)
    [] u.dev.state = "WAIT_STATUS_OUT" ->
         IpHandled(IpReady0([u EXCEPT !.dev.state = "WAIT_SETUP"], << >>, 1), Ok)
    [] OTHER -> IpHandled(IpCtrlError(u), Ok)

IpPending(h) == h.signal

\* usb_lld_event_handler: the notification is taken, and the next may be posted.
IpEvent(u) ==
  LET i == u.hw.intr
      v == [u EXCEPT !.hw.intr = NoIntr, !.hw.signal = FALSE]
  IN CASE i.kind = "setup" -> IpSetup(v)
       [] i.kind = "data" /\ i.ep = 0 /\ i.dir = "in"  -> IpIn(v)
       [] i.kind = "data" /\ i.ep = 0 /\ i.dir = "out" -> IpOut(v)
       [] i.kind = "data" /\ i.ep # 0 /\ i.dir = "in"  -> IpHandled(v, Done(i.ep, "TX", NoPacket))
       [] i.kind = "data" /\ i.ep # 0 /\ i.dir = "out" -> IpHandled(v, Done(i.ep, "RX", u.hw.out[i.ep].pkt))
       [] i.kind = "none" -> IpHandled(v, Ok)
============================================================================
