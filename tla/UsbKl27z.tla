----------------------------- MODULE UsbKl27z ------------------------------
(***************************************************************************)
(* The USB port for MKL27Z (mcu/usb-mkl27z.c) over its controller.         *)
(*                                                                         *)
(* The controller has two buffer descriptors per endpoint and direction,   *)
(* an even and an odd one, and uses them in turn; a descriptor belongs to  *)
(* the controller (own) or to the driver, which keeps its own count of     *)
(* which one is next (struct endpoint_state).  Finished transactions are   *)
(* queued, the driver takes them one by one.                               *)
(***************************************************************************)
EXTENDS UsbDevice

KlDirs == {"rx", "tx"}
KlFree(data01) == [own |-> FALSE, d01 |-> data01, pkt |-> NoPacket, setup |-> FALSE]
KlOwned(data01, pkt) == [own |-> TRUE, d01 |-> data01, pkt |-> pkt, setup |-> FALSE]
KlEven == [n \in Endpoints |-> [dir \in KlDirs |-> 0]]

\* kl27z_usb_init: descriptors and counts cleared, all endpoints disabled; CTL is
\* written with ODDRST, which holds the controller at the even descriptors until it is
\* written again.
KlFresh == [bd     |-> [n \in Endpoints |-> [dir \in KlDirs |-> [o \in 0..1 |-> KlFree(0)]]],
            odd    |-> KlEven, hwodd |-> KlEven, oddrst |-> TRUE,
            enabled |-> [n \in Endpoints |-> FALSE], stall |-> [n \in Endpoints |-> FALSE],
            tokens |-> << >>, busy |-> FALSE, stalled |-> FALSE, addr |-> 0, reset |-> FALSE]

----------------------------------------------------------------------------
\* The controller and the bus (external).

KlReply(h, resp, pkt, tog) == [hw |-> h, resp |-> resp, pkt |-> pkt, tog |-> tog]
KlCurrent(h, n, dir) == h.bd[n][dir][h.hwodd[n][dir]]

\* A transaction is over: the descriptor goes back to the driver, and the token is queued.
KlFinish(h, n, dir, bd) ==
  LET o == h.hwodd[n][dir]
  IN [h EXCEPT !.bd[n][dir][o] = [bd EXCEPT !.own = FALSE],
               !.hwodd[n][dir] = IF h.oddrst THEN 0 ELSE 1 - o,
               !.tokens = Append(@, [ep |-> n, dir |-> dir, odd |-> o])]

\* A SETUP needs a descriptor made for one.  It suspends the controller until the
\* driver has taken it (TXSUSPENDTOKENBUSY).
KlSetupToken(h, r) ==
  LET bd == KlCurrent(h, 0, "rx")
  IN IF h.enabled[0] /\ ~h.busy /\ ~h.stall[0] /\ bd.own /\ bd.setup
     THEN KlReply([KlFinish(h, 0, "rx", [bd EXCEPT !.pkt = r]) EXCEPT !.busy = TRUE],
                  "ack", NoPacket, 0)
     ELSE KlReply(h, "none", NoPacket, 0)

KlOutToken(h, n, pkt, tog) ==
  LET bd == KlCurrent(h, n, "rx")
  IN CASE ~h.enabled[n] -> KlReply(h, "none", NoPacket, 0)
       [] h.enabled[n] /\ h.stall[n] -> KlReply([h EXCEPT !.stalled = TRUE], "stall", NoPacket, 0)
       [] h.enabled[n] /\ ~h.stall[n] /\ (h.busy \/ ~bd.own) -> KlReply(h, "nak", NoPacket, 0)
       [] h.enabled[n] /\ ~h.stall[n] /\ ~h.busy /\ bd.own ->
            KlReply(IF tog = bd.d01
                    THEN KlFinish(h, n, "rx", [bd EXCEPT !.pkt = pkt, !.setup = FALSE]) ELSE h,
                    "ack", NoPacket, 0)

KlInToken(h, n) ==
  LET bd == KlCurrent(h, n, "tx")
  IN CASE ~h.enabled[n] -> KlReply(h, "none", NoPacket, 0)
       [] h.enabled[n] /\ h.stall[n] -> KlReply([h EXCEPT !.stalled = TRUE], "stall", NoPacket, 0)
       [] h.enabled[n] /\ ~h.stall[n] /\ (h.busy \/ ~bd.own) -> KlReply(h, "nak", NoPacket, 0)
       [] h.enabled[n] /\ ~h.stall[n] /\ ~h.busy /\ bd.own ->
            KlReply(KlFinish(h, n, "tx", bd), "data", bd.pkt, bd.d01)

KlBusReset(h) == [h EXCEPT !.reset = TRUE]
KlPending(h)  == h.reset \/ h.tokens # << >> \/ h.stalled

----------------------------------------------------------------------------
\* The functions the application calls.

\* The descriptor the driver fills next, and the one before it.
KlNext(h, n, dir) == h.odd[n][dir]
KlLast(h, n, dir) == 1 - h.odd[n][dir]

\* kl27z_prepare_ep0_setup: the other descriptor is taken back.
KlPrepareSetup(u) ==
  [u EXCEPT !.hw.bd[0].rx[KlNext(u.hw, 0, "rx")] = [KlOwned(0, NoPacket) EXCEPT !.setup = TRUE],
            !.hw.bd[0].rx[KlLast(u.hw, 0, "rx")] = KlFree(0)]

KlPrepareIn(u, pkt, data01) ==
  [u EXCEPT !.hw.bd[0].tx[KlNext(u.hw, 0, "tx")] = KlOwned(data01, pkt)]
KlPrepareOut(u, data01) ==
  [u EXCEPT !.hw.bd[0].rx[KlNext(u.hw, 0, "rx")] = KlOwned(data01, NoPacket)]

\* The data toggle to use is the opposite of the last one's.
BugKlToggle(u, n, dir) == u.hw.bd[n][dir][KlLast(u.hw, n, dir)].d01

KlToggle(u, n, dir) == 1 - u.hw.bd[n][dir][KlLast(u.hw, n, dir)].d01

KlTxEnable(u, n, pkt) ==
  [u EXCEPT !.hw.bd[n].tx[KlNext(u.hw, n, "tx")] = KlOwned(KlToggle(u, n, "tx"), pkt)]

\* The buffer keeps what it holds, should the driver enable a descriptor it has not looked at.
KlRxEnable(u, n) ==
  [u EXCEPT !.hw.bd[n].rx[KlNext(u.hw, n, "rx")] = KlOwned(KlToggle(u, n, "rx"), @.pkt)]

KlStall(u, n) == [u EXCEPT !.hw.stall[n] = TRUE]

\* usb_lld_setup_endp: the toggles are such that the next packet is a DATA0.
KlSetupEndpoint(u, n) ==
  IF n = 0
  THEN KlPrepareSetup([u EXCEPT !.hw.enabled[0] = TRUE, !.hw.stall[0] = FALSE])
  ELSE [u EXCEPT !.hw.enabled[n] = TRUE, !.hw.stall[n] = FALSE,
                 !.hw.bd[n] = [dir \in KlDirs |->
                                 [o \in 0..1 |-> KlFree(IF o = KlNext(u.hw, n, dir) THEN 0 ELSE 1)]]]

KlCtrlError(u) == KlStall([u EXCEPT !.dev.state = "STALLED"], 0)
KlCtrlAck(u)   == KlPrepareIn([u EXCEPT !.dev.state = "WAIT_STATUS_IN"], << >>, 1)
KlCtrlRecv(u, n) == KlPrepareOut([u EXCEPT !.dev = RecvState(@, n)], 1)
KlCtrlSend(u, n) ==
  LET d == SendState(u.dev, n)
  IN KlPrepareIn([u EXCEPT !.dev = d], Units(0, d.at), 1)

\* usb_lld_reset: the module is reset and initialised anew.
KlReset(u) ==
  [dev |-> [u.dev EXCEPT !.conf = 0, !.feature = FALSE, !.state = "WAIT_SETUP"], hw |-> KlFresh]

----------------------------------------------------------------------------
\* usb_lld_event_handler.  bd is the descriptor of the transaction that is over.

KlDataIn(u, bd) ==
  LET v == [u EXCEPT !.dev = NextInState(@)]
  IN IF v.dev.state = "WAIT_STATUS_OUT" THEN KlPrepareOut(v, 1)
     ELSE KlPrepareIn(v, NextInPacket(u.dev), 1 - bd.d01)

KlDataOut(u, bd) ==
  LET v == [u EXCEPT !.dev = NextOutState(@, bd.pkt)]
  IN IF v.dev.state = "WAIT_STATUS_IN" THEN KlPrepareIn(v, << >>, 1)
     ELSE KlPrepareOut(v, 1 - bd.d01)

KlHandled(u, ev) == [usb |-> u, ev |-> ev]

\* kl27z_ep_clear_dtog: the last descriptor's toggle is cleared, and the next one's if
\* the controller owns it; the stall, which it may set for that time, is cleared.
KlClearDtog(u, n, dir) ==
  LET next == KlNext(u.hw, n, dir)
      last == KlLast(u.hw, n, dir)
  IN [u EXCEPT !.hw.bd[n][dir][last].d01 = 0,
               !.hw.bd[n][dir][next].d01 = IF u.hw.bd[n][dir][next].own THEN 0 ELSE @,
               !.hw.stall[n] = FALSE]

\* std_get_status, std_clear_feature and std_set_feature of an endpoint.
KlEndpointRequest(u) ==
  LET r == u.dev.req
      n == EpOf(r)
  IN CASE ~u.hw.enabled[n] -> KlHandled(KlCtrlError(u), Ok)
       [] u.hw.enabled[n] /\ r.req = "get_status" -> KlHandled(KlCtrlSend(u, 1), Ok)
       [] u.hw.enabled[n] /\ r.req = "clear_feature" ->
            KlHandled(KlClearDtog(u, n, IF IsIn(r) THEN "tx" ELSE "rx"),
                      Event("CLEAR_FEATURE_ENDPOINT"))
       [] u.hw.enabled[n] /\ r.req = "set_feature" ->
            KlHandled(KlStall(u, n), Event("SET_FEATURE_ENDPOINT"))

KlSetup(u, bd) ==
  LET v == [u EXCEPT !.dev = TakeRequest(@, bd.pkt)]
      a == Standard(v.dev)
      w == [v EXCEPT !.dev.feature = FeatureAfter(v.dev, a)]
  IN CASE v.dev.req.type # "std" -> KlHandled(v, Event("CTRL_REQUEST"))
       [] v.dev.req.type = "std" /\ a = "error" -> KlHandled(KlCtrlError(v), Ok)
       [] v.dev.req.type = "std" /\ a = "ack"   -> KlHandled(KlCtrlAck(v), Ok)
       [] v.dev.req.type = "std" /\ a = "send"  -> KlHandled(KlCtrlSend(v, 1), Ok)
       [] v.dev.req.type = "std" /\ a = "endpoint" -> KlEndpointRequest(v)
       [] OTHER -> KlHandled(w, Event(a))

\* handle_in0.  With the address the driver's count of the receiving side is put back to
\* even: the controller is at the even descriptor, as it was held there when the SETUP,
\* the first since the reset, came in.
KlIn(u, bd) ==
  LET ev == WriteFinished(u.dev)
      v  == [u EXCEPT !.dev.state = "WAIT_SETUP"]
  IN CASE u.dev.state \in {"IN_DATA", "LAST_IN_DATA"} -> KlHandled(KlDataIn(u, bd), Ok)
       [] u.dev.state = "WAIT_STATUS_IN" ->
            KlHandled(KlPrepareSetup(IF ev.id = "DEVICE_ADDRESSED"
                                     THEN [v EXCEPT !.hw.addr = u.dev.req.value,
                                                    !.hw.odd[0].rx = 0]
                                     ELSE v), ev)
       [] OTHER -> KlHandled(KlCtrlError(u), Ok)

KlOut(u, bd) ==
  CASE u.dev.state = "OUT_DATA" -> KlHandled(KlDataOut(u, bd), Ok)
    [] u.dev.state = "WAIT_STATUS_OUT" ->
         KlHandled(KlPrepareSetup([u EXCEPT !.dev.state = "WAIT_SETUP"]), Ok)
    [] OTHER -> KlHandled(KlCtrlError(u), Ok)

\* handle_transaction: the token is taken once it is handled; a SETUP lets the
\* controller go on.
KlTransaction(u) ==
  LET t  == Head(u.hw.tokens)
      bd == u.hw.bd[t.ep][t.dir][t.odd]
      v  == [u EXCEPT !.hw.odd[t.ep][t.dir] = 1 - @, !.hw.tokens = Tail(@)]
      w  == [v EXCEPT !.hw.busy = FALSE, !.hw.oddrst = FALSE]
  IN CASE t.ep = 0 /\ t.dir = "rx" /\ bd.setup  -> KlSetup(w, bd)
       [] t.ep = 0 /\ t.dir = "rx" /\ ~bd.setup -> KlOut(v, bd)
       [] t.ep = 0 /\ t.dir = "tx" -> KlIn(v, bd)
       [] t.ep # 0 /\ t.dir = "rx" -> KlHandled(v, Done(t.ep, "RX", bd.pkt))
       [] t.ep # 0 /\ t.dir = "tx" -> KlHandled(v, Done(t.ep, "TX", NoPacket))

\* A stall of endpoint 0 is over when the host has seen it.
KlRecover(u) ==
  LET v == [u EXCEPT !.hw.stalled = FALSE]
  IN IF u.hw.stall[0]
     THEN KlPrepareSetup([v EXCEPT !.dev.state = "WAIT_SETUP", !.hw.stall[0] = FALSE])
     ELSE v

KlEvent(u) ==
  CASE u.hw.reset -> KlHandled([u EXCEPT !.hw.reset = FALSE], Event("DEVICE_RESET"))
    [] ~u.hw.reset /\ u.hw.tokens # << >> -> KlTransaction(u)
    [] OTHER -> KlHandled(KlRecover(u), Ok)
============================================================================
