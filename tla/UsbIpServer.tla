---------------------------- MODULE UsbIpServer ----------------------------
(***************************************************************************)
(* The server thread of mcu/usb-usbip.c: it takes the client's commands    *)
(* from the socket, does the transactions of the urbs with the device, and *)
(* answers.  It runs beside the firmware; a step is what it does between   *)
(* two waits.  A control urb is done in one go, the server waiting for the *)
(* device at each stage; the other endpoints' event file descriptors are   *)
(* polled together with the socket, those that have an urb.                *)
(*                                                                         *)
(* An urb carries its sequence number, endpoint, direction, request and    *)
(* length; a bulk urb takes one packet here, as the application sends and  *)
(* takes only short ones.                                                  *)
(***************************************************************************)
EXTENDS UsbIp

Hw == usb.hw
To(hw) == usb' = [usb EXCEPT !.hw = hw]

Urb(seq, n, dir, r, data) == [cmd |-> "submit", seq |-> seq, ep |-> n, dir |-> dir, req |-> r, data |-> data]

\* The seq of an answer, its status and its data (of an unlink, the urb it is about).
Reply(k, seq, ok, data) == [rep |-> k, seq |-> seq, ok |-> ok, data |-> data]

UrbCtl(hw, urb) == IF urb.dir = "in" THEN hw.in[urb.ep] ELSE hw.out[urb.ep]
SetUrb(hw, n, dir, seq) ==
  IF dir = "in" THEN [hw EXCEPT !.in[n].urb = seq] ELSE [hw EXCEPT !.out[n].urb = seq]

\* notify_device, with the endpoint's mutex held: at once, or when the device has taken
\* the notification before.
Notify(hw, i, next) ==
  IF hw.intr.kind = "none"
  THEN [hw EXCEPT !.intr = i, !.signal = TRUE, !.srv.pc = next]
  ELSE [hw EXCEPT !.srv.pc = "notify", !.srv.intr = i, !.srv.next = next]

SrvNotify ==
  /\ Hw.srv.pc = "notify" /\ Hw.intr.kind = "none"
  /\ To([Hw EXCEPT !.intr = Hw.srv.intr, !.signal = TRUE, !.srv.pc = Hw.srv.next, !.srv.intr = NoIntr])

\* The endpoint whose mutex the server holds while it waits.
Locked(hw, n, dir) ==
  hw.srv.pc = "notify" /\ hw.srv.intr.ep = n /\ (n = 0 \/ hw.srv.intr.dir = dir)

----------------------------------------------------------------------------
\* Answering, and the list of urbs.

Unlinked(hw, urb) == [hw EXCEPT !.urbs = Remove(@, urb)]
Answer(hw, rep) == [hw EXCEPT !.replies = Append(@, rep)]
Finish(hw, urb, ok, data) == Unlinked(Answer(hw, Reply("submit", urb.seq, ok, data)), urb)

\* usbip_ep_ready: the urbs to look at for the next one of the endpoint, from the one
\* submitted after the current one up to the newest.
Newer(urbs, i) == IF i = 1 THEN Reverse(urbs) ELSE Reverse(SubSeq(urbs, 1, i - 1))

BugNextUrb(urbs, urb) ==
  LET same == SelectSeq(urbs, LAMBDA v : v.ep = urb.ep /\ v.dir = urb.dir)
  IN IF same = << >> \/ Head(same) = urb THEN 0 ELSE Head(same).seq

NextUrb(urbs, urb) ==
  LET same == SelectSeq(Newer(urbs, CHOOSE i \in DOMAIN urbs : urbs[i] = urb),
                        LAMBDA v : v.ep = urb.ep /\ v.dir = urb.dir)
  IN IF same = << >> \/ Head(same) = urb THEN 0 ELSE Head(same).seq

\* hc_handle_data_urb: the transaction.  It does not look at the state of the endpoint.
EpReady(n, dir) ==
  /\ Hw.srv.pc = "poll"
  /\ LET c   == IF dir = "in" THEN Hw.in[n] ELSE Hw.out[n]
         urb == CHOOSE v \in ToSet(Hw.urbs) : v.seq = c.urb
         got == IF dir = "in" THEN c.pkt ELSE urb.data
         d   == [c EXCEPT !.efd = FALSE, !.state = "NAK", !.pkt = got, !.len = Len(got)]
         bad == [c EXCEPT !.efd = FALSE, !.state = "STALL"]
         At(x, urbGot) == [(IF dir = "in" THEN [Hw EXCEPT !.in[n] = x] ELSE [Hw EXCEPT !.out[n] = x])
                           EXCEPT !.srv.urb = urb, !.srv.got = urbGot]
     IN /\ c.urb # 0 /\ c.efd
        /\ IF dir = "out" /\ c.len < Len(urb.data)
           THEN To([At(bad, NoPacket) EXCEPT !.srv.pc = "finish", !.srv.left = 1])
           ELSE To(Notify(At(d, got), Intr("data", n, dir), "finish"))

\* ... and its end: the urb is answered, and the next one of the endpoint takes its
\* place.  A transaction that failed (left = 1) is answered as such.
EpFinish ==
  /\ Hw.srv.pc = "finish"
  /\ LET urb == Hw.srv.urb
     IN To([SetUrb(Finish(Hw, urb, Hw.srv.left = 0, IF urb.dir = "in" THEN Hw.srv.got ELSE << >>),
                   urb.ep, urb.dir, NextUrb(Hw.urbs, urb)) EXCEPT !.srv = Polling])

----------------------------------------------------------------------------
\* Control urbs (hc_handle_control_urb).

\* control_setup_transaction.  A transfer without data goes on with its status stage.
ControlStart(hw, urb) ==
  LET s == [hw EXCEPT !.srv.urb = urb, !.srv.left = urb.req.len, !.srv.got = << >>]
      stage == CASE urb.dir = "in" -> "in"
                 [] urb.dir = "out" /\ urb.req.len = 0 -> "write_status"
                 [] urb.dir = "out" /\ urb.req.len # 0 -> "out"
  IN IF hw.e0.state = "READY"
     THEN Notify([s EXCEPT !.e0.state = "NAK", !.setup = urb.req], Intr("setup", 0, urb.dir), stage)
     ELSE [s EXCEPT !.srv.pc = "error"]

\* A stage: the server waits for the device, and goes on if it is READY.
Stage(pc, dir, Then(_)) ==
  /\ Hw.srv.pc = pc /\ Hw.e0.efd
  /\ LET s == [Hw EXCEPT !.e0.efd = FALSE]
     IN IF Hw.e0.state = "READY" THEN To(Then(s)) ELSE To([s EXCEPT !.srv.pc = "error"])

\* control_read_data_transaction: a full packet has another one behind it.
ReadData ==
  Stage("in", "in",
        LAMBDA s : LET n == Lesser(Lesser(s.srv.left, PACKET), s.e0.len)
                       t == [s EXCEPT !.e0.state = "NAK", !.srv.left = @ - n,
                                      !.srv.got = @ \o SubSeq(s.e0.pkt, 1, n)]
                   IN Notify(t, Intr("data", 0, "in"), IF n < PACKET THEN "read_status" ELSE "in"))

\* control_write_data_transaction: more data than the device takes is an error.
WriteData ==
  Stage("out", "out",
        LAMBDA s : LET n == Lesser(s.srv.left, PACKET)
                       t == [s EXCEPT !.e0 = [@ EXCEPT !.state = "NAK", !.len = n,
                                              !.pkt = Units(s.srv.urb.req.len - s.srv.left, n)],
                                      !.srv.left = @ - n]
                   IN IF s.e0.len < n THEN [s EXCEPT !.e0.state = "STALL", !.srv.pc = "error"]
                      ELSE Notify(t, Intr("data", 0, "out"), IF n < PACKET THEN "write_status" ELSE "out"))

WriteStatus ==
  Stage("write_status", "in",
        LAMBDA s : Notify([s EXCEPT !.e0.state = "NAK"], Intr("data", 0, "in"), "last"))

ReadStatus ==
  Stage("read_status", "out",
        LAMBDA s : Notify([s EXCEPT !.e0.state = "NAK", !.e0.len = 0], Intr("data", 0, "out"), "last"))

\* The end: the device is ready for the next SETUP, or made so after an error.  An
\* error of a read is answered as a read of nothing.
ControlEnd ==
  /\ \/ Hw.srv.pc = "last" /\ Hw.e0.efd
     \/ Hw.srv.pc = "error"
  /\ LET ok  == Hw.srv.pc = "last"
         urb == Hw.srv.urb
         got == IF ok /\ urb.dir = "in" THEN Hw.srv.got ELSE << >>
         s   == IF ok THEN [Hw EXCEPT !.e0.efd = FALSE] ELSE [Hw EXCEPT !.e0.state = "READY"]
         t   == [s EXCEPT !.srv = Polling]
     IN IF urb.cmd = "attach"
        THEN To(Answer([t EXCEPT !.attached = TRUE], Reply("attach", urb.seq, TRUE, got)))
        ELSE To(Finish(t, urb, ok \/ urb.dir = "in", got))

----------------------------------------------------------------------------
\* The client's commands (usbip_process_cmd).

\* usbip_handle_data_urb, or an immediate refusal.
SubmitData(hw, urb) ==
  IF UrbCtl(hw, urb).state \in {"DISABLED", "STALL"}
  THEN Finish(hw, urb, FALSE, << >>)
  ELSE IF UrbCtl(hw, urb).urb = 0 THEN SetUrb(hw, urb.ep, urb.dir, urb.seq) ELSE hw

Submit(hw, urb) ==
  LET s == [hw EXCEPT !.urbs = << urb >> \o @]
  IN IF urb.ep = 0 THEN ControlStart(s, urb) ELSE SubmitData(s, urb)

\* An urb that is queued is taken out of the list and from its endpoint; the urbs behind
\* it are not put in its place.
Unlink(hw, seq, victim) ==
  LET found == {v \in ToSet(hw.urbs) : v.seq = victim}
  IN IF found = {} THEN Answer(hw, Reply("unlink", seq, FALSE, victim))
     ELSE LET v == CHOOSE v \in found : TRUE
              s == IF UrbCtl(hw, v).urb = victim THEN SetUrb(hw, v.ep, v.dir, 0) ELSE hw
          IN Answer(Unlinked(s, v), Reply("unlink", seq, TRUE, victim))

ProcessCmd ==
  /\ Hw.srv.pc = "poll" /\ Hw.sock # << >>
  /\ LET cmd == Head(Hw.sock)
         s   == [Hw EXCEPT !.sock = Tail(@)]
     IN CASE cmd.cmd = "attach" -> ~Hw.attached /\ To(ControlStart(s, cmd))
          [] cmd.cmd = "submit" -> Hw.attached /\ To(Submit(s, cmd))
          [] cmd.cmd = "unlink" -> Hw.attached /\ To(Unlink(s, cmd.seq, cmd.data))

Serve ==
  /\ chip = "usbip"
  /\ \/ ProcessCmd \/ SrvNotify \/ EpFinish \/ ControlEnd
     \/ ReadData \/ WriteData \/ WriteStatus \/ ReadStatus
     \/ \E n \in Endpoints \ {0} : EpReady(n, "in") \/ EpReady(n, "out")
  /\ UNCHANGED << chip, drv >>
============================================================================
