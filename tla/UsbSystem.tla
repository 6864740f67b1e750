----------------------------- MODULE UsbSystem -----------------------------
(***************************************************************************)
(* The firmware of UsbCdc with a host at the other end of the cable, or,   *)
(* for the port to GNU/Linux, with a USBIP client at the other end of the  *)
(* socket.  Both are external: they do what the USB specification and the  *)
(* Linux drivers do, as far as the firmware can tell.                      *)
(*                                                                         *)
(* The host works through a plan of control requests, types characters,    *)
(* and polls EP1 all the while.  It may give a transfer up, and reset the  *)
(* bus; after a reset it starts its plan anew.  Tokens the device answers  *)
(* with NAK, or not at all, are tried again and are not steps here.        *)
(***************************************************************************)
EXTENDS UsbCdc

CONSTANT Scenarios   \* the hosts to check with: [chip, plan, typed, aborts, resets, urbs, unlinks]

VARIABLE host

vars == << chip, usb, drv, tty, main, log, host >>

\* A host that has just powered, or reset, the bus: stage of the control transfer, what
\* it has got, the toggles it expects, the address and the configuration it has given.
FreshHost(plan) ==
  [stage |-> "idle", req |-> NoRequest, got |-> << >>, tog0 |-> 0, tog |-> [n \in {1, 3} |-> 0],
   addr |-> 0, conf |-> 0, plan |-> plan, settle |-> TRUE, unsure |-> FALSE,
   done |-> [req |-> NoRequest, ok |-> FALSE, got |-> << >>]]

Budget(s) == [plan |-> s.plan, typed |-> s.typed, aborts |-> s.aborts, resets |-> s.resets,
              urbs |-> s.urbs, unlinks |-> s.unlinks, seq |-> 0, open |-> << >>, skipped |-> FALSE,
              wrong |-> FALSE]

Init ==
  \E s \in Scenarios :
    /\ chip = s.chip
    /\ usb = [dev |-> FreshDevice,
              hw |-> CASE chip = "stm32" -> StBusReset(StFresh)
                       [] chip = "kl27z" -> KlBusReset(KlFresh)
                       [] chip = "usbip" -> IpFresh]
    /\ drv = Waiting /\ tty = FreshTty
    /\ main = [pc |-> "conf", asleep |-> FALSE]
    /\ log = [sent |-> << >>, put |-> << >>, heard |-> << >>, raced |-> FALSE]
    /\ host = FreshHost(s.plan) @@ Budget(s)

Quiet == drv.pc = "wait" /\ ~Pending
Wired == chip # "usbip"

BusSetup(r) ==
  IF chip = "stm32" THEN StSetupToken(usb.hw, r) ELSE KlSetupToken(usb.hw, r)
BusOut(n, pkt, tog) ==
  IF chip = "stm32" THEN StOutToken(usb.hw, n, pkt, tog) ELSE KlOutToken(usb.hw, n, pkt, tog)
BusIn(n) == IF chip = "stm32" THEN StInToken(usb.hw, n) ELSE KlInToken(usb.hw, n)

\* The token reaches the device, and x is what the host makes of the answer.
Token(reply, x) ==
  /\ host.addr = usb.hw.addr
  /\ usb' = [usb EXCEPT !.hw = reply.hw]
  /\ host' = x
  /\ UNCHANGED << chip, drv, tty, main >>

----------------------------------------------------------------------------
\* Control transfers.

FirstStage(r) ==
  CASE r.dir = "in" -> "in"
    [] r.dir = "out" /\ r.len # 0 -> "out"
    [] r.dir = "out" /\ r.len = 0 -> "write_status"

\* A transfer is over; requests that succeed change what the host knows.
Over(x, ok) ==
  LET r == x.req
      y == [x EXCEPT !.stage = "idle", !.plan = Tail(@),
                     !.done = [req |-> r, ok |-> ok, got |-> x.got], !.got = << >>]
      Of(n) == r.rcp = "endpoint" /\ EpOf(r) = n
  IN CASE ok /\ r.req = "set_address" -> [y EXCEPT !.addr = r.value, !.settle = TRUE]
       [] ok /\ r.req = "set_configuration" ->
            [y EXCEPT !.conf = r.value, !.tog = [n \in {1, 3} |-> 0],
                      !.unsure = @ \/ x.conf # 0]
       [] ok /\ r.req \in {"set_feature", "clear_feature"} ->
            [y EXCEPT !.unsure = @ \/ r.rcp = "endpoint",
                      !.tog = [n \in {1, 3} |-> IF Of(n) /\ r.req = "clear_feature" THEN 0 ELSE @[n]]]
       [] OTHER -> y

\* After a reset and after SET_ADDRESS the host gives the device time.
Setup ==
  /\ host.stage = "idle" /\ host.plan # << >>
  /\ host.settle => Quiet
  /\ \E r \in Head(host.plan) :
       /\ BusSetup(r).resp = "ack"
       /\ Token(BusSetup(r), [host EXCEPT !.stage = FirstStage(r), !.req = r, !.tog0 = 1,
                                          !.got = << >>, !.settle = FALSE])
  /\ UNCHANGED log

\* A short packet, or all that was asked for, ends the data stage.
ReadPacket ==
  /\ host.stage = "in" /\ BusIn(0).resp \in {"data", "stall"}
  /\ LET rep == BusIn(0)
         got == host.got \o rep.pkt
     IN Token(rep, CASE rep.resp = "stall" -> Over(host, FALSE)
                     [] rep.resp = "data" /\ rep.tog # host.tog0 -> host
                     [] rep.resp = "data" /\ rep.tog = host.tog0 ->
                          [host EXCEPT !.got = got, !.tog0 = 1 - @,
                                       !.stage = IF Len(rep.pkt) < PACKET \/ Len(got) >= host.req.len
                                                 THEN "read_status" ELSE "in"])
  /\ UNCHANGED log

WritePacket ==
  LET n   == Lesser(host.req.len - Len(host.got), PACKET)
      pkt == Units(Len(host.got), n)
      rep == BusOut(0, pkt, host.tog0)
  IN /\ host.stage = "out" /\ rep.resp \in {"ack", "stall"}
     /\ Token(rep, IF rep.resp = "stall" THEN Over(host, FALSE)
                   ELSE [host EXCEPT !.got = @ \o pkt, !.tog0 = 1 - @,
                                     !.stage = IF Len(host.got) + n = host.req.len THEN "write_status" ELSE "out"])
     /\ UNCHANGED log

Status ==
  /\ \/ /\ host.stage = "read_status" /\ BusOut(0, << >>, 1).resp \in {"ack", "stall"}
        /\ Token(BusOut(0, << >>, 1), Over(host, BusOut(0, << >>, 1).resp = "ack"))
     \/ /\ host.stage = "write_status" /\ BusIn(0).resp \in {"data", "stall"}
        /\ Token(BusIn(0), Over(host, BusIn(0).resp = "data"))
  /\ UNCHANGED log

\* The host gives the transfer up, when nothing has happened for long.
Abort ==
  /\ host.aborts > 0 /\ host.stage # "idle" /\ Quiet
  /\ host' = [host EXCEPT !.stage = "idle", !.aborts = @ - 1, !.unsure = @ \/ host.req.dir = "out"]
  /\ UNCHANGED << chip, usb, drv, tty, main, log >>

Reset ==
  /\ host.resets > 0 /\ host.conf = 1
  /\ usb' = [usb EXCEPT !.hw = IF chip = "stm32" THEN StBusReset(@) ELSE KlBusReset(@)]
  /\ \E s \in Scenarios : s.chip = chip /\ s.resets > 0
       /\ host' = FreshHost(s.plan) @@ [host EXCEPT !.resets = @ - 1, !.typed = << >>]
  /\ log' = [log EXCEPT !.raced = TRUE]
  /\ UNCHANGED << chip, drv, tty, main >>

----------------------------------------------------------------------------
\* Bulk transfers; none while a request that changes the endpoints is under way.

Bulk ==
  /\ host.conf = 1
  /\ host.stage # "idle" => host.req.rcp # "endpoint" /\ host.req.req # "set_configuration"

\* The host has got a packet on EP1: it must be the one sent first.
Heard(pkt) ==
  log' = [log EXCEPT !.sent = IF @ = << >> THEN @ ELSE Tail(@),
                     !.heard = IF IsEcho(pkt) THEN @ \o pkt ELSE @]
Wrong(pkt) == log.sent = << >> \/ Head(log.sent) # pkt

Poll ==
  /\ Bulk /\ BusIn(1).resp = "data"
  /\ LET rep == BusIn(1)
     IN IF rep.tog = host.tog[1]
        THEN /\ Token(rep, [host EXCEPT !.tog[1] = 1 - @, !.wrong = @ \/ Wrong(rep.pkt)])
             /\ Heard(rep.pkt)
        ELSE Token(rep, host) /\ UNCHANGED log

Type ==
  /\ Bulk /\ host.typed # << >> /\ BusOut(3, Head(host.typed), host.tog[3]).resp = "ack"
  /\ Token(BusOut(3, Head(host.typed), host.tog[3]),
           [host EXCEPT !.typed = Tail(@), !.tog[3] = 1 - @])
  /\ UNCHANGED log

----------------------------------------------------------------------------
\* The USBIP client.  It has one control urb open at a time, and up to three urbs for EP1.

Command(cmd, x) ==
  /\ usb' = [usb EXCEPT !.hw.sock = Append(@, cmd)]
  /\ host' = [x EXCEPT !.seq = @ + 1]
  /\ UNCHANGED << chip, drv, tty, main, log >>

Open(n, dir) == SelectSeq(host.open, LAMBDA u : u.ep = n /\ u.dir = dir)
SubmitUrb(n, dir, r, data, x) ==
  LET urb == Urb(host.seq + 1, n, dir, r, data)
  IN Command(urb, [x EXCEPT !.open = Append(@, urb)])

DeviceDescriptor == [NoRequest EXCEPT !.req = "get_descriptor", !.dir = "in", !.value = 1, !.len = 4]

Client ==
  \/ /\ host.settle /\ host.seq = 0
     /\ Command([Urb(1, 0, "in", DeviceDescriptor, << >>) EXCEPT !.cmd = "attach"], host)
  \/ /\ ~host.settle /\ host.plan # << >> /\ Open(0, "in") = << >> /\ Open(0, "out") = << >>
     /\ \E r \in Head(host.plan) : SubmitUrb(0, r.dir, r, << >>, [host EXCEPT !.req = r, !.got = << >>])
  \/ /\ host.conf = 1 /\ host.urbs > 0 /\ Len(Open(1, "in")) < 3
     /\ SubmitUrb(1, "in", NoRequest, << >>, [host EXCEPT !.urbs = @ - 1])
  \/ /\ host.conf = 1 /\ host.typed # << >>
     /\ SubmitUrb(3, "out", NoRequest, Head(host.typed), [host EXCEPT !.typed = Tail(@)])
  \/ /\ host.unlinks > 0
     /\ \E u \in ToSet(host.open) :
          u.ep # 0 /\ Command([Urb(host.seq + 1, 0, "out", NoRequest, u.seq) EXCEPT !.cmd = "unlink"],
                              [host EXCEPT !.unlinks = @ - 1])

\* An answer of the server.  A request that is refused is answered with nothing.
Closed(seq) == [host EXCEPT !.open = SelectSeq(@, LAMBDA u : u.seq # seq)]

TakeReply ==
  /\ usb.hw.replies # << >>
  /\ LET rep == Head(usb.hw.replies)
         was == SelectSeq(host.open, LAMBDA u : u.seq = rep.seq)
         urb == Head(was)
         in1 == was # << >> /\ urb.ep = 1 /\ rep.ok
         x   == Closed(rep.seq)
     IN /\ usb' = [usb EXCEPT !.hw.replies = Tail(@)]
        /\ host' = CASE rep.rep = "attach" -> [host EXCEPT !.settle = FALSE]
                     [] rep.rep = "unlink" -> IF rep.ok THEN [Closed(rep.data) EXCEPT !.skipped = TRUE]
                                              ELSE host
                     [] rep.rep = "submit" /\ was = << >> -> [host EXCEPT !.wrong = TRUE]
                     [] rep.rep = "submit" /\ was # << >> /\ urb.ep = 0 ->
                          Over([x EXCEPT !.got = rep.data], rep.ok /\ (urb.dir = "in" => rep.data # << >>))
                     [] rep.rep = "submit" /\ was # << >> /\ urb.ep # 0 ->
                          [x EXCEPT !.wrong = @ \/ (in1 /\ Wrong(rep.data))]
        /\ IF in1 THEN Heard(rep.data) ELSE UNCHANGED log
  /\ UNCHANGED << chip, drv, tty, main >>

----------------------------------------------------------------------------
Host ==
  \/ Wired /\ (Setup \/ ReadPacket \/ WritePacket \/ Status \/ Abort \/ Reset \/ Poll \/ Type)
  \/ ~Wired /\ (Client \/ TakeReply)

Next == (Firmware /\ UNCHANGED host) \/ (Serve /\ UNCHANGED << tty, main, log, host >>) \/ Host

Spec == Init /\ [][Next]_vars
============================================================================
