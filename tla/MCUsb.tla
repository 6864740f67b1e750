------------------------------- MODULE MCUsb -------------------------------
(* The firmware and its host: the properties the run checks, and the hosts it has.          *)
EXTENDS UsbSystem

\* The state variables have their types, and the line and the ring stay within their arrays.
UsbTypeOK ==
  /\ chip \in {"stm32", "kl27z", "usbip"} /\ drv.pc \in {"wait", "callback", "echo"}
  /\ usb.dev.state \in {"WAIT_SETUP", "IN_DATA", "LAST_IN_DATA", "WAIT_STATUS_OUT", "OUT_DATA",
                        "WAIT_STATUS_IN", "STALLED"}
  /\ usb.dev.conf \in 0..1 /\ usb.dev.left \in Nat
  /\ tty.state \in {"UNCONNECTED", "ATTACHED", "ADDRESSED", "CONFIGURED"}
  /\ Len(tty.ring) < LineSize /\ tty.line \in 0..LineSize
  /\ main.asleep \in BOOLEAN /\ log.raced \in BOOLEAN

----------------------------------------------------------------------------
\* With nothing left to do for the firmware, the stage the host's control transfer is in is
\* answered, with the toggle the host expects: the engine of handle_setup0, handle_in0 and
\* handle_out0 never leaves the host with a NAK for ever, and after any transfer, or a stall,
\* the next SETUP is taken.  The exception is a reply of exactly one full packet:
\* usb_lld_ctrl_send takes it for the first of several, and an empty packet more than the
\* host expects is in the way of the status stage.
OneFullPacket == Len(host.got) = PACKET

ServedOnBus ==
  CASE host.stage = "idle" -> BusSetup(NoRequest).resp = "ack"
    [] host.stage = "in" -> LET rep == BusIn(0)
                            IN rep.resp = "stall" \/ (rep.resp = "data" /\ rep.tog = host.tog0)
    [] host.stage = "out" -> BusOut(0, << >>, host.tog0).resp \in {"ack", "stall"}
    [] host.stage = "read_status" -> OneFullPacket \/ BusOut(0, << >>, 1).resp \in {"ack", "stall"}
    [] host.stage = "write_status" -> BusIn(0).resp \in {"data", "stall"}

\* On GNU/Linux: the server is not left waiting, and before a SETUP the device is READY.
ServedBySocket ==
  LET srv == usb.hw.srv
  IN CASE srv.pc = "poll" -> usb.hw.e0.state = "READY"
       [] srv.pc \in {"in", "out", "read_status", "write_status", "last"} -> usb.hw.e0.efd
       [] srv.pc = "notify" -> usb.hw.intr.kind = "none"
       [] OTHER -> TRUE

HostServed == Quiet => IF Wired THEN ServedOnBus ELSE ServedBySocket

\* What a control transfer that ended well has brought the host, or the device, is what was
\* given to usb_lld_ctrl_send or usb_lld_ctrl_recv: cut to the length asked for, in order,
\* each packet once.
ReplyUnits(r) == IF r.req = "get_descriptor" THEN DescriptorUnits(r.value) ELSE 1
TransfersExact ==
  LET r == host.done.req
  IN host.done.ok =>
       IF r.dir = "in" THEN host.done.got = Units(0, Lesser(r.len, ReplyUnits(r)))
       ELSE usb.dev.req = r /\ usb.dev.state # "OUT_DATA" => usb.dev.got = Units(0, r.len)

\* Between requests the device has the address and the configuration the host has given it.
Settled == Quiet /\ host.stage = "idle" /\ ~host.unsure
HostAgrees ==
  Settled /\ Wired => host.addr = usb.hw.addr /\ host.conf = usb.dev.conf

\* The toggle a bulk endpoint's next packet has, or is expected to have, is the host's.
Toggle(n, dir) ==
  IF chip = "stm32" THEN IF dir = "tx" THEN usb.hw.ep[n].dt ELSE usb.hw.ep[n].dr
  ELSE LET bd == KlCurrent(usb.hw, n, dir) IN IF bd.own THEN bd.d01 ELSE KlToggle(usb, n, dir)
TogglesAgree ==
  Settled /\ Wired /\ host.conf = 1 => /\ Toggle(1, "tx") = host.tog[1]
                                       /\ Toggle(3, "rx") = host.tog[3]

----------------------------------------------------------------------------
\* While the terminal takes EP1 for busy there is a packet on it, and while no line is
\* waiting EP3 takes one: no lost or doubled tx_enable, rx_enable or event stops the traffic.
Armed(n, dir) ==
  CASE chip = "stm32" -> (IF dir = "tx" THEN usb.hw.ep[n].tx ELSE usb.hw.ep[n].rx) = "VALID"
    [] chip = "kl27z" -> KlCurrent(usb.hw, n, dir).own
    [] chip = "usbip" -> LET c == IF dir = "tx" THEN usb.hw.in[n] ELSE usb.hw.out[n]
                         IN (c.state = "READY" /\ c.efd) \/ usb.hw.srv.pc \in {"notify", "finish"}
EndpointsArmed ==
  Quiet /\ ~host.unsure /\ ~log.raced /\ tty.state = "CONFIGURED" /\ tty.conn =>
    /\ ~tty.ready => Armed(1, "tx")
    /\ main.pc \notin {"conf", "conn"} /\ ~tty.avail => Armed(3, "rx")

\* The packets given to EP1 are there until the host has them, each once and in order, on
\* the endpoint or with the server: flag_send_ready keeps the main thread and the echo from
\* overwriting each other's packet.
OnEndpoint ==
  CASE chip = "stm32" -> IF usb.hw.ep[1].tx = "VALID" THEN << usb.hw.txbuf[1] >> ELSE << >>
    [] chip = "kl27z" -> LET bd == KlCurrent(usb.hw, 1, "tx") IN IF bd.own THEN << bd.pkt >> ELSE << >>
    [] chip = "usbip" -> IF usb.hw.in[1].efd THEN << usb.hw.in[1].pkt >> ELSE << >>
WithServer ==
  IF Wired THEN << >>
  ELSE LET done == SelectSeq(usb.hw.replies,
                             LAMBDA x : x.rep = "submit" /\ x.ok /\ \E u \in ToSet(Open(1, "in")) : u.seq = x.seq)
           srv  == usb.hw.srv
       IN [i \in DOMAIN done |-> done[i].data]
          \o IF srv.pc \in {"notify", "finish"} /\ srv.urb.ep = 1 THEN << srv.got >> ELSE << >>
NothingLost == ~log.raced /\ ~host.unsure => log.sent = WithServer \o OnEndpoint /\ ~host.wrong

\* The characters put into the ring reach the host in their order.
EchoInOrder ==
  ~log.raced /\ ~host.unsure => log.heard \o EchoOf(log.sent) \o tty.ring = log.put

\* The main thread does not sleep on tty0.cnd when what it waits for is there, but between a
\* reset, which usb_device_reset does not signal, and the address.
MainWoken ==
  main.asleep /\ tty.state # "ATTACHED" =>
    CASE main.pc = "conf" -> tty.state # "CONFIGURED"
      [] main.pc = "conn" -> ~tty.conn
      [] main.pc = "recv" -> tty.conn /\ ~tty.avail
      [] OTHER -> tty.conn /\ ~tty.ready

----------------------------------------------------------------------------
\* Every urb the client has open is with the server exactly once, in the socket, in the list
\* or in an answer, and those of an endpoint are answered in the order they came.  An
\* endpoint with urbs in the list serves one of them, until an urb is unlinked.
Seqs(q) == [i \in DOMAIN q |-> q[i].seq]
Unlinking == {rep.data : rep \in {x \in ToSet(usb.hw.replies) : x.rep = "unlink" /\ x.ok}}
OfEp(q, n, dir) ==
  SelectSeq(q, LAMBDA u : u.ep = n /\ u.dir = dir /\ u.cmd = "submit" /\ u.seq \notin Unlinking)
Replied(n, dir) ==
  SelectSeq(usb.hw.replies, LAMBDA x : x.rep = "submit" /\ \E u \in ToSet(Open(n, dir)) : u.seq = x.seq)
UrbsAnswered ==
  ~Wired => \A n \in {0, 1, 3}, dir \in {"in", "out"} :
    LET there == Seqs(Replied(n, dir) \o Reverse(OfEp(usb.hw.urbs, n, dir)) \o OfEp(usb.hw.sock, n, dir))
        open  == Seqs(OfEp(host.open, n, dir))
        c     == IF dir = "in" THEN usb.hw.in[n] ELSE usb.hw.out[n]
    IN /\ IF host.skipped \/ Unlinking # {} THEN ToSet(there) = ToSet(open) /\ Len(there) = Len(open)
          ELSE there = open /\ (n # 0 /\ OfEp(usb.hw.urbs, n, dir) # << >> => c.urb # 0)
       /\ c.urb # 0 => \E u \in ToSet(usb.hw.urbs) : u.seq = c.urb

----------------------------------------------------------------------------
\* The requests of the hosts.

Std(req, dir, rcp, value, index, len) ==
  [req |-> req, dir |-> dir, type |-> "std", rcp |-> rcp, value |-> value, index |-> index, len |-> len]
Class(req, dir, value, len) ==
  [req |-> req, dir |-> dir, type |-> "class", rcp |-> "interface", value |-> value, index |-> 0, len |-> len]

Address(a)       == Std("set_address", "out", "device", a, 0, 0)
Configured(c)    == Std("set_configuration", "out", "device", c, 0, 0)
Descriptor(v, n) == Std("get_descriptor", "in", "device", v, 0, n)
Halt(req, ep)    == Std(req, "out", "endpoint", 0, ep, 0)
Line(on)         == Class("set_line_state", "out", on, 0)

\* Reads of descriptors of one to three packets, asked for in full, in part and in excess;
\* replies of one full packet; reads of one unit; what is refused.
OnePacket == {Descriptor(2, 3), Descriptor(3, 2)}
Reads == {Descriptor(1, 2), Descriptor(3, 1), Descriptor(3, 5), Descriptor(4, 4), Descriptor(4, 5), Descriptor(5, 6),
          Std("get_status", "in", "device", 0, 0, 1), Std("get_configuration", "in", "device", 0, 0, 1)}
Refused == {Descriptor(0, 2), Std("get_status", "in", "device", 1, 0, 1), Std("reserved", "out", "device", 0, 0, 0)}
OfInterface == {Std("get_interface", "in", "interface", 0, 0, 1), Std("set_interface", "out", "interface", 0, 0, 0),
                Std("get_status", "in", "interface", 0, 1, 1),
                Class("get_line_coding", "in", 0, 1), Class("set_line_coding", "out", 0, 1),
                Class("get_line_coding", "in", 0, 3)}
OfEndpoint == {Halt("set_feature", 129), Halt("clear_feature", 129), Halt("clear_feature", 3),
               Std("get_status", "in", "endpoint", 0, 129, 1), Halt("set_feature", 1)}
OfDevice == {Std("set_feature", "out", "device", 1, 0, 0), Std("clear_feature", "out", "device", 1, 0, 0)}

Scenario(c, plan, typed) ==
  [chip |-> c, plan |-> plan, typed |-> typed, aborts |-> 0, resets |-> 0, urbs |-> 0, unlinks |-> 0]

Conf == {Configured(1)}
On == {Line(1)}
Off == {Line(0)}
Line1 == << << "a", "r" >>, << "a", "^U" >> >>
Line2 == << << "a", "del" >>, << "^R", "r" >> >>

UsbScenarios ==
  {[Scenario("stm32", << Reads \cup Refused \cup OnePacket, {Address(1), Address(200)},
                         Reads \cup Refused, Conf \cup {Configured(2)},
                         OfInterface \cup OfEndpoint \cup OfDevice, OfEndpoint \cup Reads \cup {Configured(0)},
                         Reads \cup OfEndpoint >>, << >>) EXCEPT !.aborts = 1],
   Scenario("kl27z", << {Address(1)}, Reads \cup Refused, Reads \cup Conf, Conf,
                        OfInterface \cup OfEndpoint \cup OfDevice, Reads \cup OfEndpoint \cup {Configured(0)},
                        Reads >>, << >>),
   [Scenario("stm32", << {Address(1)}, Conf, On, Reads \cup Off, On >>, Line1) EXCEPT !.resets = 1],
   [Scenario("kl27z", << {Address(1)}, Conf, On, Reads \cup Off, On >>, Line2) EXCEPT !.resets = 1],
   Scenario("usbip", << Reads \cup Refused, {Address(1)}, Conf, OfInterface \cup OfEndpoint \cup OfDevice, Reads >>, << >>),
   [Scenario("usbip", << Conf, On, Off >>, << << "a", "r" >> >>) EXCEPT !.urbs = 2],
   [Scenario("usbip", << Conf, On >>, << >>) EXCEPT !.urbs = 3, !.unlinks = 1],
   [Scenario("usbip", << Conf, On >>, << << "a", "r" >> >>) EXCEPT !.urbs = 1, !.unlinks = 1]}
============================================================================
