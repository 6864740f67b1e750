------------------------------- MODULE UsbCdc ------------------------------
(***************************************************************************)
(* The virtual serial terminal of example-cdc (usb-cdc.c, sample.c), which *)
(* example-fs-bb48 and example-cdc-gnu-linux repeat for the other ports:   *)
(* the driver thread tty_main with its callbacks, and the main thread.     *)
(*                                                                         *)
(* tty_main handles one event at a time: usb_lld_event_handler, the        *)
(* callback, and after a bulk event the section that sends the echo.  A    *)
(* section under tty0.mtx is one step.  The main thread has the lower      *)
(* priority: it runs when tty_main waits, and a section it is in when an   *)
(* interrupt comes in is finished before the callback gets the mutex.      *)
(*                                                                         *)
(* The keys are "a", "r" (return), "del", "^U" and "^R".                   *)
(***************************************************************************)
EXTENDS UsbStm32, UsbKl27z, UsbIpServer

CONSTANTS
  LineSize,    \* LINEBUFSIZE: the ring buffer holds one character less
  EchoSize     \* sizeof (len): how many characters an echo packet takes at most

VARIABLES
  tty,     \* struct tty
  main,    \* the main thread: where it is, whether it sleeps on tty0.cnd
  log      \* the model's own record: the packets given to EP1 that the host has not got, the
           \* echo put into the ring and heard by the host; raced, when main has gone on from
           \* before a reset or a new connection

ttyVars == << tty, main, log >>

FreshTty == [conn |-> FALSE, ready |-> TRUE, avail |-> FALSE, state |-> "UNCONNECTED",
             ring |-> << >>, line |-> 0]

----------------------------------------------------------------------------
\* usb_lld.h, for the port at hand.

SetupEndpoint(u, n, rx, tx) ==
  CASE chip = "stm32" -> StSetupEndpoint(u, n, rx, tx)
    [] chip = "kl27z" -> KlSetupEndpoint(u, n)
    [] chip = "usbip" -> IpSetupEndpoint(u, n, rx, tx)
StallTx(u, n) ==
  CASE chip = "stm32" -> StStallTx(u, n) [] chip = "kl27z" -> KlStall(u, n)
    [] chip = "usbip" -> IpStallTx(u, n)
StallRx(u, n) ==
  CASE chip = "stm32" -> StStallRx(u, n) [] chip = "kl27z" -> KlStall(u, n)
    [] chip = "usbip" -> IpStallRx(u, n)
TxEnable(u, n, pkt) ==
  CASE chip = "stm32" -> StTxEnable(u, n, pkt) [] chip = "kl27z" -> KlTxEnable(u, n, pkt)
    [] chip = "usbip" -> IpTxEnable(u, n, pkt)
RxEnable(u, n) ==
  CASE chip = "stm32" -> StRxEnable(u, n) [] chip = "kl27z" -> KlRxEnable(u, n)
    [] chip = "usbip" -> IpRxEnable(u, n)
CtrlSend(u, n) ==
  CASE chip = "stm32" -> StCtrlSend(u, n) [] chip = "kl27z" -> KlCtrlSend(u, n)
    [] chip = "usbip" -> IpCtrlSend(u, n)
CtrlRecv(u, n) ==
  CASE chip = "stm32" -> StCtrlRecv(u, n) [] chip = "kl27z" -> KlCtrlRecv(u, n)
    [] chip = "usbip" -> IpCtrlRecv(u, n)
CtrlAck(u) ==
  CASE chip = "stm32" -> StCtrlAck(u) [] chip = "kl27z" -> KlCtrlAck(u)
    [] chip = "usbip" -> IpCtrlAck(u)
CtrlError(u) ==
  CASE chip = "stm32" -> StCtrlError(u) [] chip = "kl27z" -> KlCtrlError(u)
    [] chip = "usbip" -> IpCtrlError(u)
LldReset(u) ==
  CASE chip = "stm32" -> StReset(u) [] chip = "kl27z" -> KlReset(u) [] chip = "usbip" -> IpReset(u)
EventHandler(u) ==
  CASE chip = "stm32" -> StEvent(u) [] chip = "kl27z" -> KlEvent(u) [] chip = "usbip" -> IpEvent(u)
Pending ==
  CASE chip = "stm32" -> StPending(usb.hw) [] chip = "kl27z" -> KlPending(usb.hw)
    [] chip = "usbip" -> IpPending(usb.hw)

\* On GNU/Linux the functions for an endpoint wait for its mutex.
Free(n, dir) == chip = "usbip" => ~Locked(usb.hw, n, dir)

----------------------------------------------------------------------------
\* The callbacks of tty_main.  One is a function of the USB device, the terminal and the
\* main thread (chopstx_cond_signal wakes it up).

World(u, t, m) == [u |-> u, t |-> t, m |-> m]
Signal(m) == [m EXCEPT !.asleep = FALSE]

\* An answer to a request leaves the terminal alone.
Answered(w, u) == [w EXCEPT !.u = u]

DeviceReset(w) ==
  [w EXCEPT !.u = SetupEndpoint(LldReset(@), 0, TRUE, TRUE),
            !.t = [FreshTty EXCEPT !.state = "ATTACHED"]]

Addressed(w) == [w EXCEPT !.t.state = "ADDRESSED", !.m = Signal(@)]

\* vcom_setup_endpoints_for_interface.
StartInterface(u, i) ==
  IF i = 0 THEN SetupEndpoint(u, 2, FALSE, TRUE)
  ELSE SetupEndpoint(SetupEndpoint(u, 1, FALSE, TRUE), 3, TRUE, FALSE)
StopInterfaces(u) == StallRx(StallTx(StallTx(u, 2), 1), 3)

\* usb_set_configuration: nothing is changed when the value is the current one.
Configure(w) ==
  LET conf  == w.u.dev.conf
      value == w.u.dev.req.value
  IN CASE conf = 0 /\ value # 1 -> Answered(w, CtrlError(w.u))
       [] conf = 0 /\ value = 1 ->
            World(CtrlAck(StartInterface(StartInterface(SetConf(w.u, 1), 0), 1)),
                  [w.t EXCEPT !.state = "CONFIGURED"], Signal(w.m))
       [] conf # 0 /\ value = conf -> Answered(w, CtrlAck(w.u))
       [] conf # 0 /\ value # conf /\ value # 0 -> Answered(w, CtrlError(w.u))
       [] conf # 0 /\ value = 0 ->
            World(CtrlAck(StopInterfaces(SetConf(w.u, 0))),
                  [w.t EXCEPT !.state = "ADDRESSED"], Signal(w.m))

\* The lengths of the replies: GetDescriptor's are the descriptor's, by its number.
DescriptorUnits(value) == value

GiveDescriptor(w) ==
  IF w.u.dev.req.rcp = "device" /\ w.u.dev.req.value # 0
  THEN Answered(w, CtrlSend(w.u, DescriptorUnits(w.u.dev.req.value)))
  ELSE Answered(w, CtrlError(w.u))

\* usb_set_interface, usb_get_interface, usb_get_status_interface.
Interface(w, ok, u) == Answered(w, IF w.u.dev.req.index < 2 /\ ok THEN u ELSE CtrlError(w.u))

\* usb_setup: the requests of the class.
ClassRequest(w) ==
  LET r == w.u.dev.req
      mine == r.type = "class" /\ r.rcp = "interface" /\ r.index = 0
  IN CASE mine /\ r.req = "get_line_coding" /\ r.dir = "in" -> Answered(w, CtrlSend(w.u, 1))
       [] mine /\ r.req = "set_line_coding" /\ r.dir = "out" /\ r.len = 1 ->
            Answered(w, CtrlRecv(w.u, 1))
       [] mine /\ r.req = "set_line_state" /\ r.dir = "out" -> Answered(w, CtrlAck(w.u))
       [] OTHER -> Answered(w, CtrlError(w.u))

\* usb_ctrl_write_finish: the host opens or closes the line when the status stage is over.
WriteFinish(w) ==
  LET r == w.u.dev.req
  IN IF r.type = "class" /\ r.rcp = "interface" /\ r.index = 0 /\ r.req = "set_line_state"
     THEN [w EXCEPT !.t.conn = (r.value = 1), !.m = Signal(@)]
     ELSE w

\* usb_tx_done on EP1.
BugTxDone(w) == IF w.t.ready THEN w ELSE [w EXCEPT !.t.ready = TRUE]

TxDone(w) ==
  IF w.t.ready THEN w ELSE [w EXCEPT !.t.ready = TRUE, !.m = Signal(@)]

\* put_char_to_ringbuffer: a character is dropped when the buffer is full.
BugPut(ring, c) == IF Len(ring) < LineSize THEN Append(ring, c) ELSE ring

Put(ring, c) == IF Len(ring) < LineSize - 1 THEN Append(ring, c) ELSE ring

\* get_chars_from_ringbuffer: what it takes, and what it leaves.
FirstChars(ring) == SubSeq(ring, 1, Lesser(Len(ring), EchoSize))

BugOtherChars(ring) == << >>

OtherChars(ring) == SubSeq(ring, EchoSize + 1, Len(ring))

\* tty_input_char: the keys that edit the line, its end, and a character, which is echoed
\* as a line feed when the place before the line's end is taken.
Times(n, chars) == FlattenSeq([i \in 1..n |-> chars])
InputChar(w, c) ==
  LET n == w.t.line
      Echo(chars, line) == [w EXCEPT !.t.ring = FoldLeft(Put, @, chars), !.t.line = line]
      Rub == << "b", "s", "b" >>
  IN CASE c = "r"   -> [Echo(<< "r", "n" >>, n + 1) EXCEPT !.t.avail = TRUE, !.m = Signal(@)]
       [] c = "^R"  -> Echo(<< "^", "R", "r", "n" >> \o Times(n, << "a" >>), n)
       [] c = "^U"  -> Echo(Times(n, Rub), 0)
       [] c = "del" -> IF n > 0 THEN Echo(Rub, n - 1) ELSE w
       [] c = "a" /\ n < LineSize - 1  -> Echo(<< "a" >>, n + 1)
       [] c = "a" /\ n >= LineSize - 1 -> Echo(<< "n" >>, n)

\* usb_rx_ready on EP3: what stands behind the end of the line is not looked at, and
\* the endpoint takes the next packet unless a line is complete.
RxReady(w, pkt) ==
  LET ends == {i \in DOMAIN pkt : pkt[i] = "r"}
      upto == IF ends = {} THEN Len(pkt) ELSE CHOOSE i \in ends : \A j \in ends : i <= j
      x == FoldLeft(InputChar, w, SubSeq(pkt, 1, upto))
  IN IF x.t.avail THEN x ELSE [x EXCEPT !.u = RxEnable(@, 3)]

Callback(w, ev) ==
  CASE ev.id = "RX" -> RxReady(w, ev.pkt)
    [] ev.id = "TX" -> IF ev.ep = 1 THEN TxDone(w) ELSE w
    [] ev.id = "DEVICE_RESET"     -> DeviceReset(w)
    [] ev.id = "DEVICE_ADDRESSED" -> Addressed(w)
    [] ev.id = "GET_DESCRIPTOR"   -> GiveDescriptor(w)
    [] ev.id = "SET_CONFIGURATION" -> Configure(w)
    [] ev.id = "SET_INTERFACE" ->
         Interface(w, w.u.dev.req.value = 0, CtrlAck(StartInterface(w.u, w.u.dev.req.index)))
    [] ev.id \in {"GET_INTERFACE", "GET_STATUS_INTERFACE"} -> Interface(w, TRUE, CtrlSend(w.u, 1))
    [] ev.id = "CTRL_REQUEST" -> ClassRequest(w)
    [] ev.id \in {"SET_FEATURE_DEVICE", "SET_FEATURE_ENDPOINT", "CLEAR_FEATURE_DEVICE",
                  "CLEAR_FEATURE_ENDPOINT"} -> Answered(w, CtrlAck(w.u))
    [] ev.id = "CTRL_WRITE_FINISH" -> WriteFinish(w)
    [] ev.id = "OK" -> w

----------------------------------------------------------------------------
\* The driver thread.  drv.section: a section of the main thread may be under way.

Waiting == [pc |-> "wait", ev |-> Ok, section |-> FALSE]

HandleEvent ==
  /\ drv.pc = "wait" /\ Pending
  /\ LET e == EventHandler(usb)
     IN /\ usb' = e.usb
        /\ drv' = IF e.ev = Ok THEN Waiting ELSE [pc |-> "callback", ev |-> e.ev, section |-> TRUE]
  /\ UNCHANGED << chip, tty, main, log >>

\* The packets that hold echo, and the echo they hold.
IsEcho(pkt) == pkt # << >> /\ Head(pkt) \notin {"hello", "line"}
EchoOf(packets) == FlattenSeq(SelectSeq(packets, IsEcho))

\* What the model records: a packet still there when the endpoint is set up is gone.
Recorded(w, conf) ==
  CASE drv.ev.id = "DEVICE_RESET" ->
         [sent |-> << >>, put |-> << >>, heard |-> << >>, raced |-> main.pc # "conf"]
    [] drv.ev.id = "SET_CONFIGURATION" /\ conf = 0 -> [log EXCEPT !.sent = << >>]
    [] OTHER -> [log EXCEPT !.put = @ \o SubSeq(w.t.ring, Len(tty.ring) + 1, Len(w.t.ring))]

HandleCallback ==
  /\ drv.pc = "callback"
  /\ drv.ev.id = "RX" => Free(3, "out")
  /\ LET w == Callback(World(usb, tty, main), drv.ev)
     IN /\ usb' = w.u /\ tty' = w.t /\ main' = w.m
        /\ log' = Recorded(w, usb.dev.conf)
  /\ drv' = IF drv.ev.ep = 0 THEN Waiting ELSE [drv EXCEPT !.pc = "echo", !.section = FALSE]
  /\ UNCHANGED chip

\* The packet given to EP1 (and what the model records of it).
Transmit(pkt) ==
  /\ Free(1, "in")
  /\ usb' = TxEnable(usb, 1, pkt)
  /\ log' = [log EXCEPT !.sent = Append(@, pkt)]

BugSendEcho ==
  /\ drv.pc = "echo"
  /\ IF tty.state = "CONFIGURED" /\ tty.conn /\ tty.ring # << >>
     THEN /\ Transmit(FirstChars(tty.ring))
          /\ tty' = [tty EXCEPT !.ready = FALSE, !.ring = OtherChars(@)]
     ELSE UNCHANGED << usb, log, tty >>
  /\ drv' = Waiting
  /\ UNCHANGED << chip, main >>

SendEcho ==
  /\ drv.pc = "echo"
  /\ IF tty.state = "CONFIGURED" /\ tty.conn /\ tty.ready /\ tty.ring # << >>
     THEN /\ Transmit(FirstChars(tty.ring))
          /\ tty' = [tty EXCEPT !.ready = FALSE, !.ring = OtherChars(@)]
     ELSE UNCHANGED << usb, log, tty >>
  /\ drv' = Waiting
  /\ UNCHANGED << chip, main >>

----------------------------------------------------------------------------
\* The main thread (sample.c): one section under the mutex per step.

Runs(pc) ==
  /\ main.pc = pc /\ ~main.asleep
  /\ drv.pc = "wait" \/ drv.section
  /\ drv' = [drv EXCEPT !.section = FALSE]
  /\ UNCHANGED chip

Go(pc) == main' = [main EXCEPT !.pc = pc]
Sleep  == main' = [main EXCEPT !.asleep = TRUE]

\* tty_wait_configured.
WaitConfigured ==
  /\ Runs("conf")
  /\ IF tty.state = "CONFIGURED" THEN Go("conn") ELSE Sleep
  /\ UNCHANGED << usb, tty, log >>

\* The end of a transfer on a bulk endpoint is on its way to tty_main.
Underway ==
  LET h == usb.hw
  IN \/ drv.ev.ep # 0
     \/ CASE chip = "stm32" -> \E n \in Endpoints \ {0} : h.ep[n].cr \/ h.ep[n].ct
          [] chip = "kl27z" -> \E t \in ToSet(h.tokens) : t.ep # 0
          [] chip = "usbip" -> h.intr.ep # 0 \/ h.srv.intr.ep # 0 \/ h.srv.pc = "finish"

\* tty_wait_connection: the terminal starts anew, whatever was under way.
WaitConnection ==
  /\ Runs("conn")
  /\ IF tty.conn
     THEN /\ Free(3, "out")
          /\ Go("zlp")
          /\ usb' = RxEnable(usb, 3)
          /\ tty' = [tty EXCEPT !.ready = TRUE, !.avail = FALSE, !.ring = << >>, !.line = 0]
          /\ log' = [log EXCEPT !.put = EchoOf(log.sent), !.heard = << >>, !.raced = @ \/ ~tty.ready \/ Underway]
     ELSE Sleep /\ UNCHANGED << usb, tty, log >>

\* tty_send of one packet; outside example-cdc it also waits until the packet is sent.
AfterSend(pc, ok) == IF chip = "stm32" THEN ok ELSE pc
Send(pc, sent, pkt, ok, closed) ==
  \/ /\ Runs(pc)
     /\ CASE tty.ready -> /\ Transmit(pkt)
                          /\ tty' = [tty EXCEPT !.ready = FALSE] /\ Go(AfterSend(sent, ok))
          [] ~tty.ready /\ ~tty.conn -> Go(closed) /\ UNCHANGED << usb, tty, log >>
          [] ~tty.ready /\ tty.conn  -> Sleep /\ UNCHANGED << usb, tty, log >>
  \/ /\ Runs(sent)
     /\ CASE tty.ready -> Go(ok)
          [] ~tty.ready /\ ~tty.conn -> Go(closed)
          [] ~tty.ready /\ tty.conn  -> Sleep
     /\ UNCHANGED << usb, tty, log >>

\* tty_recv: a line, the end of the connection, or (after three seconds) nothing.
Receive ==
  /\ Runs("recv")
  /\ CASE ~tty.conn -> Go("conn") /\ UNCHANGED << usb, tty >>
       [] tty.conn /\ tty.avail ->
            /\ Free(3, "out")
            /\ Go("reply")
            /\ usb' = RxEnable(usb, 3)
            /\ tty' = [tty EXCEPT !.avail = FALSE, !.line = 0]
       [] tty.conn /\ ~tty.avail -> Sleep /\ UNCHANGED << usb, tty >>
  /\ UNCHANGED log

\* main: the greeting, and a reply to each line.
MainThread ==
  \/ WaitConfigured \/ WaitConnection \/ Receive
  \/ Send("zlp", "zlp_sent", << >>, "hello", "hello")
  \/ Send("hello", "hello_sent", << "hello" >>, "recv", "conn")
  \/ Send("reply", "reply_sent", << "line" >>, "recv", "conn")

Firmware == HandleEvent \/ HandleCallback \/ SendEcho \/ MainThread
============================================================================
