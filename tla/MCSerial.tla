------------------------------ MODULE MCSerial ------------------------------
(* The serial adapter: the properties the run checks, and what host and line do.            *)
EXTENDS UsbSerial

\* The variables have their types, and what the copies of characters rest on holds: head,
\* tail, full and empty of the ring buffers agree, a thread has room for the character it
\* reads, input[] holds as many characters as its length says, and the USART has a frame
\* that the host has asked for, or the default.
Buffers == {s \in Seq(Nat) : Len(s) <= BufSize}
AnyCoding == Codings \cup {DefaultCoding}
FlagWords == [conn : BOOLEAN, ready : BOOLEAN, avail : BOOLEAN, busy : BOOLEAN, len : 0..BufSize]

RingsOK == a2h \in Rings(A2hSize) /\ h2a \in Rings(H2aSize)
UartOK ==
  uart \in [dr : Nat, rdr : Nat, bad : BOOLEAN, ore : BOOLEAN, txeie : BOOLEAN, ue : BOOLEAN,
            sbk : BOOLEAN, frame : {UsartConfig(SetupConfig(c)) : c \in AnyCoding} \cup {NoFrame}]
UmOK ==
  um \in [pc : {"off", "poll", "asleep", "status", "data", "put", "notify", "write", "check"},
          txready : BOOLEAN, intr : BOOLEAN, write : BOOLEAN, ch : Nat, rxne : BOOLEAN,
          bad : BOOLEAN, ore : BOOLEAN, notify : BOOLEAN]
ThreadsOK ==
  /\ thr \in [Threads -> [pc : {"conn", "flush_in", "flush_out", "delay", "read", "reading",
                               "recv", "take", "write", "writing", "send"}, buf : Buffers]]
  /\ \A t \in Threads :
       /\ thr[t].pc \notin {"reading", "write", "writing", "send"} => thr[t].buf = << >>
       /\ thr[t].pc = "reading" => Len(thr[t].buf) < BufSize
HostOK ==
  host \in [plan : Seq(Requests), sizes : Seq(0..BufSize), frames : Nat, noise : BOOLEAN,
            typed : Nat, came : Nat, hungup : BOOLEAN]
Devices ==
  [state : {"UNCONNECTED", "ATTACHED", "ADDRESSED", "CONFIGURED"}, input : Buffers,
   coding : AnyCoding]
Endpoints ==
  [on : BOOLEAN, tx : Seq(Buffers), txdone : BOOLEAN, note : BOOLEAN, notedone : BOOLEAN,
   armed : BOOLEAN, rx : Seq(Buffers), ctl : Requests \cup {"none"}, reset : BOOLEAN]
Handlers ==
  [pc : Requests \cup {"wait", "configure", "break", "tx", "note", "rx", "rx_flags"},
   saw : FlagWords, len : 0..BufSize, txeie : BOOLEAN]
PortOK ==
  /\ flags \in FlagWords /\ dev \in Devices /\ ep \in Endpoints /\ cm \in Handlers
  /\ flags.avail => flags.len <= Len(dev.input)
  /\ cm.pc = "rx_flags" => cm.len <= Len(dev.input)
  /\ cm.pc = "rx" => ep.rx # << >>
SerialTypeOK == RingsOK /\ UartOK /\ UmOK /\ ThreadsOK /\ HostOK /\ PortOK

----------------------------------------------------------------------------
\* A ring buffer is a queue of as many characters as it has places: no step of the driver,
\* nor of an application's thread, does anything to it that a queue does not.
A2hFifo == INSTANCE Fifo WITH Capacity <- A2hSize, items <- Contents(a2h, A2hSize)
H2aFifo == INSTANCE Fifo WITH Capacity <- H2aSize, items <- Contents(h2a, H2aSize)
RingsAreFifos == A2hFifo!Spec /\ H2aFifo!Spec

----------------------------------------------------------------------------
Char(c) == IF c = NoChar THEN << >> ELSE << c >>
Packet(packets) == IF packets = << >> THEN << >> ELSE Head(packets)
Increasing(s) == \A i \in 1..Len(s) - 1 : s[i] < s[i + 1]

\* What the host types comes out of the line in order, and once; what does not is on its
\* way, or was discarded, and nothing is discarded before the host hangs up.  The exception
\* is input that cdc_wait_connection, called late by the other thread, takes for old, or
\* flags that usb_rx_ready has torn.
Outward ==
  log.wire \o Char(uart.dr) \o Contents(a2h, A2hSize) \o thr["c2u"].buf
    \o Input \o (IF cm.pc = "rx_flags" THEN SubSeq(dev.input, 1, cm.len) ELSE << >>)
    \o Packet(ep.rx)
TxInOrder ==
  ~log.torn =>
    /\ Increasing(Outward)
    /\ ToSet(Outward) \cup log.gone = 1..host.typed
    /\ ToSet(Outward) \cap log.gone = {}
    /\ log.gone # {} => host.hungup

\* What comes in on the line is heard by the host in order, and once, or is lost; the
\* statistics count every frame once, and a frame lost to an overrun is told by the
\* counter of overruns, unless the status showed another error with it.
Inward ==
  log.heard \o Packet(ep.tx) \o thr["u2c"].buf \o Contents(h2a, H2aSize) \o Char(um.ch)
    \o Char(uart.rdr)
Pending(c) == IF c = NoChar THEN 0 ELSE 1
FramesCounted ==
  stat.rx + stat.overflow + stat.bad + log.missed + Pending(um.ch) + Pending(uart.rdr) = host.came
RxAccounted ==
  /\ FramesCounted
  /\ Increasing(Inward)
  /\ ToSet(Inward) \cup log.lost = 1..host.came
  /\ ToSet(Inward) \cap log.lost = {}
  /\ stat.overrun <= log.missed
  /\ log.missed > 0 => stat.overrun > 0 \/ uart.ore \/ (um.pc = "data" /\ um.ore) \/ log.masked

----------------------------------------------------------------------------
\* Nobody sleeps through what it waits for: the driver through a character to send, or
\* through the free data register; a thread through characters, places, a connection, a
\* packet or the end of its own; and EP3 takes a packet while cdc_recv waits for one.  The
\* exceptions: CR1 was rewritten without TXEIE, flag_output_ready was set by others than
\* usb_tx_done, and EP3 was set up anew behind the back of a thread past the connection.
DriverWoken ==
  um.pc = "asleep" =>
    /\ um.txready => a2h.empty \/ A2hHeld
    /\ ~um.txready => uart.txeie \/ log.rewritten
ThreadsWoken ==
  /\ Asleep("u2c", "data") => h2a.empty
  /\ Asleep("c2u", "space") => a2h.full /\ (um.pc = "asleep" => ~um.txready)
  /\ \A t \in Threads :
       /\ Asleep(t, "rx") /\ thr[t].pc = "conn" => ~flags.conn
       /\ Asleep(t, "rx") /\ thr[t].pc = "recv" =>
            ~flags.avail /\ (flags.conn \/ dev.state \notin {"CONFIGURED"})
       /\ Asleep(t, "tx") /\ ~log.disturbed /\ ~log.torn =>
            IF flags.ready THEN \E u \in Threads \ {t} : Ready(u) /\ thr[u].pc = "send"
            ELSE ep.tx # << >> \/ ep.txdone \/ cm.pc = "tx" \/ ep.reset \/ cm.pc = "reset"
ReceiverArmed ==
  Asleep("c2u", "rx") /\ thr["c2u"].pc = "recv" /\ flags.conn /\ ep.on /\ dev.state = "CONFIGURED"
    /\ ~log.unseen =>
    ep.armed \/ ep.rx # << >> \/ cm.pc = "rx_flags"
WakeupsKept == DriverWoken /\ ThreadsWoken /\ ReceiverArmed

----------------------------------------------------------------------------
Opens == << "reset", "addr", "config", "dtr1" >>
OtherCoding == [bitrate |-> 9600, format |-> 2, paritytype |-> 2, databits |-> 7]
SerialCodings == {DefaultCoding, OtherCoding}
Scenario(more, sizes, frames, noise) ==
  [plan |-> Opens \o more, sizes |-> sizes, frames |-> frames, noise |-> noise]
MCScenarios ==
  { Scenario(<< >>, << 3, 0, 2 >>, 0, FALSE),
    Scenario(<< >>, << >>, 4, TRUE),
    Scenario(<< "dtr0", "dtr1" >>, << 2 >>, 1, FALSE),
    Scenario(<< >>, << 2, 1 >>, 1, FALSE),
    Scenario(Opens, << 1, 1 >>, 1, FALSE),
    Scenario(<< "config", "deconf", "deconf", "config", "dtr1" >>, << 1, 1 >>, 0, FALSE),
    Scenario(<< "coding" >>, << 2 >>, 1, FALSE),
    Scenario(<< "send_break" >>, << 1 >>, 1, TRUE) }
=============================================================================
