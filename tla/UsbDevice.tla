----------------------------- MODULE UsbDevice -----------------------------
(***************************************************************************)
(* What the three USB ports of mcu/ (STM32F103, MKL27Z, USBIP) have in     *)
(* common: struct usb_dev, the control transfer engine over it, and the    *)
(* standard requests.  The ports repeat this code; where they differ, the  *)
(* difference is in the module of the port.                                *)
(*                                                                         *)
(* Data is counted in units of half a packet (32 bytes), so that a packet  *)
(* may be full, short or empty; a request for one or two bytes is one for  *)
(* one unit.  The units of a reply are numbered from 0: a packet is the    *)
(* sequence of the numbers of its units.                                   *)
(*                                                                         *)
(* The driver thread of the application owns struct usb_dev; the pair of   *)
(* it and the controller, usb, is what the usb_lld_ functions work on, and *)
(* they are operators from such a pair to the next.                        *)
(***************************************************************************)
EXTENDS Integers, SequencesExt

CONSTANT NoPacket             \* a buffer that holds nothing

VARIABLES
  chip,    \* "stm32", "kl27z" or "usbip": the port the firmware is built for
  usb,     \* [dev, hw]: struct usb_dev and the controller
  drv      \* where the driver thread is: waiting, or the event to be handled

PACKET == 2                   \* USB_MAX_PACKET_SIZE, in units
Endpoints == 0..3

Lesser(a, b) == IF a <= b THEN a ELSE b

\* The units from number a on, n of them.
Units(a, n) == [i \in 1..n |-> a + i - 1]

\* An event as usb_lld_event_handler returns it: a device event, or the end of a
\* transfer on an endpoint other than 0.
Event(id)        == [ep |-> 0, id |-> id, pkt |-> NoPacket]
Done(n, id, pkt) == [ep |-> n, id |-> id, pkt |-> pkt]
Ok               == Event("OK")

NoRequest == [req |-> "none", dir |-> "out", type |-> "std", rcp |-> "device",
              value |-> 0, index |-> 0, len |-> 0]

\* struct usb_dev after usb_lld_init: at is ctrl_data.addr as a unit's number, got the
\* units a control write has put at it.
FreshDevice == [state |-> "WAIT_SETUP", conf |-> 0, feature |-> FALSE, req |-> NoRequest,
                left |-> 0, at |-> 0, zlp |-> FALSE, got |-> << >>]

----------------------------------------------------------------------------
\* The data stages.  The port transmits the packet, arms the endpoint, or both.

\* handle_setup0: the request is taken over, and what is left of the last one dropped.
TakeRequest(d, r) == [d EXCEPT !.req = r, !.left = 0, !.at = 0, !.zlp = FALSE, !.got = << >>]

\* usb_lld_ctrl_send of n units: the device after it.
BugSendState(d, n) ==
  LET all == Lesser(n, d.req.len)
      now == Lesser(all, PACKET)
  IN [d EXCEPT !.left = all - now, !.at = now,
               !.state = IF all < PACKET THEN "LAST_IN_DATA" ELSE "IN_DATA"]

SendState(d, n) ==
  LET all == Lesser(n, d.req.len)
      now == Lesser(all, PACKET)
  IN [d EXCEPT !.left = all - now, !.at = now,
               !.zlp = @ \/ (n < d.req.len /\ n # 0 /\ n % PACKET = 0),
               !.state = IF all < PACKET THEN "LAST_IN_DATA" ELSE "IN_DATA"]

\* handle_datastage_in: nothing more to send, and an empty packet where the host
\* cannot know ...
AllSent(d) == d.left = 0 /\ d.state = "LAST_IN_DATA"

\* ... or the next packet.
BugNextInState(d) ==
  CASE AllSent(d) /\ d.zlp  -> [d EXCEPT !.zlp = FALSE]
    [] AllSent(d) /\ ~d.zlp -> [d EXCEPT !.state = "WAIT_STATUS_OUT"]
    [] OTHER -> [d EXCEPT !.left = @ - Lesser(d.left, PACKET),
                          !.state = IF d.left <= PACKET THEN "LAST_IN_DATA" ELSE "IN_DATA"]

NextInState(d) ==
  CASE AllSent(d) /\ d.zlp  -> [d EXCEPT !.zlp = FALSE]
    [] AllSent(d) /\ ~d.zlp -> [d EXCEPT !.state = "WAIT_STATUS_OUT"]
    [] OTHER -> LET n == Lesser(d.left, PACKET)
                IN [d EXCEPT !.left = @ - n, !.at = @ + n,
                             !.state = IF d.left <= PACKET THEN "LAST_IN_DATA" ELSE "IN_DATA"]

NextInPacket(d) ==
  IF AllSent(d) THEN << >> ELSE Units(d.at, Lesser(d.left, PACKET))

\* usb_lld_ctrl_recv of n units.
RecvState(d, n) == [d EXCEPT !.state = "OUT_DATA", !.left = n, !.at = 0, !.got = << >>]

\* handle_datastage_out: pkt has been received.
NextOutState(d, pkt) ==
  LET n == Lesser(Len(pkt), d.left)
  IN [d EXCEPT !.left = @ - n, !.at = @ + n, !.got = @ \o SubSeq(pkt, 1, n),
               !.state = IF n = d.left THEN "WAIT_STATUS_IN" ELSE "OUT_DATA"]

SetConf(u, config) == [u EXCEPT !.dev.conf = config]

\* handle_in0 at WAIT_STATUS_IN: the event for the application.
WriteFinished(d) ==
  IF d.req.req = "set_address" /\ d.req.type = "std" /\ d.req.rcp = "device"
  THEN Event("DEVICE_ADDRESSED") ELSE Event("CTRL_WRITE_FINISH")

----------------------------------------------------------------------------
\* The standard requests (std_*).  An answer is "error", "ack", "send", an event the
\* application answers, or "endpoint": the port looks at the endpoint's registers.

EpOf(r)  == r.index % 16
IsIn(r)  == r.index >= 128
Host2Dev(r) == r.dir = "out"

Accept(ok, answer) == IF ok THEN answer ELSE "error"

GetStatus(d) ==
  LET r == d.req
  IN CASE Host2Dev(r) \/ r.value # 0 \/ r.len # 1 -> "error"
       [] r.rcp = "device"    -> Accept(r.index = 0, "send")
       [] r.rcp = "interface" -> Accept(d.conf # 0, "GET_STATUS_INTERFACE")
       [] r.rcp = "endpoint"  -> Accept(EpOf(r) # 0, "endpoint")

\* std_clear_feature and std_set_feature agree on what they accept.
Feature(d, event) ==
  LET r == d.req
  IN CASE ~Host2Dev(r) \/ r.len # 0 -> "error"
       [] r.rcp = "device"    -> Accept(r.index = 0 /\ r.value = 1, event)
       [] r.rcp = "endpoint"  -> Accept(d.conf # 0 /\ r.value = 0 /\ EpOf(r) # 0, "endpoint")
       [] r.rcp = "interface" -> "error"

SetAddress(d) ==
  LET r == d.req
  IN Accept(Host2Dev(r) /\ r.rcp = "device" /\ r.len = 0 /\ r.value <= 127 /\ r.index = 0
            /\ d.conf = 0, "ack")

GetDescriptor(d) == Accept(~Host2Dev(d.req), "GET_DESCRIPTOR")

GetConfiguration(d) ==
  LET r == d.req
  IN Accept(~Host2Dev(r) /\ r.value = 0 /\ r.index = 0 /\ r.len = 1 /\ r.rcp = "device", "send")

SetConfiguration(d) ==
  LET r == d.req
  IN Accept(Host2Dev(r) /\ r.index = 0 /\ r.len = 0 /\ r.rcp = "device", "SET_CONFIGURATION")

GetInterface(d) ==
  LET r == d.req
  IN Accept(~Host2Dev(r) /\ r.value = 0 /\ r.len = 1 /\ d.conf # 0 /\ r.rcp = "interface",
            "GET_INTERFACE")

SetInterface(d) ==
  LET r == d.req
  IN Accept(Host2Dev(r) /\ r.rcp = "interface" /\ r.len = 0 /\ d.conf # 0, "SET_INTERFACE")

\* handle_setup0: the switch over the requests.
Standard(d) ==
  CASE d.req.req = "get_status"        -> GetStatus(d)
    [] d.req.req = "clear_feature"     -> Feature(d, "CLEAR_FEATURE_DEVICE")
    [] d.req.req = "set_feature"       -> Feature(d, "SET_FEATURE_DEVICE")
    [] d.req.req = "set_address"       -> SetAddress(d)
    [] d.req.req = "get_descriptor"    -> GetDescriptor(d)
    [] d.req.req = "get_configuration" -> GetConfiguration(d)
    [] d.req.req = "set_configuration" -> SetConfiguration(d)
    [] d.req.req = "get_interface"     -> GetInterface(d)
    [] d.req.req = "set_interface"     -> SetInterface(d)
    [] OTHER                           -> "error"

\* The remote wake-up bit of dev->feature, which two of the requests change.
FeatureAfter(d, answer) ==
  CASE answer = "SET_FEATURE_DEVICE"   -> TRUE
    [] answer = "CLEAR_FEATURE_DEVICE" -> FALSE
    [] OTHER                           -> d.feature
============================================================================
