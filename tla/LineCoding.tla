----------------------------- MODULE LineCoding -----------------------------
(***************************************************************************)
(* What becomes of the line coding a host asks for: setup_usart_config of  *)
(* example-usb-serial/sample.c makes configuration bits of it, and         *)
(* usart_config of contrib/usart-stm32f103.c makes the values of the       *)
(* USART's registers of those.                                             *)
(***************************************************************************)
EXTENDS Integers

\* struct line_coding: format is the stop bits, 0 for 1, 1 for 1.5 and 2 for 2;
\* paritytype is 0 for none, 1 for odd, 2 for even.
LineCodings == [bitrate : Nat, format : Nat, paritytype : Nat, databits : Nat]
DefaultCoding == [bitrate |-> 115200, format |-> 0, paritytype |-> 0, databits |-> 8]

\* The configuration bits, field by field: baud, MASK_STOP, PARENB and PARODD, MASK_CS.
SetupConfig(c) ==
  LET parity == IF c.paritytype \in 1..2 THEN c.paritytype ELSE 0
  IN [baud   |-> IF c.bitrate \in {9600, 19200, 57600, 115200} THEN c.bitrate ELSE 115200,
      stop   |-> IF c.format \in 0..2 THEN c.format ELSE 0,
      parenb |-> parity # 0,
      parodd |-> parity = 1,
      cs     |-> IF c.databits = 7 /\ parity # 0 THEN 7 ELSE 8]

----------------------------------------------------------------------------
\* brr_table: mantissa and sixteenths of the divider of the clock of 36 MHz.
Brr(baud) ==
  CASE baud = 600    -> 16 * 3750      [] baud = 1200   -> 16 * 1875
    [] baud = 2400   -> 16 * 937 + 8   [] baud = 9600   -> 16 * 234 + 6
    [] baud = 19200  -> 16 * 117 + 3   [] baud = 57600  -> 16 * 39 + 1
    [] baud = 115200 -> 16 * 19 + 8    [] baud = 230400 -> 16 * 9 + 12
    [] baud = 460800 -> 16 * 4 + 14    [] baud = 921600 -> 16 * 2 + 7
    [] OTHER         -> 0

\* usart_config: the fields M, PCE and PS of CR1, STOP of CR2, and BRR.
NoFrame == [m |-> FALSE, pce |-> FALSE, ps |-> FALSE, stop |-> 0, brr |-> 0]

\* It refuses seven bits without parity, and a baud it has no divider for, and leaves
\* the USART disabled.
Refused(bits) == (bits.cs = 7 /\ ~bits.parenb) \/ Brr(bits.baud) = 0

UsartConfig(bits) ==
  [m |-> bits.cs = 8 /\ bits.parenb, pce |-> bits.parenb, ps |-> bits.parodd,
   stop |-> bits.stop, brr |-> Brr(bits.baud)]

----------------------------------------------------------------------------
\* What the registers mean: the parity bit is one of the eight or nine.
DataBits(frame) == (IF frame.m THEN 9 ELSE 8) - (IF frame.pce THEN 1 ELSE 0)

\* The baud is right to half a percent: it is the clock over BRR.
BaudIs(frame, baud) ==
  frame.brr * baud >= 36000000 - 180000 /\ frame.brr * baud <= 36000000 + 180000
=============================================================================
