---------------------------- MODULE SerialProofs ----------------------------
(***************************************************************************)
(* The serial adapter, for buffers of any sizes, any number of characters  *)
(* and any plans of the host: its variables keep their types, its ring     *)
(* buffers implement queues, and the characters of both directions keep    *)
(* their order, each in one place until it arrives or is discarded.        *)
(*                                                                         *)
(* First, what rb_add, rb_del and rb_ll_flush do to a ring buffer of n     *)
(* places: they keep its fields consistent, and append, take and clear     *)
(* what it holds.  n may be IndexRange, though size is 0 then: the note    *)
(* that "size = 1024 can still work, regardless of the limit of 10-bit"    *)
(* (contrib/usart-stm32f103.c) is right.                                   *)
(***************************************************************************)
EXTENDS MCSerial, ListTheorems, SequenceTheorems, TLAPS

Sizes == 1..IndexRange

\* The two ways of an index to go on, by overflow of the ten bits and by reaching size.
LEMMA NextPlaceIs ==
  ASSUME NEW n \in Sizes, NEW rb \in Rings(n), NEW x \in 0..n - 1
  PROVE  NextPlace(rb, x) = IF x + 1 = n THEN 0 ELSE x + 1
BY IndexRangeAssumption DEF Sizes, Rings, NextPlace, Increment

LEMMA RingFields ==
  ASSUME NEW n \in Sizes, NEW rb \in Rings(n)
  PROVE  /\ rb \in [buf : [0..n - 1 -> Nat], head : 0..n - 1, tail : 0..n - 1,
                    size : {IF n = IndexRange THEN 0 ELSE n}, full : BOOLEAN, empty : BOOLEAN]
         /\ rb.head = rb.tail <=> (rb.full \/ rb.empty)
         /\ ~(rb.full /\ rb.empty)
         /\ n \in Nat \ {0}
BY IndexRangeAssumption DEF Sizes, Rings

\* The length of what it holds says whether it is full, or empty.
LEMMA CountBounds ==
  ASSUME NEW n \in Sizes, NEW rb \in Rings(n)
  PROVE  /\ Count(rb, n) \in 0..n
         /\ Count(rb, n) = n <=> rb.full
         /\ Count(rb, n) = 0 <=> rb.empty
         /\ \A i \in 1..Count(rb, n) : Place(rb, n, i) \in 0..n - 1
<1>1. /\ rb.head \in 0..n - 1 /\ rb.tail \in 0..n - 1 /\ n \in Nat \ {0}
      /\ rb.full \in BOOLEAN /\ rb.empty \in BOOLEAN
      /\ rb.head = rb.tail <=> (rb.full \/ rb.empty)
      /\ ~(rb.full /\ rb.empty)
  BY RingFields
<1>2. CASE rb.full
  <2>1. Count(rb, n) = n
    BY <1>2 DEF Count
  <2>2. \A i \in 1..n : Place(rb, n, i) \in 0..n - 1
    BY <1>1 DEF Place
  <2> QED BY <1>1, <1>2, <2>1, <2>2
<1>3. CASE ~rb.full
  <2>1. Count(rb, n) = IF rb.head <= rb.tail THEN rb.tail - rb.head ELSE rb.tail + n - rb.head
    BY <1>3 DEF Count
  <2>2. /\ Count(rb, n) \in 0..n - 1
        /\ Count(rb, n) = 0 <=> rb.head = rb.tail
    BY <1>1, <2>1
  <2>3. \A i \in 1..n : Place(rb, n, i) \in 0..n - 1
    BY <1>1 DEF Place
  <2> QED BY <1>1, <1>3, <2>2, <2>3
<1> QED BY <1>2, <1>3

LEMMA ContentsType ==
  ASSUME NEW n \in Sizes, NEW rb \in Rings(n)
  PROVE  /\ Contents(rb, n) \in Seq(Nat)
         /\ Len(Contents(rb, n)) = Count(rb, n)
         /\ \A i \in 1..Count(rb, n) : Contents(rb, n)[i] = rb.buf[Place(rb, n, i)]
BY RingFields, CountBounds, SMTT(60), ZenonT(60) DEF Contents

\* Append and Tail, place by place.
LEMMA AppendIs ==
  ASSUME NEW s \in Seq(Nat), NEW v \in Nat, NEW r \in Seq(Nat), Len(r) = Len(s) + 1,
         \A i \in 1..Len(s) : r[i] = s[i], r[Len(s) + 1] = v
  PROVE  r = Append(s, v)
<1>1. Append(s, v) \in Seq(Nat) /\ Len(Append(s, v)) = Len(s) + 1
  OBVIOUS
<1>2. \A i \in 1..Len(s) + 1 : Append(s, v)[i] = r[i]
  OBVIOUS
<1> QED BY <1>1, <1>2

LEMMA TailIs ==
  ASSUME NEW s \in Seq(Nat), NEW r \in Seq(Nat), Len(s) > 0, Len(r) = Len(s) - 1,
         \A i \in 1..Len(s) - 1 : r[i] = s[i + 1]
  PROVE  s # << >> /\ r = Tail(s)
<1>1. Tail(s) \in Seq(Nat) /\ Len(Tail(s)) = Len(s) - 1 /\ s # << >>
  OBVIOUS
<1>2. \A i \in 1..Len(s) - 1 : Tail(s)[i] = r[i]
  OBVIOUS
<1>3. Tail(s) = r
  <2>1. Len(Tail(s)) = Len(r) /\ \A i \in 1..Len(Tail(s)) : Tail(s)[i] = r[i]
    BY <1>1, <1>2
  <2> QED BY <2>1, <1>1, SeqEqual, Zenon
<1> QED BY <1>1, <1>3

\* rb_init makes an empty ring buffer.
LEMMA FreshRingIs ==
  ASSUME NEW n \in Sizes
  PROVE  FreshRing(n) \in Rings(n) /\ Contents(FreshRing(n), n) = << >>
<1>1. FreshRing(n) \in Rings(n)
  BY IndexRangeAssumption DEF Sizes, Rings, FreshRing, NoChar
<1>2. Count(FreshRing(n), n) = 0
  BY <1>1, CountBounds DEF FreshRing
<1> QED BY <1>1, <1>2, ContentsType

----------------------------------------------------------------------------
\* rb_add, when it is not full, appends.
LEMMA RbAddAppends ==
  ASSUME NEW n \in Sizes, NEW rb \in Rings(n), NEW v \in Nat, ~rb.full
  PROVE  /\ RbAdd(rb, v) \in Rings(n)
         /\ Contents(RbAdd(rb, v), n) = Append(Contents(rb, n), v)
<1> DEFINE r == RbAdd(rb, v)
           t == IF rb.tail + 1 = n THEN 0 ELSE rb.tail + 1
           c == Count(rb, n)
           size == IF n = IndexRange THEN 0 ELSE n
           R == [buf : [0..n - 1 -> Nat], head : 0..n - 1, tail : 0..n - 1,
                 size : {size}, full : BOOLEAN, empty : BOOLEAN]
<1>1. NextPlace(rb, rb.tail) = t /\ t \in 0..n - 1
  BY RingFields, NextPlaceIs
<1>2. rb \in R /\ n \in Nat \ {0} /\ (rb.head = rb.tail <=> rb.empty)
  BY RingFields
<1> HIDE DEF t, size
<1>3. r = [rb EXCEPT !.buf[rb.tail] = v, !.tail = t, !.full = (t = rb.head) \/ rb.full,
                    !.empty = FALSE]
  BY <1>1 DEF RbAdd
<1> HIDE DEF r
<1>4. r \in R
  BY <1>1, <1>2, <1>3, Zenon
<1>5. r.head = rb.head /\ r.tail = t /\ r.buf = [rb.buf EXCEPT ![rb.tail] = v]
  BY <1>2, <1>3
<1>6. r.empty = FALSE /\ (r.full <=> t = rb.head)
  BY <1>2, <1>3, Zenon
<1>7. r \in Rings(n)
  <2>1. (r.head = r.tail <=> (r.full \/ r.empty)) /\ ~(r.full /\ r.empty)
    BY <1>5, <1>6
  <2> QED BY <1>4, <2>1 DEF Rings, size
<1>8. n \in Nat \ {0} /\ rb.head \in 0..n - 1 /\ rb.tail \in 0..n - 1
  BY <1>2
<1>13. rb.buf \in [0..n - 1 -> Nat]
  BY <1>2
<1> HIDE DEF R
<1>9. c \in 0..n - 1 /\ Count(r, n) = c + 1
  <2>1. c = IF rb.head <= rb.tail THEN rb.tail - rb.head ELSE rb.tail + n - rb.head
    BY DEF Count
  <2>2. c \in 0..n - 1
    BY <1>8, <2>1
  <2>3. CASE t = rb.head
    <3>1. c = n - 1
      BY <1>8, <2>1, <2>3 DEF t
    <3>2. Count(r, n) = n
      BY <1>6, <2>3 DEF Count
    <3> QED BY <1>8, <3>1, <3>2
  <2>4. CASE t # rb.head
    <3>1. Count(r, n) = IF rb.head <= t THEN t - rb.head ELSE t + n - rb.head
      BY <1>5, <1>6, <2>4 DEF Count
    <3> QED BY <1>8, <2>1, <2>2, <2>4, <3>1 DEF t
  <2> QED BY <2>2, <2>3, <2>4
<1>10. \A i \in 1..c + 1 : Place(r, n, i) = Place(rb, n, i)
  BY <1>5 DEF Place
<1>11. Place(rb, n, c + 1) = rb.tail
  BY <1>8 DEF Place, Count
<1>12. \A i \in 1..c : Place(rb, n, i) # rb.tail /\ Place(rb, n, i) \in 0..n - 1
  <2>1. c = IF rb.head <= rb.tail THEN rb.tail - rb.head ELSE rb.tail + n - rb.head
    BY DEF Count
  <2> HIDE DEF c
  <2> SUFFICES ASSUME NEW i \in 1..c
               PROVE  Place(rb, n, i) # rb.tail /\ Place(rb, n, i) \in 0..n - 1
    OBVIOUS
  <2>2. CASE rb.head + i - 1 < n
    <3>1. Place(rb, n, i) = rb.head + i - 1
      BY <2>2 DEF Place
    <3> QED BY <1>8, <1>9, <2>1, <2>2, <3>1
  <2>3. CASE ~(rb.head + i - 1 < n)
    <3>1. Place(rb, n, i) = rb.head + i - 1 - n
      BY <2>3 DEF Place
    <3> QED BY <1>8, <1>9, <2>1, <2>3, <3>1
  <2> QED BY <2>2, <2>3
<1> HIDE DEF c
<1>14. \A i \in 1..c : r.buf[Place(r, n, i)] = rb.buf[Place(rb, n, i)]
  BY <1>5, <1>8, <1>9, <1>10, <1>12, <1>13, SMTT(60), ZenonT(60)
<1>15. r.buf[Place(r, n, c + 1)] = v
  <2>1. Place(r, n, c + 1) = rb.tail
    BY <1>9, <1>10, <1>11
  <2> QED BY <1>5, <1>8, <1>13, <2>1
<1>16. /\ Contents(rb, n) \in Seq(Nat) /\ Len(Contents(rb, n)) = c
       /\ \A i \in 1..c : Contents(rb, n)[i] = rb.buf[Place(rb, n, i)]
  BY ContentsType DEF c
<1>17. /\ Contents(r, n) \in Seq(Nat) /\ Len(Contents(r, n)) = c + 1
       /\ \A i \in 1..c + 1 : Contents(r, n)[i] = r.buf[Place(r, n, i)]
  BY <1>7, <1>9, ContentsType
<1>18. \A i \in 1..c : Contents(r, n)[i] = Contents(rb, n)[i]
  BY <1>9, <1>14, <1>16, <1>17
<1>19. Contents(r, n)[c + 1] = v
  BY <1>9, <1>15, <1>17
<1> HIDE DEF Contents
<1>20. Contents(r, n) = Append(Contents(rb, n), v)
  BY <1>9, <1>16, <1>17, <1>18, <1>19, AppendIs
<1> QED BY <1>7, <1>20 DEF r

\* rb_del, when it is not empty, takes the first character.
LEMMA RbDelTakes ==
  ASSUME NEW n \in Sizes, NEW rb \in Rings(n), ~rb.empty
  PROVE  /\ RbDel(rb) \in Rings(n)
         /\ Contents(rb, n) # << >>
         /\ RbFirst(rb) = Head(Contents(rb, n)) /\ RbFirst(rb) \in Nat
         /\ Contents(RbDel(rb), n) = Tail(Contents(rb, n))
<1> DEFINE r == RbDel(rb)
           h == IF rb.head + 1 = n THEN 0 ELSE rb.head + 1
           c == Count(rb, n)
           size == IF n = IndexRange THEN 0 ELSE n
           R == [buf : [0..n - 1 -> Nat], head : 0..n - 1, tail : 0..n - 1,
                 size : {size}, full : BOOLEAN, empty : BOOLEAN]
<1>1. NextPlace(rb, rb.head) = h /\ h \in 0..n - 1
  BY RingFields, NextPlaceIs
<1>2. rb \in R /\ n \in Nat \ {0} /\ (rb.head = rb.tail <=> rb.full)
  BY RingFields
<1> HIDE DEF h, size
<1>3. r = [rb EXCEPT !.head = h, !.empty = (h = rb.tail) \/ rb.empty, !.full = FALSE]
  BY <1>1 DEF RbDel
<1> HIDE DEF r
<1>4. r \in R
  BY <1>1, <1>2, <1>3, Zenon
<1>5. r.head = h /\ r.tail = rb.tail /\ r.buf = rb.buf
  BY <1>2, <1>3
<1>6. r.full = FALSE /\ (r.empty <=> h = rb.tail)
  BY <1>2, <1>3, Zenon
<1>7. r \in Rings(n)
  <2>1. (r.head = r.tail <=> (r.full \/ r.empty)) /\ ~(r.full /\ r.empty)
    BY <1>5, <1>6
  <2> QED BY <1>4, <2>1 DEF Rings, size
<1>8. n \in Nat \ {0} /\ rb.head \in 0..n - 1 /\ rb.tail \in 0..n - 1 /\ rb.buf \in [0..n - 1 -> Nat]
  BY <1>2
<1> HIDE DEF R
<1>9. c \in 1..n /\ Count(r, n) = c - 1
  <2>1. Count(r, n) = IF h <= rb.tail THEN rb.tail - h ELSE rb.tail + n - h
    BY <1>5, <1>6 DEF Count
  <2>2. CASE rb.full
    <3>1. c = n /\ rb.head = rb.tail
      BY <1>2, <2>2 DEF Count
    <3> QED BY <1>8, <2>1, <3>1 DEF h
  <2>3. CASE ~rb.full
    <3>1. /\ c = IF rb.head <= rb.tail THEN rb.tail - rb.head ELSE rb.tail + n - rb.head
          /\ rb.head # rb.tail
      BY <1>2, <2>3 DEF Count
    <3>2. c \in 1..n
      BY <1>8, <3>1
    <3>3. CASE rb.head + 1 = n
      BY <1>8, <2>1, <3>1, <3>2, <3>3 DEF h
    <3>4. CASE rb.head + 1 # n
      <4>1. h = rb.head + 1
        BY <3>4 DEF h
      <4>2. CASE rb.head < rb.tail
        BY <1>8, <2>1, <3>1, <3>2, <4>1, <4>2, SMTT(60), ZenonT(60)
      <4>3. CASE rb.tail < rb.head
        BY <1>8, <2>1, <3>1, <3>2, <4>1, <4>3, SMTT(60), ZenonT(60)
      <4> QED BY <1>8, <3>1, <4>2, <4>3
    <3> QED BY <3>3, <3>4
  <2> QED BY <2>2, <2>3
<1> HIDE DEF c
<1>10. \A i \in 1..c - 1 : Place(r, n, i) = Place(rb, n, i + 1)
  <2> SUFFICES ASSUME NEW i \in 1..c - 1
               PROVE  Place(r, n, i) = Place(rb, n, i + 1)
    OBVIOUS
  <2>1. Place(r, n, i) = IF h + i - 1 < n THEN h + i - 1 ELSE h + i - 1 - n
    BY <1>5 DEF Place
  <2>2. Place(rb, n, i + 1) = IF rb.head + i < n THEN rb.head + i ELSE rb.head + i - n
    BY <1>8, <1>9 DEF Place
  <2>3. CASE rb.head + 1 = n
    <3>1. h = 0
      BY <2>3 DEF h
    <3>2. i \in Nat \ {0} /\ i - 1 < n /\ rb.head \in Nat /\ n \in Nat
      BY <1>8, <1>9
    <3>3. Place(r, n, i) = i - 1
      BY <2>1, <3>1, <3>2
    <3>4. ~(rb.head + i < n) /\ rb.head + i - n = i - 1
      BY <2>3, <3>2
    <3> QED BY <2>2, <3>3, <3>4
  <2>4. CASE rb.head + 1 # n
    <3>1. h = rb.head + 1
      BY <2>4 DEF h
    <3>2. i \in Nat /\ rb.head \in Nat /\ n \in Nat
      BY <1>8, <1>9
    <3>3. h + i - 1 = rb.head + i /\ h + i - 1 - n = rb.head + i - n
      BY <3>1, <3>2
    <3> QED BY <2>1, <2>2, <3>3
  <2> QED BY <2>3, <2>4
<1>11. Place(rb, n, 1) = rb.head
  BY <1>8 DEF Place
<1>12. /\ Contents(rb, n) \in Seq(Nat) /\ Len(Contents(rb, n)) = c
       /\ \A i \in 1..c : Contents(rb, n)[i] = rb.buf[Place(rb, n, i)]
  BY ContentsType DEF c
<1>13. /\ Contents(r, n) \in Seq(Nat) /\ Len(Contents(r, n)) = c - 1
       /\ \A i \in 1..c - 1 : Contents(r, n)[i] = r.buf[Place(r, n, i)]
  BY <1>7, <1>9, ContentsType
<1>14. \A i \in 1..c - 1 : Contents(r, n)[i] = Contents(rb, n)[i + 1]
  <2> HIDE DEF Contents
  <2> SUFFICES ASSUME NEW i \in 1..c - 1
               PROVE  Contents(r, n)[i] = Contents(rb, n)[i + 1]
    OBVIOUS
  <2>1. i + 1 \in 1..c
    BY <1>8, <1>9
  <2>2. Contents(r, n)[i] = rb.buf[Place(r, n, i)]
    BY <1>5, <1>13
  <2>3. Contents(rb, n)[i + 1] = rb.buf[Place(rb, n, i + 1)]
    BY <1>12, <2>1
  <2> QED BY <1>10, <2>2, <2>3
<1>15. Contents(rb, n) # << >> /\ Contents(r, n) = Tail(Contents(rb, n))
  <2> HIDE DEF Contents
  <2>1. Len(Contents(rb, n)) > 0 /\ Len(Contents(r, n)) = Len(Contents(rb, n)) - 1
    BY <1>8, <1>9, <1>12, <1>13
  <2>2. \A i \in 1..Len(Contents(rb, n)) - 1 : Contents(r, n)[i] = Contents(rb, n)[i + 1]
    BY <1>12, <1>14
  <2> QED BY <1>12, <1>13, <2>1, <2>2, TailIs
<1>16. RbFirst(rb) = Head(Contents(rb, n)) /\ RbFirst(rb) \in Nat
  <2>1. Contents(rb, n)[1] = rb.buf[rb.head]
    BY <1>9, <1>11, <1>12
  <2>2. PICK d : d = Contents(rb, n)
    OBVIOUS
  <2>3. d \in Seq(Nat) /\ d # << >>
    BY ONLY <1>12, <1>15, <2>2
  <2>4. Head(d) = d[1] /\ d[1] \in Nat
    BY ONLY <2>3
  <2> QED BY ONLY <2>1, <2>2, <2>4 DEF RbFirst
<1> QED BY <1>7, <1>15, <1>16 DEF r

\* rb_ll_flush empties it.
LEMMA RbFlushClears ==
  ASSUME NEW n \in Sizes, NEW rb \in Rings(n)
  PROVE  RbFlush(rb) \in Rings(n) /\ Contents(RbFlush(rb), n) = << >>
<1>1. RbFlush(rb) \in Rings(n)
  BY RingFields, IndexRangeAssumption, Zenon DEF Rings, RbFlush
<1>2. RbFlush(rb).empty
  BY RingFields DEF RbFlush
<1>3. Count(RbFlush(rb), n) = 0
  BY <1>1, <1>2, CountBounds
<1> QED BY <1>1, <1>3, ContentsType

----------------------------------------------------------------------------
\* Copies of characters between buffers of BufSize characters.

LEMMA EmptyFits == << >> \in Buffers
BY SizesAssumption DEF Buffers

LEMMA ReadFits ==
  ASSUME NEW s \in Buffers, Len(s) < BufSize, NEW v \in Nat
  PROVE  Append(s, v) \in Buffers /\ Len(Append(s, v)) > 0
BY SizesAssumption DEF Buffers

LEMMA RestFits ==
  ASSUME NEW s \in Buffers, s # << >>
  PROVE  Tail(s) \in Buffers /\ Head(s) \in Nat
BY SizesAssumption DEF Buffers

LEMMA TakenFits ==
  ASSUME NEW s \in Buffers, NEW n \in 0..BufSize, n <= Len(s)
  PROVE  SubSeq(s, 1, n) \in Buffers /\ Len(SubSeq(s, 1, n)) = n
<1>1. Len(s) \in Nat /\ s \in Seq(Nat)
  BY DEF Buffers
<1>2. n \in Nat /\ n <= BufSize /\ \A i \in 1..n : s[i] \in Nat
  BY <1>1, SizesAssumption
<1>3. SubSeq(s, 1, n) \in Seq(Nat) /\ Len(SubSeq(s, 1, n)) = n
  BY <1>1, <1>2, SubSeqProperties
<1> QED BY <1>2, <1>3 DEF Buffers

LEMMA CopiedFits ==
  ASSUME NEW s \in Buffers, NEW p \in Buffers
  PROVE  LET c == p \o SubSeq(s, Len(p) + 1, Len(s))
         IN c \in Buffers /\ Len(p) <= Len(c) /\ Len(s) <= Len(c)
<1> DEFINE rest == SubSeq(s, Len(p) + 1, Len(s))
<1>1. s \in Seq(Nat) /\ p \in Seq(Nat) /\ Len(s) \in Nat /\ Len(p) \in Nat
  BY DEF Buffers
<1>2. Len(s) <= BufSize /\ Len(p) <= BufSize /\ BufSize \in Nat
  BY SizesAssumption DEF Buffers
<1>3. rest \in Seq(Nat) /\ Len(rest) = IF Len(s) > Len(p) THEN Len(s) - Len(p) ELSE 0
  BY <1>1, SubSeqProperties
<1> HIDE DEF rest
<1>4. p \o rest \in Seq(Nat) /\ Len(p \o rest) = Len(p) + Len(rest)
  BY <1>1, <1>3, ConcatProperties, Zenon
<1>5. /\ Len(p \o rest) <= BufSize
      /\ Len(p) <= Len(p \o rest) /\ Len(s) <= Len(p \o rest)
  BY <1>1, <1>2, <1>3, <1>4
<1> QED BY <1>4, <1>5 DEF Buffers, rest

----------------------------------------------------------------------------
\* What the steps of the USART driver and of the application's calls of it keep.

LEMMA InitTypes == Init => SerialTypeOK
<1> SUFFICES ASSUME NEW s \in SerialScenarios,
                    a2h = FreshRing(A2hSize), h2a = FreshRing(H2aSize),
                    uart = FreshUart, um = FreshUm,
                    thr = [t \in Threads |-> [pc |-> "conn", buf |-> << >>]],
                    flags = FreshFlags,
                    dev = [state |-> "UNCONNECTED", input |-> << >>, coding |-> DefaultCoding],
                    ep = FreshEp,
                    cm = [pc |-> "wait", saw |-> FreshFlags, len |-> 0, txeie |-> FALSE],
                    host = [plan |-> s.plan, sizes |-> s.sizes, frames |-> s.frames,
                            noise |-> s.noise, typed |-> 0, came |-> 0, hungup |-> FALSE]
             PROVE  SerialTypeOK
  BY DEF Init
<1>1. RingsOK
  BY SizesAssumption, FreshRingIs DEF RingsOK, Sizes
<1>2. UartOK /\ UmOK
  BY DEF UartOK, UmOK, FreshUart, FreshUm, NoChar
<1>3. ThreadsOK
  BY EmptyFits DEF ThreadsOK
<1>4. HostOK
  BY ScenariosAssumption DEF HostOK
<1>5. PortOK
  <2>1. FreshFlags \in FlagWords
    BY SizesAssumption DEF FlagWords, FreshFlags
  <2>2. dev \in Devices
    BY EmptyFits DEF Devices, AnyCoding
  <2>3. ep \in Endpoints
    BY DEF Endpoints, FreshEp
  <2>4. cm \in Handlers
    BY <2>1, SizesAssumption DEF Handlers
  <2> QED BY <2>1, <2>2, <2>3, <2>4 DEF PortOK, FreshFlags
<1> QED BY <1>1, <1>2, <1>3, <1>4, <1>5 DEF SerialTypeOK

LEMMA LineTypes ==
  ASSUME UartOK, HostOK
  PROVE  /\ LineOut \/ BreakSent => UartOK'
         /\ FrameComes => UartOK' /\ HostOK'
<1> USE DEF UartOK
<1>1. LineOut \/ BreakSent => UartOK'
  <2>1. CASE LineOut
    BY <2>1 DEF LineOut, NoChar
  <2>2. CASE BreakSent
    BY <2>2, Zenon DEF BreakSent
  <2> QED BY <2>1, <2>2
<1>2. ASSUME FrameComes PROVE UartOK' /\ HostOK'
  <2>1. host.came + 1 \in Nat /\ host.noise \in BOOLEAN /\ HostOK'
    BY <1>2, SMTT(60), ZenonT(60) DEF HostOK, FrameComes
  <2>2. PICK bad \in {FALSE, host.noise} : LineIn(host.came + 1, bad)
    BY <1>2, Zenon DEF FrameComes
  <2> QED BY <2>1, <2>2, Zenon DEF LineIn
<1> QED BY <1>1, <1>2

\* The control register CR1 and what usart_config makes of a line coding.
LEMMA ConfigTypes ==
  ASSUME UartOK, PortOK
  PROVE  /\ Disabled => UartOK'
         /\ \A coding \in AnyCoding : Enabled(SetupConfig(coding)) => UartOK'
         /\ \A txeie \in BOOLEAN : SetBreak(txeie) => UartOK'
<1> USE DEF UartOK
<1>1. Disabled => UartOK'
  BY Zenon DEF Disabled
<1>2. ASSUME NEW coding \in AnyCoding, Enabled(SetupConfig(coding)) PROVE UartOK'
  <2> DEFINE frame == UsartConfig(SetupConfig(coding))
  <2>1. frame \in {UsartConfig(SetupConfig(c)) : c \in AnyCoding} \cup {NoFrame}
    OBVIOUS
  <2>2. \/ uart' = uart
        \/ uart' = [uart EXCEPT !.ue = TRUE, !.txeie = FALSE, !.frame = frame]
    BY <1>2, Zenon DEF Enabled
  <2> HIDE DEF frame
  <2> QED BY <2>1, <2>2, Zenon
<1>3. \A txeie \in BOOLEAN : SetBreak(txeie) => UartOK'
  BY Zenon DEF SetBreak
<1> QED BY <1>1, <1>2, <1>3

\* usart_main: the variables that are not of the driver stay.
LEMMA DriverTypes ==
  ASSUME SerialTypeOK, Um
  PROVE  SerialTypeOK'
<1> USE DEF RingsOK, UartOK, UmOK
<1>1. RingsOK /\ UartOK /\ UmOK /\ ThreadsOK /\ HostOK /\ PortOK
  BY DEF SerialTypeOK
<1>2. HostOK' /\ PortOK'
  BY <1>1 DEF Um, port, HostOK, PortOK
<1>3. ThreadsOK'
  <2>1. thr' = thr
    BY Zenon DEF Um, UmPoll, UmInterrupt, UmStatus, UmData, UmPut, UmWrite, UmCheck
  <2> QED BY <1>1, <2>1 DEF ThreadsOK
<1>4. RingsOK' /\ UartOK' /\ UmOK'
  <2>1. CASE UmPoll
    BY <1>1, <2>1, SMTT(60), ZenonT(60) DEF UmPoll, Interrupted
  <2>2. CASE UmInterrupt
    BY <1>1, <2>2, Zenon DEF UmInterrupt
  <2>3. CASE UmStatus
    <3>1. a2h' = a2h /\ h2a' = h2a /\ UartOK'
      BY <1>1, <2>3, SMTT(60), ZenonT(60) DEF UmStatus
    <3>2. UmOK'
      <4>1. PICK intr \in BOOLEAN :
              IF intr
              THEN um' = [um EXCEPT !.txready = TXE, !.rxne = (uart.rdr # NoChar),
                                    !.bad = uart.bad, !.ore = uart.ore, !.notify = FALSE,
                                    !.pc = IF uart.rdr # NoChar \/ uart.ore THEN "data"
                                           ELSE Onward(FALSE, TXE)]
              ELSE um' = [um EXCEPT !.pc = Onward(FALSE, um.txready)]
        BY <1>1, <2>3, Zenon DEF UmStatus
      <4>2. TXE \in BOOLEAN /\ (uart.rdr # NoChar) \in BOOLEAN /\ uart.bad \in BOOLEAN
            /\ uart.ore \in BOOLEAN
        BY <1>1 DEF TXE
      <4>3. \A w \in BOOLEAN : Onward(FALSE, w) \in {"write", "poll"}
        BY DEF Onward
      <4>4. CASE intr
        <5> DEFINE tx == TXE
                   rxne == uart.rdr # NoChar
                   next == IF uart.rdr # NoChar \/ uart.ore THEN "data" ELSE Onward(FALSE, TXE)
        <5>1. um' = [um EXCEPT !.txready = tx, !.rxne = rxne, !.bad = uart.bad,
                               !.ore = uart.ore, !.notify = FALSE, !.pc = next]
          BY <4>1, <4>4
        <5>2. tx \in BOOLEAN /\ rxne \in BOOLEAN /\ next \in {"data", "write", "poll"}
          BY <4>2, <4>3, Zenon
        <5> HIDE DEF tx, rxne, next
        <5> QED BY <1>1, <4>2, <5>1, <5>2, SMTT(60), ZenonT(60)
      <4>5. CASE ~intr
        <5>1. um' = [um EXCEPT !.pc = Onward(FALSE, um.txready)] /\ um.txready \in BOOLEAN
          BY <1>1, <4>1, <4>5, Zenon
        <5> QED BY <1>1, <4>3, <5>1, Zenon
      <4> QED BY <4>4, <4>5
    <3> QED BY <1>1, <3>1, <3>2
  <2>4. CASE UmData
    <3>1. a2h' = a2h /\ h2a' = h2a /\ UartOK'
      <4> DEFINE ore == uart.ore /\ ~um.ore
      <4>1. uart' = [uart EXCEPT !.rdr = NoChar, !.bad = FALSE, !.ore = ore]
            /\ a2h' = a2h /\ h2a' = h2a
        BY <2>4 DEF UmData
      <4>2. ore \in BOOLEAN /\ NoChar \in Nat
        BY DEF NoChar
      <4> HIDE DEF ore
      <4> QED BY <1>1, <4>1, <4>2, Zenon
    <3>2. UmOK'
      <4>1. PICK notice \in BOOLEAN :
              LET good    == um.rxne /\ ~um.bad
                  overrun == um.ore /\ (good \/ ~um.rxne)
              IN um' = [um EXCEPT !.ch = IF good THEN uart.rdr ELSE NoChar,
                                  !.notify = overrun \/ notice,
                                  !.pc = IF good THEN "put" ELSE Onward(overrun \/ notice, um.txready)]
        BY <2>4, Zenon DEF UmData
      <4>2. \A n, w \in BOOLEAN : Onward(n, w) \in {"notify", "write", "poll"}
        BY DEF Onward
      <4>3. uart.rdr \in Nat /\ NoChar \in Nat /\ um.txready \in BOOLEAN /\ um.rxne \in BOOLEAN
            /\ um.bad \in BOOLEAN /\ um.ore \in BOOLEAN
        BY <1>1 DEF NoChar
      <4> HIDE DEF UartOK
      <4> QED BY <1>1, <4>1, <4>2, <4>3, SMTT(60), ZenonT(60)
    <3> QED BY <1>1, <3>1, <3>2
  <2>5. CASE UmPut
    <3>1. UmOK' /\ uart' = uart /\ a2h' = a2h
      BY <1>1, <2>5, Zenon DEF UmPut, Onward, NoChar
    <3>2. h2a' \in Rings(H2aSize)
      BY <1>1, <2>5, SizesAssumption, RbAddAppends DEF UmPut, Sizes
    <3> QED BY <1>1, <3>1, <3>2
  <2>6. CASE UmWrite
    <3>1. UmOK' /\ h2a' = h2a
      BY <1>1, <2>6 DEF UmWrite
    <3>2. a2h' \in Rings(A2hSize)
      BY <1>1, <2>6, SizesAssumption, RbDelTakes DEF UmWrite, Sizes
    <3>3. UartOK'
      <4>1. CASE a2h.empty
        BY <1>1, <2>6, <4>1 DEF UmWrite
      <4>2. CASE ~a2h.empty
        <5>1. RbFirst(a2h) \in Nat
          BY <1>1, <4>2, SizesAssumption, RbDelTakes DEF Sizes
        <5> QED BY <1>1, <2>6, <4>2, <5>1 DEF UmWrite
      <4> QED BY <4>1, <4>2
    <3> QED BY <1>1, <3>1, <3>2, <3>3
  <2>7. CASE UmCheck
    BY <1>1, <2>7, Zenon DEF UmCheck, TXE
  <2> QED BY <2>1, <2>2, <2>3, <2>4, <2>5, <2>6, <2>7 DEF Um
<1> QED BY <1>2, <1>3, <1>4 DEF SerialTypeOK

----------------------------------------------------------------------------
\* What the steps of the two carrying threads keep.

\* One thread goes on: what has to be shown of ThreadsOK is about it alone.
LEMMA OneThread ==
  ASSUME ThreadsOK, NEW t \in Threads, NEW pc, NEW buf, thr' = [thr EXCEPT ![t] = [pc |-> pc, buf |-> buf]],
         pc \in {"conn", "flush_in", "flush_out", "delay", "read", "reading",
                "recv", "take", "write", "writing", "send"},
         buf \in Buffers,
         pc \notin {"reading", "write", "writing", "send"} => buf = << >>,
         pc = "reading" => Len(buf) < BufSize
  PROVE  ThreadsOK'
<1> DEFINE T == [pc : {"conn", "flush_in", "flush_out", "delay", "read", "reading",
                       "recv", "take", "write", "writing", "send"}, buf : Buffers]
<1>1. thr \in [Threads -> T] /\ [pc |-> pc, buf |-> buf] \in T
  BY DEF ThreadsOK
<1>2. thr' \in [Threads -> T]
  BY <1>1
<1>3. ASSUME NEW u \in Threads
      PROVE  /\ thr'[u].pc \notin {"reading", "write", "writing", "send"} => thr'[u].buf = << >>
             /\ thr'[u].pc = "reading" => Len(thr'[u].buf) < BufSize
  <2>1. CASE u = t
    BY <1>1, <2>1
  <2>2. CASE u # t
    BY <1>1, <2>2 DEF ThreadsOK
  <2> QED BY <2>1, <2>2
<1> QED BY <1>2, <1>3 DEF ThreadsOK, Buffers

\* The same when only its pc changes.
LEMMA OnePc ==
  ASSUME ThreadsOK, NEW t \in Threads, NEW pc, thr' = [thr EXCEPT ![t].pc = pc],
         pc \in {"conn", "flush_in", "flush_out", "delay", "read", "recv", "take", "write", "writing", "send"},
         pc \notin {"write", "writing", "send"} => thr[t].buf = << >>
  PROVE  ThreadsOK'
<1>1. thr[t].buf \in Buffers /\ thr[t] \in [pc : {"conn", "flush_in", "flush_out", "delay", "read",
         "reading", "recv", "take", "write", "writing", "send"}, buf : Buffers]
  BY DEF ThreadsOK
<1>2. [thr[t] EXCEPT !.pc = pc] = [pc |-> pc, buf |-> thr[t].buf]
  BY <1>1
<1>3. thr' = [thr EXCEPT ![t] = [pc |-> pc, buf |-> thr[t].buf]]
  BY <1>2, Zenon
<1>4. /\ pc \in {"conn", "flush_in", "flush_out", "delay", "read", "reading",
                "recv", "take", "write", "writing", "send"}
      /\ pc \notin {"reading", "write", "writing", "send"} => thr[t].buf = << >>
      /\ pc # "reading"
  OBVIOUS
<1> HIDE DEF ThreadsOK
<1> QED BY <1>1, <1>3, <1>4, OneThread, Zenon

LEMMA CarryTypes ==
  ASSUME SerialTypeOK, NEW t \in Threads, Carry(t)
  PROVE  SerialTypeOK'
<1>1. RingsOK /\ UartOK /\ UmOK /\ ThreadsOK /\ HostOK /\ PortOK
  BY DEF SerialTypeOK
<1>2. HostOK' /\ PortOK'
  BY <1>1 DEF Carry, port, HostOK, PortOK
<1>3. UartOK'
  BY <1>1 DEF Carry, RbRead, RbWrite, FlushIn, FlushOut, UartOK
<1>4. UmOK'
  <2>1. CASE um' = um
    BY <1>1, <2>1 DEF UmOK
  <2>2. CASE um' = WriteEvent(um)
    BY <1>1, <2>2, Zenon DEF UmOK, WriteEvent
  <2> QED BY <2>1, <2>2 DEF Carry, RbRead, RbWrite, FlushIn, FlushOut
<1>5. a2h \in Rings(A2hSize) /\ h2a \in Rings(H2aSize) /\ A2hSize \in Sizes /\ H2aSize \in Sizes
  BY <1>1, SizesAssumption DEF RingsOK, Sizes
<1>6. thr[t].buf \in Buffers
  BY <1>1 DEF ThreadsOK
<1>7. RingsOK' /\ ThreadsOK'
  <2>1. CASE RbRead(t)
    <3>1. CASE h2a.empty
      BY <1>1, <2>1, <3>1 DEF RbRead, RingsOK, ThreadsOK
    <3>2. CASE ~h2a.empty
      <4> DEFINE got == Append(thr[t].buf, RbFirst(h2a))
                 pc == IF RbDel(h2a).empty \/ Len(got) = BufSize THEN "send" ELSE "reading"
      <4>1. RbFirst(h2a) \in Nat /\ RbDel(h2a) \in Rings(H2aSize)
        BY <1>5, <3>2, RbDelTakes
      <4>2. Len(thr[t].buf) < BufSize
        <5>1. thr[t].pc = "reading" \/ thr[t].buf = << >>
          BY <1>1, <2>1 DEF RbRead, ThreadsOK
        <5> QED BY <1>1, <5>1, SizesAssumption DEF ThreadsOK
      <4>3. got \in Buffers
        BY <1>6, <4>1, <4>2, ReadFits
      <4>4. thr' = [thr EXCEPT ![t] = [pc |-> pc, buf |-> got]]
        BY <2>1, <3>2 DEF RbRead
      <4>5. pc \in {"send", "reading"} /\ (pc = "reading" => Len(got) < BufSize)
        <5>1. pc \in {"send", "reading"} /\ (pc = "reading" => Len(got) # BufSize)
          OBVIOUS
        <5> HIDE DEF got, pc
        <5>2. Len(got) \in Nat /\ Len(got) <= BufSize /\ BufSize \in Nat
          BY <4>3, SizesAssumption DEF Buffers
        <5> QED BY <5>1, <5>2
      <4> HIDE DEF got, pc
      <4>6. ThreadsOK'
        BY <1>1, <4>3, <4>4, <4>5, OneThread, Zenon
      <4> QED BY <1>5, <2>1, <3>2, <4>1, <4>6 DEF RbRead, RingsOK
    <3> QED BY <3>1, <3>2
  <2>2. CASE RbWrite(t)
    <3>1. CASE a2h.full
      <4>1. thr' = [thr EXCEPT ![t].pc = "write"]
        BY <2>2, <3>1 DEF RbWrite
      <4>2. ThreadsOK'
        BY <1>1, <4>1, OnePc, Zenon
      <4> QED BY <1>1, <2>2, <3>1, <4>2 DEF RbWrite, RingsOK
    <3>2. CASE ~a2h.full
      <4> DEFINE rest == Tail(thr[t].buf)
                 pc == IF rest = << >> THEN "recv" ELSE "writing"
      <4>1. thr[t].buf # << >> /\ thr' = [thr EXCEPT ![t] = [pc |-> pc, buf |-> rest]]
        BY <2>2, <3>2 DEF RbWrite
      <4>2. rest \in Buffers /\ Head(thr[t].buf) \in Nat
        BY <1>6, <4>1, RestFits
      <4>3. pc \in {"recv", "writing"} /\ (pc = "recv" => rest = << >>)
        OBVIOUS
      <4> HIDE DEF rest, pc
      <4>5. ThreadsOK'
        BY <1>1, <4>1, <4>2, <4>3, OneThread, Zenon
      <4>6. RbAdd(a2h, Head(thr[t].buf)) \in Rings(A2hSize)
        BY <1>5, <3>2, <4>2, RbAddAppends
      <4> QED BY <1>5, <2>2, <3>2, <4>5, <4>6 DEF RbWrite, RingsOK
    <3> QED BY <3>1, <3>2
  <2>3. CASE FlushIn(t)
    <3>1. thr' = [thr EXCEPT ![t].pc = "flush_out"] /\ thr[t].buf = << >>
      BY <1>1, <2>3 DEF FlushIn, ThreadsOK
    <3>2. ThreadsOK'
      BY <1>1, <3>1, OnePc, Zenon
    <3> QED BY <1>5, <2>3, <3>2, RbFlushClears DEF FlushIn, RingsOK
  <2>4. CASE FlushOut(t)
    <3>1. thr' = [thr EXCEPT ![t].pc = "delay"] /\ thr[t].buf = << >>
      BY <1>1, <2>4 DEF FlushOut, ThreadsOK
    <3>2. ThreadsOK'
      BY <1>1, <3>1, OnePc, Zenon
    <3> QED BY <1>5, <2>4, <3>2, RbFlushClears DEF FlushOut, RingsOK
  <2> QED BY <2>1, <2>2, <2>3, <2>4 DEF Carry
<1> QED BY <1>2, <1>3, <1>4, <1>7 DEF SerialTypeOK

\* The flags and the endpoints change, input[] and cdc_main do not.
LEMMA PortStep ==
  ASSUME PortOK, dev' = dev, cm' = cm, flags' \in FlagWords, ep' \in Endpoints,
         flags'.avail => flags'.len <= Len(dev.input), cm.pc = "rx" => ep'.rx # << >>
  PROVE  PortOK'
BY DEF PortOK, FlagWords, Devices, Endpoints, Handlers, Buffers, AnyCoding

\* The input taken over from struct cdc.
LEMMA InputFits ==
  ASSUME PortOK
  PROVE  Input \in Buffers /\ (flags.len = 0 => Input = << >>)
<1>1. flags.len \in 0..BufSize /\ flags.avail \in BOOLEAN /\ dev.input \in Buffers
  BY DEF PortOK, FlagWords, Devices
<1>2. CASE flags.avail
  <2>1. Input = SubSeq(dev.input, 1, flags.len) /\ flags.len <= Len(dev.input)
    BY <1>2, Zenon DEF Input, PortOK
  <2>2. Input \in Buffers /\ Len(Input) = flags.len
    BY <1>1, <2>1, TakenFits
  <2> QED BY <2>2 DEF Buffers
<1>3. CASE ~flags.avail
  BY <1>3, EmptyFits DEF Input
<1> QED BY <1>2, <1>3

LEMMA CdcTypes ==
  ASSUME SerialTypeOK,
         (\E t \in Threads : WaitConnection(t) \/ Delay(t) \/ Send(t)) \/ Recv \/ Take \/ TimeOut
  PROVE  SerialTypeOK'
<1>1. RingsOK /\ UartOK /\ UmOK /\ ThreadsOK /\ HostOK /\ PortOK
  BY DEF SerialTypeOK
<1>2. RingsOK' /\ UartOK' /\ UmOK' /\ HostOK' /\ dev' = dev /\ cm' = cm
  <2>1. UNCHANGED << usart, host, dev, cm >>
    BY Zenon DEF WaitConnection, Delay, Send, Recv, Take, TimeOut, port
  <2> QED BY <1>1, <2>1 DEF usart, RingsOK, UartOK, UmOK, HostOK
<1>3. ThreadsOK' /\ PortOK'
  <2>1. ASSUME NEW t \in Threads, WaitConnection(t) PROVE ThreadsOK' /\ PortOK'
    <3>1. PortOK'
      <4>1. CASE ~flags.conn
        BY <1>1, <1>2, <2>1, <4>1, PortStep DEF WaitConnection, PortOK
      <4>2. CASE flags.conn
        <5>1. /\ flags' = [flags EXCEPT !.ready = TRUE, !.avail = FALSE, !.len = 0]
              /\ ep' = [ep EXCEPT !.armed = TRUE]
          BY <2>1, <4>2 DEF WaitConnection
        <5>2. flags' \in FlagWords /\ ~flags'.avail
          <6>1. flags \in FlagWords /\ 0 \in 0..BufSize
            BY <1>1, SizesAssumption DEF PortOK
          <6> QED BY <5>1, <6>1, Zenon DEF FlagWords
        <5>3. ep' \in Endpoints /\ (cm.pc = "rx" => ep'.rx # << >>)
          BY <1>1, <5>1, Zenon DEF PortOK, Endpoints
        <5> QED BY <1>1, <1>2, <5>2, <5>3, PortStep
      <4> QED BY <4>1, <4>2
    <3>2. CASE thr' = thr
      BY <1>1, <3>1, <3>2 DEF ThreadsOK
    <3>3. CASE thr' = [thr EXCEPT ![t].pc = "flush_in"]
      <4>1. thr[t].buf = << >>
        BY <1>1, <2>1 DEF WaitConnection, ThreadsOK
      <4> QED BY <1>1, <3>1, <3>3, <4>1, OnePc, Zenon
    <3> QED BY <2>1, <3>2, <3>3 DEF WaitConnection
  <2>2. ASSUME NEW t \in Threads, Delay(t) PROVE ThreadsOK' /\ PortOK'
    <3>1. PortOK'
      BY <1>1, <2>2 DEF Delay, port, PortOK
    <3>2. thr[t].buf = << >> /\ thr' = [thr EXCEPT ![t].pc = IF t = "c2u" THEN "send" ELSE "read"]
      BY <1>1, <2>2 DEF Delay, ThreadsOK
    <3> QED BY <1>1, <3>1, <3>2, OnePc, Zenon
  <2>3. ASSUME NEW t \in Threads, Send(t) PROVE ThreadsOK' /\ PortOK'
    <3>1. CASE thr' = thr /\ flags' = flags /\ ep' = ep
      BY <1>1, <1>2, <3>1 DEF ThreadsOK, PortOK
    <3>2. CASE Sent(t, 1) \/ Sent(t, -1)
      <4>1. PICK pc \in {"send", "recv", "read", "conn"} :
              thr' = [thr EXCEPT ![t] = [buf |-> << >>, pc |-> pc]]
        <5>1. ASSUME NEW r \in {1, -1}, Sent(t, r)
              PROVE  \E pc \in {"send", "recv", "read", "conn"} :
                       thr' = [thr EXCEPT ![t] = [buf |-> << >>, pc |-> pc]]
          <6> DEFINE pc == CASE Len(thr[t].buf) = BufSize -> "send"
                             [] Len(thr[t].buf) < BufSize /\ t = "c2u" -> "recv"
                             [] OTHER -> IF r > 0 THEN "read" ELSE "conn"
          <6>1. thr' = [thr EXCEPT ![t] = [buf |-> << >>, pc |-> pc]]
            BY <5>1 DEF Sent
          <6>2. pc \in {"send", "recv", "read", "conn"}
            <7>1. CASE Len(thr[t].buf) = BufSize
              <8>1. ~(Len(thr[t].buf) < BufSize)
                BY <7>1, SizesAssumption
              <8> QED BY <7>1, <8>1
            <7>2. CASE Len(thr[t].buf) # BufSize
              BY <7>2
            <7> QED BY <7>1, <7>2
          <6> HIDE DEF pc
          <6> QED BY <6>1, <6>2, Zenon
        <5> QED BY <3>2, <5>1
      <4>2. ThreadsOK'
        BY <1>1, <4>1, EmptyFits, OneThread, Zenon
      <4>3. << thr[t].buf >> \in Seq(Buffers)
        BY <1>1 DEF ThreadsOK
      <4>4. /\ flags' = flags \/ flags' = [flags EXCEPT !.ready = FALSE]
            /\ ep' = ep \/ ep' = [ep EXCEPT !.tx = << thr[t].buf >>]
        BY <2>3, Zenon DEF Send
      <4>5. flags' \in FlagWords /\ flags'.len = flags.len /\ flags'.avail = flags.avail
        BY <1>1, <4>4, Zenon DEF PortOK, FlagWords
      <4>6. ep' \in Endpoints /\ (cm.pc = "rx" => ep'.rx # << >>)
        BY <1>1, <4>3, <4>4, Zenon DEF PortOK, Endpoints
      <4>7. PortOK'
        BY <1>1, <1>2, <4>5, <4>6, PortStep DEF PortOK
      <4> QED BY <4>2, <4>7
    <3> QED BY <2>3, <3>1, <3>2, Zenon DEF Send
  <2>4. ASSUME Recv PROVE ThreadsOK' /\ PortOK'
    <3>1. PortOK'
      BY <1>1, <2>4 DEF Recv, port, PortOK
    <3>2. "c2u" \in Threads /\ thr["c2u"].pc = "recv"
      BY <2>4 DEF Recv, Threads
    <3>3. thr["c2u"].buf = << >>
      BY <1>1, <3>2 DEF ThreadsOK
    <3>4. thr' = thr \/ thr' = [thr EXCEPT !["c2u"].pc = "take"]
      BY <2>4 DEF Recv
    <3>5. CASE thr' = thr
      BY <1>1, <3>1, <3>5 DEF ThreadsOK
    <3>6. CASE thr' = [thr EXCEPT !["c2u"].pc = "take"]
      BY <1>1, <3>1, <3>2, <3>3, <3>6, OnePc, Zenon
    <3> QED BY <3>4, <3>5, <3>6
  <2>5. ASSUME Take PROVE ThreadsOK' /\ PortOK'
    <3>1. PortOK'
      <4>1. CASE flags' = flags /\ ep' = ep
        BY <1>1, <1>2, <4>1, PortStep DEF PortOK
      <4>2. CASE /\ flags' = [flags EXCEPT !.avail = FALSE, !.len = 0]
                 /\ ep' = [ep EXCEPT !.armed = TRUE]
        <5>1. flags' \in FlagWords /\ ~flags'.avail
          <6>1. flags \in FlagWords /\ 0 \in 0..BufSize
            BY <1>1, SizesAssumption DEF PortOK
          <6> QED BY <4>2, <6>1, Zenon DEF FlagWords
        <5>2. ep' \in Endpoints /\ (cm.pc = "rx" => ep'.rx # << >>)
          BY <1>1, <4>2, Zenon DEF PortOK, Endpoints
        <5> QED BY <1>1, <1>2, <5>1, <5>2, PortStep
      <4> QED BY <2>5, <4>1, <4>2 DEF Take
    <3>2. "c2u" \in Threads /\ thr["c2u"].pc = "take"
      BY <2>5 DEF Take, Threads
    <3>3. thr["c2u"].buf = << >>
      BY <1>1, <3>2 DEF ThreadsOK
    <3>4. CASE flags.conn /\ flags.avail
      <4> DEFINE pc == IF flags.len > 0 THEN "write" ELSE "recv"
      <4>1. thr' = [thr EXCEPT !["c2u"] = [pc |-> pc, buf |-> Input]]
        BY <2>5, <3>4 DEF Take
      <4>2. flags.len \in Nat
        BY <1>1, SizesAssumption DEF PortOK, FlagWords
      <4>3. pc \in {"write", "recv"} /\ (pc = "recv" => Input = << >>) /\ Input \in Buffers
        BY <1>1, <4>2, InputFits
      <4> HIDE DEF pc
      <4> QED BY <1>1, <3>1, <3>2, <4>1, <4>3, OneThread, Zenon
    <3>5. CASE ~(flags.conn /\ flags.avail)
      <4>1. thr' = [thr EXCEPT !["c2u"].pc = IF flags.conn THEN "recv" ELSE "conn"]
        BY <2>5, <3>5 DEF Take
      <4> QED BY <1>1, <3>1, <3>2, <3>3, <4>1, OnePc, Zenon
    <3> QED BY <3>4, <3>5
  <2>6. ASSUME TimeOut PROVE ThreadsOK' /\ PortOK'
    <3>1. PortOK'
      BY <1>1, <2>6 DEF TimeOut, port, PortOK
    <3>2. PICK i \in DOMAIN slept :
            thr' = IF thr[slept[i].t].pc = "recv" THEN [thr EXCEPT ![slept[i].t].pc = "take"]
                   ELSE thr
      BY <2>6, Zenon DEF TimeOut
    <3>3. CASE thr' = thr
      BY <1>1, <3>1, <3>3 DEF ThreadsOK
    <3>4. CASE slept[i].t \notin Threads
      <4>1. [thr EXCEPT ![slept[i].t].pc = "take"] = thr
        BY <1>1, <3>4 DEF ThreadsOK
      <4> QED BY <3>2, <3>3, <4>1
    <3>5. CASE /\ slept[i].t \in Threads /\ thr[slept[i].t].pc = "recv"
               /\ thr' = [thr EXCEPT ![slept[i].t].pc = "take"]
      <4>1. thr[slept[i].t].buf = << >>
        BY <1>1, <3>5 DEF ThreadsOK
      <4> QED BY <1>1, <3>1, <3>5, <4>1, OnePc, Zenon
    <3> QED BY <3>2, <3>3, <3>4, <3>5
  <2> QED BY <2>1, <2>2, <2>3, <2>4, <2>5, <2>6
<1> QED BY <1>2, <1>3 DEF SerialTypeOK

----------------------------------------------------------------------------
\* What the host's steps, and those of main and of cdc_ss_notify, keep.

LEMMA HeadAndTail ==
  ASSUME NEW S, NEW s \in Seq(S), s # << >>
  PROVE  Head(s) \in S /\ Tail(s) \in Seq(S)
OBVIOUS

LEMMA HostTypes ==
  ASSUME SerialTypeOK, Host
  PROVE  SerialTypeOK'
<1>1. RingsOK /\ UartOK /\ UmOK /\ ThreadsOK /\ HostOK /\ PortOK
  BY DEF SerialTypeOK
<1>2. RingsOK' /\ UartOK' /\ UmOK' /\ ThreadsOK' /\ flags' = flags /\ dev' = dev /\ cm' = cm
  <2>1. UNCHANGED << usart, thr, flags, dev, cm >>
    BY Zenon DEF Host, HostControl, HostReset, HostType, HostHears, HostNoticed
  <2> QED BY <1>1, <2>1 DEF usart, RingsOK, UartOK, UmOK, ThreadsOK
<1>3. HostOK'
  <2>1. CASE HostControl
    <3>1. host.plan \in Seq(Requests) /\ host.plan # << >>
      BY <1>1, <2>1 DEF HostControl, HostOK
    <3>2. Tail(host.plan) \in Seq(Requests)
      BY <3>1
    <3> QED BY <1>1, <2>1, <3>2, Zenon DEF HostControl, HostOK
  <2>2. CASE HostReset
    <3>1. host.plan \in Seq(Requests) /\ host.plan # << >>
      BY <1>1, <2>2 DEF HostReset, HostOK
    <3>2. Tail(host.plan) \in Seq(Requests)
      BY <3>1
    <3> QED BY <1>1, <2>2, <3>2, Zenon DEF HostReset, HostOK
  <2>3. CASE HostType
    <3>1. host.sizes \in Seq(0..BufSize) /\ host.sizes # << >> /\ host.typed \in Nat
      BY <1>1, <2>3 DEF HostType, HostOK
    <3>2. Tail(host.sizes) \in Seq(0..BufSize) /\ Head(host.sizes) \in 0..BufSize
      BY <3>1, HeadAndTail, Zenon
    <3>3. host.typed + Head(host.sizes) \in Nat
      BY <3>1, <3>2, SizesAssumption
    <3> QED BY <1>1, <2>3, <3>2, <3>3, Zenon DEF HostType, HostOK
  <2>4. CASE HostHears \/ HostNoticed
    BY <1>1, <2>4, Zenon DEF HostHears, HostNoticed, HostOK
  <2> QED BY <2>1, <2>2, <2>3, <2>4 DEF Host
<1>4. ep' \in Endpoints /\ (cm.pc = "rx" => ep'.rx # << >>)
  <2>0. ep \in Endpoints /\ (cm.pc = "rx" => ep.rx # << >>)
    BY <1>1 DEF PortOK
  <2>1. CASE HostControl
    <3>1. Head(host.plan) \in Requests
      BY <1>1, <2>1 DEF HostControl, HostOK
    <3> QED BY <2>0, <2>1, <3>1 DEF HostControl, Endpoints
  <2>2. CASE HostReset
    <3> DEFINE rx == IF cm.pc = "rx" THEN ep.rx ELSE << >>
    <3>1. FreshEp \in Endpoints
      BY DEF FreshEp, Endpoints
    <3>2. rx \in Seq(Buffers) /\ (cm.pc = "rx" => rx # << >>)
      BY <2>0 DEF Endpoints
    <3>3. ep' = [FreshEp EXCEPT !.reset = TRUE, !.rx = rx]
      BY <2>2 DEF HostReset
    <3> HIDE DEF rx
    <3> QED BY <3>1, <3>2, <3>3, Zenon DEF Endpoints
  <2>3. CASE HostType
    <3> DEFINE pkt == [i \in 1..Head(host.sizes) |-> host.typed + i]
    <3>1. Head(host.sizes) \in 0..BufSize /\ host.typed \in Nat
      <4>1. host.sizes \in Seq(0..BufSize) /\ host.sizes # << >> /\ host.typed \in Nat
        BY <1>1, <2>3 DEF HostType, HostOK
      <4> QED BY <4>1, HeadAndTail, Zenon
    <3>2. pkt \in Buffers
      BY <3>1, SizesAssumption, SMTT(60), ZenonT(60) DEF Buffers
    <3>3. ep' = [ep EXCEPT !.armed = FALSE, !.rx = << pkt >>]
      BY <2>3 DEF HostType
    <3> HIDE DEF pkt
    <3>4. << pkt >> \in Seq(Buffers) /\ << pkt >> # << >>
      BY <3>2
    <3> QED BY <2>0, <3>3, <3>4, Zenon DEF Endpoints
  <2>4. CASE HostHears \/ HostNoticed
    <3>1. << >> \in Seq(Buffers)
      OBVIOUS
    <3>2. \/ ep' = [ep EXCEPT !.tx = << >>, !.txdone = TRUE]
          \/ ep' = [ep EXCEPT !.note = FALSE, !.notedone = TRUE]
      BY <2>4, Zenon DEF HostHears, HostNoticed
    <3> QED BY <2>0, <3>1, <3>2, Zenon DEF Endpoints
  <2> QED BY <2>1, <2>2, <2>3, <2>4 DEF Host
<1>5. PortOK'
  BY <1>1, <1>2, <1>4, PortStep DEF PortOK
<1> QED BY <1>2, <1>3, <1>5 DEF SerialTypeOK

LEMMA MainTypes ==
  ASSUME SerialTypeOK, UmNotify \/ MainStarts
  PROVE  SerialTypeOK'
<1>1. RingsOK /\ UartOK /\ UmOK /\ ThreadsOK /\ HostOK /\ PortOK
  BY DEF SerialTypeOK
<1>2. RingsOK' /\ ThreadsOK' /\ HostOK'
  <2>1. UNCHANGED << a2h, h2a, thr, host >>
    BY DEF UmNotify, MainStarts, port
  <2> QED BY <1>1, <2>1 DEF RingsOK, ThreadsOK, HostOK
<1>3. UmOK'
  BY <1>1, Zenon DEF UmNotify, MainStarts, UmOK, Onward
<1>4. UartOK'
  <2>1. CASE UmNotify
    BY <1>1, <2>1 DEF UmNotify, UartOK
  <2>2. CASE MainStarts
    <3> DEFINE frame == UsartConfig(SetupConfig(DefaultCoding))
    <3>1. frame \in {UsartConfig(SetupConfig(c)) : c \in AnyCoding} \cup {NoFrame}
      BY DEF AnyCoding
    <3>2. uart' = [uart EXCEPT !.ue = TRUE, !.frame = frame]
      BY <2>2 DEF MainStarts
    <3> HIDE DEF frame
    <3> QED BY <1>1, <3>1, <3>2, Zenon DEF UartOK
  <2> QED BY <2>1, <2>2
<1>5. PortOK'
  <2>1. CASE flags' = flags /\ ep' = ep /\ dev' = dev /\ cm' = cm
    BY <1>1, <2>1, PortStep DEF PortOK
  <2>2. CASE /\ flags' = [flags EXCEPT !.busy = TRUE] /\ ep' = [ep EXCEPT !.note = ep.on]
             /\ dev' = dev /\ cm' = cm
    <3>1. flags' \in FlagWords /\ flags'.avail = flags.avail /\ flags'.len = flags.len
      BY <1>1, <2>2, Zenon DEF PortOK, FlagWords
    <3>2. ep' \in Endpoints /\ (cm.pc = "rx" => ep'.rx # << >>)
      BY <1>1, <2>2 DEF PortOK, Endpoints
    <3> QED BY <1>1, <2>2, <3>1, <3>2, PortStep DEF PortOK
  <2> QED BY <2>1, <2>2 DEF UmNotify, MainStarts, port
<1> QED BY <1>2, <1>3, <1>4, <1>5 DEF SerialTypeOK

----------------------------------------------------------------------------
\* What the steps of cdc_main keep.

\* NextEvent is one of those that cdc_main has a step for.
LEMMA NextEventIs ==
  ASSUME ep \in Endpoints
  PROVE  NextEvent \in Requests \cup {"tx", "note", "rx", "none"}
BY DEF Endpoints, NextEvent, Requests

LEMMA CmTypes ==
  ASSUME SerialTypeOK, Cm
  PROVE  SerialTypeOK'
<1>1. RingsOK /\ UartOK /\ UmOK /\ ThreadsOK /\ HostOK /\ PortOK
  BY DEF SerialTypeOK
<1>2. flags \in FlagWords /\ dev \in Devices /\ ep \in Endpoints /\ cm \in Handlers
  BY <1>1 DEF PortOK
<1>3. RingsOK' /\ UmOK' /\ ThreadsOK' /\ HostOK'
  <2>1. UNCHANGED << a2h, h2a, um, thr, host >>
    BY Zenon DEF Cm, CmEvent, Callback, CmReset, CmAddressed, CmConfigure, CmDeconfigure, CmLineState,
           CmCoding, CmConfigureUsart, CmSendBreak, CmBreak, CmTxDone, CmNoteDone, CmRxReady,
           CmRxFlags, usart
  <2> QED BY <1>1, <2>1 DEF RingsOK, UmOK, ThreadsOK, HostOK
<1>4. UartOK'
  <2>1. CASE CmCoding
    BY <1>1, <2>1, ConfigTypes DEF CmCoding, UartOK
  <2>2. CASE CmConfigureUsart
    <3>1. dev.coding \in AnyCoding
      BY <1>2 DEF Devices
    <3> QED BY <1>1, <2>2, <3>1, ConfigTypes DEF CmConfigureUsart, UartOK
  <2>3. CASE CmBreak
    <3>1. cm.txeie \in BOOLEAN
      BY <1>2 DEF Handlers
    <3> QED BY <1>1, <2>3, <3>1, ConfigTypes DEF CmBreak, UartOK
  <2>4. CASE uart' = uart
    BY <1>1, <2>4 DEF UartOK
  <2> QED BY <2>1, <2>2, <2>3, <2>4, Zenon
       DEF Cm, CmEvent, Callback, CmReset, CmAddressed, CmConfigure, CmDeconfigure, CmLineState,
           CmSendBreak, CmTxDone, CmNoteDone, CmRxReady, CmRxFlags, usart
<1>5. cm' \in Handlers /\ (cm'.pc = "rx_flags" => CmRxReady)
  <2>1. CASE CmEvent
    <3>1. NextEvent \in Requests \cup {"tx", "note", "rx"} /\ cm' = [cm EXCEPT !.pc = NextEvent]
      BY <1>2, <2>1, NextEventIs DEF CmEvent
    <3> QED BY <1>2, <3>1 DEF Handlers, Requests
  <2>2. CASE CmCoding
    BY <1>2, <2>2 DEF CmCoding, Handlers
  <2>3. CASE CmSendBreak
    <3>1. uart.txeie \in BOOLEAN
      BY <1>1 DEF UartOK
    <3>2. PICK pc \in {"wait", "break"} : cm' = [cm EXCEPT !.pc = pc, !.txeie = uart.txeie]
      BY <2>3, Zenon DEF CmSendBreak
    <3> QED BY <1>2, <3>1, <3>2, Zenon DEF Handlers
  <2>4. CASE CmRxReady
    <3>1. cm' = [cm EXCEPT !.pc = "rx_flags", !.len = Len(Head(ep.rx)), !.saw = flags]
      BY <2>4 DEF CmRxReady
    <3>2. Len(Head(ep.rx)) \in 0..BufSize
      <4>1. ep.rx # << >> /\ ep.rx \in Seq(Buffers)
        BY <1>1, <2>4 DEF CmRxReady, PortOK, Endpoints
      <4>2. Head(ep.rx) \in Buffers
        BY <4>1, HeadAndTail
      <4> QED BY <4>2, SizesAssumption DEF Buffers
    <3> QED BY <1>2, <2>4, <3>1, <3>2, Zenon DEF Handlers
  <2>5. CASE cm' = [cm EXCEPT !.pc = "wait"]
    BY <1>2, <2>5 DEF Handlers
  <2> QED BY <2>1, <2>2, <2>3, <2>4, <2>5
       DEF Cm, Callback, CmReset, CmAddressed, CmConfigure, CmDeconfigure, CmLineState,
           CmConfigureUsart, CmBreak, CmTxDone, CmNoteDone, CmRxFlags
<1>6. dev' \in Devices /\ Len(dev.input) <= Len(dev'.input)
  <2>0. dev.input \in Buffers /\ Len(dev.input) <= Len(dev.input)
    BY <1>2 DEF Devices, Buffers
  <2>1. CASE CmRxReady
    <3> DEFINE pkt == Head(ep.rx)
               input == pkt \o SubSeq(dev.input, Len(pkt) + 1, Len(dev.input))
    <3>1. ep.rx # << >> /\ ep.rx \in Seq(Buffers)
      BY <1>1, <2>1 DEF CmRxReady, PortOK, Endpoints
    <3>2. pkt \in Buffers
      BY <3>1, HeadAndTail
    <3>3. input \in Buffers /\ Len(dev.input) <= Len(input)
      BY <2>0, <3>2, CopiedFits, Zenon
    <3>4. dev' = [dev EXCEPT !.input = input]
      BY <2>1 DEF CmRxReady
    <3> HIDE DEF input, pkt
    <3> QED BY <1>2, <3>3, <3>4 DEF Devices
  <2>2. CASE CmEvent
    <3>1. PICK coding \in AnyCoding : dev' = [dev EXCEPT !.coding = coding]
      BY <1>2, <2>2 DEF CmEvent, Devices, AnyCoding
    <3> QED BY <1>2, <2>0, <3>1 DEF Devices
  <2>3. CASE CmReset
    <3>1. DefaultCoding \in AnyCoding
      BY DEF AnyCoding
    <3>2. dev' = [dev EXCEPT !.state = "ATTACHED", !.coding = DefaultCoding]
      BY <2>3 DEF CmReset
    <3> QED BY <1>2, <2>0, <3>1, <3>2, Zenon DEF Devices
  <2>4. CASE \E state \in {"ADDRESSED", "CONFIGURED"} : dev' = [dev EXCEPT !.state = state]
    BY <1>2, <2>0, <2>4 DEF Devices
  <2>5. CASE dev' = dev
    BY <1>2, <2>0, <2>5
  <2> QED BY <2>1, <2>2, <2>3, <2>4, <2>5
       DEF Cm, CmAddressed, CmConfigure, CmDeconfigure, CmLineState, CmCoding, CmConfigureUsart,
           CmSendBreak, CmBreak, CmTxDone, CmNoteDone, CmRxFlags
<1>7. ep' \in Endpoints /\ (ep'.rx = ep.rx \/ CmRxReady)
  <2>1. CASE CmEvent
    <3>1. PICK e \in {[ep EXCEPT !.reset = FALSE], [ep EXCEPT !.txdone = FALSE],
                      [ep EXCEPT !.notedone = FALSE], ep, [ep EXCEPT !.ctl = "none"]} : ep' = e
      BY <2>1 DEF CmEvent
    <3> QED BY <1>2, <3>1, Zenon DEF Endpoints
  <2>2. CASE ep' = [ep EXCEPT !.on = TRUE, !.armed = FALSE]
    BY <1>2, <2>2, Zenon DEF Endpoints
  <2>0. << >> \in Seq(Buffers)
    OBVIOUS
  <2>3. CASE ep' = [ep EXCEPT !.on = FALSE, !.armed = FALSE, !.tx = << >>]
    BY <1>2, <2>0, <2>3, Zenon DEF Endpoints
  <2>4. CASE CmRxReady
    <3>1. ep' = [ep EXCEPT !.rx = << >>]
      BY <2>4 DEF CmRxReady
    <3> QED BY <1>2, <2>0, <2>4, <3>1, Zenon DEF Endpoints
  <2>5. CASE ep' = ep
    BY <1>2, <2>5
  <2> QED BY <2>1, <2>2, <2>3, <2>4, <2>5
       DEF Cm, CmReset, CmAddressed, CmConfigure, CmDeconfigure, CmLineState, CmCoding,
           CmConfigureUsart, CmSendBreak, CmBreak, CmTxDone, CmNoteDone, CmRxFlags
<1>8. flags' \in FlagWords /\ (flags'.avail => flags'.len <= Len(dev.input))
  <2>0. flags.avail => flags.len <= Len(dev.input)
    BY <1>1 DEF PortOK
  <2>1. CASE CmReset
    <3>1. flags' = [FreshFlags EXCEPT !.busy = flags.busy]
      BY <2>1 DEF CmReset
    <3>2. FreshFlags \in FlagWords /\ ~FreshFlags.avail
      BY SizesAssumption DEF FreshFlags, FlagWords
    <3> QED BY <1>2, <3>1, <3>2 DEF FlagWords
  <2>2. CASE CmLineState
    <3>1. PICK conn \in BOOLEAN : flags' = [flags EXCEPT !.conn = conn]
      BY <2>2, Zenon DEF CmLineState
    <3> QED BY <1>2, <2>0, <3>1 DEF FlagWords
  <2>3. CASE CmTxDone \/ CmNoteDone
    <3>1. flags' = [flags EXCEPT !.ready = TRUE] \/ flags' = [flags EXCEPT !.busy = FALSE]
      BY <2>3 DEF CmTxDone, CmNoteDone
    <3> QED BY <1>2, <2>0, <3>1, Zenon DEF FlagWords
  <2>4. CASE CmRxFlags
    <3>1. cm.saw \in FlagWords /\ cm.len \in 0..BufSize /\ cm.len <= Len(dev.input)
      BY <1>1, <2>4 DEF CmRxFlags, Callback, PortOK, Handlers
    <3>2. flags' = [cm.saw EXCEPT !.avail = TRUE, !.len = cm.len]
      BY <2>4 DEF CmRxFlags
    <3> QED BY <3>1, <3>2, Zenon DEF FlagWords
  <2>5. CASE flags' = flags
    BY <1>2, <2>0, <2>5
  <2> QED BY <2>1, <2>2, <2>3, <2>4, <2>5, Zenon
       DEF Cm, CmEvent, CmAddressed, CmConfigure, CmDeconfigure, CmCoding, CmConfigureUsart,
           CmSendBreak, CmBreak, CmRxReady
<1>9. PortOK'
  <2>1. flags'.avail => flags'.len <= Len(dev'.input)
    <3>1. flags'.len \in Nat /\ Len(dev.input) \in Nat /\ Len(dev'.input) \in Nat
      BY <1>2, <1>6, <1>8, SizesAssumption DEF FlagWords, Devices, Buffers
    <3> QED BY <1>6, <1>8, <3>1
  <2>2. cm'.pc = "rx_flags" => cm'.len <= Len(dev'.input)
    <3>1. ASSUME CmRxReady PROVE cm'.len <= Len(dev'.input)
      <4> DEFINE pkt == Head(ep.rx)
                 input == pkt \o SubSeq(dev.input, Len(pkt) + 1, Len(dev.input))
      <4>1. ep.rx # << >> /\ ep.rx \in Seq(Buffers)
        BY <1>1, <3>1 DEF CmRxReady, PortOK, Endpoints
      <4>2. pkt \in Buffers /\ dev.input \in Buffers
        BY <1>2, <4>1, HeadAndTail DEF Devices
      <4>3. Len(pkt) <= Len(input)
        BY <4>2, CopiedFits, Zenon
      <4>4. /\ dev' = [dev EXCEPT !.input = input]
            /\ cm' = [cm EXCEPT !.pc = "rx_flags", !.len = Len(pkt), !.saw = flags]
        BY <3>1 DEF CmRxReady
      <4> HIDE DEF input, pkt
      <4> QED BY <1>2, <4>3, <4>4 DEF Devices, Handlers
    <3> QED BY <1>5, <3>1
  <2>3. cm'.pc = "rx" => ep'.rx # << >>
    <3>1. CASE CmEvent
      <4>1. cm'.pc = "rx" => NextEvent = "rx" /\ ep' = ep
        BY <1>2, <3>1 DEF CmEvent, Handlers
      <4>2. NextEvent = "rx" => ep.rx # << >>
        BY <1>2 DEF NextEvent, Endpoints, Requests
      <4> QED BY <4>1, <4>2
    <3>2. CASE ~CmEvent
      <4>1. cm'.pc # "rx"
        BY <1>2, <3>2, Zenon DEF Cm, Callback, CmReset, CmAddressed, CmConfigure, CmDeconfigure, CmLineState,
               CmCoding, CmConfigureUsart, CmSendBreak, CmBreak, CmTxDone, CmNoteDone, CmRxReady,
               CmRxFlags, Handlers
      <4> QED BY <4>1
    <3> QED BY <3>1, <3>2
  <2> QED BY <1>5, <1>6, <1>7, <1>8, <2>1, <2>2, <2>3 DEF PortOK
<1> QED BY <1>3, <1>4, <1>9 DEF SerialTypeOK

----------------------------------------------------------------------------
\* The theorems.

LEMMA TypesStep ==
  ASSUME SerialTypeOK, [Next]_vars
  PROVE  SerialTypeOK'
<1>1. RingsOK /\ UartOK /\ UmOK /\ ThreadsOK /\ HostOK /\ PortOK
  BY DEF SerialTypeOK
<1>2. CASE FrameComes
  <2>1. UartOK' /\ HostOK'
    BY <1>1, <1>2, LineTypes
  <2>2. UNCHANGED << a2h, h2a, um, thr, flags, dev, ep, cm >>
    BY <1>2 DEF FrameComes
  <2> QED BY <1>1, <2>1, <2>2 DEF SerialTypeOK, RingsOK, UmOK, ThreadsOK, PortOK
<1>3. CASE Line
  <2>1. UartOK'
    BY <1>1, <1>3, LineTypes DEF Line
  <2>2. UNCHANGED << a2h, h2a, um, thr, flags, dev, ep, cm, host >>
    BY <1>3 DEF Line, port
  <2> QED BY <1>1, <2>1, <2>2 DEF SerialTypeOK, RingsOK, UmOK, ThreadsOK, PortOK, HostOK
<1>4. CASE UNCHANGED vars
  BY <1>1, <1>4 DEF vars, SerialTypeOK, RingsOK, UartOK, UmOK, ThreadsOK, PortOK, HostOK
<1>5. CASE Host
  BY <1>5, HostTypes
<1>6. CASE Um
  BY <1>6, DriverTypes
<1>7. CASE UmNotify \/ MainStarts
  BY <1>7, MainTypes
<1>8. CASE Cm
  BY <1>8, CmTypes
<1>9. CASE Recv \/ Take \/ TimeOut
  BY <1>9, CdcTypes
<1>10. ASSUME NEW t \in Threads, Carries(t) PROVE SerialTypeOK'
  BY <1>10, CarryTypes, CdcTypes DEF Carries
<1> QED BY <1>2, <1>3, <1>4, <1>5, <1>6, <1>7, <1>8, <1>9, <1>10 DEF Next, World

\* Type correctness of the adapter: whatever the driver, the carrying threads, cdc_main, the
\* host and the line do in between each other's steps, for ring buffers of up to 1024
\* characters, the four fields of each agree, no thread reads more than BUFSIZE characters,
\* and no one takes more of input[] than usb_rx_ready has put there.
THEOREM SerialTypes == Spec => []SerialTypeOK
<1>1. Init => SerialTypeOK
  BY InitTypes
<1>2. SerialTypeOK /\ [Next]_vars => SerialTypeOK'
  BY TypesStep
<1> QED BY <1>1, <1>2, PTL DEF Spec

\* All that the adapter does to a ring buffer.
Moves(rb, next) ==
  \/ next = rb
  \/ ~rb.full /\ \E v \in Nat : next = RbAdd(rb, v)
  \/ ~rb.empty /\ next = RbDel(rb)
  \/ next = RbFlush(rb)

LEMMA RingsMove ==
  ASSUME SerialTypeOK, [Next]_vars
  PROVE  Moves(a2h, a2h') /\ Moves(h2a, h2a')
<1>1. UmOK /\ ThreadsOK
  BY DEF SerialTypeOK
<1>2. CASE Um
  <2>1. CASE UmPut
    <3>1. um.ch \in Nat
      BY <1>1 DEF UmOK
    <3> QED BY <2>1, <3>1 DEF UmPut, Moves
  <2>2. CASE UmWrite
    BY <2>2 DEF UmWrite, Moves
  <2>3. CASE UNCHANGED << a2h, h2a >>
    BY <2>3 DEF Moves
  <2> QED BY <1>2, <2>1, <2>2, <2>3, Zenon DEF Um, UmPoll, UmInterrupt, UmStatus, UmData, UmCheck
<1>3. ASSUME NEW t \in Threads, Carry(t) PROVE Moves(a2h, a2h') /\ Moves(h2a, h2a')
  <2>1. CASE RbRead(t)
    BY <2>1 DEF RbRead, Moves
  <2>2. CASE RbWrite(t)
    <3>1. CASE a2h.full
      BY <2>2, <3>1 DEF RbWrite, Moves
    <3>2. CASE ~a2h.full
      <4>1. thr[t].buf # << >> /\ thr[t].buf \in Buffers
        BY <1>1, <2>2, <3>2 DEF RbWrite, ThreadsOK
      <4>2. Head(thr[t].buf) \in Nat
        BY <4>1, RestFits
      <4>3. h2a' = h2a /\ a2h' = RbAdd(a2h, Head(thr[t].buf))
        BY <2>2, <3>2 DEF RbWrite
      <4> QED BY <3>2, <4>2, <4>3 DEF Moves
    <3> QED BY <3>1, <3>2
  <2>3. CASE FlushIn(t)
    BY <2>3 DEF FlushIn, Moves
  <2>4. CASE FlushOut(t)
    BY <2>4 DEF FlushOut, Moves
  <2> QED BY <1>3, <2>1, <2>2, <2>3, <2>4 DEF Carry
<1>4. CASE UNCHANGED << a2h, h2a >>
  BY <1>4 DEF Moves
<1>5. CASE World \/ UNCHANGED vars \/ UmNotify \/ MainStarts
  <2>1. UNCHANGED << a2h, h2a >>
    BY <1>5, Zenon DEF World, Host, HostControl, HostReset, HostType, HostHears, HostNoticed, FrameComes,
                Line, UmNotify, MainStarts, usart, vars
  <2> QED BY <1>4, <2>1
<1>6. CASE Cm
  <2>1. UNCHANGED << a2h, h2a >>
    BY <1>6, Zenon DEF Cm, CmEvent, Callback, CmReset, CmAddressed, CmConfigure, CmDeconfigure, CmLineState,
                CmCoding, CmConfigureUsart, CmSendBreak, CmBreak, CmTxDone, CmNoteDone, CmRxReady,
                CmRxFlags, usart
  <2> QED BY <1>4, <2>1
<1>7. CASE (\E t \in Threads : WaitConnection(t) \/ Delay(t) \/ Send(t)) \/ Recv \/ Take \/ TimeOut
  <2>1. UNCHANGED << a2h, h2a >>
    BY <1>7, Zenon DEF WaitConnection, Delay, Send, Recv, Take, TimeOut, usart
  <2> QED BY <1>4, <2>1
<1> QED BY <1>2, <1>3, <1>5, <1>6, <1>7 DEF Next, Carries

\* What a move of a ring buffer does to what it holds.
LEMMA MovesAreFifo ==
  ASSUME NEW n \in Sizes, NEW rb \in Rings(n), NEW next, Moves(rb, next)
  PROVE  LET c == Contents(rb, n)
             d == Contents(next, n)
         IN \/ d = c
            \/ /\ Len(c) < n /\ Len(d) = Len(c) + 1
               /\ \A i \in 1..Len(c) : d[i] = c[i]
            \/ c # << >> /\ d = Tail(c)
            \/ d = << >>
<1> DEFINE c == Contents(rb, n)
           d == Contents(next, n)
<1>1. c \in Seq(Nat) /\ Len(c) = Count(rb, n) /\ Count(rb, n) \in 0..n /\ n \in Nat
      /\ (Count(rb, n) = n <=> rb.full)
  BY ContentsType, CountBounds, RingFields
<1>2. CASE ~rb.full /\ \E v \in Nat : next = RbAdd(rb, v)
  <2>1. PICK v \in Nat : next = RbAdd(rb, v)
    BY <1>2
  <2>2. d = Append(c, v)
    BY <1>2, <2>1, RbAddAppends
  <2>3. Len(c) < n
    BY <1>1, <1>2
  <2> HIDE DEF c, d
  <2>4. Len(d) = Len(c) + 1 /\ \A i \in 1..Len(c) : d[i] = c[i]
    BY <1>1, <2>1, <2>2
  <2> QED BY <2>3, <2>4 DEF c, d
<1>3. CASE ~rb.empty /\ next = RbDel(rb)
  BY <1>3, RbDelTakes
<1>4. CASE next = RbFlush(rb)
  BY <1>4, RbFlushClears
<1> QED BY <1>2, <1>3, <1>4 DEF Moves

\* Both ring buffers, of any sizes of up to 1024 characters, implement a queue of as many
\* characters: rb_add, rb_del and rb_ll_flush are called for them only when they may be.
THEOREM RingsRefine == Spec => RingsAreFifos
<1>1. Init => A2hFifo!Init /\ H2aFifo!Init
  BY SizesAssumption, FreshRingIs DEF Init, A2hFifo!Init, H2aFifo!Init, Sizes
<1>2. SerialTypeOK /\ [Next]_vars =>
        /\ [A2hFifo!Put \/ A2hFifo!Get \/ A2hFifo!Flush]_(Contents(a2h, A2hSize))
        /\ [H2aFifo!Put \/ H2aFifo!Get \/ H2aFifo!Flush]_(Contents(h2a, H2aSize))
  <2> SUFFICES ASSUME SerialTypeOK, [Next]_vars
               PROVE  /\ [A2hFifo!Put \/ A2hFifo!Get \/ A2hFifo!Flush]_(Contents(a2h, A2hSize))
                      /\ [H2aFifo!Put \/ H2aFifo!Get \/ H2aFifo!Flush]_(Contents(h2a, H2aSize))
    OBVIOUS
  <2>1. Moves(a2h, a2h') /\ Moves(h2a, h2a')
    BY RingsMove
  <2>2. A2hSize \in Sizes /\ H2aSize \in Sizes /\ a2h \in Rings(A2hSize) /\ h2a \in Rings(H2aSize)
    BY SizesAssumption DEF Sizes, SerialTypeOK, RingsOK
  <2>3. [A2hFifo!Put \/ A2hFifo!Get \/ A2hFifo!Flush]_(Contents(a2h, A2hSize))
    BY <2>1, <2>2, MovesAreFifo DEF A2hFifo!Put, A2hFifo!Get, A2hFifo!Flush
  <2>4. [H2aFifo!Put \/ H2aFifo!Get \/ H2aFifo!Flush]_(Contents(h2a, H2aSize))
    BY <2>1, <2>2, MovesAreFifo DEF H2aFifo!Put, H2aFifo!Get, H2aFifo!Flush
  <2> QED BY <2>3, <2>4
<1> QED BY <1>1, <1>2, SerialTypes, PTL DEF Spec, RingsAreFifos, A2hFifo!Spec, H2aFifo!Spec

----------------------------------------------------------------------------
\* The driver thread sleeps only when there is nothing for it to do.  What makes it so:
\* while it sleeps ready to send, a thread that is writing has not filled the buffer, for
\* then it would have told; and the interrupt of TXE is on whenever the data register
\* is in use, or believed to be, but between the two steps of handle_tx_ready.
WakeInv ==
  /\ um.pc = "asleep" /\ um.txready => (a2h.empty \/ A2hHeld) /\ ~(A2hHeld /\ a2h.full)
  /\ um.pc # "check" /\ (uart.dr # NoChar \/ ~um.txready) => uart.txeie \/ log.rewritten
  /\ DOMAIN log = {"wire", "heard", "gone", "lost", "missed", "masked", "rewritten", "torn",
                   "disturbed", "unseen"}
  /\ log.rewritten \in BOOLEAN

\* Most steps touch nothing of that.
LEMMA WakeQuiet ==
  ASSUME WakeInv, a2h' = a2h, um'.pc = um.pc, um'.txready = um.txready,
         uart'.txeie = uart.txeie, uart'.dr \in {uart.dr, NoChar},
         A2hHeld' = A2hHeld, DOMAIN log' = DOMAIN log, log'.rewritten = log.rewritten
  PROVE  WakeInv'
BY DEF WakeInv

LEMMA WakeDriver ==
  ASSUME SerialTypeOK, WakeInv, Um
  PROVE  WakeInv'
<1> USE DEF WakeInv
<1>1. UartOK /\ UmOK
  BY DEF SerialTypeOK
<1>2. CASE UmPoll
  <2>1. um' = [um EXCEPT !.intr = Interrupted, !.write = um.txready /\ ~a2h.empty,
                        !.pc = IF Interrupted \/ (um.txready /\ ~a2h.empty) THEN "status" ELSE "asleep"]
    BY <1>2 DEF UmPoll
  <2>2. um'.txready = um.txready /\ (um'.pc = "asleep" => ~(um.txready /\ ~a2h.empty))
        /\ um'.pc # "check" /\ um.pc # "check"
    BY <1>1, <1>2, <2>1 DEF UmOK, UmPoll
  <2>3. UNCHANGED << a2h, uart, thr, log >> /\ (um.txready => ~A2hHeld)
    BY <1>2 DEF UmPoll
  <2> QED BY <2>2, <2>3 DEF A2hHeld
<1>3. CASE UmInterrupt
  <2>1. um'.pc = "status" /\ um'.txready = um.txready /\ UNCHANGED << uart, log >> /\ um.pc = "asleep"
    BY <1>1, <1>3 DEF UmInterrupt, UmOK
  <2> QED BY <2>1
<1>4. CASE UmStatus
  <2>1. um'.pc \notin {"asleep", "check"} /\ um.pc # "check" /\ log' = log
    BY <1>1, <1>4, SMTT(60), ZenonT(60) DEF UmStatus, UmOK, Onward
  <2>2. CASE um'.txready = um.txready /\ uart' = uart
    BY <2>1, <2>2
  <2>3. CASE um'.txready = TXE /\ uart' = [uart EXCEPT !.txeie = @ /\ ~TXE]
    <3>1. uart'.dr = uart.dr /\ (uart.dr # NoChar => uart'.txeie = uart.txeie)
      BY <1>1, <2>3 DEF UartOK, TXE
    <3> QED BY <2>1, <2>3, <3>1, Zenon DEF TXE
  <2>4. \/ um'.txready = um.txready /\ uart' = uart
        \/ um'.txready = TXE /\ uart' = [uart EXCEPT !.txeie = @ /\ ~TXE]
    BY <1>1, <1>4, Zenon DEF UmStatus, UmOK
  <2> QED BY <2>2, <2>3, <2>4
<1>5. CASE UmData
  <2>1. um'.pc \notin {"asleep", "check"} /\ um.pc # "check" /\ um'.txready = um.txready
    BY <1>1, <1>5 DEF UmData, UmOK, Onward
  <2>2. uart'.dr = uart.dr /\ uart'.txeie = uart.txeie
    BY <1>1, <1>5 DEF UmData, UartOK
  <2>3. DOMAIN log' = DOMAIN log /\ log'.rewritten = log.rewritten
    BY <1>5 DEF UmData
  <2> QED BY <2>1, <2>2, <2>3
<1>6. CASE UmPut
  <2>1. um'.pc \notin {"asleep", "check"} /\ um.pc # "check" /\ um'.txready = um.txready
    BY <1>1, <1>6 DEF UmPut, UmOK, Onward
  <2>2. uart' = uart /\ DOMAIN log' = DOMAIN log /\ log'.rewritten = log.rewritten
    BY <1>6 DEF UmPut
  <2> QED BY <2>1, <2>2
<1>7. CASE UmWrite
  <2>1. CASE a2h.empty
    <3>1. um'.pc = "poll" /\ um.pc = "write" /\ um'.txready = um.txready /\ uart' = uart /\ log' = log
      BY <1>1, <1>7, <2>1 DEF UmWrite, UmOK
    <3> QED BY <3>1
  <2>2. CASE ~a2h.empty
    <3>1. um'.pc = "check" /\ log' = log
      BY <1>1, <1>7, <2>2 DEF UmWrite, UmOK
    <3> QED BY <3>1
  <2> QED BY <2>1, <2>2
<1>8. CASE UmCheck
  <2>1. um'.pc = "poll" /\ um'.txready = TXE /\ uart'.dr = uart.dr /\ log' = log
        /\ (~TXE => uart'.txeie)
    BY <1>1, <1>8, Zenon DEF UmCheck, UmOK, UartOK
  <2> QED BY <2>1, Zenon DEF TXE
<1> QED BY <1>2, <1>3, <1>4, <1>5, <1>6, <1>7, <1>8 DEF Um

LEMMA WakeCarry ==
  ASSUME SerialTypeOK, WakeInv, NEW t \in Threads, Carry(t)
  PROVE  WakeInv'
<1>1. UmOK /\ ThreadsOK /\ RingsOK
  BY DEF SerialTypeOK
<1>2. "c2u" \in Threads /\ "u2c" \in Threads
  BY DEF Threads
<1>3. CASE t = "u2c" /\ RbRead(t)
  <2>1. A2hHeld' = A2hHeld
    BY <1>1, <1>2, <1>3 DEF RbRead, A2hHeld, ThreadsOK
  <2>2. UNCHANGED << a2h, uart, um, log >>
    BY <1>3 DEF RbRead
  <2> QED BY <2>1, <2>2, WakeQuiet
<1>4. CASE t = "c2u" /\ RbWrite(t)
  <2>1. UNCHANGED << uart, log >> /\ um'.txready = um.txready /\ um' \in {um, WriteEvent(um)}
    BY <1>1, <1>4, Zenon DEF RbWrite, WriteEvent, UmOK
  <2>2. CASE um' = um
    <3>1. CASE a2h.full
      <4>1. a2h' = a2h /\ ~a2h.empty /\ thr'["c2u"].pc = "write"
        BY <1>1, <1>2, <1>4, <3>1 DEF RbWrite, RingsOK, Rings, ThreadsOK
      <4>2. ~(um.pc = "asleep" /\ um.txready)
        BY <3>1, <4>1 DEF WakeInv, A2hHeld
      <4> QED BY <2>1, <2>2, <4>2 DEF WakeInv
    <3>2. CASE ~a2h.full
      <4> DEFINE rest == Tail(thr[t].buf)
      <4>1. /\ thr'["c2u"].pc = IF rest = << >> THEN "recv" ELSE "writing"
            /\ a2h' = RbAdd(a2h, Head(thr[t].buf))
            /\ um' = IF rest = << >> \/ RbAdd(a2h, Head(thr[t].buf)).full THEN WriteEvent(um) ELSE um
        BY <1>1, <1>2, <1>4, <3>2 DEF RbWrite, ThreadsOK
      <4> HIDE DEF rest
      <4>2. CASE um.pc = "asleep" /\ um.txready
        <5>1. WriteEvent(um) # um
          BY <1>1, <4>2, Zenon DEF WriteEvent, UmOK
        <5>2. rest # << >> /\ ~a2h'.full
          BY <2>2, <4>1, <5>1
        <5> QED BY <2>1, <2>2, <4>1, <5>2 DEF WakeInv, A2hHeld
      <4>3. CASE ~(um.pc = "asleep" /\ um.txready)
        BY <2>1, <2>2, <4>3 DEF WakeInv
      <4> QED BY <4>2, <4>3
    <3> QED BY <3>1, <3>2
  <2>3. CASE um' # um
    <3>1. um.pc = "asleep" /\ um'.pc = "status"
      BY <1>1, <2>1, <2>3, Zenon DEF WriteEvent, UmOK
    <3> QED BY <2>1, <3>1 DEF WakeInv
  <2> QED BY <2>2, <2>3
<1>5. CASE FlushIn(t)
  <2>1. A2hHeld' = A2hHeld
    BY <1>1, <1>2, <1>5 DEF FlushIn, A2hHeld, ThreadsOK
  <2>2. UNCHANGED << a2h, uart, um >> /\ DOMAIN log' = DOMAIN log /\ log'.rewritten = log.rewritten
    BY <1>5 DEF FlushIn, WakeInv
  <2> QED BY <2>1, <2>2, WakeQuiet
<1>6. CASE FlushOut(t)
  <2>1. a2h'.empty /\ ~a2h'.full
    BY <1>1, <1>6 DEF FlushOut, RbFlush, RingsOK, Rings
  <2>2. UNCHANGED << uart, um >> /\ DOMAIN log' = DOMAIN log /\ log'.rewritten = log.rewritten
    BY <1>6 DEF FlushOut, WakeInv
  <2> QED BY <2>1, <2>2 DEF WakeInv
<1> QED BY <1>3, <1>4, <1>5, <1>6 DEF Carry

LEMMA WakeCdc ==
  ASSUME SerialTypeOK, WakeInv,
         (\E t \in Threads : WaitConnection(t) \/ Delay(t) \/ Send(t)) \/ Recv \/ Take \/ TimeOut
  PROVE  WakeInv'
<1>1. ThreadsOK /\ "c2u" \in Threads
  BY DEF SerialTypeOK, Threads
<1>2. UNCHANGED << a2h, uart, um >>
  BY Zenon DEF WaitConnection, Delay, Send, Recv, Take, TimeOut, usart
<1>3. DOMAIN log' = DOMAIN log /\ log'.rewritten = log.rewritten
  BY Zenon DEF WaitConnection, Delay, Send, Recv, Take, TimeOut, WakeInv
<1>4. A2hHeld' = A2hHeld
  <2>1. ASSUME NEW t \in Threads, WaitConnection(t) \/ Delay(t) \/ Send(t) PROVE A2hHeld' = A2hHeld
    <3>1. CASE WaitConnection(t)
      BY <1>1, <3>1 DEF WaitConnection, A2hHeld, ThreadsOK
    <3>2. CASE Delay(t)
      BY <1>1, <3>2 DEF Delay, A2hHeld, ThreadsOK
    <3>3. CASE Send(t)
      <4>1. CASE thr' = thr
        BY <4>1 DEF A2hHeld
      <4>2. ASSUME NEW r \in {1, -1}, Sent(t, r) PROVE A2hHeld' = A2hHeld
        <5> DEFINE pc == CASE Len(thr[t].buf) = BufSize -> "send"
                           [] Len(thr[t].buf) < BufSize /\ t = "c2u" -> "recv"
                           [] OTHER -> IF r > 0 THEN "read" ELSE "conn"
        <5>1. thr' = [thr EXCEPT ![t] = [buf |-> << >>, pc |-> pc]]
          BY <4>2 DEF Sent
        <5>2. pc # "writing"
          <6>1. CASE Len(thr[t].buf) = BufSize
            <7>1. ~(Len(thr[t].buf) < BufSize)
              BY <6>1, SizesAssumption
            <7> QED BY <6>1, <7>1
          <6>2. CASE Len(thr[t].buf) # BufSize
            BY <6>2
          <6> QED BY <6>1, <6>2
        <5>3. thr[t].pc = "send"
          BY <3>3, Zenon DEF Send
        <5> HIDE DEF pc
        <5> QED BY <1>1, <5>1, <5>2, <5>3 DEF A2hHeld, ThreadsOK
      <4> QED BY <3>3, <4>1, <4>2, Zenon DEF Send
    <3> QED BY <2>1, <3>1, <3>2, <3>3
  <2>2. CASE Recv
    BY <1>1, <2>2 DEF Recv, A2hHeld, ThreadsOK
  <2>3. CASE Take
    BY <1>1, <2>3 DEF Take, A2hHeld, ThreadsOK
  <2>4. CASE TimeOut
    <3>1. PICK i \in DOMAIN slept :
            thr' = IF thr[slept[i].t].pc = "recv" THEN [thr EXCEPT ![slept[i].t].pc = "take"]
                   ELSE thr
      BY <2>4, Zenon DEF TimeOut
    <3> QED BY <1>1, <3>1 DEF A2hHeld, ThreadsOK
  <2> QED BY <2>1, <2>2, <2>3, <2>4
<1> QED BY <1>2, <1>3, <1>4, WakeQuiet

LEMMA WakeOthers ==
  ASSUME SerialTypeOK, WakeInv, World \/ UmNotify \/ MainStarts \/ Cm \/ UNCHANGED vars
  PROVE  WakeInv'
<1>1. UartOK /\ UmOK /\ PortOK
  BY DEF SerialTypeOK
<1>2. a2h' = a2h /\ thr' = thr /\ A2hHeld' = A2hHeld
  BY Zenon DEF World, Host, HostControl, HostReset, HostType, HostHears, HostNoticed, FrameComes, Line,
         UmNotify, MainStarts, Cm, CmEvent, Callback, CmReset, CmAddressed, CmConfigure,
         CmDeconfigure, CmLineState, CmCoding, CmConfigureUsart, CmSendBreak, CmBreak, CmTxDone,
         CmNoteDone, CmRxReady, CmRxFlags, usart, vars, A2hHeld
<1>3. CASE World
  <2>1. um' = um
    BY <1>3, Zenon DEF World, Host, HostControl, HostReset, HostType, HostHears, HostNoticed, FrameComes,
                Line, usart
  <2>2. CASE Host
    <3>1. uart' = uart
      BY <2>2, Zenon DEF Host, HostControl, HostReset, HostType, HostHears, HostNoticed, usart
    <3>2. DOMAIN log' = DOMAIN log /\ log'.rewritten = log.rewritten
      BY <2>2, Zenon DEF Host, HostControl, HostReset, HostType, HostHears, HostNoticed, WakeInv
    <3> QED BY <1>2, <2>1, <3>1, <3>2, WakeQuiet
  <2>3. CASE FrameComes
    <3>1. PICK bad \in {FALSE, host.noise} : LineIn(host.came + 1, bad)
      BY <2>3, Zenon DEF FrameComes
    <3>2. uart'.dr = uart.dr /\ uart'.txeie = uart.txeie
      BY <1>1, <3>1, Zenon DEF LineIn, UartOK
    <3>3. DOMAIN log' = DOMAIN log /\ log'.rewritten = log.rewritten
      BY <3>1, Zenon DEF LineIn, WakeInv
    <3> QED BY <1>2, <2>1, <3>2, <3>3, WakeQuiet
  <2>4. CASE Line
    <3>1. uart'.dr \in {uart.dr, NoChar} /\ uart'.txeie = uart.txeie
      BY <1>1, <2>4 DEF Line, LineOut, BreakSent, UartOK
    <3>2. DOMAIN log' = DOMAIN log /\ log'.rewritten = log.rewritten
      BY <2>4 DEF Line, LineOut, BreakSent, WakeInv
    <3> QED BY <1>2, <2>1, <3>1, <3>2, WakeQuiet
  <2> QED BY <1>3, <2>2, <2>3, <2>4 DEF World
<1>4. CASE UmNotify
  <2>1. um'.pc \in {"poll", "write"} /\ um.pc = "notify" /\ um'.txready = um.txready
        /\ UNCHANGED << uart, log >>
    BY <1>1, <1>4 DEF UmNotify, UmOK, Onward
  <2> QED BY <2>1 DEF WakeInv
<1>5. CASE MainStarts
  <2>1. um'.pc = "poll" /\ um.pc = "off" /\ um'.txready = um.txready /\ log' = log
        /\ uart'.dr = uart.dr /\ uart'.txeie = uart.txeie
    BY <1>1, <1>5 DEF MainStarts, UmOK, UartOK
  <2> QED BY <2>1 DEF WakeInv
<1>6. CASE Cm
  <2>1. um' = um
    BY <1>6, Zenon DEF Cm, CmEvent, Callback, CmReset, CmAddressed, CmConfigure, CmDeconfigure, CmLineState,
                CmCoding, CmConfigureUsart, CmSendBreak, CmBreak, CmTxDone, CmNoteDone, CmRxReady,
                CmRxFlags, usart
  <2>2. ASSUME NEW bits, Enabled(bits) PROVE WakeInv'
    <3>1. CASE UNCHANGED << uart, log >>
      BY <1>2, <2>1, <3>1, WakeQuiet
    <3>2. CASE /\ uart' = [uart EXCEPT !.ue = TRUE, !.txeie = FALSE, !.frame = UsartConfig(bits)]
               /\ Rewritten(FALSE)
      <4>1. uart'.dr = uart.dr /\ DOMAIN log' = DOMAIN log /\ log'.rewritten \in BOOLEAN
            /\ (uart.txeie \/ log.rewritten => log'.rewritten)
        BY <1>1, <3>2 DEF UartOK, Rewritten, WakeInv
      <4> QED BY <1>2, <2>1, <4>1 DEF WakeInv
    <3> QED BY <2>2, <3>1, <3>2, Zenon DEF Enabled
  <2>3. ASSUME NEW txeie \in BOOLEAN, SetBreak(txeie) PROVE WakeInv'
    <3>1. uart'.dr = uart.dr /\ DOMAIN log' = DOMAIN log /\ log'.rewritten \in BOOLEAN
          /\ uart'.txeie = txeie /\ (uart.txeie \/ log.rewritten => txeie \/ log'.rewritten)
      BY <1>1, <2>3 DEF SetBreak, UartOK, Rewritten, WakeInv
    <3> QED BY <1>2, <2>1, <3>1 DEF WakeInv
  <2>4. CASE CmConfigureUsart
    <3>1. CASE UNCHANGED << uart, log >>
      BY <1>2, <2>1, <3>1, WakeQuiet
    <3> QED BY <2>4, <2>2, <3>1 DEF CmConfigureUsart
  <2>5. CASE CmBreak
    <3>1. cm.txeie \in BOOLEAN
      BY <1>1 DEF PortOK, Handlers
    <3> QED BY <2>5, <2>3, <3>1 DEF CmBreak
  <2>6. CASE CmCoding
    <3>1. uart'.dr = uart.dr /\ uart'.txeie = uart.txeie /\ log' = log
      BY <1>1, <2>6 DEF CmCoding, Disabled, UartOK
    <3> QED BY <1>2, <2>1, <3>1, WakeQuiet
  <2>7. CASE uart' = uart /\ DOMAIN log' = DOMAIN log /\ log'.rewritten = log.rewritten
    BY <1>2, <2>1, <2>7, WakeQuiet
  <2>8. Cm => CmConfigureUsart \/ CmBreak \/ CmCoding
              \/ (uart' = uart /\ DOMAIN log' = DOMAIN log /\ log'.rewritten = log.rewritten)
    BY Zenon DEF Cm, CmEvent, Callback, CmReset, CmAddressed, CmConfigure, CmDeconfigure, CmLineState,
           CmSendBreak, CmTxDone, CmNoteDone, CmRxReady, CmRxFlags, usart, WakeInv
  <2> QED BY <1>6, <2>4, <2>5, <2>6, <2>7, <2>8
<1>7. CASE UNCHANGED vars
  BY <1>7 DEF vars, WakeInv, A2hHeld
<1> QED BY <1>3, <1>4, <1>5, <1>6, <1>7

\* usart_main never sleeps through a character that it could send, nor, with the data
\* register in use, with nothing to tell it that it is free.
LEMMA DriverAlwaysWoken == Spec => []WakeInv
<1>1. Init => WakeInv
  BY DEF Init, WakeInv, FreshUm, FreshUart
<1>2. SerialTypeOK /\ WakeInv /\ [Next]_vars => WakeInv'
  <2> SUFFICES ASSUME SerialTypeOK, WakeInv, [Next]_vars PROVE WakeInv'
    OBVIOUS
  <2>1. ASSUME NEW t \in Threads, Carries(t) PROVE WakeInv'
    BY <2>1, WakeCarry, WakeCdc DEF Carries
  <2> QED BY <2>1, WakeDriver, WakeCdc, WakeOthers DEF Next
<1> QED BY <1>1, <1>2, SerialTypes, PTL DEF Spec

----------------------------------------------------------------------------
\* Every frame is counted once.  Between the reading of the status and that of the data, and
\* between that and the ring buffer, a character is in one place.
CountInv ==
  /\ stat \in [rx : Nat, overflow : Nat, bad : Nat, overrun : Nat]
  /\ log.missed \in Nat
  /\ DOMAIN log = {"wire", "heard", "gone", "lost", "missed", "masked", "rewritten", "torn",
                   "disturbed", "unseen"}
  /\ um.pc = "put" <=> um.ch # NoChar
  /\ um.pc = "data" /\ um.rxne => uart.rdr # NoChar
  /\ FramesCounted

LEMMA CountQuiet ==
  ASSUME CountInv, um' = um, stat' = stat, host'.came = host.came, uart'.rdr = uart.rdr,
         DOMAIN log' = DOMAIN log, log'.missed = log.missed
  PROVE  CountInv'
BY DEF CountInv, FramesCounted, Pending

LEMMA CountDriver ==
  ASSUME SerialTypeOK, CountInv, Um \/ UmNotify \/ MainStarts
  PROVE  CountInv'
<1> USE DEF CountInv
<1>1. UartOK /\ UmOK /\ HostOK
  BY DEF SerialTypeOK
<1>2. host' = host
  BY DEF Um, UmNotify, MainStarts, port
<1>3. CASE UmPoll \/ UmInterrupt \/ UmCheck \/ UmWrite \/ UmStatus \/ UmNotify \/ MainStarts
  <2>1. stat' = stat /\ log' = log
    BY <1>3, Zenon DEF UmPoll, UmInterrupt, UmCheck, UmWrite, UmStatus, UmNotify, MainStarts
  <2>2. uart'.rdr = uart.rdr
    BY <1>1, <1>3, Zenon DEF UmPoll, UmInterrupt, UmCheck, UmWrite, UmStatus, UmNotify, MainStarts, UartOK
  <2>3. um'.ch = um.ch /\ um.pc # "put" /\ um'.pc # "put"
    BY <1>1, <1>3, SMTT(60), ZenonT(60) DEF UmPoll, UmInterrupt, UmCheck, UmWrite, UmStatus, UmNotify, MainStarts, UmOK, Onward
  <2>4. um'.pc = "data" /\ um'.rxne => uart.rdr # NoChar
    <3>1. CASE UmStatus
      BY <1>1, <3>1, Zenon DEF UmStatus, UmOK, Onward
    <3>2. CASE UmPoll \/ UmInterrupt \/ UmCheck \/ UmWrite \/ UmNotify \/ MainStarts
      <4>1. um'.pc # "data"
        BY <1>1, <3>2, Zenon DEF UmPoll, UmInterrupt, UmCheck, UmWrite, UmNotify, MainStarts, UmOK, Onward
      <4> QED BY <4>1
    <3> QED BY <1>3, <3>1, <3>2
  <2> QED BY <1>2, <2>1, <2>2, <2>3, <2>4 DEF FramesCounted, Pending
<1>4. CASE UmData
  <2>1. um.ch = NoChar /\ um'.pc # "data" /\ uart'.rdr = NoChar
    BY <1>1, <1>4 DEF UmData, UmOK, UartOK, Onward
  <2>2. DOMAIN log' = DOMAIN log
    BY <1>4 DEF UmData
  <2>0. PICK overrun \in Nat, bad \in {stat.bad, stat.bad + 1} :
          /\ stat' = [stat EXCEPT !.bad = bad, !.overrun = overrun]
          /\ bad = IF um.rxne /\ um.bad THEN stat.bad + 1 ELSE stat.bad
    <3> DEFINE good    == um.rxne /\ ~um.bad
               overrun == IF um.ore /\ (good \/ ~um.rxne) THEN stat.overrun + 1 ELSE stat.overrun
               bad     == IF um.rxne /\ um.bad THEN stat.bad + 1 ELSE stat.bad
    <3>1. stat' = [stat EXCEPT !.bad = bad, !.overrun = overrun]
      BY <1>4 DEF UmData
    <3>2. overrun \in Nat /\ bad \in {stat.bad, stat.bad + 1}
      OBVIOUS
    <3> QED BY <3>1, <3>2, Zenon
  <2>3. host.came \in Nat /\ uart.rdr \in Nat
    BY <1>1 DEF HostOK, UartOK
  <2>4. CASE um.rxne /\ ~um.bad
    <3>1. um'.pc = "put" /\ um'.ch = uart.rdr /\ uart.rdr # NoChar
      BY <1>1, <1>4, <2>4 DEF UmData, UmOK
    <3>2. log'.missed = log.missed
      BY <1>4, <2>4 DEF UmData
    <3>3. stat' \in [rx : Nat, overflow : Nat, bad : Nat, overrun : Nat]
          /\ stat'.rx = stat.rx /\ stat'.overflow = stat.overflow /\ stat'.bad = stat.bad
      BY <2>0, <2>4, Zenon
    <3> QED BY <1>2, <2>1, <2>2, <2>3, <3>1, <3>2, <3>3 DEF FramesCounted, Pending
  <2>5. CASE um.rxne /\ um.bad
    <3>1. um'.pc # "put" /\ um'.ch = NoChar /\ uart.rdr # NoChar
      BY <1>1, <1>4, <2>5 DEF UmData, UmOK, Onward
    <3>2. log'.missed = log.missed
      BY <1>4, <2>5 DEF UmData
    <3>3. stat' \in [rx : Nat, overflow : Nat, bad : Nat, overrun : Nat]
          /\ stat'.rx = stat.rx /\ stat'.overflow = stat.overflow /\ stat'.bad = stat.bad + 1
      <4>1. bad \in Nat /\ bad = stat.bad + 1
        BY <2>0, <2>5
      <4> QED BY <2>0, <4>1, Zenon
    <3> QED BY <1>2, <2>1, <2>2, <2>3, <3>1, <3>2, <3>3 DEF FramesCounted, Pending
  <2>6. CASE ~um.rxne
    <3>1. um'.pc # "put" /\ um'.ch = NoChar
      BY <1>1, <1>4, <2>6 DEF UmData, UmOK, Onward
    <3>2. log'.missed = IF uart.rdr # NoChar THEN log.missed + 1 ELSE log.missed
      BY <1>4, <2>6 DEF UmData
    <3>3. stat' \in [rx : Nat, overflow : Nat, bad : Nat, overrun : Nat]
          /\ stat'.rx = stat.rx /\ stat'.overflow = stat.overflow /\ stat'.bad = stat.bad
      BY <2>0, <2>6, Zenon
    <3> QED BY <1>2, <2>1, <2>2, <2>3, <3>1, <3>2, <3>3 DEF FramesCounted, Pending
  <2> QED BY <2>4, <2>5, <2>6
<1>5. CASE UmPut
  <2>1. um'.pc \notin {"put", "data"} /\ um'.ch = NoChar /\ um.ch # NoChar /\ uart' = uart
    BY <1>1, <1>5 DEF UmPut, UmOK, Onward
  <2>2. DOMAIN log' = DOMAIN log /\ log'.missed = log.missed
    BY <1>5 DEF UmPut
  <2>3. host.came \in Nat /\ uart.rdr \in Nat
    BY <1>1 DEF HostOK, UartOK
  <2>4. CASE h2a.full
    <3>1. stat' \in [rx : Nat, overflow : Nat, bad : Nat, overrun : Nat]
          /\ stat'.rx = stat.rx /\ stat'.overflow = stat.overflow + 1 /\ stat'.bad = stat.bad
      BY <1>5, <2>4 DEF UmPut
    <3> QED BY <1>2, <2>1, <2>2, <2>3, <3>1 DEF FramesCounted, Pending
  <2>5. CASE ~h2a.full
    <3>1. stat' \in [rx : Nat, overflow : Nat, bad : Nat, overrun : Nat]
          /\ stat'.rx = stat.rx + 1 /\ stat'.overflow = stat.overflow /\ stat'.bad = stat.bad
      BY <1>5, <2>5 DEF UmPut
    <3> QED BY <1>2, <2>1, <2>2, <2>3, <3>1 DEF FramesCounted, Pending
  <2> QED BY <2>4, <2>5
<1> QED BY <1>3, <1>4, <1>5 DEF Um

LEMMA CountOthers ==
  ASSUME SerialTypeOK, CountInv,
         World \/ TimeOut \/ (\E t \in Threads : Carries(t)) \/ Recv \/ Take \/ Cm \/ UNCHANGED vars
  PROVE  CountInv'
<1>1. UartOK /\ UmOK /\ HostOK /\ DOMAIN log = {"wire", "heard", "gone", "lost", "missed", "masked",
                   "rewritten", "torn", "disturbed", "unseen"}
  BY DEF SerialTypeOK, CountInv
<1>2. CASE FrameComes
  <2>1. PICK bad \in {FALSE, host.noise} : LineIn(host.came + 1, bad)
    BY <1>2, Zenon DEF FrameComes
  <2>2. um' = um /\ stat' = stat /\ host.came \in Nat /\ host'.came = host.came + 1
    BY <1>1, <1>2 DEF FrameComes, HostOK
  <2>3. CASE uart.rdr = NoChar
    <3>1. uart'.rdr = host.came + 1 /\ log' = log
      BY <1>1, <2>1, <2>3, Zenon DEF LineIn, UartOK
    <3>2. uart'.rdr # NoChar
      BY <2>2, <3>1 DEF NoChar
    <3> QED BY <2>2, <2>3, <3>1, <3>2 DEF CountInv, FramesCounted, Pending
  <2>4. CASE uart.rdr # NoChar
    <3>1. uart'.rdr = uart.rdr /\ DOMAIN log' = DOMAIN log /\ log'.missed = log.missed + 1
      BY <1>1, <2>1, <2>4, Zenon DEF LineIn, UartOK
    <3> QED BY <2>2, <2>4, <3>1 DEF CountInv, FramesCounted, Pending
  <2> QED BY <2>3, <2>4
<1>3. CASE Host
  <2>1. UNCHANGED << um, stat, uart >>
    BY <1>3, Zenon DEF Host, HostControl, HostReset, HostType, HostHears, HostNoticed, usart
  <2>2. host'.came = host.came
    BY <1>1, <1>3, Zenon DEF Host, HostControl, HostReset, HostType, HostHears, HostNoticed, HostOK
  <2>3. DOMAIN log' = DOMAIN log /\ log'.missed = log.missed
    BY <1>1, <1>3, Zenon DEF Host, HostControl, HostReset, HostType, HostHears, HostNoticed
  <2> QED BY <2>1, <2>2, <2>3, CountQuiet
<1>4. CASE Line
  <2>1. UNCHANGED << um, stat, host >> /\ uart'.rdr = uart.rdr
    BY <1>1, <1>4 DEF Line, LineOut, BreakSent, UartOK, port
  <2>2. DOMAIN log' = DOMAIN log /\ log'.missed = log.missed
    BY <1>1, <1>4 DEF Line, LineOut, BreakSent
  <2> QED BY <2>1, <2>2, CountQuiet
<1>5. ASSUME NEW t \in Threads, Carry(t) PROVE CountInv'
  <2>1. UNCHANGED << stat, host, uart >>
    BY <1>5 DEF Carry, RbRead, RbWrite, FlushIn, FlushOut, port
  <2>2. DOMAIN log' = DOMAIN log /\ log'.missed = log.missed
    BY <1>1, <1>5 DEF Carry, RbRead, RbWrite, FlushIn, FlushOut
  <2>3. um' = um \/ um' = WriteEvent(um)
    BY <1>5 DEF Carry, RbRead, RbWrite, FlushIn, FlushOut
  <2>4. CASE um' = um
    BY <2>1, <2>2, <2>4, CountQuiet
  <2>5. CASE um' = WriteEvent(um) /\ um' # um
    <3>1. um.pc = "asleep" /\ um'.pc = "status" /\ um'.ch = um.ch
      BY <1>1, <2>5 DEF WriteEvent, UmOK
    <3> QED BY <2>1, <2>2, <3>1 DEF CountInv, FramesCounted, Pending
  <2> QED BY <2>3, <2>4, <2>5
<1>6. CASE (\E t \in Threads : WaitConnection(t) \/ Delay(t) \/ Send(t)) \/ Recv \/ Take \/ TimeOut
  <2>1. UNCHANGED << um, stat, host, uart >>
    BY <1>6, Zenon DEF WaitConnection, Delay, Send, Recv, Take, TimeOut, usart, port
  <2>2. DOMAIN log' = DOMAIN log /\ log'.missed = log.missed
    BY <1>1, <1>6, Zenon DEF WaitConnection, Delay, Send, Recv, Take, TimeOut
  <2> QED BY <2>1, <2>2, CountQuiet
<1>7. CASE Cm
  <2>1. UNCHANGED << um, stat, host >>
    BY <1>7, Zenon DEF Cm, CmEvent, Callback, CmReset, CmAddressed, CmConfigure, CmDeconfigure, CmLineState,
                CmCoding, CmConfigureUsart, CmSendBreak, CmBreak, CmTxDone, CmNoteDone, CmRxReady,
                CmRxFlags, usart
  <2>2. uart'.rdr = uart.rdr
    BY <1>1, <1>7, Zenon DEF Cm, CmEvent, Callback, CmReset, CmAddressed, CmConfigure, CmDeconfigure, CmLineState,
                CmCoding, CmConfigureUsart, CmSendBreak, CmBreak, CmTxDone, CmNoteDone, CmRxReady,
                CmRxFlags, usart, UartOK, Enabled, Disabled, SetBreak
  <2>3. DOMAIN log' = DOMAIN log /\ log'.missed = log.missed
    BY <1>1, <1>7, Zenon DEF Cm, CmEvent, Callback, CmReset, CmAddressed, CmConfigure, CmDeconfigure, CmLineState,
                CmCoding, CmConfigureUsart, CmSendBreak, CmBreak, CmTxDone, CmNoteDone, CmRxReady,
                CmRxFlags, usart, Enabled, SetBreak, Rewritten
  <2> QED BY <2>1, <2>2, <2>3, CountQuiet
<1>8. CASE UNCHANGED vars
  BY <1>8, CountQuiet DEF vars
<1> QED BY <1>2, <1>3, <1>4, <1>5, <1>6, <1>7, <1>8 DEF World, Carries

\* struct usart_stat and the controller's overruns account for every frame that came in: it
\* was put in the ring buffer, dropped for want of a place, in error, missed, or it is the
\* one on its way, and it is only one of these.
LEMMA FramesAlwaysCounted == Spec => []CountInv
<1>1. Init => CountInv
  BY DEF Init, CountInv, FreshUm, FreshUart, FramesCounted, Pending, NoChar
<1>2. SerialTypeOK /\ CountInv /\ [Next]_vars => CountInv'
  BY CountDriver, CountOthers DEF Next
<1> QED BY <1>1, <1>2, SerialTypes, PTL DEF Spec

----------------------------------------------------------------------------
\* Whatever line coding a host asks for, usart_config accepts what setup_usart_config makes
\* of it; the registers then stand for seven or eight bits of data besides a parity bit, and
\* for one of the four bauds to half a percent, the one asked for if it is among them.
THEOREM FrameAsAsked ==
  ASSUME NEW c \in LineCodings
  PROVE  LET bits  == SetupConfig(c)
             frame == UsartConfig(bits)
         IN /\ ~Refused(bits)
            /\ DataBits(frame) = IF c.databits = 7 /\ c.paritytype \in {1, 2} THEN 7 ELSE 8
            /\ frame.pce <=> c.paritytype \in {1, 2}
            /\ BaudIs(frame, bits.baud)
            /\ c.bitrate \in {9600, 19200, 57600, 115200} => bits.baud = c.bitrate
<1> DEFINE bits == SetupConfig(c)
           frame == UsartConfig(bits)
<1>1. /\ bits.baud \in {9600, 19200, 57600, 115200}
      /\ c.bitrate \in {9600, 19200, 57600, 115200} => bits.baud = c.bitrate
  BY DEF SetupConfig
<1>2. /\ Brr(9600) = 3750 /\ Brr(19200) = 1875 /\ Brr(57600) = 625 /\ Brr(115200) = 312
  BY DEF Brr
<1>3. frame.brr = Brr(bits.baud) /\ frame.pce = bits.parenb /\ frame.m = (bits.cs = 8 /\ bits.parenb)
  BY DEF UsartConfig
<1>4. /\ bits.parenb <=> c.paritytype \in {1, 2}
      /\ bits.parenb \in BOOLEAN
      /\ bits.cs = IF c.databits = 7 /\ c.paritytype \in {1, 2} THEN 7 ELSE 8
  <2> DEFINE parity == IF c.paritytype \in 1..2 THEN c.paritytype ELSE 0
  <2>1. c.paritytype \in Nat /\ (parity # 0 <=> c.paritytype \in {1, 2})
    BY DEF LineCodings
  <2>2. bits.parenb = (parity # 0) /\ bits.cs = IF c.databits = 7 /\ parity # 0 THEN 7 ELSE 8
    BY DEF SetupConfig
  <2> HIDE DEF parity, bits
  <2> QED BY <2>1, <2>2, Zenon
<1> HIDE DEF bits, frame
<1>5. ~Refused(bits)
  BY <1>1, <1>2, <1>4 DEF Refused
<1>6. BaudIs(frame, bits.baud)
  BY <1>1, <1>2, <1>3 DEF BaudIs
<1>7. DataBits(frame) = IF c.databits = 7 /\ c.paritytype \in {1, 2} THEN 7 ELSE 8
  <2>1. CASE c.paritytype \in {1, 2}
    <3>1. frame.pce /\ (frame.m <=> bits.cs = 8)
      BY <1>3, <1>4, <2>1, Zenon
    <3>2. CASE c.databits = 7
      <4>1. bits.cs = 7
        BY <1>4, <2>1, <3>2
      <4>2. ~frame.m
        BY <3>1, <4>1
      <4>3. DataBits(frame) = 7
        BY <3>1, <4>2 DEF DataBits
      <4> QED BY <2>1, <3>2, <4>3
    <3>3. CASE c.databits # 7
      <4>1. frame.m
        BY <1>4, <3>1, <3>3
      <4>2. DataBits(frame) = 8
        BY <3>1, <4>1 DEF DataBits
      <4> QED BY <3>3, <4>2
    <3> QED BY <3>2, <3>3
  <2>2. CASE c.paritytype \notin {1, 2}
    <3>1. ~frame.pce /\ ~frame.m
      BY <1>3, <1>4, <2>2
    <3>2. DataBits(frame) = 8
      BY <3>1 DEF DataBits
    <3> QED BY <2>2, <3>2
  <2> QED BY <2>1, <2>2
<1> QED BY <1>1, <1>3, <1>4, <1>5, <1>6, <1>7 DEF bits, frame

----------------------------------------------------------------------------
\* How a carrying thread goes on.  The two take the same way up to the delay only.
Passes(t, from, to) ==
  \/ from = "conn" /\ to = "flush_in"
  \/ from = "flush_in" /\ to = "flush_out"
  \/ from = "flush_out" /\ to = "delay"
  \/ from = "delay" /\ to = IF t = "c2u" THEN "send" ELSE "read"
  \/ t = "u2c" /\ from \in {"read", "reading"} /\ to \in {"reading", "send"}
  \/ t = "u2c" /\ from = "send" /\ to \in {"send", "read", "conn"}
  \/ t = "c2u" /\ from = "send" /\ to = "recv"
  \/ t = "c2u" /\ from = "recv" /\ to = "take"
  \/ t = "c2u" /\ from = "take" /\ to \in {"write", "recv", "conn"}
  \/ t = "c2u" /\ from \in {"write", "writing"} /\ to \in {"write", "writing", "recv"}

U2cPlaces == {"conn", "flush_in", "flush_out", "delay", "read", "reading", "send"}
C2uPlaces == {"conn", "flush_in", "flush_out", "delay", "send", "recv", "take", "write", "writing"}

\* Each thread is where it can be; cdc_to_usart_loop sends only the empty packet it starts
\* with; and there are no threads before main has created them.
ApartInv ==
  /\ thr["u2c"].pc \in U2cPlaces /\ thr["c2u"].pc \in C2uPlaces
  /\ thr["c2u"].pc = "send" => thr["c2u"].buf = << >>
  /\ um.pc = "off" => \A t \in Threads : thr[t].pc = "conn"

\* One thread goes on, the other does not; the threads exist.
Goes(t) ==
  /\ um.pc # "off" /\ Passes(t, thr[t].pc, thr'[t].pc)
  /\ \A u \in Threads : u # t => thr'[u] = thr[u]
  /\ t = "c2u" /\ thr'[t].pc = "send" => thr'[t].buf = << >>

LEMMA TwoThreads == "u2c" \in Threads /\ "c2u" \in Threads /\ \A t \in Threads : t \in {"u2c", "c2u"}
BY DEF Threads

LEMMA GoesPc ==
  ASSUME ThreadsOK, um.pc # "off", NEW t \in Threads, NEW r, thr' = [thr EXCEPT ![t].pc = r],
         Passes(t, thr[t].pc, r), t = "c2u" /\ r = "send" => thr[t].buf = << >>
  PROVE  Goes(t)
<1>1. thr'[t].pc = r /\ thr'[t].buf = thr[t].buf /\ \A u \in Threads : u # t => thr'[u] = thr[u]
  BY DEF ThreadsOK
<1> QED BY <1>1 DEF Goes

LEMMA GoesBuf ==
  ASSUME ThreadsOK, um.pc # "off", NEW t \in Threads, NEW r, NEW b,
         thr' = [thr EXCEPT ![t] = [buf |-> b, pc |-> r]],
         Passes(t, thr[t].pc, r), t = "c2u" /\ r = "send" => b = << >>
  PROVE  Goes(t)
<1>1. thr'[t].pc = r /\ thr'[t].buf = b /\ \A u \in Threads : u # t => thr'[u] = thr[u]
  BY DEF ThreadsOK
<1> QED BY <1>1 DEF Goes

LEMMA CarryGoes ==
  ASSUME SerialTypeOK, ApartInv, NEW t \in Threads, Carry(t)
  PROVE  thr' = thr \/ Goes(t)
<1>1. ThreadsOK /\ um.pc # "off"
  BY DEF SerialTypeOK, Carry, Runs, CanRun
<1>2. CASE t = "u2c" /\ RbRead(t)
  <2>1. CASE h2a.empty
    BY <1>2, <2>1 DEF RbRead
  <2>2. CASE ~h2a.empty
    <3>1. PICK b, r : r \in {"send", "reading"} /\ thr' = [thr EXCEPT ![t] = [buf |-> b, pc |-> r]]
      BY <1>2, <2>2, Zenon DEF RbRead
    <3>2. Passes(t, thr[t].pc, r)
      BY <1>2, <3>1 DEF RbRead, Passes
    <3> QED BY <1>1, <1>2, <3>1, <3>2, GoesBuf, Zenon
  <2> QED BY <2>1, <2>2
<1>3. CASE t = "c2u" /\ RbWrite(t)
  <2>1. CASE a2h.full
    <3>1. thr' = [thr EXCEPT ![t].pc = "write"] /\ Passes(t, thr[t].pc, "write")
      BY <1>3, <2>1 DEF RbWrite, Passes
    <3> QED BY <1>1, <3>1, GoesPc, Zenon
  <2>2. CASE ~a2h.full
    <3>1. PICK b, r : r \in {"recv", "writing"} /\ thr' = [thr EXCEPT ![t] = [buf |-> b, pc |-> r]]
      BY <1>3, <2>2 DEF RbWrite
    <3>2. Passes(t, thr[t].pc, r)
      BY <1>3, <3>1 DEF RbWrite, Passes
    <3> QED BY <1>1, <3>1, <3>2, GoesBuf, Zenon
  <2> QED BY <2>1, <2>2
<1>4. CASE FlushIn(t)
  <2>1. thr' = [thr EXCEPT ![t].pc = "flush_out"] /\ Passes(t, thr[t].pc, "flush_out")
    BY <1>4 DEF FlushIn, Passes
  <2> QED BY <1>1, <2>1, GoesPc, Zenon
<1>5. CASE FlushOut(t)
  <2>1. thr' = [thr EXCEPT ![t].pc = "delay"] /\ Passes(t, thr[t].pc, "delay")
    BY <1>5 DEF FlushOut, Passes
  <2> QED BY <1>1, <2>1, GoesPc, Zenon
<1> QED BY <1>2, <1>3, <1>4, <1>5 DEF Carry

LEMMA CdcGoes ==
  ASSUME SerialTypeOK, ApartInv, NEW t \in Threads,
         WaitConnection(t) \/ Delay(t) \/ Send(t)
  PROVE  thr' = thr \/ Goes(t)
<1>1. ThreadsOK /\ um.pc # "off"
  BY DEF SerialTypeOK, WaitConnection, Delay, Send, Runs, CanRun
<1>2. CASE WaitConnection(t)
  <2>1. CASE thr' = [thr EXCEPT ![t].pc = "flush_in"]
    <3>1. Passes(t, thr[t].pc, "flush_in")
      BY <1>2 DEF WaitConnection, Passes
    <3> QED BY <1>1, <2>1, <3>1, GoesPc, Zenon
  <2> QED BY <1>2, <2>1 DEF WaitConnection
<1>3. CASE Delay(t)
  <2>1. PICK r : r = IF t = "c2u" THEN "send" ELSE "read"
    OBVIOUS
  <2>2. thr' = [thr EXCEPT ![t].pc = r] /\ Passes(t, thr[t].pc, r) /\ thr[t].buf = << >>
    BY <1>1, <1>3, <2>1 DEF Delay, Passes, ThreadsOK
  <2> QED BY <1>1, <2>2, GoesPc, Zenon
<1>4. CASE Send(t)
  <2>1. ASSUME NEW r \in {1, -1}, Sent(t, r) PROVE Goes(t)
    <3>1. PICK p : p = CASE Len(thr[t].buf) = BufSize -> "send"
                         [] Len(thr[t].buf) < BufSize /\ t = "c2u" -> "recv"
                         [] OTHER -> IF r > 0 THEN "read" ELSE "conn"
      OBVIOUS
    <3>2. thr' = [thr EXCEPT ![t] = [buf |-> << >>, pc |-> p]]
      BY <2>1, <3>1 DEF Sent
    <3>3. PICK n : n = Len(thr[t].buf)
      BY Zenon
    <3>4. n \in Nat /\ n <= BufSize /\ BufSize \in Nat \ {0}
      BY <1>1, <3>3, SizesAssumption DEF ThreadsOK, Buffers
    <3>5. CASE t = "c2u"
      <4>1. thr[t].buf = << >>
        BY <1>4, <3>5 DEF Send, ApartInv
      <4>2. n = 0
        BY <3>3, <4>1
      <4>3. p = "recv"
        BY <3>1, <3>3, <3>4, <3>5, <4>2
      <4>4. Passes(t, thr[t].pc, p)
        BY <1>4, <3>5, <4>3 DEF Send, Passes
      <4> QED BY <1>1, <3>2, <4>4, GoesBuf, Zenon
    <3>6. CASE t # "c2u"
      <4>1. t = "u2c"
        BY <3>6, TwoThreads
      <4>2. p \in {"send", "read", "conn"}
        <5>1. CASE n = BufSize
          BY <3>1, <3>3, <3>6, <5>1
        <5>2. CASE n # BufSize
          BY <3>1, <3>3, <3>6, <5>2
        <5> QED BY <5>1, <5>2
      <4>3. Passes(t, thr[t].pc, p)
        BY <1>4, <4>1, <4>2 DEF Send, Passes
      <4> QED BY <1>1, <3>2, <4>3, GoesBuf, Zenon
    <3> QED BY <3>5, <3>6
  <2> QED BY <1>4, <2>1 DEF Send
<1> QED BY <1>2, <1>3, <1>4

LEMMA InputGoes ==
  ASSUME SerialTypeOK, ApartInv, Recv \/ Take
  PROVE  thr' = thr \/ Goes("c2u")
<1>1. ThreadsOK /\ um.pc # "off" /\ "c2u" \in Threads
  BY TwoThreads DEF SerialTypeOK, Recv, Take, Runs, CanRun
<1>2. CASE Recv
  <2>1. CASE thr' = [thr EXCEPT !["c2u"].pc = "take"]
    <3>1. Passes("c2u", thr["c2u"].pc, "take")
      BY <1>2 DEF Recv, Passes
    <3> QED BY <1>1, <2>1, <3>1, GoesPc, Zenon
  <2> QED BY <1>2, <2>1 DEF Recv
<1>3. CASE Take
  <2>1. CASE flags.conn /\ flags.avail
    <3>1. PICK b, r : r \in {"write", "recv"} /\ thr' = [thr EXCEPT !["c2u"] = [buf |-> b, pc |-> r]]
      BY <1>3, <2>1 DEF Take
    <3>2. Passes("c2u", thr["c2u"].pc, r)
      BY <1>3, <3>1 DEF Take, Passes
    <3> QED BY <1>1, <3>1, <3>2, GoesBuf, Zenon
  <2>2. CASE ~(flags.conn /\ flags.avail)
    <3>1. PICK r : r \in {"recv", "conn"} /\ thr' = [thr EXCEPT !["c2u"].pc = r]
      BY <1>3, <2>2 DEF Take
    <3>2. Passes("c2u", thr["c2u"].pc, r)
      BY <1>3, <3>1 DEF Take, Passes
    <3> QED BY <1>1, <3>1, <3>2, GoesPc, Zenon
  <2> QED BY <2>1, <2>2
<1> QED BY <1>2, <1>3

LEMMA TimeOutGoes ==
  ASSUME SerialTypeOK, ApartInv, TimeOut
  PROVE  thr' = thr \/ Goes("c2u")
<1>1. ThreadsOK /\ "c2u" \in Threads
  BY TwoThreads DEF SerialTypeOK
<1>2. PICK i \in DOMAIN slept :
        thr' = IF thr[slept[i].t].pc = "recv" THEN [thr EXCEPT ![slept[i].t].pc = "take"] ELSE thr
  BY DEF TimeOut
<1>3. PICK t : t = slept[i].t
  OBVIOUS
<1>4. CASE t \notin Threads
  <2>1. [thr EXCEPT ![t].pc = "take"] = thr
    BY <1>1, <1>4 DEF ThreadsOK
  <2> QED BY <1>2, <1>3, <2>1
<1>5. CASE t \in Threads /\ thr[t].pc = "recv"
  <2>1. t = "c2u"
    BY <1>5, TwoThreads DEF ApartInv, U2cPlaces
  <2>2. um.pc # "off"
    BY <1>5 DEF ApartInv
  <2>3. Passes("c2u", thr["c2u"].pc, "take")
    BY <1>5, <2>1 DEF Passes
  <2>4. thr' = [thr EXCEPT !["c2u"].pc = "take"]
    BY <1>2, <1>3, <1>5, <2>1
  <2> QED BY <1>1, <2>2, <2>3, <2>4, GoesPc, Zenon
<1> QED BY <1>2, <1>3, <1>4, <1>5

LEMMA OneGoes ==
  ASSUME SerialTypeOK, ApartInv, [Next]_vars
  PROVE  thr' = thr \/ \E t \in Threads : Goes(t)
<1>1. CASE World \/ Um \/ UmNotify \/ MainStarts \/ UNCHANGED vars
  BY <1>1, Zenon DEF World, Host, HostControl, HostReset, HostType, HostHears, HostNoticed, FrameComes,
              Line, Um, UmPoll, UmInterrupt, UmStatus, UmData, UmPut, UmWrite, UmCheck,
              UmNotify, MainStarts, vars
<1>2. CASE Cm
  BY <1>2, Zenon DEF Cm, CmEvent, Callback, CmReset, CmAddressed, CmConfigure, CmDeconfigure, CmLineState,
              CmCoding, CmConfigureUsart, CmSendBreak, CmBreak, CmTxDone, CmNoteDone, CmRxReady,
              CmRxFlags
<1>3. ASSUME NEW t \in Threads, Carries(t) PROVE thr' = thr \/ Goes(t)
  BY <1>3, CarryGoes, CdcGoes DEF Carries
<1>4. CASE Recv \/ Take \/ TimeOut
  BY <1>4, InputGoes, TimeOutGoes, TwoThreads
<1> QED BY <1>1, <1>2, <1>3, <1>4 DEF Next

\* Once the threads have been created, they exist.
LEMMA StaysOn ==
  ASSUME SerialTypeOK, [Next]_vars, um.pc # "off"
  PROVE  um'.pc # "off"
<1>1. UmOK
  BY DEF SerialTypeOK
<1>2. um' = um \/ um' = WriteEvent(um) \/ Um \/ UmNotify \/ MainStarts
  BY Zenon DEF Next, World, Host, HostControl, HostReset, HostType, HostHears, HostNoticed, FrameComes,
         Line, vars, usart, Carries, Carry, WaitConnection, Delay, Send, Recv, Take, TimeOut,
         RbRead, RbWrite, FlushIn, FlushOut,
         Cm, CmEvent, Callback, CmReset, CmAddressed, CmConfigure, CmDeconfigure, CmLineState,
         CmCoding, CmConfigureUsart, CmSendBreak, CmBreak, CmTxDone, CmNoteDone, CmRxReady,
         CmRxFlags
<1>3. CASE um' = WriteEvent(um)
  BY <1>1, <1>3 DEF WriteEvent, UmOK
<1>4. CASE UmNotify \/ MainStarts
  BY <1>1, <1>4, Zenon DEF UmNotify, MainStarts, UmOK, Onward
<1>5. CASE UmPoll \/ UmInterrupt \/ UmPut
  BY <1>1, <1>5 DEF UmPoll, UmInterrupt, UmPut, UmOK, Onward
<1>6. CASE UmStatus
  BY <1>1, <1>6 DEF UmStatus, UmOK, Onward
<1>7. CASE UmData
  BY <1>1, <1>7 DEF UmData, UmOK, Onward
<1>8. CASE UmWrite \/ UmCheck
  BY <1>1, <1>8 DEF UmWrite, UmCheck, UmOK, Onward
<1> QED BY <1>2, <1>3, <1>4, <1>5, <1>6, <1>7, <1>8 DEF Um

LEMMA ApartStep ==
  ASSUME SerialTypeOK, ApartInv, [Next]_vars
  PROVE  ApartInv'
<1>1. um'.pc = "off" => um.pc = "off"
  BY StaysOn
<1>2. CASE thr' = thr
  BY <1>1, <1>2 DEF ApartInv
<1>3. ASSUME NEW t \in Threads, Goes(t) PROVE ApartInv'
  <2>1. um'.pc # "off"
    BY <1>1, <1>3 DEF Goes
  <2>2. CASE t = "u2c"
    BY <1>3, <2>1, <2>2, TwoThreads DEF Goes, Passes, ApartInv, U2cPlaces
  <2>3. CASE t = "c2u"
    BY <1>3, <2>1, <2>3, TwoThreads DEF Goes, Passes, ApartInv, C2uPlaces
  <2> QED BY <2>2, <2>3, TwoThreads
<1> QED BY <1>2, <1>3, OneGoes

LEMMA InitApart == Init => ApartInv
BY TwoThreads DEF Init, ApartInv, U2cPlaces, C2uPlaces

----------------------------------------------------------------------------
\* What comes in on the line is heard in order.  Its characters are a train of six parts,
\* from the data register to the host: every step moves some from one part to the next,
\* drops what a part has, or lets a new one in.  The endpoint has one packet at most.
RxParts ==
  << log.heard, Packet(ep.tx), thr["u2c"].buf, Contents(h2a, H2aSize), Char(um.ch), Char(uart.rdr) >>
RxInv == Accounted(RxParts, 6, log.lost, host.came) /\ Len(ep.tx) <= 1

LEMMA RxPartsAre ==
  /\ RxParts[1] = log.heard /\ RxParts[2] = Packet(ep.tx) /\ RxParts[3] = thr["u2c"].buf
  /\ RxParts[4] = Contents(h2a, H2aSize) /\ RxParts[5] = Char(um.ch) /\ RxParts[6] = Char(uart.rdr)
  /\ RxParts'[1] = log'.heard /\ RxParts'[2] = Packet(ep'.tx) /\ RxParts'[3] = thr'["u2c"].buf
  /\ RxParts'[4] = Contents(h2a', H2aSize) /\ RxParts'[5] = Char(um'.ch)
  /\ RxParts'[6] = Char(uart'.rdr)
BY DEF RxParts

LEMMA SixPlaces ==
  /\ \A i \in 1..6 : i = 1 \/ i = 2 \/ i = 3 \/ i = 4 \/ i = 5 \/ i = 6
  /\ 6 \in Nat \ {0} /\ 1 \in 1..6 /\ 2 \in 1..6 /\ 3 \in 1..6 /\ 4 \in 1..6 /\ 5 \in 1..6 /\ 6 \in 1..6
OBVIOUS

\* Two trains are alike but for some of the parts.
RxSame(places) == \A i \in 1..6 : i \notin places => RxParts'[i] = RxParts[i]

LEMMA RxStays ==
  ASSUME NEW places, 1 \in places \/ log'.heard = log.heard, 2 \in places \/ ep'.tx = ep.tx,
         3 \in places \/ thr'["u2c"].buf = thr["u2c"].buf, 4 \in places \/ h2a' = h2a,
         5 \in places \/ um'.ch = um.ch, 6 \in places \/ uart'.rdr = uart.rdr
  PROVE  RxSame(places)
<1>1. ASSUME NEW i \in 1..6, i \notin places PROVE RxParts'[i] = RxParts[i]
  <2>1. CASE i = 1
    BY <1>1, <2>1, RxPartsAre
  <2>2. CASE i = 2
    BY <1>1, <2>2, RxPartsAre
  <2>3. CASE i = 3
    BY <1>1, <2>3, RxPartsAre
  <2>4. CASE i = 4
    BY <1>1, <2>4, RxPartsAre
  <2>5. CASE i = 5
    BY <1>1, <2>5, RxPartsAre
  <2>6. CASE i = 6
    BY <1>1, <2>6, RxPartsAre
  <2> QED BY <2>1, <2>2, <2>3, <2>4, <2>5, <2>6, SixPlaces
<1> QED BY <1>1 DEF RxSame

LEMMA RxQuiet ==
  ASSUME RxInv, log'.heard = log.heard, log'.lost = log.lost, ep'.tx = ep.tx,
         thr'["u2c"].buf = thr["u2c"].buf, h2a' = h2a, um'.ch = um.ch, uart'.rdr = uart.rdr,
         host'.came = host.came, host.came \in Nat
  PROVE  RxInv'
<1>1. RxSame({})
  BY RxStays
<1>2. PICK P, Q : P = RxParts /\ Q = RxParts'
  OBVIOUS
<1>3. \A i \in 1..6 : Q[i] = P[i]
  BY <1>1, <1>2 DEF RxSame
<1>4. Accounted(P, 6, log.lost, host.came)
  BY <1>2 DEF RxInv
<1>5. Accounted(Q, 6, log.lost, host.came)
  BY ONLY <1>3, <1>4, SixPlaces, TrainMisses, host.came \in Nat, Zenon
<1> QED BY <1>2, <1>5 DEF RxInv

\* One part goes on, or its first character; one part is dropped.
RxShift(k, l) ==
  /\ k \in 1..6 /\ l \in 1..6 /\ l = k + 1 /\ RxSame({k, l})
  /\ \/ /\ RxParts[l] # << >> /\ RxParts'[k] = Append(RxParts[k], Head(RxParts[l]))
        /\ RxParts'[l] = Tail(RxParts[l])
     \/ /\ RxParts'[k] = RxParts[k] \o RxParts[l] \/ (RxParts[k] = << >> /\ RxParts'[k] = RxParts[l])
        /\ RxParts'[l] = << >>

LEMMA RxMoves ==
  ASSUME RxInv, log'.lost = log.lost, host'.came = host.came, Len(ep'.tx) <= 1,
         NEW k, NEW l, RxShift(k, l)
  PROVE  RxInv'
<1> USE DEF RxShift
<1>1. PICK P, Q : P = RxParts /\ Q = RxParts'
  OBVIOUS
<1>2. Accounted(P, 6, log.lost, host.came)
  BY <1>1 DEF RxInv
<1>3. \A i \in 1..6 : i # k /\ i # l => Q[i] = P[i]
  BY <1>1 DEF RxSame
<1>4. CASE P[l] # << >> /\ Q[k] = Append(P[k], Head(P[l])) /\ Q[l] = Tail(P[l])
  <2>0. HeadShifts(P, Q, 6, k, l)
    BY <1>3, <1>4 DEF HeadShifts
  <2>1. Accounted(Q, 6, log.lost, host.came)
    BY ONLY <1>2, <2>0, SixPlaces, TrainHeadMoves
  <2> QED BY <1>1, <2>1 DEF RxInv
<1>5. CASE Q[k] = P[k] \o P[l] \/ (P[k] = << >> /\ Q[k] = P[l])
  <2>1. CASE Q[l] = << >>
    <3>0. PartShifts(P, Q, 6, k, l)
      BY <1>3, <1>5, <2>1, Zenon DEF PartShifts
    <3>1. Accounted(Q, 6, log.lost, host.came)
      BY ONLY <1>2, <3>0, SixPlaces, TrainPartMoves
    <3> QED BY <1>1, <3>1 DEF RxInv
  <2>2. CASE Q[l] # << >>
    BY <1>1, <1>4, <2>2, Zenon
  <2> QED BY <2>1, <2>2
<1> QED BY <1>1, <1>4, <1>5, Zenon

LEMMA RxDrops ==
  ASSUME RxInv, NEW k \in 1..6, RxSame({k}), RxParts'[k] = << >>, Len(ep'.tx) <= 1,
         log'.lost = log.lost \cup ToSet(RxParts[k]), host'.came = host.came
  PROVE  RxInv'
<1>1. PICK P, Q : P = RxParts /\ Q = RxParts'
  OBVIOUS
<1>2. Accounted(P, 6, log.lost, host.came)
  BY <1>1 DEF RxInv
<1>3. (\A i \in 1..6 : i # k => Q[i] = P[i]) /\ Q[k] = << >>
  BY <1>1 DEF RxSame
<1>4. Accounted(Q, 6, log.lost \cup ToSet(P[k]), host.came)
  BY ONLY <1>2, <1>3, k \in 1..6, SixPlaces, TrainDrops
<1> QED BY <1>1, <1>4 DEF RxInv

LEMMA CharsOf ==
  ASSUME NEW packets \in Seq(Buffers), Len(packets) <= 1
  PROVE  Chars(packets) = ToSet(Packet(packets))
<1>1. CASE packets = << >>
  BY <1>1 DEF Chars, Packet, ToSet
<1>2. CASE packets # << >>
  <2>1. DOMAIN packets = {1}
    <3>1. PICK n \in Nat : n = Len(packets) /\ DOMAIN packets = 1..n
      BY LenProperties
    <3>2. n # 0
      BY <1>2, <3>1
    <3>3. n = 1
      BY <3>1, <3>2
    <3> QED BY <3>1, <3>3
  <2>2. Head(packets) = packets[1]
    BY <1>2
  <2>3. Packet(packets) = packets[1]
    BY <1>2, <2>2 DEF Packet
  <2>4. Chars(packets) = ToSet(packets[1])
    BY <2>1 DEF Chars
  <2> QED BY <2>3, <2>4
<1> QED BY <1>1, <1>2

LEMMA OneChar ==
  ASSUME NEW c \in Nat
  PROVE  /\ c # NoChar => Char(c) # << >> /\ Head(Char(c)) = c /\ Tail(Char(c)) = << >>
         /\ Char(c) = << >> <=> c = NoChar
         /\ Char(NoChar) = << >>
         /\ ToSet(Char(c)) = IF c = NoChar THEN {} ELSE {c}
<1>1. ASSUME c # NoChar PROVE Char(c) # << >> /\ Head(Char(c)) = c /\ Tail(Char(c)) = << >>
                              /\ ToSet(Char(c)) = {c}
  BY <1>1 DEF Char, ToSet
<1>2. Char(NoChar) = << >> /\ ToSet(<< >>) = {}
  BY DEF Char, ToSet
<1> QED BY <1>1, <1>2

LEMMA RxDriver ==
  ASSUME SerialTypeOK, CountInv, RxInv, Um \/ UmNotify \/ MainStarts
  PROVE  RxInv'
<1>1. /\ UartOK /\ UmOK /\ RingsOK /\ host.came \in Nat /\ uart.rdr \in Nat /\ um.ch \in Nat
      /\ H2aSize \in Sizes
  BY SizesAssumption DEF SerialTypeOK, HostOK, UartOK, UmOK, Sizes
<1>2. host' = host /\ thr' = thr /\ ep'.tx = ep.tx /\ Len(ep.tx) <= 1
  <2>1. ep \in Endpoints
    BY DEF SerialTypeOK, PortOK
  <2> QED BY <2>1, Zenon DEF Um, UmNotify, MainStarts, port, UmPoll, UmInterrupt, UmStatus, UmData, UmPut, UmWrite, UmCheck,
                      Endpoints, RxInv
<1>3. CASE UmPoll \/ UmInterrupt \/ UmCheck \/ UmWrite \/ UmStatus \/ UmNotify \/ MainStarts
  <2>1. log' = log /\ h2a' = h2a
    BY <1>3, Zenon DEF UmPoll, UmInterrupt, UmCheck, UmWrite, UmStatus, UmNotify, MainStarts
  <2>2. uart'.rdr = uart.rdr
    BY <1>1, <1>3, Zenon DEF UmPoll, UmInterrupt, UmCheck, UmWrite, UmStatus, UmNotify, MainStarts, UartOK
  <2>3. um'.ch = um.ch
    BY <1>1, <1>3, Zenon DEF UmPoll, UmInterrupt, UmCheck, UmWrite, UmStatus, UmNotify, MainStarts, UmOK
  <2> QED BY <1>1, <1>2, <2>1, <2>2, <2>3, RxQuiet
<1>4. CASE UmData
  <2>1. um.ch = NoChar /\ h2a' = h2a /\ uart'.rdr = NoChar /\ log'.heard = log.heard
    BY <1>1, <1>4 DEF UmData, CountInv, UartOK
  <2>2. RxSame({5, 6})
    BY <1>2, <2>1, RxStays
  <2>3. RxParts'[6] = << >> /\ RxParts[5] = << >> /\ RxParts[6] = Char(uart.rdr)
    BY <1>1, <2>1, RxPartsAre, OneChar
  <2>4. CASE um.rxne /\ ~um.bad
    <3>1. um'.ch = uart.rdr /\ log'.lost = log.lost
      BY <1>1, <1>4, <2>4 DEF UmData, UmOK, CountInv
    <3>2. RxParts'[5] = RxParts[6]
      BY <2>3, <3>1, RxPartsAre
    <3>3. RxShift(5, 6)
      BY <2>2, <2>3, <3>2, SixPlaces DEF RxShift
    <3> QED BY <1>2, <3>1, <3>3, RxMoves
  <2>5. CASE ~(um.rxne /\ ~um.bad)
    <3>1. um'.ch = NoChar /\ log'.lost = IF uart.rdr # NoChar THEN log.lost \cup {uart.rdr} ELSE log.lost
      BY <1>1, <1>4, <2>5 DEF UmData, UmOK, CountInv
    <3>2. RxSame({6})
      BY <1>2, <2>1, <3>1, RxStays
    <3>3. log'.lost = log.lost \cup ToSet(RxParts[6])
      BY <1>1, <2>3, <3>1, OneChar
    <3> QED BY <1>2, <2>3, <3>2, <3>3, SixPlaces, RxDrops
  <2> QED BY <2>4, <2>5
<1>5. CASE UmPut
  <2>1. um.ch # NoChar /\ um'.ch = NoChar /\ uart' = uart /\ log'.heard = log.heard
    BY <1>1, <1>5 DEF UmPut, UmOK, CountInv
  <2>2. RxParts[5] = Char(um.ch) /\ RxParts'[5] = << >>
    BY <1>1, <2>1, RxPartsAre, OneChar, Zenon
  <2>3. CASE h2a.full
    <3>1. log'.lost = log.lost \cup {um.ch} /\ h2a' = h2a
      BY <1>5, <2>3 DEF UmPut, CountInv
    <3>2. RxSame({5})
      BY <1>2, <2>1, <3>1, RxStays
    <3>3. log'.lost = log.lost \cup ToSet(RxParts[5])
      BY <1>1, <2>1, <2>2, <3>1, OneChar
    <3> QED BY <1>2, <2>2, <3>2, <3>3, SixPlaces, RxDrops
  <2>4. CASE ~h2a.full
    <3>1. log' = log /\ h2a' = RbAdd(h2a, um.ch)
      BY <1>5, <2>4 DEF UmPut
    <3>2. Contents(h2a', H2aSize) = Append(Contents(h2a, H2aSize), um.ch)
      BY <1>1, <2>4, <3>1, RbAddAppends DEF RingsOK
    <3>3. RxSame({4, 5})
      BY <1>2, <2>1, <3>1, RxStays
    <3>4. /\ RxParts[5] # << >> /\ RxParts'[4] = Append(RxParts[4], Head(RxParts[5]))
          /\ RxParts'[5] = Tail(RxParts[5])
      BY <1>1, <2>1, <2>2, <3>2, RxPartsAre, OneChar
    <3>5. RxShift(4, 5)
      <4>1. 4 \in 1..6 /\ 5 \in 1..6 /\ 5 = 4 + 1
        OBVIOUS
      <4> QED BY ONLY <3>3, <3>4, <4>1, Zenon DEF RxShift
    <3> QED BY <1>2, <3>1, <3>5, RxMoves
  <2> QED BY <2>3, <2>4
<1> QED BY <1>3, <1>4, <1>5 DEF Um

LEMMA RxCarry ==
  ASSUME SerialTypeOK, CountInv, RxInv, NEW t \in Threads, Carry(t)
  PROVE  RxInv'
<1>1. /\ ThreadsOK /\ UmOK /\ RingsOK /\ host.came \in Nat /\ H2aSize \in Sizes /\ "u2c" \in Threads
      /\ h2a \in Rings(H2aSize)
  BY SizesAssumption, TwoThreads DEF SerialTypeOK, HostOK, Sizes, RingsOK
<1>2. UNCHANGED port /\ uart' = uart /\ Len(ep.tx) <= 1
  BY DEF Carry, RbRead, RbWrite, FlushIn, FlushOut, RxInv
<1>3. um'.ch = um.ch
  BY <1>1, Zenon DEF Carry, RbRead, RbWrite, FlushIn, FlushOut, UmOK, WriteEvent
<1>4. CASE t = "u2c" /\ RbRead(t)
  <2>1. log' = log
    BY <1>4 DEF RbRead
  <2>2. CASE h2a.empty
    <3>1. thr' = thr /\ h2a' = h2a
      BY <1>4, <2>2 DEF RbRead
    <3> QED BY <1>1, <1>2, <1>3, <2>1, <3>1, RxQuiet DEF port
  <2>3. CASE ~h2a.empty
    <3>1. h2a' = RbDel(h2a) /\ thr'["u2c"].buf = Append(thr["u2c"].buf, RbFirst(h2a))
      BY <1>1, <1>4, <2>3 DEF RbRead, ThreadsOK
    <3>2. /\ Contents(h2a, H2aSize) # << >> /\ RbFirst(h2a) = Head(Contents(h2a, H2aSize))
          /\ Contents(RbDel(h2a), H2aSize) = Tail(Contents(h2a, H2aSize))
      BY <1>1, <2>3, RbDelTakes
    <3>3. RxSame({3, 4})
      BY <1>2, <1>3, <2>1, RxStays DEF port
    <3>4. /\ RxParts[4] # << >> /\ RxParts'[3] = Append(RxParts[3], Head(RxParts[4]))
          /\ RxParts'[4] = Tail(RxParts[4])
      BY <3>1, <3>2, RxPartsAre
    <3>5. RxShift(3, 4)
      <4>1. 3 \in 1..6 /\ 4 \in 1..6 /\ 4 = 3 + 1
        OBVIOUS
      <4> QED BY ONLY <3>3, <3>4, <4>1, Zenon DEF RxShift
    <3> QED BY <1>2, <2>1, <3>5, RxMoves DEF port
  <2> QED BY <2>2, <2>3
<1>5. CASE t = "c2u" /\ RbWrite(t)
  <2>1. thr'["u2c"].buf = thr["u2c"].buf /\ log' = log /\ h2a' = h2a
    BY <1>1, <1>5 DEF RbWrite, ThreadsOK
  <2> QED BY <1>1, <1>2, <1>3, <2>1, RxQuiet DEF port
<1>6. CASE FlushIn(t)
  <2>1. thr'["u2c"].buf = thr["u2c"].buf /\ log'.heard = log.heard /\ h2a' = RbFlush(h2a)
        /\ log'.lost = log.lost \cup ToSet(Contents(h2a, H2aSize))
    BY <1>1, <1>6 DEF FlushIn, ThreadsOK, CountInv
  <2>2. RxSame({4})
    BY <1>2, <1>3, <2>1, RxStays DEF port
  <2>3. RxParts'[4] = << >> /\ log'.lost = log.lost \cup ToSet(RxParts[4])
    BY <1>1, <2>1, RbFlushClears, RxPartsAre
  <2> QED BY <1>2, <2>2, <2>3, SixPlaces, RxDrops DEF port
<1>7. CASE FlushOut(t)
  <2>1. thr'["u2c"].buf = thr["u2c"].buf /\ log'.heard = log.heard /\ h2a' = h2a /\ log'.lost = log.lost
    BY <1>1, <1>7 DEF FlushOut, ThreadsOK, CountInv
  <2> QED BY <1>1, <1>2, <1>3, <2>1, RxQuiet DEF port
<1> QED BY <1>4, <1>5, <1>6, <1>7 DEF Carry

LEMMA RxSend ==
  ASSUME SerialTypeOK, CountInv, ApartInv, RxInv, NEW t \in Threads, Send(t)
  PROVE  RxInv'
<1>1. /\ ThreadsOK /\ host.came \in Nat /\ "u2c" \in Threads /\ ep.tx \in Seq(Buffers) /\ ep \in Endpoints
      /\ thr["u2c"].buf \in Seq(Nat)
  BY TwoThreads DEF SerialTypeOK, HostOK, PortOK, Endpoints, ThreadsOK, Buffers
<1>2. UNCHANGED usart /\ host' = host /\ Len(ep.tx) <= 1 /\ log'.heard = log.heard
  BY Zenon DEF Send, RxInv, CountInv
<1>3. CASE thr' = thr /\ log' = log /\ ep' = ep
  BY <1>1, <1>2, <1>3, RxQuiet DEF usart
<1>4. CASE Sent(t, 1) \/ Sent(t, -1)
  <2>1. /\ thr'[t].buf = << >>
        /\ \A u \in Threads : u # t => thr'[u].buf = thr[u].buf
    BY <1>1, <1>4 DEF Sent, ThreadsOK
  <2>2. /\ t = "c2u" => thr[t].buf = << >> /\ thr'["u2c"].buf = thr["u2c"].buf
        /\ t = "u2c" => thr'["u2c"].buf = << >>
    <3>1. CASE t = "u2c"
      BY <2>1, <3>1
    <3>2. CASE t = "c2u"
      <4>1. thr["c2u"].pc = "send"
        BY <3>2 DEF Send
      <4> QED BY <1>1, <2>1, <3>2, <4>1 DEF ApartInv
    <3> QED BY <3>1, <3>2, TwoThreads
  <2>3. CASE ep' = ep /\ log'.lost = log.lost \cup ToSet(thr[t].buf)
    <3>1. CASE t = "u2c"
      <4>1. RxSame({3}) /\ RxParts'[3] = << >> /\ log'.lost = log.lost \cup ToSet(RxParts[3])
        BY <1>2, <2>2, <2>3, <3>1, RxStays, RxPartsAre DEF usart
      <4> QED BY <1>2, <2>3, <4>1, SixPlaces, RxDrops
    <3>2. CASE t = "c2u"
      <4>1. ToSet(thr[t].buf) = {}
        BY <2>2, <3>2 DEF ToSet
      <4>2. log'.lost = log.lost
        BY <2>3, <4>1
      <4> QED BY <1>1, <1>2, <2>2, <2>3, <3>2, <4>2, RxQuiet DEF usart
    <3> QED BY <3>1, <3>2, TwoThreads
  <2>4. CASE ep' = [ep EXCEPT !.tx = << thr[t].buf >>] /\ log'.lost = log.lost \cup Chars(ep.tx)
    <3>1. ep'.tx = << thr[t].buf >> /\ Len(ep'.tx) <= 1 /\ Packet(ep'.tx) = thr[t].buf
      <4>1. ep'.tx = << thr[t].buf >>
        BY <1>1, <2>4 DEF Endpoints
      <4> QED BY <4>1 DEF Packet
    <3>2. log'.lost = log.lost \cup ToSet(RxParts[2])
      BY <1>1, <1>2, <2>4, CharsOf, RxPartsAre
    <3>3. CASE t = "c2u"
      <4>1. RxSame({2}) /\ RxParts'[2] = << >>
        BY <1>2, <2>2, <3>1, <3>3, RxStays, RxPartsAre DEF usart
      <4> QED BY <1>2, <3>1, <3>2, <4>1, SixPlaces, RxDrops
    <3>4. CASE t = "u2c"
      <4>1. PICK P, Q : P = RxParts /\ Q = RxParts'
        OBVIOUS
      <4>2. PICK R : R = [i \in 1..6 |-> IF i = 2 THEN << >> ELSE P[i]]
        BY Zenon
      <4>3. \A i \in 1..6 : i # 2 => R[i] = P[i]
        BY ONLY <4>2
      <4>4. R[2] = << >> /\ 2 \in 1..6
        BY ONLY <4>2
      <4>5. Accounted(P, 6, log.lost, host.came)
        BY <4>1 DEF RxInv
      <4>6. Accounted(R, 6, log.lost \cup ToSet(P[2]), host.came)
        BY ONLY <4>3, <4>4, <4>5, SixPlaces, TrainDrops, Zenon
      <4>7. RxSame({2, 3})
        BY <1>2, RxStays DEF usart
      <4>8. Q[2] = P[3] /\ Q[3] = << >>
        BY <2>2, <3>1, <3>4, <4>1, RxPartsAre
      <4>9. \A i \in 1..6 : i # 2 /\ i # 3 => Q[i] = R[i]
        BY ONLY <4>1, <4>3, <4>7 DEF RxSame
      <4>10. 2 \in 1..6 /\ 3 \in 1..6 /\ 3 = 2 + 1 /\ R[3] = P[3]
        BY ONLY <4>2
      <4>11. PartShifts(R, Q, 6, 2, 3)
        BY ONLY <4>4, <4>8, <4>9, <4>10, Zenon DEF PartShifts
      <4>12. Accounted(Q, 6, log.lost \cup ToSet(P[2]), host.came)
        BY ONLY <4>6, <4>11, SixPlaces, TrainPartMoves
      <4> QED BY <1>2, <3>1, <3>2, <4>1, <4>12 DEF RxInv
    <3> QED BY <3>3, <3>4, TwoThreads
  <2>5. \/ ep' = ep /\ log'.lost = log.lost \cup ToSet(thr[t].buf)
        \/ ep' = [ep EXCEPT !.tx = << thr[t].buf >>] /\ log'.lost = log.lost \cup Chars(ep.tx)
        \/ thr' = thr /\ log' = log /\ ep' = ep
    BY Zenon DEF Send, CountInv
  <2> QED BY <1>3, <2>3, <2>4, <2>5
<1> QED BY <1>3, <1>4 DEF Send

LEMMA RxWorld ==
  ASSUME SerialTypeOK, CountInv, RxInv, World
  PROVE  RxInv'
<1>1. /\ UartOK /\ HostOK /\ host.came \in Nat /\ ep.tx \in Seq(Buffers) /\ ep \in Endpoints
      /\ Len(ep.tx) <= 1 /\ uart.rdr \in Nat
  BY DEF SerialTypeOK, HostOK, PortOK, Endpoints, UartOK, RxInv
<1>2. CASE HostControl \/ HostType \/ HostNoticed
  <2>1. UNCHANGED << usart, thr >> /\ log'.heard = log.heard /\ log'.lost = log.lost
    BY <1>2 DEF HostControl, HostType, HostNoticed, CountInv
  <2>2. ep'.tx = ep.tx /\ host'.came = host.came
    BY <1>1, <1>2, Zenon DEF HostControl, HostType, HostNoticed, HostOK, Endpoints
  <2> QED BY <1>1, <2>1, <2>2, RxQuiet DEF usart
<1>3. CASE HostReset
  <2>1. UNCHANGED << usart, thr >> /\ log'.heard = log.heard /\ log'.lost = log.lost \cup Chars(ep.tx)
    BY <1>3 DEF HostReset, CountInv
  <2>2. ep'.tx = << >> /\ host'.came = host.came
    BY <1>1, <1>3 DEF HostReset, HostOK, FreshEp
  <2>3. RxSame({2}) /\ RxParts'[2] = << >> /\ Len(ep'.tx) <= 1
    BY <2>1, <2>2, RxStays, RxPartsAre DEF usart, Packet
  <2>4. log'.lost = log.lost \cup ToSet(RxParts[2])
    BY <1>1, <2>1, CharsOf, RxPartsAre
  <2> QED BY <2>2, <2>3, <2>4, SixPlaces, RxDrops
<1>4. CASE HostHears
  <2>1. UNCHANGED << usart, thr, host >> /\ log'.heard = log.heard \o Head(ep.tx) /\ log'.lost = log.lost
        /\ ep.tx # << >>
    BY <1>4 DEF HostHears, CountInv
  <2>2. ep'.tx = << >> /\ Len(ep'.tx) <= 1
    BY <1>1, <1>4 DEF HostHears, Endpoints
  <2>3. RxSame({1, 2}) /\ RxParts'[2] = << >> /\ RxParts'[1] = RxParts[1] \o RxParts[2]
    BY <2>1, <2>2, RxStays, RxPartsAre, Zenon DEF usart, Packet
  <2>4. RxShift(1, 2)
    <3>1. 1 \in 1..6 /\ 2 \in 1..6 /\ 2 = 1 + 1
      OBVIOUS
    <3> QED BY ONLY <2>3, <3>1, Zenon DEF RxShift
  <2> QED BY <2>1, <2>2, <2>4, RxMoves
<1>5. CASE Line
  <2>1. UNCHANGED << h2a, um, thr, ep, host >> /\ log'.heard = log.heard /\ log'.lost = log.lost
        /\ uart'.rdr = uart.rdr
    BY <1>1, <1>5 DEF Line, LineOut, BreakSent, UartOK, CountInv, port
  <2> QED BY <1>1, <2>1, RxQuiet
<1>6. CASE FrameComes
  <2>1. PICK bad \in {FALSE, host.noise} : LineIn(host.came + 1, bad)
    BY <1>6, Zenon DEF FrameComes
  <2>2. UNCHANGED << h2a, um, thr, ep >> /\ host'.came = host.came + 1
    BY <1>1, <1>6 DEF FrameComes, HostOK
  <2>0. PICK P, Q : P = RxParts /\ Q = RxParts'
    OBVIOUS
  <2>3. Accounted(P, 6, log.lost, host.came)
    BY <2>0 DEF RxInv
  <2>4. CASE uart.rdr = NoChar
    <3>1. uart'.rdr = host.came + 1 /\ log' = log
      BY <1>1, <2>1, <2>4, Zenon DEF LineIn, UartOK
    <3>2. RxSame({6})
      BY <2>2, <3>1, RxStays
    <3>3. Char(uart'.rdr) = << host.came + 1 >>
      BY <1>1, <3>1 DEF Char, NoChar
    <3>4. << host.came + 1 >> = [i \in 1..1 |-> host.came + i]
      OBVIOUS
    <3>5. P[6] = << >> /\ Q[6] = [i \in 1..1 |-> host.came + i]
      BY <1>1, <2>0, <2>4, <3>3, <3>4, RxPartsAre, OneChar, Zenon
    <3>6. \A i \in 1..6 : i # 6 => Q[i] = P[i]
      BY <2>0, <3>2 DEF RxSame
    <3>7. 1 \in Nat
      OBVIOUS
    <3>8. Accounted(Q, 6, log.lost, host.came + 1)
      BY ONLY <1>1, <2>3, <3>5, <3>6, <3>7, SixPlaces, TrainGrows, Zenon
    <3> QED BY <1>1, <2>0, <2>2, <3>1, <3>8 DEF RxInv
  <2>5. CASE uart.rdr # NoChar
    <3>1. uart'.rdr = uart.rdr /\ log'.heard = log.heard /\ log'.lost = log.lost \cup {host.came + 1}
      BY <1>1, <2>1, <2>5, Zenon DEF LineIn, UartOK, CountInv
    <3>2. RxSame({})
      BY <2>2, <3>1, RxStays
    <3>3. \A i \in 1..6 : Q[i] = P[i]
      BY <2>0, <3>2 DEF RxSame
    <3>4. Accounted(Q, 6, log.lost \cup {host.came + 1}, host.came + 1)
      BY ONLY <1>1, <2>3, <3>3, SixPlaces, TrainMisses, Zenon
    <3> QED BY <1>1, <2>0, <2>2, <3>1, <3>4 DEF RxInv
  <2> QED BY <2>4, <2>5
<1> QED BY <1>2, <1>3, <1>4, <1>5, <1>6 DEF World, Host

LEMMA RxOthers ==
  ASSUME SerialTypeOK, CountInv, ApartInv, RxInv,
         \/ (\E t \in Threads : WaitConnection(t) \/ Delay(t)) \/ Recv \/ Take \/ TimeOut
         \/ UNCHANGED vars
  PROVE  RxInv'
<1>1. /\ ThreadsOK /\ host.came \in Nat /\ "u2c" \in Threads /\ ep \in Endpoints /\ "c2u" \in Threads
  BY TwoThreads DEF SerialTypeOK, HostOK, PortOK
<1>2. UNCHANGED << usart, host >> /\ log'.heard = log.heard /\ log'.lost = log.lost
  BY Zenon DEF WaitConnection, Delay, Recv, Take, TimeOut, CountInv, vars, port, usart
<1>3. ep'.tx = ep.tx
  BY <1>1, Zenon DEF WaitConnection, Delay, Recv, Take, TimeOut, vars, port, Endpoints
<1>4. thr'["u2c"].buf = thr["u2c"].buf
  <2>1. ASSUME NEW t \in Threads, WaitConnection(t) \/ Delay(t) PROVE thr'["u2c"].buf = thr["u2c"].buf
    BY <1>1, <2>1 DEF WaitConnection, Delay, ThreadsOK
  <2>2. CASE Recv \/ Take
    BY <1>1, <2>2 DEF Recv, Take, ThreadsOK
  <2>3. CASE TimeOut
    BY <1>1, <2>3 DEF TimeOut, ThreadsOK
  <2> QED BY <2>1, <2>2, <2>3 DEF vars
<1> QED BY <1>1, <1>2, <1>3, <1>4, RxQuiet DEF usart

LEMMA RxCm ==
  ASSUME SerialTypeOK, CountInv, RxInv, Cm
  PROVE  RxInv'
<1>1. /\ UartOK /\ host.came \in Nat /\ ep.tx \in Seq(Buffers) /\ ep \in Endpoints /\ Len(ep.tx) <= 1
  BY DEF SerialTypeOK, HostOK, PortOK, Endpoints, RxInv
<1>2. UNCHANGED << h2a, um, thr, host >>
  BY Zenon DEF Cm, CmEvent, Callback, CmReset, CmAddressed, CmConfigure, CmDeconfigure, CmLineState,
         CmCoding, CmConfigureUsart, CmSendBreak, CmBreak, CmTxDone, CmNoteDone, CmRxReady,
         CmRxFlags, usart
<1>3. uart'.rdr = uart.rdr
  BY <1>1, Zenon DEF Cm, CmEvent, Callback, CmReset, CmAddressed, CmConfigure, CmDeconfigure, CmLineState,
              CmCoding, CmConfigureUsart, CmSendBreak, CmBreak, CmTxDone, CmNoteDone, CmRxReady,
              CmRxFlags, usart, UartOK, Enabled, Disabled, SetBreak
<1>4. log'.heard = log.heard
  BY Zenon DEF Cm, CmEvent, Callback, CmReset, CmAddressed, CmConfigure, CmDeconfigure, CmLineState,
         CmCoding, CmConfigureUsart, CmSendBreak, CmBreak, CmTxDone, CmNoteDone, CmRxReady,
         CmRxFlags, usart, Enabled, SetBreak, Rewritten, CountInv
<1>5. CASE CmDeconfigure
  <2>1. CASE dev.state = "CONFIGURED"
    <3>1. log'.lost = log.lost \cup Chars(ep.tx)
      BY <1>5, <2>1, Zenon DEF CmDeconfigure, CountInv
    <3>2. ep'.tx = << >>
      BY <1>1, <1>5, <2>1, Zenon DEF CmDeconfigure, Endpoints
    <3>3. RxSame({2}) /\ RxParts'[2] = << >> /\ Len(ep'.tx) <= 1
      BY <1>2, <1>3, <1>4, <3>2, RxStays, RxPartsAre DEF Packet
    <3>4. log'.lost = log.lost \cup ToSet(RxParts[2])
      BY <1>1, <3>1, CharsOf, RxPartsAre
    <3> QED BY <1>2, <3>3, <3>4, SixPlaces, RxDrops
  <2>2. CASE dev.state # "CONFIGURED"
    <3>1. UNCHANGED << log, ep >>
      BY <1>5, <2>2 DEF CmDeconfigure
    <3> QED BY <1>1, <1>2, <1>3, <3>1, RxQuiet
  <2> QED BY <2>1, <2>2
<1>6. CASE ~CmDeconfigure
  <2>1. log'.lost = log.lost
    BY <1>6, Zenon DEF Cm, CmEvent, Callback, CmReset, CmAddressed, CmConfigure, CmLineState,
         CmCoding, CmConfigureUsart, CmSendBreak, CmBreak, CmTxDone, CmNoteDone, CmRxReady,
         CmRxFlags, usart, Enabled, SetBreak, Rewritten, CountInv
  <2>2. ep'.tx = ep.tx
    BY <1>1, <1>6, Zenon DEF Cm, CmEvent, Callback, CmReset, CmAddressed, CmConfigure, CmLineState,
         CmCoding, CmConfigureUsart, CmSendBreak, CmBreak, CmTxDone, CmNoteDone, CmRxReady,
         CmRxFlags, Endpoints
  <2> QED BY <1>1, <1>2, <1>3, <1>4, <2>1, <2>2, RxQuiet
<1> QED BY <1>5, <1>6

LEMMA RxStep ==
  ASSUME SerialTypeOK, CountInv, ApartInv, RxInv, [Next]_vars
  PROVE  RxInv'
<1>1. ASSUME NEW t \in Threads, Carries(t) PROVE RxInv'
  BY <1>1, RxCarry, RxSend, RxOthers DEF Carries
<1> QED BY <1>1, RxDriver, RxOthers, RxWorld, RxCm DEF Next

LEMMA InitRx == Init => RxInv
<1> SUFFICES ASSUME Init PROVE RxInv
  OBVIOUS
<1>1. /\ log.heard = << >> /\ ep.tx = << >> /\ um.ch = NoChar /\ uart.rdr = NoChar
      /\ log.lost = {} /\ host.came = 0
  BY DEF Init, FreshEp, FreshUm, FreshUart
<1>2. thr["u2c"].buf = << >>
  BY TwoThreads DEF Init
<1>3. Contents(h2a, H2aSize) = << >>
  BY SizesAssumption, FreshRingIs DEF Init, Sizes
<1>4. PICK P : P = RxParts
  OBVIOUS
<1>5. P[1] = << >> /\ P[2] = << >> /\ P[3] = << >> /\ P[4] = << >> /\ P[5] = << >> /\ P[6] = << >>
  BY <1>1, <1>2, <1>3, <1>4, RxPartsAre DEF Packet, Char
<1>6. \A i \in 1..6 : P[i] = << >>
  BY ONLY <1>5, SixPlaces
<1>7. Accounted(P, 6, {}, 0)
  <2>1. << >> \in Seq(Nat) /\ ToSet(<< >>) = {} /\ Ascending(<< >>) /\ 1..0 = {}
    BY DEF ToSet, Ascending
  <2>2. Train(P, 6)
    BY ONLY <1>6, <2>1, Zenon DEF Train, AllBefore
  <2>3. Cargo(P, 6) = {}
    BY ONLY <1>6, <2>1 DEF Cargo
  <2> QED BY ONLY <2>1, <2>2, <2>3 DEF Accounted
<1> QED BY <1>1, <1>4, <1>7 DEF RxInv

\* The counter of overruns is never ahead of the frames that were missed, and not silent
\* about them: an overrun that the status has shown, or still shows, is counted when the
\* data register is read, unless the frame read then was in error as well.
OverrunInv ==
  /\ stat.overrun + (IF uart.ore THEN 1 ELSE 0) <= log.missed
  /\ um.pc = "data" => (um.ore => uart.ore) /\ (~um.rxne => um.ore)
  /\ log.missed > 0 => stat.overrun > 0 \/ uart.ore \/ log.masked

LEMMA OverrunQuiet ==
  ASSUME OverrunInv, stat' = stat, uart'.ore = uart.ore, log'.missed = log.missed,
         log'.masked = log.masked, um' = um \/ um'.pc # "data"
  PROVE  OverrunInv'
BY DEF OverrunInv

LEMMA OverrunDriver ==
  ASSUME SerialTypeOK, CountInv, OverrunInv, Um \/ UmNotify \/ MainStarts
  PROVE  OverrunInv'
<1>1. UartOK /\ UmOK /\ stat \in [rx : Nat, overflow : Nat, bad : Nat, overrun : Nat] /\ log.missed \in Nat
  BY DEF SerialTypeOK, CountInv
<1>2. CASE UmPoll \/ UmInterrupt \/ UmPut \/ UmWrite \/ UmCheck \/ UmNotify \/ MainStarts
  <2>1. um'.pc # "data"
    BY <1>1, <1>2, Zenon DEF UmPoll, UmInterrupt, UmPut, UmWrite, UmCheck, UmNotify, MainStarts, UmOK, Onward
  <2>2. uart'.ore = uart.ore
    BY <1>1, <1>2, Zenon DEF UmPoll, UmInterrupt, UmPut, UmWrite, UmCheck, UmNotify, MainStarts, UartOK
  <2>3. log'.missed = log.missed /\ log'.masked = log.masked
    BY <1>2 DEF UmPoll, UmInterrupt, UmPut, UmWrite, UmCheck, UmNotify, MainStarts, CountInv
  <2>4. stat'.overrun = stat.overrun
    BY <1>1, <1>2 DEF UmPoll, UmInterrupt, UmPut, UmWrite, UmCheck, UmNotify, MainStarts
  <2> QED BY <2>1, <2>2, <2>3, <2>4 DEF OverrunInv
<1>3. CASE UmStatus
  <2>1. log' = log /\ stat' = stat /\ uart'.ore = uart.ore
    BY <1>1, <1>3, Zenon DEF UmStatus, UartOK
  <2>2. um'.pc = "data" => um'.ore = uart.ore /\ (um'.rxne \/ um'.ore)
    BY <1>1, <1>3, Zenon DEF UmStatus, UmOK, UartOK, Onward
  <2> QED BY <2>1, <2>2 DEF OverrunInv
<1>4. CASE UmData
  <2> DEFINE good    == um.rxne /\ ~um.bad
             overrun == um.ore /\ (good \/ ~um.rxne)
             gone    == ~good /\ uart.rdr # NoChar
  <2>1. um.pc = "data" /\ um'.pc # "data"
    BY <1>1, <1>4 DEF UmData, UmOK, Onward
  <2>2. uart'.ore = (uart.ore /\ ~um.ore) /\ uart.ore \in BOOLEAN /\ um.ore \in BOOLEAN
    BY <1>1, <1>4 DEF UmData, UartOK, UmOK
  <2>3. stat'.overrun = IF overrun THEN stat.overrun + 1 ELSE stat.overrun
    BY <1>1, <1>4 DEF UmData
  <2>4. /\ log'.missed = IF gone /\ ~um.rxne THEN log.missed + 1 ELSE log.missed
        /\ log'.masked = (log.masked \/ (um.ore /\ ~overrun))
    BY <1>4 DEF UmData, CountInv
  <2>5. (um.ore => uart.ore) /\ (~um.rxne => um.ore)
    BY <2>1 DEF OverrunInv
  <2>6. stat.overrun \in Nat /\ log.missed \in Nat
    BY <1>1
  <2>9. overrun => um.ore
    OBVIOUS
  <2> HIDE DEF good, gone, overrun
  <2>7. CASE ~um.ore
    <3>1. um.rxne /\ log'.missed = log.missed /\ stat'.overrun = stat.overrun /\ uart'.ore = uart.ore
      BY <2>2, <2>3, <2>4, <2>5, <2>7, <2>9
    <3>2. log.masked => log'.masked
      BY <2>4, Zenon
    <3> QED BY <2>1, <3>1, <3>2 DEF OverrunInv
  <2>8. CASE um.ore
    <3>1. uart.ore /\ uart'.ore = FALSE
      BY <2>2, <2>5, <2>8, Zenon
    <3>2. stat.overrun + 1 <= log.missed
      BY <3>1, <2>6 DEF OverrunInv
    <3>3. stat'.overrun \in { stat.overrun, stat.overrun + 1 } /\ log'.missed \in { log.missed, log.missed + 1 }
      <4>1. stat'.overrun \in { stat.overrun, stat.overrun + 1 }
        BY ONLY <2>3
      <4>2. log'.missed \in { log.missed, log.missed + 1 }
        BY ONLY <2>4
      <4> QED BY <4>1, <4>2
    <3>4. stat'.overrun <= log'.missed
      BY ONLY <3>2, <3>3, <2>6
    <3>5. stat'.overrun > 0 \/ log'.masked
      <4>1. CASE overrun
        <5>1. stat'.overrun = stat.overrun + 1
          BY ONLY <2>3, <4>1
        <5> QED BY ONLY <5>1, <2>6
      <4>2. CASE ~overrun
        BY ONLY <2>4, <2>8, <4>2, Zenon
      <4> QED BY <4>1, <4>2
    <3>6. stat'.overrun + 0 <= log'.missed
      BY ONLY <3>3, <3>4, <2>6
    <3> QED BY <2>1, <3>1, <3>5, <3>6 DEF OverrunInv
  <2> QED BY <2>1, <2>7, <2>8 DEF OverrunInv
<1> QED BY <1>2, <1>3, <1>4 DEF Um

LEMMA OverrunOthers ==
  ASSUME SerialTypeOK, CountInv, OverrunInv,
         World \/ TimeOut \/ (\E t \in Threads : Carries(t)) \/ Recv \/ Take \/ Cm \/ UNCHANGED vars
  PROVE  OverrunInv'
<1>1. /\ UartOK /\ UmOK /\ stat \in [rx : Nat, overflow : Nat, bad : Nat, overrun : Nat]
      /\ log.missed \in Nat
  BY DEF SerialTypeOK, CountInv
<1>2. CASE FrameComes
  <2>1. PICK bad \in {FALSE, host.noise} : LineIn(host.came + 1, bad)
    BY <1>2, Zenon DEF FrameComes
  <2>2. um' = um /\ stat' = stat
    BY <1>2 DEF FrameComes
  <2>3. CASE uart.rdr = NoChar
    <3>1. uart'.ore = uart.ore /\ log' = log
      BY <1>1, <2>1, <2>3, Zenon DEF LineIn, UartOK
    <3> QED BY <2>2, <3>1, OverrunQuiet
  <2>4. CASE uart.rdr # NoChar
    <3>1. uart'.ore /\ log'.missed = log.missed + 1
      BY <1>1, <2>1, <2>4, Zenon DEF LineIn, UartOK, CountInv
    <3>2. stat.overrun \in Nat /\ stat.overrun <= log.missed
      BY <1>1 DEF OverrunInv
    <3> QED BY <1>1, <2>2, <3>1, <3>2 DEF OverrunInv
  <2> QED BY <2>3, <2>4
<1>3. CASE Host \/ Line \/ UNCHANGED vars
  <2>1. UNCHANGED << um, stat >> /\ uart'.ore = uart.ore
    BY <1>1, <1>3, Zenon DEF Host, HostControl, HostReset, HostType, HostHears, HostNoticed, usart, vars,
                      Line, LineOut, BreakSent, UartOK
  <2>2. log'.missed = log.missed /\ log'.masked = log.masked
    BY <1>3, Zenon DEF Host, HostControl, HostReset, HostType, HostHears, HostNoticed, vars,
                Line, LineOut, BreakSent, CountInv
  <2> QED BY <2>1, <2>2, OverrunQuiet
<1>4. ASSUME NEW t \in Threads, Carry(t) PROVE OverrunInv'
  <2>1. UNCHANGED << stat, uart >> /\ log'.missed = log.missed /\ log'.masked = log.masked
    BY <1>4 DEF Carry, RbRead, RbWrite, FlushIn, FlushOut, CountInv
  <2>2. um' = um \/ um' = WriteEvent(um)
    BY <1>4 DEF Carry, RbRead, RbWrite, FlushIn, FlushOut
  <2>3. um' = um \/ um'.pc # "data"
    BY <1>1, <2>2, Zenon DEF WriteEvent, UmOK
  <2> QED BY <2>1, <2>3, OverrunQuiet
<1>5. CASE (\E t \in Threads : WaitConnection(t) \/ Delay(t) \/ Send(t)) \/ Recv \/ Take \/ TimeOut
  <2>1. UNCHANGED << um, stat, uart >>
    BY <1>5, Zenon DEF WaitConnection, Delay, Send, Recv, Take, TimeOut, usart
  <2>2. log'.missed = log.missed /\ log'.masked = log.masked
    BY <1>5, Zenon DEF WaitConnection, Delay, Send, Recv, Take, TimeOut, CountInv
  <2> QED BY <2>1, <2>2, OverrunQuiet
<1>6. CASE Cm
  <2>1. UNCHANGED << um, stat >>
    BY <1>6, Zenon DEF Cm, CmEvent, Callback, CmReset, CmAddressed, CmConfigure, CmDeconfigure, CmLineState,
                CmCoding, CmConfigureUsart, CmSendBreak, CmBreak, CmTxDone, CmNoteDone, CmRxReady,
                CmRxFlags, usart
  <2>2. uart'.ore = uart.ore
    BY <1>1, <1>6, Zenon DEF Cm, CmEvent, Callback, CmReset, CmAddressed, CmConfigure, CmDeconfigure,
                CmLineState, CmCoding, CmConfigureUsart, CmSendBreak, CmBreak, CmTxDone, CmNoteDone,
                CmRxReady, CmRxFlags, usart, UartOK, Enabled, Disabled, SetBreak
  <2>3. log'.missed = log.missed /\ log'.masked = log.masked
    BY <1>6, Zenon DEF Cm, CmEvent, Callback, CmReset, CmAddressed, CmConfigure, CmDeconfigure, CmLineState,
                CmCoding, CmConfigureUsart, CmSendBreak, CmBreak, CmTxDone, CmNoteDone, CmRxReady,
                CmRxFlags, usart, Enabled, SetBreak, Rewritten, CountInv
  <2> QED BY <2>1, <2>2, <2>3, OverrunQuiet
<1> QED BY <1>2, <1>3, <1>4, <1>5, <1>6 DEF World, Carries

\* The six parts behind one another are in ascending order, and they have all there is.
LEMMA InwardIs ==
  ASSUME RxInv
  PROVE  /\ Increasing(Inward)
         /\ ToSet(Inward) = Cargo(RxParts, 6)
<1>1. PICK P : P = RxParts
  OBVIOUS
<1>2. Train(P, 6)
  BY <1>1 DEF RxInv, Accounted
<1>3. Joined(P, 1, P[1])
  BY ONLY <1>2, SixPlaces, TrainFirst
<1>4. 2 = 1 + 1 /\ 3 = 2 + 1 /\ 4 = 3 + 1 /\ 5 = 4 + 1 /\ 6 = 5 + 1
  OBVIOUS
<1>5. Joined(P, 2, P[1] \o P[2])
  BY ONLY <1>2, <1>3, <1>4, SixPlaces, TrainJoins
<1>6. Joined(P, 3, P[1] \o P[2] \o P[3])
  BY ONLY <1>2, <1>5, <1>4, SixPlaces, TrainJoins
<1>7. Joined(P, 4, P[1] \o P[2] \o P[3] \o P[4])
  BY ONLY <1>2, <1>6, <1>4, SixPlaces, TrainJoins
<1>8. Joined(P, 5, P[1] \o P[2] \o P[3] \o P[4] \o P[5])
  BY ONLY <1>2, <1>7, <1>4, SixPlaces, TrainJoins
<1>9. Joined(P, 6, P[1] \o P[2] \o P[3] \o P[4] \o P[5] \o P[6])
  BY ONLY <1>2, <1>8, <1>4, SixPlaces, TrainJoins
<1>10. Inward = P[1] \o P[2] \o P[3] \o P[4] \o P[5] \o P[6]
  BY <1>1, RxPartsAre DEF Inward
<1>11. PICK s : s = Inward
  OBVIOUS
<1>12. Joined(P, 6, s)
  BY ONLY <1>9, <1>10, <1>11
<1>13. Increasing(s)
  BY ONLY <1>12 DEF Joined, Ascending, Increasing
<1>14. ToSet(s) = Cargo(P, 6)
  <2>1. ASSUME NEW x PROVE x \in ToSet(s) <=> x \in Cargo(P, 6)
    BY ONLY <1>12 DEF Joined, Cargo
  <2> QED BY ONLY <2>1
<1> QED BY <1>1, <1>11, <1>13, <1>14

\* Whatever host and line do, every frame that comes in on the line is in one place until the
\* host has heard it, in order, or until the program has discarded it; the statistics count it
\* once; and a frame that was overrun is told by the counter of overruns, unless the status
\* showed another error with it.
THEOREM FramesArriveInOrder == Spec => []RxAccounted
<1>1. Init => ApartInv /\ RxInv /\ OverrunInv
  <2>1. Init => OverrunInv
    BY DEF Init, OverrunInv, FreshUm, FreshUart
  <2> QED BY <2>1, InitApart, InitRx
<1>2. SerialTypeOK /\ CountInv /\ ApartInv /\ RxInv /\ OverrunInv /\ [Next]_vars
        => ApartInv' /\ RxInv' /\ OverrunInv'
  <2>1. SerialTypeOK /\ CountInv /\ OverrunInv /\ [Next]_vars => OverrunInv'
    BY OverrunDriver, OverrunOthers DEF Next
  <2> QED BY <2>1, ApartStep, RxStep
<1>3. CountInv /\ RxInv /\ OverrunInv => RxAccounted
  <2> SUFFICES ASSUME CountInv, RxInv, OverrunInv PROVE RxAccounted
    OBVIOUS
  <2>1. FramesCounted /\ stat.overrun \in Nat /\ log.missed \in Nat
    BY DEF CountInv
  <2>2. /\ Increasing(Inward)
        /\ ToSet(Inward) \cup log.lost = 1..host.came /\ ToSet(Inward) \cap log.lost = {}
    BY InwardIs DEF RxInv, Accounted
  <2>3. stat.overrun <= log.missed
    BY <2>1 DEF OverrunInv
  <2>4. log.missed > 0 => stat.overrun > 0 \/ uart.ore \/ (um.pc = "data" /\ um.ore) \/ log.masked
    BY DEF OverrunInv
  <2> QED BY <2>1, <2>2, <2>3, <2>4 DEF RxAccounted
<1> QED BY <1>1, <1>2, <1>3, SerialTypes, FramesAlwaysCounted, PTL DEF Spec

----------------------------------------------------------------------------
\* Who sleeps: once, where it can, and at the connection only while there is none.
Sleepers == [t : Threads, on : {"rx", "data", "space", "tx", "delay"}]
MaySleep(pc, on) ==
  \/ on = "rx" /\ pc \in {"conn", "recv"}
  \/ on = "data" /\ pc \in {"read", "reading"}
  \/ on = "space" /\ pc = "write"
  \/ on = "tx" /\ pc = "send"
  \/ on = "delay" /\ pc \in {"send", "read"}
Sleep(s, T, conn) ==
  /\ s \in Seq(Sleepers)
  /\ \A i, j \in DOMAIN s : s[i].t = s[j].t => i = j
  /\ \A i \in DOMAIN s : MaySleep(T[s[i].t].pc, s[i].on) /\ (T[s[i].t].pc = "conn" => ~conn)
SleepInv ==
  /\ Sleep(slept, thr, flags.conn)
  /\ cm.pc = "rx_flags" => cm.saw.conn = flags.conn

\* chopstx_cond_signal takes one out of the list, or nobody waits.
LEMMA SignalledIs ==
  ASSUME NEW s \in Seq(Sleepers), NEW on
  PROVE  \/ Signalled(s, on) = s /\ \A i \in DOMAIN s : s[i].on # on
         \/ \E k \in DOMAIN s : s[k].on = on /\ Signalled(s, on) = RemoveAt(s, k)
<1> DEFINE waiting == {i \in DOMAIN s : s[i].on = on}
<1>1. CASE waiting = {}
  BY <1>1 DEF Signalled
<1>2. CASE waiting # {}
  <2>1. DOMAIN s = 1..Len(s) /\ Len(s) \in Nat
    OBVIOUS
  <2>2. PICK m \in waiting : \A n \in waiting : m <= n
    <3>1. waiting \subseteq Nat
      BY <2>1
    <3> HIDE DEF waiting
    <3> QED BY <1>2, <3>1, LeastNat
  <2>3. PICK k : k = CHOOSE i \in waiting : \A j \in waiting : i <= j
    OBVIOUS
  <2>4. k \in waiting
    BY <2>2, <2>3
  <2>5. Signalled(s, on) = RemoveAt(s, k)
    BY <1>2, <2>3 DEF Signalled
  <2> QED BY <2>4, <2>5
<1> QED BY <1>1, <1>2

\* What is left of the list after one has gone.
LEMMA SleepRemoved ==
  ASSUME NEW s, NEW T, NEW conn, Sleep(s, T, conn), NEW k \in DOMAIN s
  PROVE  /\ Sleep(RemoveAt(s, k), T, conn)
         /\ Len(RemoveAt(s, k)) = Len(s) - 1
         /\ \A i \in DOMAIN RemoveAt(s, k) : RemoveAt(s, k)[i].t # s[k].t
<1>1. s \in Seq(Sleepers) /\ k \in 1..Len(s) /\ Len(s) \in Nat /\ DOMAIN s = 1..Len(s)
  BY DEF Sleep
<1>2. PICK r : r = RemoveAt(s, k)
  OBVIOUS
<1>3. /\ r \in Seq(Sleepers) /\ Len(r) = Len(s) - 1
      /\ \A j \in 1..(k-1) : r[j] = s[j]
      /\ \A j \in k..(Len(s)-1) : r[j] = s[j+1]
  BY <1>1, <1>2, RemoveAtFacts, Zenon
<1>4. DOMAIN r = 1..(Len(s) - 1)
  BY ONLY <1>1, <1>3
<1>5. ASSUME NEW i \in DOMAIN r
      PROVE  \E m \in DOMAIN s : r[i] = s[m] /\ m = (IF i < k THEN i ELSE i + 1)
  <2>1. CASE i < k
    BY ONLY <1>1, <1>3, <1>4, <1>5, <2>1
  <2>2. CASE ~(i < k)
    <3>1. i \in k..(Len(s) - 1) /\ i + 1 \in DOMAIN s
      BY ONLY <1>1, <1>4, <1>5, <2>2
    <3> QED BY ONLY <1>3, <2>2, <3>1
  <2> QED BY <2>1, <2>2
<1>6. \A i \in DOMAIN r : i \in Int /\ r[i] # s[k] /\ r[i].t # s[k].t
  <2>1. TAKE i \in DOMAIN r
  <2>2. PICK m \in DOMAIN s : r[i] = s[m] /\ m = (IF i < k THEN i ELSE i + 1)
    BY <1>5
  <2>3. m # k
    BY ONLY <1>1, <1>4, <2>2, i \in DOMAIN r
  <2>4. s[m].t # s[k].t
    BY <2>3 DEF Sleep
  <2> QED BY <1>4, <2>2, <2>4
<1>7. ASSUME NEW i \in DOMAIN r, NEW j \in DOMAIN r, r[i].t = r[j].t PROVE i = j
  <2>1. PICK m \in DOMAIN s : r[i] = s[m] /\ m = (IF i < k THEN i ELSE i + 1)
    BY <1>5
  <2>2. PICK n \in DOMAIN s : r[j] = s[n] /\ n = (IF j < k THEN j ELSE j + 1)
    BY <1>5
  <2>3. m = n
    BY <1>7, <2>1, <2>2 DEF Sleep
  <2> QED BY ONLY <1>1, <1>4, <2>1, <2>2, <2>3, i \in DOMAIN r, j \in DOMAIN r
<1>8. \A i \in DOMAIN r : MaySleep(T[r[i].t].pc, r[i].on) /\ (T[r[i].t].pc = "conn" => ~conn)
  BY <1>5 DEF Sleep
<1> QED BY <1>2, <1>3, <1>6, <1>7, <1>8 DEF Sleep

LEMMA SleepSignalled ==
  ASSUME NEW s, NEW T, NEW conn, Sleep(s, T, conn), NEW on
  PROVE  Sleep(Signalled(s, on), T, conn)
<1>1. s \in Seq(Sleepers)
  BY DEF Sleep
<1>2. PICK r : r = Signalled(s, on)
  OBVIOUS
<1>3. r = s \/ \E k \in DOMAIN s : r = RemoveAt(s, k)
  BY <1>1, <1>2, SignalledIs
<1>4. Sleep(r, T, conn)
  BY <1>3, SleepRemoved
<1> QED BY <1>2, <1>4

\* Two threads only: chopstx_cond_broadcast leaves nobody there.
LEMMA SleepBroadcast ==
  ASSUME NEW s, NEW T, NEW conn, Sleep(s, T, conn), NEW on
  PROVE  /\ Sleep(Broadcast(s, on), T, conn)
         /\ \A i \in DOMAIN Broadcast(s, on) : Broadcast(s, on)[i].on # on
<1>1. s \in Seq(Sleepers) /\ Len(s) \in Nat /\ DOMAIN s = 1..Len(s)
  BY DEF Sleep
<1>2. Len(s) <= 2
  <2>1. SUFFICES ASSUME ~(Len(s) <= 2) PROVE FALSE
    OBVIOUS
  <2>2. 1 \in DOMAIN s /\ 2 \in DOMAIN s /\ 3 \in DOMAIN s
    BY <1>1, <2>1
  <2>3. s[1].t \in {"u2c", "c2u"} /\ s[2].t \in {"u2c", "c2u"} /\ s[3].t \in {"u2c", "c2u"}
    <3>1. \A i \in DOMAIN s : s[i] \in Sleepers
      BY <1>1
    <3>2. \A x \in Sleepers : x.t \in {"u2c", "c2u"}
      BY DEF Sleepers, Threads
    <3> QED BY <2>2, <3>1, <3>2
  <2>4. s[1].t # s[2].t /\ s[1].t # s[3].t /\ s[2].t # s[3].t
    <3>1. 1 # 2 /\ 1 # 3 /\ 2 # 3
      OBVIOUS
    <3> QED BY <2>2, <3>1, Zenon DEF Sleep
  <2> QED BY ONLY <2>3, <2>4
<1>3. PICK r, b : r = Signalled(s, on) /\ b = Signalled(r, on) /\ b = Broadcast(s, on)
  BY DEF Broadcast
<1>4. Sleep(r, T, conn) /\ Sleep(b, T, conn)
  BY <1>3, SleepSignalled, Zenon
<1>5. r \in Seq(Sleepers) /\ b \in Seq(Sleepers)
  BY <1>4 DEF Sleep
<1>6. CASE r = s /\ \A i \in DOMAIN s : s[i].on # on
  <2>1. b = s
    BY <1>1, <1>3, <1>6, SignalledIs, Zenon
  <2> QED BY <1>3, <1>4, <1>6, <2>1
<1>7. CASE \E k \in DOMAIN s : r = RemoveAt(s, k)
  <2>1. Len(r) = Len(s) - 1
    BY <1>7, SleepRemoved
  <2>2. CASE b = r /\ \A i \in DOMAIN r : r[i].on # on
    BY <1>3, <1>4, <2>2
  <2>3. CASE \E k \in DOMAIN r : b = RemoveAt(r, k)
    <3>1. Len(b) = Len(r) - 1
      BY <1>4, <2>3, SleepRemoved
    <3>2. DOMAIN b = {}
      <4>1. Len(b) \in Nat /\ DOMAIN b = 1..Len(b)
        BY <1>5
      <4> QED BY ONLY <1>1, <1>2, <2>1, <3>1, <4>1
    <3> QED BY <1>3, <1>4, <3>2
  <2> QED BY <1>3, <1>5, <2>2, <2>3, SignalledIs, Zenon
<1> QED BY <1>1, <1>3, <1>6, <1>7, SignalledIs

----------------------------------------------------------------------------
\* What the host types is at one place at a time, before the threads have it: the endpoint
\* takes a packet only when there is none, nor is one being handled, nor is there input.
TokenInv ==
  /\ Len(ep.rx) <= 1
  /\ ~log.torn =>
       /\ ep.armed => ep.rx = << >> /\ cm.pc # "rx_flags" /\ ~flags.avail
       /\ ep.rx # << >> => cm.pc # "rx_flags" /\ ~flags.avail
       /\ cm.pc = "rx_flags" => ~flags.avail

LEMMA TokenQuiet ==
  ASSUME TokenInv, log.torn => log'.torn, ep'.rx = ep.rx, ep'.armed => ep.armed,
         cm'.pc = "rx_flags" => cm.pc = "rx_flags", flags'.avail => flags.avail
  PROVE  TokenInv'
BY DEF TokenInv

LEMMA TokenStep ==
  ASSUME SerialTypeOK, CountInv, TokenInv, [Next]_vars
  PROVE  TokenInv'
<1>1. /\ flags \in FlagWords /\ ep \in Endpoints /\ cm \in Handlers /\ cm.saw \in FlagWords
      /\ cm.pc = "rx" => ep.rx # << >>
  BY DEF SerialTypeOK, PortOK, Handlers
<1>2. Len(<< >>) <= 1 /\ \A x : Len(<< x >>) <= 1 /\ << x >> # << >>
  OBVIOUS
<1>3. CASE HostControl \/ HostHears \/ HostNoticed \/ FrameComes \/ Line \/ Um \/ MainStarts
           \/ UmNotify \/ UNCHANGED vars
  <2>1. log.torn => log'.torn
    BY <1>3, Zenon DEF CountInv, HostControl, HostHears, HostNoticed, FrameComes, LineIn, Line, LineOut, BreakSent,
                Um, UmPoll, UmInterrupt, UmStatus, UmData, UmPut, UmWrite, UmCheck, MainStarts,
                UmNotify, vars
  <2>2. ep'.rx = ep.rx /\ ep'.armed = ep.armed
    BY <1>1, <1>3, Zenon DEF HostControl, HostHears, HostNoticed, FrameComes, Line, Um, MainStarts,
                UmNotify, port, vars, Endpoints
  <2>3. cm' = cm /\ flags'.avail = flags.avail
    BY <1>1, <1>3, Zenon DEF HostControl, HostHears, HostNoticed, FrameComes, Line, Um, MainStarts,
                UmNotify, port, vars, FlagWords
  <2> QED BY <2>1, <2>2, <2>3, TokenQuiet
<1>4. CASE HostReset
  <2>1. cm' = cm /\ flags' = flags /\ (log.torn => log'.torn)
    BY <1>4 DEF HostReset, CountInv
  <2>2. ~ep'.armed /\ (ep'.rx = ep.rx \/ ep'.rx = << >>)
    BY <1>4 DEF HostReset, FreshEp
  <2> QED BY <1>2, <2>1, <2>2 DEF TokenInv
<1>5. CASE HostType
  <2>1. cm' = cm /\ flags' = flags /\ (log.torn => log'.torn)
    BY <1>5 DEF HostType, CountInv
  <2>2. ep.armed /\ ~ep'.armed /\ \E x : ep'.rx = << x >>
    BY <1>1, <1>5, Zenon DEF HostType, Endpoints
  <2> QED BY <1>2, <2>1, <2>2 DEF TokenInv
<1>6. CASE TimeOut \/ Recv \/ \E t \in Threads : Delay(t) \/ Send(t) \/ Carry(t)
  <2>1. cm' = cm
    BY <1>6, Zenon DEF TimeOut, Recv, Delay, Send, Carry, port
  <2>2. flags'.avail = flags.avail /\ ep'.rx = ep.rx /\ ep'.armed = ep.armed
    BY <1>1, <1>6, Zenon DEF TimeOut, Recv, Delay, Send, Carry, port, FlagWords, Endpoints
  <2>3. log.torn => log'.torn
    BY <1>6, Zenon DEF TimeOut, Recv, Delay, Send, Carry, RbRead, RbWrite, FlushIn, FlushOut, CountInv
  <2> QED BY <2>1, <2>2, <2>3, TokenQuiet
<1>7. ASSUME NEW t \in Threads, WaitConnection(t) PROVE TokenInv'
  <2>1. CASE ~flags.conn
    BY <1>7, <2>1, TokenQuiet DEF WaitConnection
  <2>2. CASE flags.conn
    <3>1. log'.torn = (log.torn \/ ep.rx # << >> \/ cm.pc = "rx_flags")
      BY <1>7, <2>2, Zenon DEF WaitConnection, CountInv
    <3>2. cm' = cm /\ ~flags'.avail /\ ep'.rx = ep.rx
      BY <1>1, <1>7, <2>2, Zenon DEF WaitConnection, FlagWords, Endpoints
    <3> QED BY <3>1, <3>2, Zenon DEF TokenInv
  <2> QED BY <2>1, <2>2
<1>8. CASE Take
  <2>1. cm' = cm /\ log' = log
    BY <1>8 DEF Take
  <2>2. CASE flags.conn /\ flags.avail
    <3>1. ~flags'.avail /\ ep'.rx = ep.rx
      BY <1>1, <1>8, <2>2, Zenon DEF Take, FlagWords, Endpoints
    <3> QED BY <2>1, <2>2, <3>1 DEF TokenInv
  <2>3. CASE ~(flags.conn /\ flags.avail)
    <3>1. flags' = flags /\ ep' = ep
      BY <1>8, <2>3 DEF Take
    <3> QED BY <2>1, <3>1, TokenQuiet
  <2> QED BY <2>2, <2>3
<1>9. CASE CmRxReady
  <2>1. ep.rx # << >> /\ ep'.rx = << >> /\ ep'.armed = ep.armed
    BY <1>1, <1>9 DEF CmRxReady, Endpoints
  <2>2. log'.torn = log.torn /\ flags' = flags
    BY <1>9 DEF CmRxReady, CountInv
  <2> QED BY <1>2, <2>1, <2>2 DEF TokenInv
<1>10. CASE CmRxFlags
  <2>1. cm.pc = "rx_flags" /\ cm'.pc = "wait" /\ ep' = ep /\ (log.torn => log'.torn)
    BY <1>1, <1>10, Zenon DEF CmRxFlags, Callback, Handlers, CountInv
  <2> QED BY <2>1 DEF TokenInv
<1>11. CASE Cm /\ ~CmRxReady /\ ~CmRxFlags
  <2>1. log.torn => log'.torn
    BY <1>11, Zenon DEF Cm, CmEvent, Callback, CmReset, CmAddressed, CmConfigure, CmDeconfigure, CmLineState,
             CmCoding, CmConfigureUsart, CmSendBreak, CmBreak, CmTxDone, CmNoteDone, usart,
             Enabled, SetBreak, Rewritten, CountInv
  <2>2. ep'.rx = ep.rx
    BY <1>1, <1>11, Zenon DEF Cm, CmEvent, Callback, CmReset, CmAddressed, CmConfigure, CmDeconfigure, CmLineState,
             CmCoding, CmConfigureUsart, CmSendBreak, CmBreak, CmTxDone, CmNoteDone, Endpoints
  <2>3. ep'.armed => ep.armed
    BY <1>1, <1>11, Zenon DEF Cm, CmEvent, Callback, CmReset, CmAddressed, CmConfigure, CmDeconfigure, CmLineState,
             CmCoding, CmConfigureUsart, CmSendBreak, CmBreak, CmTxDone, CmNoteDone, Endpoints
  <2>4. cm'.pc # "rx_flags"
    <3>1. CASE CmEvent
      <4>1. NextEvent \in Requests \cup {"tx", "note", "rx", "none"} /\ cm'.pc = NextEvent
        BY <1>1, <3>1, NextEventIs DEF CmEvent, Handlers
      <4> QED BY <4>1 DEF Requests
    <3>2. CASE ~CmEvent
      BY <1>1, <1>11, <3>2, Zenon DEF Cm, Callback, CmReset, CmAddressed, CmConfigure, CmDeconfigure, CmLineState,
             CmCoding, CmConfigureUsart, CmSendBreak, CmBreak, CmTxDone, CmNoteDone, Handlers
    <3> QED BY <3>1, <3>2
  <2>5. flags'.avail => flags.avail
    BY <1>1, <1>11 DEF Cm, CmEvent, Callback, CmReset, CmAddressed, CmConfigure, CmDeconfigure, CmLineState,
             CmCoding, CmConfigureUsart, CmSendBreak, CmBreak, CmTxDone, CmNoteDone, FlagWords, FreshFlags
  <2> QED BY <2>1, <2>2, <2>3, <2>4, <2>5, TokenQuiet
<1> QED BY <1>3, <1>4, <1>5, <1>6, <1>7, <1>8, <1>9, <1>10, <1>11 DEF Next, World, Host, Carries

\* The data register is free when the driver thread takes it for free, until it has written
\* it and looks again.
DrFree ==
  /\ um.txready /\ um.pc # "check" => uart.dr = NoChar
  /\ um.pc = "write" => um.txready

LEMMA DrFreeStep ==
  ASSUME SerialTypeOK, DrFree, [Next]_vars
  PROVE  DrFree'
<1>1. UartOK /\ UmOK
  BY DEF SerialTypeOK
<1>2. CASE UmStatus
  <2>1. CASE uart' = uart /\ um' = [um EXCEPT !.pc = Onward(FALSE, um.txready)]
    <3>1. um.pc = "status" /\ um'.txready = um.txready /\ um'.pc = Onward(FALSE, um.txready)
      BY <1>1, <1>2, <2>1 DEF UmStatus, UmOK
    <3> QED BY <2>1, <3>1 DEF DrFree, Onward
  <2>2. CASE ~(uart' = uart /\ um' = [um EXCEPT !.pc = Onward(FALSE, um.txready)])
    <3>1. um'.txready = TXE /\ um'.pc \in {"data", Onward(FALSE, TXE)} /\ uart'.dr = uart.dr
      BY <1>1, <1>2, <2>2, Zenon DEF UmStatus, UmOK, UartOK
    <3> QED BY <3>1, Zenon DEF DrFree, Onward, TXE
  <2> QED BY <2>1, <2>2, Zenon
<1>3. CASE UmData
  <2>1. uart'.dr = uart.dr
    BY <1>1, <1>3 DEF UmData, UartOK
  <2>2. um.pc = "data" /\ um'.txready = um.txready
    BY <1>1, <1>3 DEF UmData, UmOK
  <2>3. um'.pc \in {"put", Onward(TRUE, um.txready), Onward(FALSE, um.txready)}
    BY <1>1, <1>3, Zenon DEF UmData, UmOK
  <2> QED BY <2>1, <2>2, <2>3 DEF DrFree, Onward
<1>4. CASE UmPut \/ UmNotify
  <2>1. um.pc \in {"put", "notify"} /\ um'.txready = um.txready /\ uart' = uart
        /\ \E notify \in BOOLEAN : um'.pc = Onward(notify, um.txready)
    BY <1>1, <1>4, Zenon DEF UmPut, UmNotify, UmOK
  <2> QED BY <2>1 DEF DrFree, Onward
<1>5. CASE UmPoll \/ UmInterrupt \/ UmWrite \/ MainStarts
  BY <1>1, <1>5, Zenon DEF UmPoll, UmInterrupt, UmWrite, MainStarts, UmOK, UartOK, DrFree
<1>6. CASE UmCheck
  BY <1>1, <1>6, Zenon DEF UmCheck, UmOK, UartOK, DrFree, TXE
<1>7. CASE um' = um /\ (uart'.dr = uart.dr \/ uart'.dr = NoChar)
  BY <1>7 DEF DrFree
<1>8. CASE um' = WriteEvent(um) /\ uart' = uart
  BY <1>1, <1>8 DEF DrFree, WriteEvent, UmOK
<1>9. CASE World \/ TimeOut \/ (\E t \in Threads : Carries(t)) \/ Recv \/ Take \/ Cm \/ UNCHANGED vars
  <2>1. CASE World \/ UNCHANGED vars
    <3>1. um' = um
      BY <2>1, Zenon DEF World, Host, HostControl, HostReset, HostType, HostHears, HostNoticed, FrameComes,
                  Line, usart, vars
    <3>2. uart'.dr = uart.dr \/ uart'.dr = NoChar
      BY <1>1, <2>1, Zenon DEF World, Host, HostControl, HostReset, HostType, HostHears, HostNoticed, FrameComes,
                  LineIn, Line, LineOut, BreakSent, usart, vars, UartOK
    <3> QED BY <1>7, <3>1, <3>2
  <2>2. CASE TimeOut \/ Recv \/ Take \/ \E t \in Threads : WaitConnection(t) \/ Delay(t) \/ Send(t)
    <3>1. um' = um /\ uart' = uart
      BY <2>2, Zenon DEF TimeOut, Recv, Take, WaitConnection, Delay, Send, usart
    <3> QED BY <1>7, <3>1
  <2>3. CASE \E t \in Threads : Carry(t)
    <3>1. uart' = uart /\ (um' = um \/ um' = WriteEvent(um))
      BY <2>3 DEF Carry, RbRead, RbWrite, FlushIn, FlushOut
    <3> QED BY <1>7, <1>8, <3>1
  <2>4. CASE Cm
    <3>1. um' = um
      BY <2>4, Zenon DEF Cm, CmEvent, Callback, CmReset, CmAddressed, CmConfigure, CmDeconfigure, CmLineState,
         CmCoding, CmConfigureUsart, CmSendBreak, CmBreak, CmTxDone, CmNoteDone, CmRxReady, CmRxFlags, usart
    <3>2. uart'.dr = uart.dr
      BY <1>1, <2>4, Zenon DEF Cm, CmEvent, Callback, CmReset, CmAddressed, CmConfigure, CmDeconfigure, CmLineState,
         CmCoding, CmConfigureUsart, CmSendBreak, CmBreak, CmTxDone, CmNoteDone, CmRxReady, CmRxFlags, usart,
         UartOK, Enabled, Disabled, SetBreak
    <3> QED BY <1>7, <3>1, <3>2
  <2> QED BY <1>9, <2>1, <2>2, <2>3, <2>4 DEF Carries
<1> QED BY <1>2, <1>3, <1>4, <1>5, <1>6, <1>9 DEF Next, Um

----------------------------------------------------------------------------
\* Until the first reset has been handled, and as long as the host has only reset, there is
\* nothing on the port, and no thread.
Early == dev.state = "UNCONNECTED" \/ (~host.hungup /\ (ep.reset \/ cm.pc = "reset"))
Blank ==
  /\ dev.state \in {"UNCONNECTED", "ATTACHED"} /\ um.pc = "off" /\ cm.pc \in {"wait", "reset"}
  /\ ~flags.avail /\ ep.rx = << >> /\ ~ep.on /\ ~ep.txdone /\ ~ep.notedone /\ ep.ctl = "none"
EarlyInv == Early => Blank

\* A reset is no control request.
NoReset == ep.ctl # "reset"

LEMMA NoResetStep ==
  ASSUME SerialTypeOK, NoReset, [Next]_vars
  PROVE  NoReset'
<1>1. ep \in Endpoints
  BY DEF SerialTypeOK, PortOK
<1>2. CASE World \/ UNCHANGED vars
  BY <1>1, <1>2, Zenon DEF NoReset, World, Host, HostControl, HostReset, HostType, HostHears, HostNoticed, FrameComes,
         Line, port, vars, Endpoints, FreshEp
<1>3. CASE Um \/ UmNotify \/ MainStarts \/ TimeOut \/ (\E t \in Threads : Carries(t)) \/ Recv \/ Take
  <2>1. ep'.ctl = ep.ctl
    BY <1>1, <1>3, Zenon DEF Um, UmNotify, MainStarts, TimeOut, Carries, WaitConnection, Delay, Send, Carry, Recv,
                      Take, port, Endpoints
  <2> QED BY <2>1 DEF NoReset
<1>4. CASE Cm
  <2>1. ep'.ctl \in {ep.ctl, "none"}
    BY <1>1, <1>4, Zenon DEF Cm, CmEvent, Callback, CmReset, CmAddressed, CmConfigure, CmDeconfigure, CmLineState,
         CmCoding, CmConfigureUsart, CmSendBreak, CmBreak, CmTxDone, CmNoteDone, CmRxReady, CmRxFlags, Endpoints
  <2> QED BY <2>1 DEF NoReset
<1> QED BY <1>2, <1>3, <1>4 DEF Next

LEMMA EarlyQuiet ==
  ASSUME EarlyInv, dev'.state = dev.state, um'.pc = um.pc, cm'.pc = cm.pc, flags'.avail = flags.avail,
         ep' = ep, host.hungup => host'.hungup
  PROVE  EarlyInv'
BY DEF EarlyInv, Early, Blank

LEMMA EarlyWorld ==
  ASSUME SerialTypeOK, EarlyInv, World \/ UNCHANGED vars
  PROVE  EarlyInv'
<1>1. flags \in FlagWords /\ ep \in Endpoints /\ cm \in Handlers /\ HostOK
  BY DEF SerialTypeOK, PortOK
<1>2. um' = um /\ flags' = flags /\ dev' = dev /\ cm' = cm
  BY Zenon DEF World, Host, HostControl, HostReset, HostType, HostHears, HostNoticed, FrameComes,
         Line, usart, port, vars
<1>3. CASE FrameComes \/ Line \/ UNCHANGED vars
  <2>1. ep' = ep /\ host'.hungup = host.hungup
    BY <1>1, <1>3, Zenon DEF FrameComes, Line, port, vars, HostOK
  <2> QED BY <1>2, <2>1, EarlyQuiet
<1>4. CASE HostControl
  <2>1. ~Early
    BY <1>4 DEF HostControl, Early
  <2>2. dev.state # "UNCONNECTED" /\ ~ep.reset /\ cm.pc # "reset" /\ ep'.reset = ep.reset
    BY <1>1, <1>4 DEF HostControl, Endpoints
  <2> QED BY <1>2, <2>1, <2>2 DEF EarlyInv, Early
<1>5. CASE HostReset
  <2>1. host'.hungup = (host.hungup \/ dev.state # "UNCONNECTED")
    BY <1>1, <1>5 DEF HostReset, HostOK
  <2>2. ep'.rx = ep.rx \/ ep'.rx = << >>
    BY <1>5 DEF HostReset, FreshEp
  <2>3. ~ep'.on /\ ~ep'.txdone /\ ~ep'.notedone /\ ep'.ctl = "none"
    BY <1>5 DEF HostReset, FreshEp
  <2> QED BY <1>2, <2>1, <2>2, <2>3, Zenon DEF EarlyInv, Early, Blank
<1>6. CASE HostType \/ HostHears \/ HostNoticed
  <2>1. ep.on /\ ep'.reset = ep.reset
    BY <1>1, <1>6, Zenon DEF HostType, HostHears, HostNoticed, Endpoints
  <2>2. ~Early /\ host'.hungup = host.hungup
    BY <1>1, <1>6, <2>1, Zenon DEF EarlyInv, Blank, HostType, HostHears, HostNoticed, HostOK
  <2> QED BY <1>2, <2>1, <2>2 DEF EarlyInv, Early
<1> QED BY <1>3, <1>4, <1>5, <1>6 DEF World, Host

LEMMA EarlyThreads ==
  ASSUME SerialTypeOK, EarlyInv,
         Um \/ UmNotify \/ MainStarts \/ TimeOut \/ (\E t \in Threads : Carries(t)) \/ Recv \/ Take
  PROVE  EarlyInv'
<1>1. flags \in FlagWords /\ ep \in Endpoints
  BY DEF SerialTypeOK, PortOK
<1>2. dev' = dev /\ cm' = cm /\ host' = host
  BY Zenon DEF Um, UmNotify, MainStarts, TimeOut, Carries, WaitConnection, Delay, Send, Carry, Recv, Take, port
<1>3. CASE TimeOut
  BY <1>2, <1>3, EarlyQuiet DEF TimeOut, usart, port
<1>4. CASE Um \/ UmNotify \/ MainStarts \/ (\E t \in Threads : Carries(t)) \/ Recv \/ Take
  <2>1. um.pc # "off" \/ dev.state = "CONFIGURED"
    BY <1>4, Zenon DEF Um, UmPoll, UmInterrupt, UmStatus, UmData, UmPut, UmWrite, UmCheck, UmNotify, MainStarts,
             Carries, WaitConnection, Delay, Send, Carry, Recv, Take, Runs, CanRun
  <2>2. ~Early
    BY <2>1 DEF EarlyInv, Blank
  <2>3. ep'.reset = ep.reset
    BY <1>1, <1>4, Zenon DEF Um, UmNotify, MainStarts, Carries, WaitConnection, Delay, Send, Carry, Recv, Take, port,
             Endpoints
  <2> QED BY <1>2, <2>2, <2>3 DEF EarlyInv, Early
<1> QED BY <1>3, <1>4

LEMMA EarlyCm ==
  ASSUME SerialTypeOK, NoReset, EarlyInv, Cm
  PROVE  EarlyInv'
<1>1. flags \in FlagWords /\ ep \in Endpoints /\ cm \in Handlers /\ dev \in Devices
  BY DEF SerialTypeOK, PortOK
<1>2. um' = um /\ host' = host
  BY Zenon DEF Cm, CmEvent, Callback, CmReset, CmAddressed, CmConfigure, CmDeconfigure, CmLineState,
         CmCoding, CmConfigureUsart, CmSendBreak, CmBreak, CmTxDone, CmNoteDone, CmRxReady, CmRxFlags, usart
<1>3. CASE CmEvent
  <2>1. flags' = flags /\ cm'.pc = NextEvent /\ dev'.state = dev.state /\ NextEvent # "none"
    BY <1>1, <1>3 DEF CmEvent, Handlers, Devices
  <2>2. CASE ep.reset
    <3>1. cm'.pc = "reset" /\ ep' = [ep EXCEPT !.reset = FALSE]
      BY <1>3, <2>1, <2>2 DEF CmEvent, NextEvent
    <3>2. UNCHANGED << ep.rx, ep.on, ep.txdone, ep.notedone, ep.ctl >>
      BY <1>1, <3>1 DEF Endpoints
    <3> QED BY <1>2, <2>1, <2>2, <3>1, <3>2 DEF EarlyInv, Early, Blank
  <2>3. CASE ~ep.reset
    <3>1. cm.pc = "wait" /\ ep'.reset = ep.reset
      BY <1>1, <1>3, <2>3, Zenon DEF CmEvent, NextEvent, Endpoints
    <3>2. NextEvent # "reset"
      BY <1>1, <2>3 DEF NextEvent, NoReset
    <3>3. ~Early
      BY <2>1, <2>3 DEF EarlyInv, Blank, NextEvent
    <3> QED BY <1>2, <2>1, <3>1, <3>2, <3>3, <2>3 DEF EarlyInv, Early
  <2> QED BY <2>2, <2>3
<1>4. CASE CmReset
  <2>1. dev'.state = "ATTACHED" /\ cm'.pc = "wait" /\ ep' = ep /\ ~flags'.avail /\ cm.pc = "reset"
    BY <1>1, <1>4 DEF CmReset, Callback, Handlers, Devices, FreshFlags
  <2> QED BY <1>2, <2>1 DEF EarlyInv, Early, Blank
<1>5. CASE ~CmEvent /\ ~CmReset
  <2>1. cm.pc \notin {"wait", "reset"}
    BY <1>1, <1>5, Zenon DEF Cm, Callback, CmAddressed, CmConfigure, CmDeconfigure, CmLineState,
         CmCoding, CmConfigureUsart, CmSendBreak, CmBreak, CmTxDone, CmNoteDone, CmRxReady, CmRxFlags
  <2>2. ~Early
    BY <2>1 DEF EarlyInv, Blank
  <2>3. cm'.pc # "reset"
    BY <1>1, <1>5, Zenon DEF Cm, Callback, CmAddressed, CmConfigure, CmDeconfigure, CmLineState,
         CmCoding, CmConfigureUsart, CmSendBreak, CmBreak, CmTxDone, CmNoteDone, CmRxReady, CmRxFlags, Handlers
  <2>4. ep'.reset = ep.reset
    BY <1>1, <1>5, Zenon DEF Cm, Callback, CmAddressed, CmConfigure, CmDeconfigure, CmLineState,
         CmCoding, CmConfigureUsart, CmSendBreak, CmBreak, CmTxDone, CmNoteDone, CmRxReady, CmRxFlags, Endpoints
  <2>5. dev'.state \in {dev.state, "ADDRESSED", "CONFIGURED"}
    BY <1>1, <1>5, Zenon DEF Cm, Callback, CmAddressed, CmConfigure, CmDeconfigure, CmLineState,
         CmCoding, CmConfigureUsart, CmSendBreak, CmBreak, CmTxDone, CmNoteDone, CmRxReady, CmRxFlags, Devices
  <2> QED BY <1>2, <2>2, <2>3, <2>4, <2>5 DEF EarlyInv, Early
<1> QED BY <1>3, <1>4, <1>5

----------------------------------------------------------------------------
LEMMA SleepersAre ==
  ASSUME NEW s \in Seq(Sleepers)
  PROVE  \A i \in DOMAIN s : s[i].t \in Threads
<1>1. \A i \in DOMAIN s : s[i] \in Sleepers
  OBVIOUS
<1>2. \A x \in Sleepers : x.t \in Threads
  BY DEF Sleepers
<1> QED BY <1>1, <1>2

\* What a step does to those who sleep: the thread that runs is not one of them.
LEMMA SleepKept ==
  ASSUME NEW s, NEW T, NEW U, NEW conn, NEW now, Sleep(s, T, conn), now => conn,
         \A i \in DOMAIN s : U[s[i].t] = T[s[i].t]
  PROVE  Sleep(s, U, now)
BY DEF Sleep

LEMMA SleepAppended ==
  ASSUME NEW s, NEW T, NEW conn, Sleep(s, T, conn), NEW t \in Threads,
         NEW on \in {"rx", "data", "space", "tx", "delay"}, \A i \in DOMAIN s : s[i].t # t,
         MaySleep(T[t].pc, on), T[t].pc = "conn" => ~conn
  PROVE  Sleep(Append(s, [t |-> t, on |-> on]), T, conn)
<1>1. PICK x, r : x = [t |-> t, on |-> on] /\ r = Append(s, x)
  BY Zenon
<1>2. s \in Seq(Sleepers) /\ x \in Sleepers /\ x.t = t /\ x.on = on
  BY <1>1 DEF Sleep, Sleepers
<1>3. /\ r \in Seq(Sleepers) /\ DOMAIN r = 1..(Len(s) + 1) /\ DOMAIN s = 1..Len(s) /\ Len(s) \in Nat
      /\ r[Len(s) + 1] = x /\ \A i \in 1..Len(s) : r[i] = s[i]
  BY <1>1, <1>2
<1>4. \A i \in DOMAIN r : (i \in DOMAIN s /\ r[i] = s[i]) \/ (i = Len(s) + 1 /\ r[i] = x)
  BY ONLY <1>3
<1>5. ASSUME NEW i \in DOMAIN r, NEW j \in DOMAIN r, r[i].t = r[j].t PROVE i = j
  <2>1. (i \in DOMAIN s /\ r[i] = s[i]) \/ (i = Len(s) + 1 /\ r[i] = x)
    BY <1>4
  <2>2. (j \in DOMAIN s /\ r[j] = s[j]) \/ (j = Len(s) + 1 /\ r[j] = x)
    BY <1>4
  <2> QED BY <1>2, <1>5, <2>1, <2>2 DEF Sleep
<1>6. \A i \in DOMAIN r : MaySleep(T[r[i].t].pc, r[i].on) /\ (T[r[i].t].pc = "conn" => ~conn)
  BY <1>2, <1>4 DEF Sleep
<1> QED BY <1>1, <1>3, <1>5, <1>6 DEF Sleep

LEMMA SleepQuiet ==
  ASSUME SleepInv, thr' = thr, slept' = slept \/ (\E on : slept' = Signalled(slept, on)),
         flags'.conn = flags.conn, cm' = cm
  PROVE  SleepInv'
<1>1. Sleep(slept', thr, flags.conn)
  BY SleepSignalled DEF SleepInv
<1> QED BY <1>1 DEF SleepInv

LEMMA SleepWorld ==
  ASSUME SerialTypeOK, SleepInv, World \/ Um \/ UmNotify \/ MainStarts \/ UNCHANGED vars
  PROVE  SleepInv'
<1>1. flags \in FlagWords
  BY DEF SerialTypeOK, PortOK
<1>2. thr' = thr /\ cm' = cm
  BY Zenon DEF World, Host, HostControl, HostReset, HostType, HostHears, HostNoticed, FrameComes, Line, port, vars,
         Um, UmPoll, UmInterrupt, UmStatus, UmData, UmPut, UmWrite, UmCheck, UmNotify, MainStarts
<1>3. slept' = slept \/ \E on : slept' = Signalled(slept, on)
  <2>1. slept' = slept \/ slept' = Signalled(slept, "data") \/ slept' = Signalled(slept, "space")
    BY Zenon DEF World, Host, HostControl, HostReset, HostType, HostHears, HostNoticed, FrameComes, Line, port, vars,
           Um, UmPoll, UmInterrupt, UmStatus, UmData, UmPut, UmWrite, UmCheck, UmNotify, MainStarts
  <2> QED BY <2>1
<1>4. flags'.conn = flags.conn
  BY <1>1, Zenon DEF World, Host, HostControl, HostReset, HostType, HostHears, HostNoticed, FrameComes, Line, port, vars,
         Um, UmNotify, MainStarts, FlagWords
<1> QED BY <1>2, <1>3, <1>4, SleepQuiet

LEMMA SleepCm ==
  ASSUME SerialTypeOK, SleepInv, Cm
  PROVE  SleepInv'
<1>1. flags \in FlagWords /\ cm \in Handlers /\ cm.saw \in FlagWords /\ ep \in Endpoints
  BY DEF SerialTypeOK, PortOK, Handlers
<1>2. thr' = thr
  BY Zenon DEF Cm, CmEvent, Callback, CmReset, CmAddressed, CmConfigure, CmDeconfigure, CmLineState,
         CmCoding, CmConfigureUsart, CmSendBreak, CmBreak, CmTxDone, CmNoteDone, CmRxReady, CmRxFlags
<1>3. cm'.pc = "rx_flags" => cm'.saw.conn = flags'.conn
  <2>1. CASE CmRxReady
    BY <1>1, <2>1 DEF CmRxReady, Handlers
  <2>2. CASE CmEvent
    <3>1. NextEvent \in Requests \cup {"tx", "note", "rx", "none"} /\ cm'.pc = NextEvent
      BY <1>1, <2>2, NextEventIs DEF CmEvent, Handlers
    <3> QED BY <3>1 DEF Requests
  <2>3. CASE ~CmRxReady /\ ~CmEvent
    <3>1. cm'.pc # "rx_flags"
      BY <1>1, <2>3, Zenon DEF Cm, Callback, CmReset, CmAddressed, CmConfigure, CmDeconfigure, CmLineState,
             CmCoding, CmConfigureUsart, CmSendBreak, CmBreak, CmTxDone, CmNoteDone, CmRxFlags, Handlers
    <3> QED BY <3>1
  <2> QED BY <2>1, <2>2, <2>3
<1>4. CASE CmLineState
  <2>1. slept' = Broadcast(slept, "rx")
    BY <1>4 DEF CmLineState
  <2>2. PICK b : b = slept'
    OBVIOUS
  <2>3. Sleep(b, thr, flags.conn) /\ \A i \in DOMAIN b : b[i].on # "rx"
    BY <2>1, <2>2, SleepBroadcast DEF SleepInv
  <2>4. \A i \in DOMAIN b : thr[b[i].t].pc # "conn"
    BY <2>3 DEF Sleep, MaySleep
  <2>5. Sleep(b, thr, flags'.conn)
    BY <2>3, <2>4 DEF Sleep
  <2> QED BY <1>2, <1>3, <2>2, <2>5 DEF SleepInv
<1>5. CASE ~CmLineState
  <2>1. slept' = slept \/ \E on : slept' = Signalled(slept, on)
    <3>1. slept' = slept \/ slept' = Signalled(slept, "rx") \/ slept' = Signalled(slept, "tx")
      BY <1>5, Zenon DEF Cm, CmEvent, Callback, CmReset, CmAddressed, CmConfigure, CmDeconfigure,
             CmCoding, CmConfigureUsart, CmSendBreak, CmBreak, CmTxDone, CmNoteDone, CmRxReady, CmRxFlags
    <3> QED BY <3>1
  <2>2. flags'.conn => flags.conn
    <3>1. CASE CmRxFlags
      BY <1>1, <3>1 DEF CmRxFlags, Callback, FlagWords, SleepInv
    <3>2. CASE ~CmRxFlags
      BY <1>1, <1>5, <3>2, Zenon DEF Cm, CmEvent, Callback, CmReset, CmAddressed, CmConfigure, CmDeconfigure,
             CmCoding, CmConfigureUsart, CmSendBreak, CmBreak, CmTxDone, CmNoteDone, CmRxReady, FlagWords,
             FreshFlags
    <3> QED BY <3>1, <3>2
  <2>3. Sleep(slept', thr, flags.conn)
    BY <2>1, SleepSignalled DEF SleepInv
  <2>4. Sleep(slept', thr, flags'.conn)
    BY <2>2, <2>3 DEF Sleep
  <2> QED BY <1>2, <1>3, <2>4 DEF SleepInv
<1> QED BY <1>4, <1>5

LEMMA SleepThread ==
  ASSUME SerialTypeOK, ApartInv, SleepInv, NEW t \in Threads, Runs(t), thr' = thr \/ Goes(t),
         slept' = slept \/ (\E on : slept' = Signalled(slept, on))
           \/ (\E on \in {"rx", "data", "space", "tx", "delay"} :
                  Sleeps(t, on) /\ MaySleep(thr'[t].pc, on) /\ (thr'[t].pc = "conn" => ~flags.conn)),
         flags'.conn = flags.conn, cm' = cm
  PROVE  SleepInv'
<1>1. \A i \in DOMAIN slept : slept[i].t # t
  BY DEF Runs, CanRun, Ready
<1>2. slept \in Seq(Sleepers)
  BY DEF SleepInv, Sleep
<1>3. \A i \in DOMAIN slept : slept[i].t \in Threads
  BY <1>2, SleepersAre
<1>4. \A i \in DOMAIN slept : thr'[slept[i].t] = thr[slept[i].t]
  BY <1>1, <1>3 DEF Goes
<1>5. Sleep(slept, thr', flags.conn)
  BY <1>4, SleepKept DEF SleepInv
<1>6. Sleep(slept', thr', flags.conn)
  <2>1. CASE slept' = slept
    BY <1>5, <2>1
  <2>2. CASE \E on : slept' = Signalled(slept, on)
    BY <1>5, <2>2, SleepSignalled
  <2>3. ASSUME NEW on \in {"rx", "data", "space", "tx", "delay"}, Sleeps(t, on),
               MaySleep(thr'[t].pc, on), thr'[t].pc = "conn" => ~flags.conn
        PROVE  Sleep(slept', thr', flags.conn)
    BY <1>1, <1>5, <2>3, SleepAppended, Zenon DEF Sleeps
  <2> QED BY <2>1, <2>2, <2>3
<1> QED BY <1>6 DEF SleepInv

LEMMA SleepThreads ==
  ASSUME SerialTypeOK, ApartInv, SleepInv, NEW t \in Threads,
         Carries(t) \/ (t = "c2u" /\ (Recv \/ Take))
  PROVE  SleepInv'
<1>1. flags \in FlagWords /\ ThreadsOK
  BY DEF SerialTypeOK, PortOK
<1>2. Runs(t) /\ cm' = cm /\ flags'.conn = flags.conn
  BY <1>1, Zenon DEF Carries, WaitConnection, Delay, Send, Carry, Recv, Take, port, FlagWords
<1>3. thr' = thr \/ Goes(t)
  BY CarryGoes, CdcGoes, InputGoes DEF Carries
<1>4. CASE WaitConnection(t)
  <2>1. slept' = slept \/ (Sleeps(t, "rx") /\ thr' = thr /\ thr[t].pc = "conn" /\ ~flags.conn)
    BY <1>4 DEF WaitConnection
  <2>2. MaySleep("conn", "rx")
    BY DEF MaySleep
  <2> QED BY <1>2, <1>3, <2>1, <2>2, SleepThread
<1>5. CASE Delay(t)
  <2>1. Sleeps(t, "delay") /\ thr'[t].pc \in {"send", "read"}
    BY <1>1, <1>5 DEF Delay, ThreadsOK
  <2>2. MaySleep(thr'[t].pc, "delay")
    BY <2>1 DEF MaySleep
  <2> QED BY <1>2, <1>3, <2>1, <2>2, SleepThread
<1>6. CASE Send(t)
  <2>1. slept' = slept \/ (Sleeps(t, "tx") /\ thr' = thr /\ thr[t].pc = "send")
    BY <1>6 DEF Send
  <2>2. MaySleep("send", "tx")
    BY DEF MaySleep
  <2> QED BY <1>2, <1>3, <2>1, <2>2, SleepThread
<1>7. CASE Carry(t)
  <2>1. CASE RbRead(t)
    <3>1. slept' = slept \/ (Sleeps(t, "data") /\ thr' = thr /\ thr[t].pc \in {"read", "reading"})
      BY <2>1 DEF RbRead
    <3>2. MaySleep("read", "data") /\ MaySleep("reading", "data")
      BY DEF MaySleep
    <3> QED BY <1>2, <1>3, <3>1, <3>2, SleepThread
  <2>2. CASE RbWrite(t)
    <3>1. slept' = slept \/ (Sleeps(t, "space") /\ thr'[t].pc = "write")
      BY <1>1, <2>2 DEF RbWrite, ThreadsOK
    <3>2. MaySleep("write", "space")
      BY DEF MaySleep
    <3> QED BY <1>2, <1>3, <3>1, <3>2, SleepThread
  <2>3. CASE FlushIn(t) \/ FlushOut(t)
    <3>1. slept' = slept \/ \E on : slept' = Signalled(slept, on)
      <4>1. slept' = slept \/ slept' = Signalled(slept, "space")
        BY <2>3 DEF FlushIn, FlushOut
      <4> QED BY <4>1
    <3> QED BY <1>2, <1>3, <3>1, SleepThread
  <2> QED BY <1>7, <2>1, <2>2, <2>3 DEF Carry
<1>8. CASE t = "c2u" /\ Recv
  <2>1. slept' = slept \/ (Sleeps(t, "rx") /\ thr' = thr /\ thr[t].pc = "recv")
    BY <1>8 DEF Recv
  <2>2. MaySleep("recv", "rx")
    BY DEF MaySleep
  <2> QED BY <1>2, <1>3, <2>1, <2>2, SleepThread
<1>9. CASE t = "c2u" /\ Take
  <2>1. slept' = slept
    BY <1>9 DEF Take
  <2> QED BY <1>2, <1>3, <2>1, SleepThread
<1> QED BY <1>4, <1>5, <1>6, <1>7, <1>8, <1>9 DEF Carries

LEMMA SleepTimeOut ==
  ASSUME SerialTypeOK, SleepInv, TimeOut
  PROVE  SleepInv'
<1>1. PICK k \in DOMAIN slept :
        /\ slept' = RemoveAt(slept, k)
        /\ thr' = thr \/ thr' = [thr EXCEPT ![slept[k].t].pc = "take"]
  BY DEF TimeOut
<1>2. flags' = flags /\ cm' = cm
  BY DEF TimeOut, port
<1>3. PICK r : r = RemoveAt(slept, k)
  OBVIOUS
<1>4. Sleep(r, thr, flags.conn) /\ \A i \in DOMAIN r : r[i].t # slept[k].t
  BY <1>3, SleepRemoved DEF SleepInv
<1>5. \A i \in DOMAIN r : r[i].t \in Threads
  <2>1. r \in Seq(Sleepers)
    BY <1>4 DEF Sleep
  <2> QED BY <2>1, SleepersAre
<1>6. \A i \in DOMAIN r : thr'[r[i].t] = thr[r[i].t]
  BY <1>1, <1>4, <1>5 DEF SerialTypeOK, ThreadsOK
<1>7. Sleep(r, thr', flags.conn)
  BY <1>4, <1>6, SleepKept
<1> QED BY <1>1, <1>2, <1>3, <1>7 DEF SleepInv

LEMMA SleepStep ==
  ASSUME SerialTypeOK, ApartInv, SleepInv, [Next]_vars
  PROVE  SleepInv'
BY SleepWorld, SleepCm, SleepThreads, SleepTimeOut, TwoThreads DEF Next

----------------------------------------------------------------------------
\* Before the host hangs up: the threads leave the connection behind once and for all, and
\* as long as one of them has not, nothing that the host has typed is in the program.
Outside == {"conn", "flush_in", "flush_out"}
Idle == a2h.empty /\ thr["c2u"].buf = << >> /\ ~flags.avail /\ cm.pc \notin {"rx", "rx_flags"}
StartInv ==
  ~host.hungup =>
    /\ ep.ctl \notin {"dtr0", "deconf"} /\ cm.pc \notin {"dtr0", "deconf"}
    /\ \A t \in Threads : thr[t].pc # "conn" => flags.conn
    /\ (\E t \in Threads : thr[t].pc \in Outside) => Idle
    /\ (\A t \in Threads : thr[t].pc = "conn") => ~ep.armed /\ ep.rx = << >>

LEMMA StartQuiet ==
  ASSUME StartInv, thr' = thr, flags'.conn = flags.conn, flags'.avail = flags.avail, cm'.pc = cm.pc,
         a2h' = a2h \/ ~a2h.empty, host.hungup => host'.hungup,
         host'.hungup \/ ep'.ctl = ep.ctl \/ ep'.ctl \notin {"dtr0", "deconf"},
         ep'.armed => ep.armed, ep'.rx = ep.rx \/ ep'.rx = << >> \/ ep.armed
  PROVE  StartInv'
<1> SUFFICES ASSUME ~host'.hungup PROVE StartInv'
  BY DEF StartInv
<1>1. ~host.hungup
  OBVIOUS
<1>2. ep'.ctl \notin {"dtr0", "deconf"} /\ cm'.pc \notin {"dtr0", "deconf"}
  BY <1>1 DEF StartInv
<1>3. \A t \in Threads : thr'[t].pc # "conn" => flags'.conn
  BY <1>1 DEF StartInv
<1>4. (\E t \in Threads : thr'[t].pc \in Outside) => Idle'
  BY <1>1 DEF StartInv, Idle
<1>5. (\A t \in Threads : thr'[t].pc = "conn") => ~ep'.armed /\ ep'.rx = << >>
  BY <1>1 DEF StartInv
<1> QED BY <1>2, <1>3, <1>4, <1>5 DEF StartInv

LEMMA StartWorld ==
  ASSUME SerialTypeOK, StartInv, World \/ Um \/ UmNotify \/ MainStarts \/ UNCHANGED vars
  PROVE  StartInv'
<1>1. flags \in FlagWords /\ ep \in Endpoints /\ HostOK /\ RingsOK
  BY DEF SerialTypeOK, PortOK
<1>2. thr' = thr /\ cm' = cm /\ flags'.conn = flags.conn /\ flags'.avail = flags.avail
  BY <1>1, Zenon DEF World, Host, HostControl, HostReset, HostType, HostHears, HostNoticed, FrameComes, Line, port, vars,
         Um, UmPoll, UmInterrupt, UmStatus, UmData, UmPut, UmWrite, UmCheck, UmNotify, MainStarts, FlagWords
<1>3. a2h' = a2h \/ ~a2h.empty
  BY Zenon DEF World, Host, HostControl, HostReset, HostType, HostHears, HostNoticed, FrameComes, Line, usart, vars,
         Um, UmPoll, UmInterrupt, UmStatus, UmData, UmPut, UmWrite, UmCheck, UmNotify, MainStarts
<1>4. CASE HostControl
  <2>1. ep'.armed = ep.armed /\ ep'.rx = ep.rx /\ ep'.ctl = Head(host.plan)
    BY <1>1, <1>4 DEF HostControl, Endpoints
  <2>2. host'.hungup = (host.hungup \/ Head(host.plan) \in {"dtr0", "deconf"})
    BY <1>1, <1>4 DEF HostControl, HostOK
  <2> QED BY <1>2, <1>3, <2>1, <2>2, StartQuiet, Zenon
<1>5. CASE HostReset
  <2>1. ~ep'.armed /\ ep'.ctl = "none" /\ (ep'.rx = ep.rx \/ ep'.rx = << >>)
    BY <1>5 DEF HostReset, FreshEp
  <2>2. host.hungup => host'.hungup
    BY <1>1, <1>5 DEF HostReset, HostOK
  <2> QED BY <1>2, <1>3, <2>1, <2>2, StartQuiet
<1>6. CASE HostType
  <2>1. ep.armed /\ ~ep'.armed /\ ep'.ctl = ep.ctl /\ host'.hungup = host.hungup
    BY <1>1, <1>6 DEF HostType, Endpoints, HostOK
  <2> QED BY <1>2, <1>3, <2>1, StartQuiet
<1>7. CASE HostHears \/ HostNoticed \/ FrameComes \/ Line \/ Um \/ UmNotify \/ MainStarts \/ UNCHANGED vars
  <2>1. ep'.armed = ep.armed /\ ep'.ctl = ep.ctl /\ ep'.rx = ep.rx
    BY <1>1, <1>7, Zenon DEF HostHears, HostNoticed, FrameComes, Line, Um, UmNotify, MainStarts, port, vars, Endpoints
  <2>2. host'.hungup = host.hungup
    BY <1>1, <1>7, Zenon DEF HostHears, HostNoticed, FrameComes, Line, Um, UmNotify, MainStarts, port, vars, HostOK
  <2> QED BY <1>2, <1>3, <2>1, <2>2, StartQuiet
<1> QED BY <1>4, <1>5, <1>6, <1>7 DEF World, Host

\* cdc_main handles a packet when no thread can run, and then none is on its way to it.
LEMMA NobodyOutside ==
  ASSUME SerialTypeOK, ApartInv, SleepInv, StartInv, ~host.hungup, CmRuns, ~MtxHeld, ep.rx # << >>,
         NEW t \in Threads
  PROVE  thr[t].pc \notin Outside
<1> SUFFICES ASSUME thr[t].pc \in Outside PROVE FALSE
  OBVIOUS
<1>1. PICK u \in Threads : thr[u].pc # "conn"
  BY DEF StartInv
<1>2. um.pc # "off" /\ flags.conn
  BY <1>1 DEF ApartInv, StartInv
<1>3. ~Ready(t)
  BY <1>2 DEF CmRuns, CanRun
<1>4. PICK i \in DOMAIN slept : slept[i].t = t
  BY <1>3 DEF Ready
<1>5. MaySleep(thr[t].pc, slept[i].on) /\ thr[t].pc # "conn"
  BY <1>2, <1>4 DEF SleepInv, Sleep
<1> QED BY <1>5 DEF MaySleep, Outside

LEMMA StartCm ==
  ASSUME SerialTypeOK, ApartInv, SleepInv, EarlyInv, StartInv, Cm
  PROVE  StartInv'
<1>1. flags \in FlagWords /\ ep \in Endpoints /\ cm \in Handlers /\ cm.saw \in FlagWords
  BY DEF SerialTypeOK, PortOK, Handlers
<1>2. UNCHANGED << thr, host, a2h >>
  BY Zenon DEF Cm, CmEvent, Callback, CmReset, CmAddressed, CmConfigure, CmDeconfigure, CmLineState,
         CmCoding, CmConfigureUsart, CmSendBreak, CmBreak, CmTxDone, CmNoteDone, CmRxReady, CmRxFlags, usart
<1> SUFFICES ASSUME ~host.hungup PROVE StartInv'
  BY <1>2 DEF StartInv
<1>3. /\ ep.ctl \notin {"dtr0", "deconf"} /\ cm.pc \notin {"dtr0", "deconf"}
      /\ \A t \in Threads : thr[t].pc # "conn" => flags.conn
      /\ (\E t \in Threads : thr[t].pc \in Outside) => Idle
      /\ (\A t \in Threads : thr[t].pc = "conn") => ~ep.armed /\ ep.rx = << >>
  BY DEF StartInv
<1>4. CASE CmEvent
  <2>1. /\ cm.pc = "wait" /\ CmRuns /\ cm'.pc = NextEvent /\ flags' = flags
        /\ ep'.rx = ep.rx /\ ep'.armed = ep.armed /\ ep'.ctl \in {ep.ctl, "none"}
    BY <1>1, <1>4 DEF CmEvent, Handlers, Endpoints
  <2>2. NextEvent \notin {"dtr0", "deconf", "rx_flags"}
    BY <1>1, <1>3 DEF NextEvent, Endpoints, Requests
  <2>3. NextEvent = "rx" => ep.rx # << >>
    BY <1>1 DEF NextEvent, Endpoints, Requests
  <2>4. NextEvent = "rx" => \A t \in Threads : thr[t].pc \notin Outside
    BY <2>1, <2>3, NobodyOutside DEF MtxHeld
  <2>5. (\E t \in Threads : thr[t].pc \in Outside) => Idle'
    BY <1>2, <1>3, <2>1, <2>2, <2>4 DEF Idle
  <2> QED BY <1>2, <1>3, <2>1, <2>2, <2>5 DEF StartInv
<1>5. CASE CmReset
  <2>1. /\ cm.pc = "reset" /\ cm'.pc = "wait" /\ ep' = ep /\ ~flags'.avail
    BY <1>1, <1>5 DEF CmReset, Callback, Handlers, FreshFlags
  <2>2. \A t \in Threads : thr[t].pc = "conn"
    BY <2>1 DEF EarlyInv, Early, Blank, ApartInv
  <2>3. Idle'
    BY <1>2, <1>3, <2>1, <2>2, TwoThreads DEF Idle, Outside
  <2> QED BY <1>2, <1>3, <2>1, <2>2, <2>3 DEF StartInv
<1>6. CASE CmLineState \/ CmDeconfigure
  <2>1. /\ cm.pc = "dtr1" /\ cm'.pc = "wait" /\ ep' = ep /\ flags'.conn /\ flags'.avail = flags.avail
    BY <1>1, <1>3, <1>6, Zenon DEF CmLineState, CmDeconfigure, Callback, Handlers, FlagWords
  <2>2. (\E t \in Threads : thr[t].pc \in Outside) => Idle'
    BY <1>2, <1>3, <2>1 DEF Idle
  <2> QED BY <1>2, <1>3, <2>1, <2>2 DEF StartInv
<1>7. CASE CmRxReady
  <2>1. /\ cm.pc = "rx" /\ cm'.pc = "rx_flags" /\ ep'.rx = << >> /\ ep'.armed = ep.armed
        /\ ep'.ctl = ep.ctl /\ flags' = flags
    BY <1>1, <1>7 DEF CmRxReady, Handlers, Endpoints
  <2>2. \A t \in Threads : thr[t].pc \notin Outside
    BY <1>3, <2>1 DEF Idle
  <2> QED BY <1>2, <1>3, <2>1, <2>2 DEF StartInv
<1>8. CASE CmRxFlags
  <2>1. /\ cm.pc = "rx_flags" /\ cm'.pc = "wait" /\ ep' = ep /\ flags'.conn = cm.saw.conn
    BY <1>1, <1>8 DEF CmRxFlags, Callback, Handlers, FlagWords
  <2>2. \A t \in Threads : thr[t].pc \notin Outside
    BY <1>3, <2>1 DEF Idle
  <2>3. flags'.conn = flags.conn
    BY <2>1 DEF SleepInv
  <2> QED BY <1>2, <1>3, <2>1, <2>2, <2>3 DEF StartInv
<1>9. CASE CmAddressed \/ CmConfigure \/ CmCoding \/ CmConfigureUsart \/ CmSendBreak \/ CmBreak
           \/ CmTxDone \/ CmNoteDone
  <2>1. cm'.pc \in {"wait", "configure", "break"}
    BY <1>1, <1>9, Zenon DEF CmAddressed, CmConfigure, CmCoding, CmConfigureUsart, CmSendBreak, CmBreak,
           CmTxDone, CmNoteDone, Callback, Handlers
  <2>2. ep'.rx = ep.rx /\ (ep'.armed => ep.armed) /\ ep'.ctl = ep.ctl
    BY <1>1, <1>9, Zenon DEF CmAddressed, CmConfigure, CmCoding, CmConfigureUsart, CmSendBreak, CmBreak,
           CmTxDone, CmNoteDone, Callback, Endpoints
  <2>3. flags'.conn = flags.conn /\ flags'.avail = flags.avail
    BY <1>1, <1>9 DEF CmAddressed, CmConfigure, CmCoding, CmConfigureUsart, CmSendBreak, CmBreak,
           CmTxDone, CmNoteDone, Callback, FlagWords
  <2>4. (\E t \in Threads : thr[t].pc \in Outside) => Idle'
    BY <1>2, <1>3, <2>1, <2>3 DEF Idle
  <2> QED BY <1>2, <1>3, <2>1, <2>2, <2>3, <2>4 DEF StartInv
<1> QED BY <1>4, <1>5, <1>6, <1>7, <1>8, <1>9 DEF Cm

\* A thread that goes on, connected, to anywhere but the connection.
LEMMA StartThread ==
  ASSUME StartInv, NEW t \in Threads, Goes(t), ~host.hungup => flags.conn,
         ~host.hungup => thr'[t].pc # "conn",
         flags'.conn = flags.conn, ep'.ctl = ep.ctl, cm'.pc = cm.pc, host' = host,
         ~host.hungup /\ (\E u \in Threads : thr'[u].pc \in Outside) /\ Idle => Idle'
  PROVE  StartInv'
<1> SUFFICES ASSUME ~host.hungup PROVE StartInv'
  BY DEF StartInv
<1>1. thr'[t].pc \in Outside => thr[t].pc \in Outside
  <2>1. Passes(t, thr[t].pc, thr'[t].pc) /\ thr'[t].pc # "conn"
    BY DEF Goes
  <2> QED BY ONLY <2>1, TwoThreads, t \in Threads DEF Passes, Outside
<1>2. (\E u \in Threads : thr'[u].pc \in Outside) => Idle'
  <2>1. ASSUME NEW u \in Threads, thr'[u].pc \in Outside PROVE thr[u].pc \in Outside
    BY <1>1, <2>1 DEF Goes
  <2> QED BY <2>1 DEF StartInv
<1> QED BY <1>2 DEF StartInv

LEMMA StartThreads ==
  ASSUME SerialTypeOK, ApartInv, StartInv, NEW t \in Threads,
         Carries(t) \/ (t = "c2u" /\ (Recv \/ Take))
  PROVE  StartInv'
<1>1. flags \in FlagWords /\ ep \in Endpoints /\ ThreadsOK /\ "c2u" \in Threads
  BY TwoThreads DEF SerialTypeOK, PortOK
<1>2. cm' = cm /\ host' = host /\ flags'.conn = flags.conn /\ ep'.ctl = ep.ctl
  <2>1. CASE Carry(t) \/ Recv \/ Delay(t)
    BY <2>1 DEF Carry, Recv, Delay, port
  <2>2. CASE WaitConnection(t)
    BY <1>1, <2>2, Zenon DEF WaitConnection, FlagWords, Endpoints
  <2>3. CASE Send(t)
    BY <1>1, <2>3 DEF Send, FlagWords, Endpoints
  <2>4. CASE Take
    BY <1>1, <2>4, Zenon DEF Take, FlagWords, Endpoints
  <2> QED BY <2>1, <2>2, <2>3, <2>4 DEF Carries
<1>3. thr' = thr \/ Goes(t)
  BY CarryGoes, CdcGoes, InputGoes DEF Carries
<1>4. ~host.hungup /\ thr[t].pc # "conn" => flags.conn
  BY DEF StartInv
<1>5. CASE WaitConnection(t)
  <2>1. a2h' = a2h /\ thr[t].pc = "conn"
    BY <1>5 DEF WaitConnection, usart
  <2>2. CASE ~flags.conn
    <3>1. thr' = thr /\ flags' = flags /\ ep' = ep
      BY <1>5, <2>2 DEF WaitConnection
    <3> QED BY <1>2, <2>1, <3>1, StartQuiet
  <2>3. CASE flags.conn
    <3>1. thr' = [thr EXCEPT ![t].pc = "flush_in"] /\ ~flags'.avail
      BY <1>1, <1>5, <2>3, Zenon DEF WaitConnection, FlagWords
    <3>2. thr'[t].pc = "flush_in" /\ thr' # thr /\ thr'["c2u"].buf = thr["c2u"].buf
      BY <1>1, <2>1, <3>1 DEF ThreadsOK
    <3>3. Idle => Idle'
      BY <1>2, <2>1, <3>1, <3>2 DEF Idle
    <3> QED BY <1>2, <1>3, <2>3, <3>2, <3>3, StartThread
  <2> QED BY <2>2, <2>3
<1>6. CASE Delay(t)
  <2>1. a2h' = a2h /\ flags' = flags /\ thr[t].pc = "delay"
    BY <1>6 DEF Delay, usart, port
  <2>2. thr'[t].pc \in {"send", "read"} /\ thr'["c2u"].buf = thr["c2u"].buf /\ thr' # thr
    BY <1>1, <1>6, <2>1 DEF Delay, ThreadsOK
  <2>3. Idle => Idle'
    BY <1>2, <2>1, <2>2 DEF Idle
  <2> QED BY <1>2, <1>3, <1>4, <2>1, <2>2, <2>3, StartThread
<1>7. CASE Send(t)
  <2>1. a2h' = a2h /\ flags'.avail = flags.avail /\ thr[t].pc = "send" /\ ep'.armed = ep.armed /\ ep'.rx = ep.rx
    BY <1>1, <1>7 DEF Send, usart, FlagWords, Endpoints
  <2>2. CASE thr' = thr
    BY <1>2, <2>1, <2>2, StartQuiet
  <2>3. CASE thr' # thr
    <3>1. Sent(t, 1) \/ (Sent(t, -1) /\ ~flags.conn)
      BY <1>7, <2>3 DEF Send
    <3>2. ~host.hungup => thr'[t].pc # "conn"
      <4>1. SUFFICES ASSUME ~host.hungup PROVE thr'[t].pc # "conn"
        OBVIOUS
      <4>2. Sent(t, 1)
        BY <1>4, <2>1, <3>1, <4>1
      <4>3. thr'[t].pc = CASE Len(thr[t].buf) = BufSize -> "send"
                           [] Len(thr[t].buf) < BufSize /\ t = "c2u" -> "recv"
                           [] OTHER -> "read"
        BY <1>1, <4>2 DEF Sent, ThreadsOK
      <4> QED BY <4>3
    <3>3. thr'["c2u"].buf = thr["c2u"].buf \/ thr'["c2u"].buf = << >>
      BY <1>1, <3>1 DEF Sent, ThreadsOK
    <3>4. Idle => Idle'
      BY <1>2, <2>1, <3>3 DEF Idle
    <3> QED BY <1>2, <1>3, <1>4, <2>1, <2>3, <3>2, <3>4, StartThread
  <2> QED BY <2>2, <2>3
<1>8. CASE Carry(t)
  <2>1. UNCHANGED port
    BY <1>8 DEF Carry
  <2>2. CASE t = "u2c" /\ RbRead(t)
    <3>1. a2h' = a2h /\ thr[t].pc \in {"read", "reading"}
      BY <2>2 DEF RbRead
    <3>2. CASE thr' = thr
      BY <1>2, <2>1, <3>1, <3>2, StartQuiet DEF port
    <3>3. CASE thr' # thr
      <4>1. thr'[t].pc \in {"send", "reading"} /\ thr'["c2u"].buf = thr["c2u"].buf
        BY <1>1, <2>2, <3>3 DEF RbRead, ThreadsOK
      <4>2. Idle => Idle'
        BY <1>2, <2>1, <3>1, <4>1 DEF Idle, port
      <4> QED BY <1>2, <1>3, <1>4, <3>1, <3>3, <4>1, <4>2, StartThread
    <3> QED BY <3>2, <3>3
  <2>3. CASE t = "c2u" /\ RbWrite(t)
    <3>1. thr[t].pc \in {"write", "writing"}
      BY <2>3 DEF RbWrite
    <3>2. CASE a2h.full
      <4>1. a2h' = a2h /\ thr' = [thr EXCEPT ![t].pc = "write"]
        BY <2>3, <3>2 DEF RbWrite
      <4>2. thr'[t].pc = "write" /\ thr'["c2u"].buf = thr["c2u"].buf
        BY <1>1, <4>1 DEF ThreadsOK
      <4>3. Idle => Idle'
        BY <1>2, <2>1, <4>1, <4>2 DEF Idle, port
      <4>4. CASE thr' = thr
        BY <1>2, <2>1, <4>1, <4>4, StartQuiet DEF port
      <4> QED BY <1>2, <1>3, <1>4, <3>1, <4>2, <4>3, <4>4, StartThread
    <3>3. CASE ~a2h.full
      <4>1. thr["c2u"].buf # << >>
        BY <2>3, <3>3 DEF RbWrite
      <4>2. thr'[t].pc \in {"recv", "writing"}
        BY <1>1, <2>3, <3>3 DEF RbWrite, ThreadsOK
      <4>3. thr' # thr
        <5>6. PICK r : thr' = [thr EXCEPT !["c2u"] = [buf |-> Tail(thr["c2u"].buf), pc |-> r]]
          BY <2>3, <3>3 DEF RbWrite
        <5>1. thr'["c2u"].buf = Tail(thr["c2u"].buf)
          BY <1>1, <5>6 DEF ThreadsOK
        <5>2. PICK b : b = thr["c2u"].buf
          OBVIOUS
        <5>3. b \in Seq(Nat) /\ b # << >>
          BY <1>1, <4>1, <5>2 DEF ThreadsOK, Buffers
        <5>4. Len(Tail(b)) = Len(b) - 1 /\ Len(b) \in Nat
          BY ONLY <5>3
        <5>5. Tail(b) # b
          BY ONLY <5>4
        <5> QED BY <5>1, <5>2, <5>5
      <4>4. ~Idle
        BY <4>1 DEF Idle
      <4> QED BY <1>2, <1>3, <1>4, <3>1, <4>2, <4>3, <4>4, StartThread
    <3> QED BY <3>2, <3>3
  <2>4. CASE FlushIn(t)
    <3>1. a2h' = a2h /\ thr[t].pc = "flush_in" /\ thr' = [thr EXCEPT ![t].pc = "flush_out"]
      BY <2>4 DEF FlushIn
    <3>2. thr'[t].pc = "flush_out" /\ thr'["c2u"].buf = thr["c2u"].buf /\ thr' # thr
      BY <1>1, <3>1 DEF ThreadsOK
    <3>3. Idle => Idle'
      BY <1>2, <2>1, <3>1, <3>2 DEF Idle, port
    <3> QED BY <1>2, <1>3, <1>4, <3>1, <3>2, <3>3, StartThread
  <2>5. CASE FlushOut(t)
    <3>1. a2h' = RbFlush(a2h) /\ thr[t].pc = "flush_out" /\ thr' = [thr EXCEPT ![t].pc = "delay"]
      BY <2>5 DEF FlushOut
    <3>2. thr'[t].pc = "delay" /\ thr'["c2u"].buf = thr["c2u"].buf /\ thr' # thr
      BY <1>1, <3>1 DEF ThreadsOK
    <3>3. Idle => Idle'
      <4>1. a2h.empty => a2h'.empty
        BY <3>1 DEF RbFlush
      <4> QED BY <1>2, <2>1, <3>2, <4>1 DEF Idle, port
    <3> QED BY <1>2, <1>3, <1>4, <3>1, <3>2, <3>3, StartThread
  <2> QED BY <1>8, <2>2, <2>3, <2>4, <2>5 DEF Carry
<1>9. CASE t = "c2u" /\ Recv
  <2>1. UNCHANGED port /\ a2h' = a2h /\ thr[t].pc = "recv"
    BY <1>9 DEF Recv, usart
  <2>2. CASE thr' = thr
    BY <1>2, <2>1, <2>2, StartQuiet DEF port
  <2>3. CASE thr' # thr
    <3>1. thr'[t].pc = "take" /\ thr'["c2u"].buf = thr["c2u"].buf
      BY <1>1, <1>9, <2>3 DEF Recv, ThreadsOK
    <3>2. Idle => Idle'
      BY <1>2, <2>1, <3>1 DEF Idle, port
    <3> QED BY <1>2, <1>3, <1>4, <2>1, <2>3, <3>1, <3>2, StartThread
  <2> QED BY <2>2, <2>3
<1>10. CASE t = "c2u" /\ Take
  <2>1. a2h' = a2h /\ thr[t].pc = "take"
    BY <1>10 DEF Take, usart
  <2>2. CASE flags.conn /\ flags.avail
    <3>1. thr'[t].pc \in {"write", "recv"}
      BY <1>1, <1>10, <2>2 DEF Take, ThreadsOK
    <3>2. ~Idle
      BY <2>2 DEF Idle
    <3> QED BY <1>2, <1>3, <1>4, <2>1, <3>1, <3>2, StartThread
  <2>3. CASE ~(flags.conn /\ flags.avail)
    <3>1. thr'[t].pc = (IF flags.conn THEN "recv" ELSE "conn") /\ flags' = flags
          /\ thr'["c2u"].buf = thr["c2u"].buf
      BY <1>1, <1>10, <2>3 DEF Take, ThreadsOK
    <3>2. Idle => Idle'
      BY <1>2, <2>1, <3>1 DEF Idle
    <3> QED BY <1>2, <1>3, <1>4, <2>1, <3>1, <3>2, StartThread
  <2> QED BY <2>2, <2>3
<1> QED BY <1>5, <1>6, <1>7, <1>8, <1>9, <1>10 DEF Carries

LEMMA StartTimeOut ==
  ASSUME SerialTypeOK, ApartInv, StartInv, TimeOut
  PROVE  StartInv'
<1>1. UNCHANGED << a2h, flags, ep, cm, host >> /\ ThreadsOK /\ "c2u" \in Threads
  BY TwoThreads DEF TimeOut, usart, port, SerialTypeOK
<1>2. CASE thr' = thr
  BY <1>1, <1>2, StartQuiet
<1>3. CASE thr' # thr
  <2>1. Goes("c2u")
    BY <1>3, TimeOutGoes
  <2>2. thr'["c2u"].pc = "take" /\ thr["c2u"].pc = "recv" /\ thr'["c2u"].buf = thr["c2u"].buf
    <3>1. PICK i \in DOMAIN slept :
            thr' = IF thr[slept[i].t].pc = "recv" THEN [thr EXCEPT ![slept[i].t].pc = "take"] ELSE thr
      BY DEF TimeOut
    <3>2. slept[i].t = "c2u"
      <4>1. \A u \in Threads : u # "c2u" => thr'[u] = thr[u]
        BY <2>1 DEF Goes
      <4>2. \A u \in Threads : u # slept[i].t => thr'[u] = thr[u]
        BY <1>1, <3>1 DEF ThreadsOK
      <4>3. thr' \in [Threads -> {thr'[u] : u \in Threads}] /\ DOMAIN thr' = Threads /\ DOMAIN thr = Threads
        BY <1>1, <3>1, Zenon DEF ThreadsOK
      <4>4. slept[i].t # "c2u" => \A u \in Threads : thr'[u] = thr[u]
        BY <4>1, <4>2
      <4>5. thr' = [u \in Threads |-> thr'[u]] /\ thr = [u \in Threads |-> thr[u]]
        BY <1>1, <3>1, Zenon DEF ThreadsOK
      <4> QED BY <1>3, <4>4, <4>5
    <3> QED BY <1>1, <1>3, <3>1, <3>2 DEF ThreadsOK
  <2>3. ~host.hungup => flags.conn
    BY <1>1, <2>2 DEF StartInv
  <2>4. Idle => Idle'
    BY <1>1, <2>2 DEF Idle
  <2> QED BY <1>1, <2>1, <2>2, <2>3, <2>4, StartThread
<1> QED BY <1>2, <1>3

LEMMA StartStep ==
  ASSUME SerialTypeOK, ApartInv, SleepInv, EarlyInv, StartInv, [Next]_vars
  PROVE  StartInv'
BY StartWorld, StartCm, StartThreads, StartTimeOut, TwoThreads DEF Next

----------------------------------------------------------------------------
\* What the host types comes out on the line in order: a train of seven parts, from the
\* endpoint to the line, as long as usb_rx_ready has not torn the flags.
Coming == IF cm.pc = "rx_flags" THEN SubSeq(dev.input, 1, cm.len) ELSE << >>
TxParts ==
  << log.wire, Char(uart.dr), Contents(a2h, A2hSize), thr["c2u"].buf, Input, Coming, Packet(ep.rx) >>
TxInv ==
  ~log.torn => /\ Accounted(TxParts, 7, log.gone, host.typed)
               /\ ~host.hungup => log.gone = {}

LEMMA TxPartsAre ==
  /\ TxParts[1] = log.wire /\ TxParts[2] = Char(uart.dr) /\ TxParts[3] = Contents(a2h, A2hSize)
  /\ TxParts[4] = thr["c2u"].buf /\ TxParts[5] = Input /\ TxParts[6] = Coming
  /\ TxParts[7] = Packet(ep.rx)
  /\ TxParts'[1] = log'.wire /\ TxParts'[2] = Char(uart'.dr) /\ TxParts'[3] = Contents(a2h', A2hSize)
  /\ TxParts'[4] = thr'["c2u"].buf /\ TxParts'[5] = Input' /\ TxParts'[6] = Coming'
  /\ TxParts'[7] = Packet(ep'.rx)
BY DEF TxParts

LEMMA SevenPlaces ==
  /\ \A i \in 1..7 : i = 1 \/ i = 2 \/ i = 3 \/ i = 4 \/ i = 5 \/ i = 6 \/ i = 7
  /\ 7 \in Nat \ {0} /\ 1 \in 1..7 /\ 2 \in 1..7 /\ 3 \in 1..7 /\ 4 \in 1..7 /\ 5 \in 1..7
  /\ 6 \in 1..7 /\ 7 \in 1..7
OBVIOUS

TxSame(places) == \A i \in 1..7 : i \notin places => TxParts'[i] = TxParts[i]

LEMMA TxStays ==
  ASSUME NEW places, 1 \in places \/ log'.wire = log.wire, 2 \in places \/ uart'.dr = uart.dr,
         3 \in places \/ a2h' = a2h, 4 \in places \/ thr'["c2u"].buf = thr["c2u"].buf,
         5 \in places \/ Input' = Input, 6 \in places \/ Coming' = Coming,
         7 \in places \/ ep'.rx = ep.rx
  PROVE  TxSame(places)
<1>1. ASSUME NEW i \in 1..7, i \notin places PROVE TxParts'[i] = TxParts[i]
  <2>1. CASE i = 1
    BY <1>1, <2>1, TxPartsAre
  <2>2. CASE i = 2
    BY <1>1, <2>2, TxPartsAre
  <2>3. CASE i = 3
    BY <1>1, <2>3, TxPartsAre
  <2>4. CASE i = 4
    BY <1>1, <2>4, TxPartsAre
  <2>5. CASE i = 5
    BY <1>1, <2>5, TxPartsAre
  <2>6. CASE i = 6
    BY <1>1, <2>6, TxPartsAre
  <2>7. CASE i = 7
    BY <1>1, <2>7, TxPartsAre
  <2> QED BY <2>1, <2>2, <2>3, <2>4, <2>5, <2>6, <2>7, SevenPlaces
<1> QED BY <1>1 DEF TxSame

\* The record of the host goes on: nothing new typed, nothing new gone.
TxHost(gone) ==
  /\ log.torn => log'.torn
  /\ log'.gone = gone /\ host'.typed = host.typed
  /\ host.hungup => host'.hungup

LEMMA TxQuiet ==
  ASSUME TxInv, TxHost(log.gone), TxSame({}), host.typed \in Nat
  PROVE  TxInv'
<1> USE DEF TxHost
<1> SUFFICES ASSUME ~log'.torn PROVE TxInv'
  BY DEF TxInv
<1>1. PICK P, Q : P = TxParts /\ Q = TxParts'
  OBVIOUS
<1>2. \A i \in 1..7 : Q[i] = P[i]
  BY <1>1 DEF TxSame
<1>3. Accounted(P, 7, log.gone, host.typed)
  BY <1>1 DEF TxInv
<1>4. Accounted(Q, 7, log.gone, host.typed)
  BY ONLY <1>2, <1>3, SevenPlaces, TrainMisses, host.typed \in Nat, Zenon
<1> QED BY <1>1, <1>4 DEF TxInv

\* One part goes on, or its first character; one part is dropped.
TxShift(k, l) ==
  /\ k \in 1..7 /\ l \in 1..7 /\ l = k + 1 /\ TxSame({k, l})
  /\ \/ /\ TxParts[l] # << >> /\ TxParts'[k] = Append(TxParts[k], Head(TxParts[l]))
        /\ TxParts'[l] = Tail(TxParts[l])
     \/ /\ TxParts'[k] = TxParts[k] \o TxParts[l] \/ (TxParts[k] = << >> /\ TxParts'[k] = TxParts[l])
        /\ TxParts'[l] = << >>

LEMMA TxMoves ==
  ASSUME TxInv, TxHost(log.gone), NEW k, NEW l, log'.torn \/ TxShift(k, l)
  PROVE  TxInv'
<1> USE DEF TxHost
<1> SUFFICES ASSUME ~log'.torn PROVE TxInv'
  BY DEF TxInv
<1>0. TxShift(k, l)
  OBVIOUS
<1>1. PICK P, Q : P = TxParts /\ Q = TxParts'
  OBVIOUS
<1>2. Accounted(P, 7, log.gone, host.typed)
  BY <1>1 DEF TxInv
<1>3. /\ k \in 1..7 /\ l \in 1..7 /\ l = k + 1
      /\ \A i \in 1..7 : i # k /\ i # l => Q[i] = P[i]
      /\ \/ P[l] # << >> /\ Q[k] = Append(P[k], Head(P[l])) /\ Q[l] = Tail(P[l])
         \/ (Q[k] = P[k] \o P[l] \/ (P[k] = << >> /\ Q[k] = P[l])) /\ Q[l] = << >>
  BY <1>0, <1>1, Zenon DEF TxSame, TxShift
<1>4. HeadShifts(P, Q, 7, k, l) \/ PartShifts(P, Q, 7, k, l)
  BY ONLY <1>3, Zenon DEF HeadShifts, PartShifts
<1>5. Accounted(Q, 7, log.gone, host.typed)
  BY ONLY <1>2, <1>4, SevenPlaces, TrainHeadMoves, TrainPartMoves
<1> QED BY <1>1, <1>5 DEF TxInv

LEMMA TxDrops ==
  ASSUME TxInv, NEW k \in 1..7, TxHost(log.gone \cup ToSet(TxParts[k])), TxSame({k}),
         TxParts'[k] = << >>, ~host'.hungup => TxParts[k] = << >>
  PROVE  TxInv'
<1> USE DEF TxHost
<1> SUFFICES ASSUME ~log'.torn PROVE TxInv'
  BY DEF TxInv
<1>1. PICK P, Q : P = TxParts /\ Q = TxParts'
  OBVIOUS
<1>2. Accounted(P, 7, log.gone, host.typed)
  BY <1>1 DEF TxInv
<1>3. (\A i \in 1..7 : i # k => Q[i] = P[i]) /\ Q[k] = << >>
  BY <1>1 DEF TxSame
<1>4. Accounted(Q, 7, log.gone \cup ToSet(P[k]), host.typed)
  BY ONLY <1>2, <1>3, k \in 1..7, SevenPlaces, TrainDrops, Zenon
<1>5. ~host'.hungup => log'.gone = {}
  <2>1. ToSet(<< >>) = {}
    BY DEF ToSet
  <2> QED BY <2>1 DEF TxInv
<1> QED BY <1>1, <1>4, <1>5 DEF TxInv

\* What is typed comes into the endpoint, which is empty.
LEMMA TxGrows ==
  ASSUME TxInv, log'.torn = log.torn, log'.gone = log.gone, host.typed \in Nat, NEW m \in Nat,
         host'.typed = host.typed + m, host'.hungup = host.hungup, TxSame({7}),
         ~log.torn => TxParts[7] = << >>, TxParts'[7] = [i \in 1..m |-> host.typed + i]
  PROVE  TxInv'
<1> SUFFICES ASSUME ~log.torn PROVE TxInv'
  BY DEF TxInv
<1>1. PICK P, Q : P = TxParts /\ Q = TxParts'
  OBVIOUS
<1>2. PICK top, gone : top = host.typed /\ gone = log.gone
  OBVIOUS
<1>3. Accounted(P, 7, gone, top) /\ top \in Nat
  BY <1>1, <1>2 DEF TxInv
<1>4. /\ P[7] = << >> /\ Q[7] = [i \in 1..m |-> top + i]
      /\ \A i \in 1..7 : i # 7 => Q[i] = P[i]
  BY <1>1, <1>2 DEF TxSame
<1>5. Accounted(Q, 7, gone, top + m)
  BY ONLY <1>3, <1>4, m \in Nat, SevenPlaces, TrainGrows, Zenon
<1> QED BY <1>1, <1>2, <1>5 DEF TxInv

LEMMA InputIs ==
  /\ ~flags.avail => Input = << >> /\ ToSet(Input) = {}
  /\ ~flags'.avail => Input' = << >>
  /\ flags'.avail = flags.avail /\ flags'.len = flags.len /\ dev'.input = dev.input => Input' = Input
  /\ flags.avail => Input = SubSeq(dev.input, 1, flags.len)
  /\ flags'.avail => Input' = SubSeq(dev'.input, 1, flags'.len)
<1>1. Input = IF flags.avail THEN SubSeq(dev.input, 1, flags.len) ELSE << >>
  BY DEF Input
<1>2. Input' = IF flags'.avail THEN SubSeq(dev'.input, 1, flags'.len) ELSE << >>
  BY DEF Input
<1>3. ToSet(<< >>) = {}
  BY DEF ToSet
<1>4. flags'.avail = flags.avail /\ flags'.len = flags.len /\ dev'.input = dev.input => Input' = Input
  BY ONLY <1>1, <1>2, Zenon
<1> QED BY ONLY <1>1, <1>2, <1>3, <1>4, Zenon

LEMMA ComingIs ==
  /\ cm.pc # "rx_flags" => Coming = << >>
  /\ cm'.pc # "rx_flags" => Coming' = << >>
  /\ cm'.pc = cm.pc /\ cm'.len = cm.len /\ dev'.input = dev.input => Coming' = Coming
  /\ cm.pc = "rx_flags" => Coming = SubSeq(dev.input, 1, cm.len)
  /\ cm'.pc = "rx_flags" => Coming' = SubSeq(dev'.input, 1, cm'.len)
BY Zenon DEF Coming

\* rb_ll_flush takes what is left: nothing, when the buffer is empty.
LEMMA EmptyHolds ==
  ASSUME NEW n \in Sizes, NEW rb \in Rings(n), rb.empty
  PROVE  Contents(rb, n) = << >>
<1>1. Contents(rb, n) \in Seq(Nat) /\ Len(Contents(rb, n)) = 0
  BY CountBounds, ContentsType
<1> QED BY ONLY <1>1

LEMMA TxWorld ==
  ASSUME SerialTypeOK, CountInv, TokenInv, EarlyInv, TxInv, World \/ UNCHANGED vars
  PROVE  TxInv'
<1>1. /\ UartOK /\ HostOK /\ ep \in Endpoints /\ host.typed \in Nat /\ uart.dr \in Nat
      /\ ep.rx \in Seq(Buffers) /\ Len(ep.rx) <= 1
  BY DEF SerialTypeOK, PortOK, HostOK, UartOK, Endpoints, TokenInv
<1>2. a2h' = a2h /\ thr' = thr /\ flags' = flags /\ dev' = dev /\ cm' = cm /\ Input' = Input /\ Coming' = Coming
  <2>1. a2h' = a2h /\ thr' = thr /\ flags' = flags /\ dev' = dev /\ cm' = cm
    BY Zenon DEF World, Host, HostControl, HostReset, HostType, HostHears, HostNoticed, FrameComes, Line,
           usart, port, vars
  <2> QED BY <2>1, InputIs, ComingIs
<1>3. CASE HostControl \/ HostHears \/ HostNoticed \/ FrameComes \/ (Line /\ BreakSent) \/ UNCHANGED vars
  <2>1. log'.wire = log.wire /\ log'.gone = log.gone /\ log'.torn = log.torn
    BY <1>3, Zenon DEF HostControl, HostHears, HostNoticed, FrameComes, LineIn, BreakSent, vars, CountInv
  <2>2. uart'.dr = uart.dr
    BY <1>1, <1>3, Zenon DEF HostControl, HostHears, HostNoticed, FrameComes, LineIn, BreakSent, vars, usart, UartOK
  <2>3. ep'.rx = ep.rx
    BY <1>1, <1>3, Zenon DEF HostControl, HostHears, HostNoticed, FrameComes, Line, port, vars, Endpoints
  <2>4. host'.typed = host.typed /\ (host.hungup => host'.hungup)
    BY <1>1, <1>3, Zenon DEF HostControl, HostHears, HostNoticed, FrameComes, Line, port, vars, HostOK
  <2> QED BY <1>1, <1>2, <2>1, <2>2, <2>3, <2>4, TxStays, TxQuiet DEF TxHost
<1>4. CASE Line /\ LineOut
  <2>1. /\ uart.dr # NoChar /\ uart'.dr = NoChar
        /\ log'.wire = Append(log.wire, uart.dr) /\ log'.gone = log.gone /\ log'.torn = log.torn
    BY <1>1, <1>4 DEF LineOut, UartOK, CountInv
  <2>2. ep' = ep /\ host' = host
    BY <1>4 DEF Line, port
  <2>3. TxSame({1, 2})
    BY <1>2, <2>1, <2>2, TxStays
  <2>4. /\ TxParts[2] # << >> /\ TxParts'[1] = Append(TxParts[1], Head(TxParts[2]))
        /\ TxParts'[2] = Tail(TxParts[2])
    BY <1>1, <2>1, TxPartsAre, OneChar, Zenon
  <2>5. TxShift(1, 2)
    <3>1. 1 \in 1..7 /\ 2 \in 1..7 /\ 2 = 1 + 1
      OBVIOUS
    <3> QED BY ONLY <2>3, <2>4, <3>1, Zenon DEF TxShift
  <2> QED BY <2>1, <2>2, <2>5, TxMoves DEF TxHost
<1>5. CASE HostReset
  <2>1. uart' = uart /\ log'.wire = log.wire /\ log'.torn = log.torn /\ host'.typed = host.typed
        /\ host'.hungup = (host.hungup \/ dev.state # "UNCONNECTED")
    BY <1>1, <1>5 DEF HostReset, usart, CountInv, HostOK
  <2>2. CASE cm.pc = "rx"
    <3>1. ep'.rx = ep.rx /\ log'.gone = log.gone
      BY <1>5, <2>2 DEF HostReset, FreshEp, CountInv
    <3> QED BY <1>1, <1>2, <2>1, <3>1, TxStays, TxQuiet, Zenon DEF TxHost
  <2>3. CASE cm.pc # "rx"
    <3>1. ep'.rx = << >> /\ log'.gone = log.gone \cup Chars(ep.rx)
      BY <1>5, <2>3 DEF HostReset, FreshEp, CountInv
    <3>2. TxParts[7] = Packet(ep.rx) /\ log'.gone = log.gone \cup ToSet(TxParts[7])
      BY <1>1, <3>1, CharsOf, TxPartsAre
    <3>3. ~host'.hungup => TxParts[7] = << >>
      BY <2>1, <3>2, Zenon DEF EarlyInv, Early, Blank, Packet
    <3>4. TxSame({7}) /\ TxParts'[7] = << >>
      BY <1>2, <2>1, <3>1, TxStays, TxPartsAre DEF Packet
    <3> QED BY <2>1, <3>2, <3>3, <3>4, SevenPlaces, TxDrops, Zenon DEF TxHost
  <2> QED BY <2>2, <2>3
<1>6. CASE HostType
  <2>1. /\ uart' = uart /\ log'.wire = log.wire /\ log'.torn = log.torn
        /\ log'.gone = log.gone \cup Chars(ep.rx) /\ host'.hungup = host.hungup
        /\ ep.armed
    BY <1>1, <1>6 DEF HostType, usart, CountInv, HostOK
  <2>2. PICK m : m = Head(host.sizes)
    OBVIOUS
  <2>3. m \in Nat
    <3>1. host.sizes \in Seq(0..BufSize) /\ host.sizes # << >>
      BY <1>1, <1>6 DEF HostOK, HostType
    <3>2. m \in 0..BufSize
      BY <2>2, <3>1, HeadAndTail, Zenon
    <3> QED BY <3>2, SizesAssumption
  <2>4. ep'.rx = << [i \in 1..m |-> host.typed + i] >> /\ host'.typed = host.typed + m
    BY <1>1, <1>6, <2>2, Zenon DEF HostType, Endpoints, HostOK
  <2>5. TxSame({7})
    BY <1>2, <2>1, TxStays
  <2>6. TxParts'[7] = [i \in 1..m |-> host.typed + i]
    BY <2>4, TxPartsAre DEF Packet
  <2>7. ~log.torn => ep.rx = << >>
    BY <2>1 DEF TokenInv
  <2>8. CASE ~log.torn
    <3>1. Packet(ep.rx) = << >> /\ Chars(ep.rx) = {}
      BY <2>7, <2>8 DEF Packet, Chars
    <3> QED BY <1>1, <2>1, <2>3, <2>4, <2>5, <2>6, <3>1, TxGrows, TxPartsAre
  <2>9. CASE log.torn
    BY <2>1, <2>9 DEF TxInv
  <2> QED BY <2>8, <2>9
<1> QED BY <1>3, <1>4, <1>5, <1>6 DEF World, Host, Line

LEMMA TxDriver ==
  ASSUME SerialTypeOK, CountInv, DrFree, TxInv, Um \/ UmNotify \/ MainStarts
  PROVE  TxInv'
<1>1. /\ UartOK /\ UmOK /\ RingsOK /\ ep \in Endpoints /\ flags \in FlagWords /\ host.typed \in Nat
      /\ A2hSize \in Sizes /\ uart.dr \in Nat
  BY SizesAssumption DEF SerialTypeOK, PortOK, HostOK, UartOK, Sizes
<1>2. thr' = thr /\ dev' = dev /\ cm' = cm /\ host' = host /\ ep'.rx = ep.rx
  BY <1>1, Zenon DEF Um, UmNotify, MainStarts, port, UmPoll, UmInterrupt, UmStatus, UmData, UmPut, UmWrite, UmCheck,
              Endpoints
<1>3. Input' = Input /\ Coming' = Coming
  <2>1. flags'.avail = flags.avail /\ flags'.len = flags.len
    BY <1>1 DEF Um, UmNotify, MainStarts, port, FlagWords
  <2> QED BY <1>2, <2>1, InputIs, ComingIs
<1>4. log'.wire = log.wire /\ log'.gone = log.gone /\ log'.torn = log.torn
  BY Zenon DEF Um, UmNotify, MainStarts, UmPoll, UmInterrupt, UmStatus, UmData, UmPut, UmWrite, UmCheck, CountInv
<1>5. CASE ~UmWrite
  <2>1. a2h' = a2h
    BY <1>5, Zenon DEF Um, UmNotify, MainStarts, UmPoll, UmInterrupt, UmStatus, UmData, UmPut, UmCheck
  <2>2. uart'.dr = uart.dr
    BY <1>1, <1>5, Zenon DEF Um, UmNotify, MainStarts, UmPoll, UmInterrupt, UmStatus, UmData, UmPut, UmCheck, UartOK
  <2> QED BY <1>1, <1>2, <1>3, <1>4, <2>1, <2>2, TxStays, TxQuiet DEF TxHost
<1>6. CASE UmWrite
  <2>1. CASE a2h.empty
    <3>1. a2h' = a2h /\ uart' = uart
      BY <1>6, <2>1 DEF UmWrite
    <3> QED BY <1>1, <1>2, <1>3, <1>4, <3>1, TxStays, TxQuiet DEF TxHost
  <2>2. CASE ~a2h.empty
    <3>1. a2h' = RbDel(a2h) /\ uart'.dr = RbFirst(a2h) /\ uart.dr = NoChar
      BY <1>1, <1>6, <2>2 DEF UmWrite, UartOK, DrFree
    <3>2. /\ Contents(a2h, A2hSize) # << >> /\ RbFirst(a2h) = Head(Contents(a2h, A2hSize))
          /\ Contents(RbDel(a2h), A2hSize) = Tail(Contents(a2h, A2hSize))
      BY <1>1, <2>2, RbDelTakes DEF RingsOK
    <3>3. RbFirst(a2h) \in Nat /\ RbFirst(a2h) # NoChar => Char(RbFirst(a2h)) = << RbFirst(a2h) >>
      BY DEF Char
    <3>4. TxSame({2, 3})
      BY <1>2, <1>3, <1>4, TxStays
    <3>5. log.torn \/ RbFirst(a2h) # NoChar
      <4>1. SUFFICES ASSUME ~log.torn PROVE RbFirst(a2h) # NoChar
        OBVIOUS
      <4>2. PICK s : s = Contents(a2h, A2hSize)
        OBVIOUS
      <4>3. s \in Seq(Nat)
        BY <1>1, <4>2, ContentsType DEF RingsOK
      <4>4. Cargo(TxParts, 7) \subseteq 1..host.typed
        BY <4>1 DEF TxInv, Accounted
      <4>5. ToSet(s) \subseteq 1..host.typed
        BY <4>2, <4>4, TxPartsAre, SevenPlaces DEF Cargo
      <4>6. Head(s) \in ToSet(s)
        BY <3>2, <4>2, <4>3 DEF ToSet
      <4> QED BY <1>1, <3>2, <4>2, <4>5, <4>6 DEF NoChar
    <3>6. ~log.torn => TxShift(2, 3)
      <4>1. SUFFICES ASSUME ~log.torn PROVE TxShift(2, 3)
        OBVIOUS
      <4>2. PICK s, c : s = Contents(a2h, A2hSize) /\ c = RbFirst(a2h)
        OBVIOUS
      <4>3. Char(c) = << c >> /\ Append(<< >>, c) = << c >>
        BY <3>5, <4>1, <4>2 DEF Char
      <4>4. TxParts[3] # << >> /\ TxParts'[2] = Append(TxParts[2], Head(TxParts[3]))
        BY <1>1, <3>1, <3>2, <4>2, <4>3, TxPartsAre, OneChar
      <4>5. TxParts'[3] = Tail(TxParts[3])
        BY <3>1, <3>2, TxPartsAre
      <4>6. 2 \in 1..7 /\ 3 \in 1..7 /\ 3 = 2 + 1
        OBVIOUS
      <4> QED BY ONLY <3>4, <4>4, <4>5, <4>6, Zenon DEF TxShift
    <3> QED BY <1>2, <1>4, <3>6, TxMoves DEF TxHost
  <2> QED BY <2>1, <2>2
<1> QED BY <1>5, <1>6

LEMMA TxCarry ==
  ASSUME SerialTypeOK, CountInv, ApartInv, StartInv, TxInv, NEW t \in Threads, Carry(t)
  PROVE  TxInv'
<1>1. /\ ThreadsOK /\ RingsOK /\ host.typed \in Nat /\ A2hSize \in Sizes /\ "c2u" \in Threads
      /\ a2h \in Rings(A2hSize) /\ thr["c2u"].buf \in Seq(Nat)
  BY SizesAssumption, TwoThreads DEF SerialTypeOK, HostOK, Sizes, RingsOK, ThreadsOK, Buffers
<1>2. UNCHANGED port /\ uart' = uart /\ log'.wire = log.wire /\ log'.torn = log.torn
  BY DEF Carry, RbRead, RbWrite, FlushIn, FlushOut, CountInv
<1>3. Input' = Input /\ Coming' = Coming /\ ep' = ep /\ host' = host
  BY <1>2, InputIs, ComingIs DEF port
<1>4. CASE (t = "u2c" /\ RbRead(t)) \/ FlushIn(t)
  <2>1. a2h' = a2h /\ thr'["c2u"].buf = thr["c2u"].buf
    BY <1>1, <1>4 DEF RbRead, FlushIn, ThreadsOK
  <2>2. log'.gone = log.gone
    BY <1>4 DEF RbRead, FlushIn, CountInv
  <2> QED BY <1>1, <1>2, <1>3, <2>1, <2>2, TxStays, TxQuiet DEF TxHost
<1>5. CASE t = "c2u" /\ RbWrite(t)
  <2>1. log'.gone = log.gone
    BY <1>5 DEF RbWrite
  <2>2. CASE a2h.full
    <3>1. a2h' = a2h /\ thr'["c2u"].buf = thr["c2u"].buf
      BY <1>1, <1>5, <2>2 DEF RbWrite, ThreadsOK
    <3> QED BY <1>1, <1>2, <1>3, <2>1, <3>1, TxStays, TxQuiet DEF TxHost
  <2>3. CASE ~a2h.full
    <3>1. PICK s : s = thr["c2u"].buf
      OBVIOUS
    <3>2. s # << >> /\ a2h' = RbAdd(a2h, Head(s))
          /\ \E r : thr' = [thr EXCEPT !["c2u"] = [buf |-> Tail(s), pc |-> r]]
      BY <1>5, <2>3, <3>1, Zenon DEF RbWrite
    <3>3. thr'["c2u"].buf = Tail(s)
      BY <1>1, <3>2 DEF ThreadsOK
    <3>4. Head(s) \in Nat
      BY <1>1, <3>1, <3>2, HeadAndTail
    <3>5. Contents(a2h', A2hSize) = Append(Contents(a2h, A2hSize), Head(s))
      BY <1>1, <2>3, <3>2, <3>4, RbAddAppends
    <3>6. TxSame({3, 4})
      BY <1>2, <1>3, TxStays
    <3>7. /\ TxParts[4] # << >> /\ TxParts'[3] = Append(TxParts[3], Head(TxParts[4]))
          /\ TxParts'[4] = Tail(TxParts[4])
      BY <3>1, <3>2, <3>3, <3>5, TxPartsAre
    <3>8. TxShift(3, 4)
      <4>1. 3 \in 1..7 /\ 4 \in 1..7 /\ 4 = 3 + 1
        OBVIOUS
      <4> QED BY ONLY <3>6, <3>7, <4>1, Zenon DEF TxShift
    <3> QED BY <1>2, <1>3, <2>1, <3>8, TxMoves DEF TxHost
  <2> QED BY <2>2, <2>3
<1>6. CASE FlushOut(t)
  <2>1. thr'["c2u"].buf = thr["c2u"].buf /\ a2h' = RbFlush(a2h) /\ thr[t].pc = "flush_out"
    BY <1>1, <1>6 DEF FlushOut, ThreadsOK
  <2>2. log'.gone = log.gone \cup ToSet(TxParts[3])
    BY <1>6, TxPartsAre DEF FlushOut, CountInv
  <2>3. TxSame({3}) /\ TxParts'[3] = << >>
    BY <1>1, <1>2, <1>3, <2>1, TxStays, RbFlushClears, TxPartsAre
  <2>4. ~host'.hungup => TxParts[3] = << >>
    <3>1. SUFFICES ASSUME ~host.hungup PROVE TxParts[3] = << >>
      BY <1>3
    <3>2. a2h.empty
      BY <2>1, <3>1 DEF StartInv, Idle, Outside
    <3> QED BY <1>1, <3>2, EmptyHolds, TxPartsAre
  <2> QED BY <1>2, <1>3, <2>2, <2>3, <2>4, SevenPlaces, TxDrops DEF TxHost
<1> QED BY <1>4, <1>5, <1>6 DEF Carry

LEMMA TxCdc ==
  ASSUME SerialTypeOK, CountInv, ApartInv, StartInv, TxInv, NEW t \in Threads,
         WaitConnection(t) \/ Delay(t) \/ Send(t)
  PROVE  TxInv'
<1>1. /\ ThreadsOK /\ host.typed \in Nat /\ ep \in Endpoints /\ flags \in FlagWords /\ "c2u" \in Threads
  BY TwoThreads DEF SerialTypeOK, HostOK, PortOK
<1>2. UNCHANGED usart /\ host' = host /\ dev' = dev /\ cm' = cm /\ log'.wire = log.wire /\ ep'.rx = ep.rx
      /\ Coming' = Coming
  <2>1. UNCHANGED usart /\ host' = host /\ dev' = dev /\ cm' = cm /\ log'.wire = log.wire /\ ep'.rx = ep.rx
    BY <1>1, Zenon DEF WaitConnection, Delay, Send, CountInv, Endpoints, port
  <2> QED BY <2>1, ComingIs
<1>3. thr'["c2u"].buf = thr["c2u"].buf
  <2>1. CASE WaitConnection(t) \/ Delay(t)
    BY <1>1, <2>1 DEF WaitConnection, Delay, ThreadsOK
  <2>2. CASE Send(t)
    <3>1. CASE thr' = thr
      BY <3>1
    <3>2. CASE thr' # thr
      <4>1. thr'[t].buf = << >> /\ \A u \in Threads : u # t => thr'[u] = thr[u]
        BY <1>1, <2>2, <3>2 DEF Send, Sent, ThreadsOK
      <4>2. t = "c2u" => thr["c2u"].buf = << >>
        BY <2>2 DEF Send, ApartInv
      <4> QED BY <1>1, <4>1, <4>2
    <3> QED BY <3>1, <3>2
  <2> QED BY <2>1, <2>2
<1>4. CASE Delay(t) \/ Send(t)
  <2>1. flags'.avail = flags.avail /\ flags'.len = flags.len
    BY <1>1, <1>4 DEF Delay, Send, port, FlagWords
  <2>2. Input' = Input
    BY <1>2, <2>1, InputIs
  <2>3. log'.gone = log.gone /\ log'.torn = log.torn
    BY <1>4, Zenon DEF Delay, Send, CountInv
  <2> QED BY <1>1, <1>2, <1>3, <2>2, <2>3, TxStays, TxQuiet DEF TxHost, usart
<1>5. CASE WaitConnection(t)
  <2>1. CASE ~flags.conn
    <3>1. flags' = flags /\ log' = log
      BY <1>5, <2>1 DEF WaitConnection
    <3>2. Input' = Input
      BY <1>2, <3>1, InputIs
    <3> QED BY <1>1, <1>2, <1>3, <3>1, <3>2, TxStays, TxQuiet DEF TxHost, usart
  <2>2. CASE flags.conn
    <3>1. thr[t].pc = "conn" /\ ~flags'.avail /\ (log.torn => log'.torn)
      BY <1>1, <1>5, <2>2, Zenon DEF WaitConnection, FlagWords, CountInv
    <3>2. log'.gone = log.gone \cup ToSet(TxParts[5])
      BY <1>5, <2>2, TxPartsAre, Zenon DEF WaitConnection, CountInv
    <3>3. TxSame({5}) /\ TxParts'[5] = << >>
      BY <1>2, <1>3, <3>1, TxStays, InputIs, TxPartsAre DEF usart
    <3>4. ~host'.hungup => TxParts[5] = << >>
      <4>1. SUFFICES ASSUME ~host.hungup PROVE TxParts[5] = << >>
        BY <1>2
      <4>2. ~flags.avail
        BY <3>1, <4>1 DEF StartInv, Idle, Outside
      <4> QED BY <4>2, InputIs, TxPartsAre
    <3> QED BY <1>2, <3>1, <3>2, <3>3, <3>4, SevenPlaces, TxDrops DEF TxHost
  <2> QED BY <2>1, <2>2
<1> QED BY <1>4, <1>5

LEMMA TxInput ==
  ASSUME SerialTypeOK, CountInv, TxInv, Recv \/ Take \/ TimeOut
  PROVE  TxInv'
<1>1. /\ ThreadsOK /\ host.typed \in Nat /\ ep \in Endpoints /\ flags \in FlagWords /\ "c2u" \in Threads
  BY TwoThreads DEF SerialTypeOK, HostOK, PortOK
<1>2. UNCHANGED usart /\ host' = host /\ dev' = dev /\ cm' = cm /\ log' = log /\ ep'.rx = ep.rx
      /\ Coming' = Coming
  <2>1. UNCHANGED usart /\ host' = host /\ dev' = dev /\ cm' = cm /\ log' = log /\ ep'.rx = ep.rx
    BY <1>1, Zenon DEF Recv, Take, TimeOut, Endpoints, port
  <2> QED BY <2>1, ComingIs
<1>3. CASE Recv \/ TimeOut
  <2>1. flags' = flags
    BY <1>3, Zenon DEF Recv, TimeOut, port
  <2>2. thr'["c2u"].buf = thr["c2u"].buf
    <3>1. CASE Recv
      BY <1>1, <3>1 DEF Recv, ThreadsOK
    <3>2. CASE TimeOut
      <4>1. PICK i \in DOMAIN slept :
              thr' = IF thr[slept[i].t].pc = "recv" THEN [thr EXCEPT ![slept[i].t].pc = "take"] ELSE thr
        BY <3>2, Zenon DEF TimeOut
      <4> QED BY <1>1, <4>1 DEF ThreadsOK
    <3> QED BY <1>3, <3>1, <3>2
  <2>3. Input' = Input
    BY <1>2, <2>1, InputIs
  <2> QED BY <1>1, <1>2, <2>2, <2>3, TxStays, TxQuiet DEF TxHost, usart
<1>4. CASE Take
  <2>1. thr["c2u"].pc = "take" /\ thr["c2u"].buf = << >>
    BY <1>1, <1>4 DEF Take, ThreadsOK
  <2>2. CASE flags.conn /\ flags.avail
    <3>1. thr'["c2u"].buf = Input /\ ~flags'.avail
      <4>1. PICK r : thr' = [thr EXCEPT !["c2u"] = [buf |-> Input, pc |-> r]]
        BY <1>4, <2>2 DEF Take
      <4>2. thr'["c2u"].buf = Input
        BY <1>1, <4>1 DEF ThreadsOK
      <4>3. ~flags'.avail
        BY <1>1, <1>4, <2>2, Zenon DEF Take, FlagWords
      <4> QED BY <4>2, <4>3
    <3>2. TxSame({4, 5})
      BY <1>2, TxStays DEF usart
    <3>3. TxParts[4] = << >> /\ TxParts'[4] = TxParts[5] /\ TxParts'[5] = << >>
      BY <2>1, <3>1, InputIs, TxPartsAre
    <3>4. TxShift(4, 5)
      <4>1. 4 \in 1..7 /\ 5 \in 1..7 /\ 5 = 4 + 1
        OBVIOUS
      <4> QED BY ONLY <3>2, <3>3, <4>1, Zenon DEF TxShift
    <3> QED BY <1>2, <3>4, TxMoves DEF TxHost
  <2>3. CASE ~(flags.conn /\ flags.avail)
    <3>1. flags' = flags /\ thr'["c2u"].buf = thr["c2u"].buf
      BY <1>1, <1>4, <2>3 DEF Take, ThreadsOK
    <3>2. Input' = Input
      BY <1>2, <3>1, InputIs
    <3> QED BY <1>1, <1>2, <3>1, <3>2, TxStays, TxQuiet DEF TxHost, usart
  <2> QED BY <2>2, <2>3
<1> QED BY <1>3, <1>4

\* The packet is what is at the front of input[] when it has been copied there.
LEMMA CopiedFirst ==
  ASSUME NEW p \in Seq(Nat), NEW r \in Seq(Nat)
  PROVE  SubSeq(p \o r, 1, Len(p)) = p
<1>1. PICK n \in Nat : n = Len(p)
  OBVIOUS
<1>2. PICK c : c = p \o r
  BY Zenon
<1>3. /\ c \in Seq(Nat) /\ Len(c) = n + Len(r) /\ Len(r) \in Nat
      /\ \A i \in 1..n : c[i] = p[i]
  BY <1>1, <1>2, ConcatProperties
<1>4. PICK q : q = SubSeq(c, 1, n)
  BY Zenon
<1>5. \A i \in 1..n : c[i] \in Nat
  BY ONLY <1>1, <1>3
<1>6. q \in Seq(Nat) /\ Len(q) = n /\ \A i \in 1..n : q[i] = c[i]
  BY ONLY <1>1, <1>3, <1>4, <1>5, SubSeqProperties
<1>7. Len(q) = Len(p) /\ \A i \in 1..Len(q) : q[i] = p[i]
  BY ONLY <1>1, <1>3, <1>6
<1>8. q = p
  BY ONLY <1>6, <1>7, p \in Seq(Nat), SeqEqual, Zenon
<1> QED BY <1>1, <1>2, <1>4, <1>8

LEMMA TxCm ==
  ASSUME SerialTypeOK, CountInv, TokenInv, EarlyInv, TxInv, Cm
  PROVE  TxInv'
<1>1. /\ UartOK /\ host.typed \in Nat /\ ep \in Endpoints /\ flags \in FlagWords /\ cm \in Handlers
      /\ dev \in Devices /\ cm.saw \in FlagWords
  BY DEF SerialTypeOK, HostOK, PortOK, Handlers
<1>2. UNCHANGED << a2h, thr, host >>
  BY Zenon DEF Cm, CmEvent, Callback, CmReset, CmAddressed, CmConfigure, CmDeconfigure, CmLineState,
         CmCoding, CmConfigureUsart, CmSendBreak, CmBreak, CmTxDone, CmNoteDone, CmRxReady, CmRxFlags, usart
<1>3. uart'.dr = uart.dr
  BY <1>1, Zenon DEF Cm, CmEvent, Callback, CmReset, CmAddressed, CmConfigure, CmDeconfigure, CmLineState,
              CmCoding, CmConfigureUsart, CmSendBreak, CmBreak, CmTxDone, CmNoteDone, CmRxReady,
              CmRxFlags, usart, UartOK, Enabled, Disabled, SetBreak
<1>4. log'.wire = log.wire /\ (log.torn => log'.torn)
  BY Zenon DEF Cm, CmEvent, Callback, CmReset, CmAddressed, CmConfigure, CmDeconfigure, CmLineState,
         CmCoding, CmConfigureUsart, CmSendBreak, CmBreak, CmTxDone, CmNoteDone, CmRxReady,
         CmRxFlags, usart, Enabled, SetBreak, Rewritten, CountInv
<1>5. CASE CmRxReady
  <2>1. PICK p : p = Head(ep.rx)
    OBVIOUS
  <2>2. ep.rx # << >> /\ p \in Buffers /\ Packet(ep.rx) = p /\ cm.pc = "rx"
    <3>1. cm.pc = "rx" /\ ep.rx # << >> /\ ep.rx \in Seq(Buffers)
      BY <1>1, <1>5 DEF CmRxReady, SerialTypeOK, PortOK, Endpoints
    <3> QED BY <2>1, <3>1, HeadAndTail DEF Packet
  <2>3. PICK r : r = SubSeq(dev.input, Len(p) + 1, Len(dev.input))
    BY Zenon
  <2>4. /\ cm'.pc = "rx_flags" /\ cm'.len = Len(p) /\ dev'.input = p \o r
        /\ ep'.rx = << >> /\ flags' = flags /\ log'.torn = log.torn
        /\ log'.gone = log.gone \cup ToSet(Input)
    BY <1>1, <1>5, <2>1, <2>3, Zenon DEF CmRxReady, Handlers, Devices, Endpoints, CountInv
  <2>5. p \in Seq(Nat) /\ r \in Seq(Nat)
    <3>1. dev.input \in Seq(Nat) /\ Len(dev.input) \in Nat /\ p \in Seq(Nat) /\ Len(p) \in Nat
      BY <1>1, <2>2 DEF Devices, Buffers
    <3>2. r \in Seq(Nat)
      BY ONLY <2>3, <3>1
    <3> QED BY <3>1, <3>2
  <2>6. Coming' = p
    BY <2>4, <2>5, CopiedFirst, ComingIs
  <2>7. CASE log.torn
    BY <2>4, <2>7 DEF TxInv
  <2>8. CASE ~log.torn
    <3>1. ~flags.avail
      BY <2>2, <2>8 DEF TokenInv
    <3>2. Input = << >> /\ Input' = << >> /\ log'.gone = log.gone
      BY <2>4, <3>1, InputIs
    <3>3. TxSame({6, 7})
      BY <1>2, <1>3, <1>4, <3>2, TxStays
    <3>4. TxParts[6] = << >> /\ TxParts'[6] = TxParts[7] /\ TxParts'[7] = << >>
      BY <2>2, <2>4, <2>6, ComingIs, TxPartsAre DEF Packet
    <3>5. TxShift(6, 7)
      <4>1. 6 \in 1..7 /\ 7 \in 1..7 /\ 7 = 6 + 1
        OBVIOUS
      <4> QED BY ONLY <3>3, <3>4, <4>1, Zenon DEF TxShift
    <3> QED BY <1>2, <1>4, <3>2, <3>5, TxMoves DEF TxHost
  <2> QED BY <2>7, <2>8
<1>6. CASE CmRxFlags
  <2>1. /\ cm.pc = "rx_flags" /\ cm'.pc = "wait" /\ dev' = dev /\ ep' = ep
        /\ flags'.avail /\ flags'.len = cm.len /\ log'.gone = log.gone
    BY <1>1, <1>6 DEF CmRxFlags, Callback, Handlers, FlagWords, CountInv
  <2>2. CASE log.torn
    BY <1>4, <2>2 DEF TxInv
  <2>3. CASE ~log.torn
    <3>1. ~flags.avail
      BY <2>1, <2>3 DEF TokenInv
    <3>2. Input = << >> /\ Coming = SubSeq(dev.input, 1, cm.len) /\ Input' = SubSeq(dev.input, 1, cm.len)
          /\ Coming' = << >>
      BY <2>1, <3>1, InputIs, ComingIs
    <3>3. TxSame({5, 6})
      BY <1>2, <1>3, <1>4, <2>1, TxStays
    <3>4. TxParts[5] = << >> /\ TxParts'[5] = TxParts[6] /\ TxParts'[6] = << >>
      BY <3>2, TxPartsAre
    <3>5. TxShift(5, 6)
      <4>1. 5 \in 1..7 /\ 6 \in 1..7 /\ 6 = 5 + 1
        OBVIOUS
      <4> QED BY ONLY <3>3, <3>4, <4>1, Zenon DEF TxShift
    <3> QED BY <1>2, <1>4, <2>1, <3>5, TxMoves DEF TxHost
  <2> QED BY <2>2, <2>3
<1>7. CASE CmReset
  <2>1. /\ cm.pc = "reset" /\ cm'.pc = "wait" /\ ep' = ep /\ ~flags'.avail
        /\ log'.gone = log.gone \cup ToSet(TxParts[5])
    BY <1>1, <1>7, TxPartsAre DEF CmReset, Callback, Handlers, FreshFlags, CountInv
  <2>2. Coming = << >> /\ Coming' = << >>
    BY <2>1, ComingIs
  <2>3. TxSame({5}) /\ TxParts'[5] = << >>
    BY <1>2, <1>3, <1>4, <2>1, <2>2, TxStays, InputIs, TxPartsAre
  <2>4. ~host'.hungup => TxParts[5] = << >>
    <3>1. ~host'.hungup => ~flags.avail
      BY <1>2, <2>1 DEF EarlyInv, Early, Blank
    <3> QED BY <3>1, InputIs, TxPartsAre
  <2> QED BY <1>2, <1>4, <2>1, <2>3, <2>4, SevenPlaces, TxDrops DEF TxHost
<1>8. CASE Cm /\ ~CmRxReady /\ ~CmRxFlags /\ ~CmReset
  <2>1. cm.pc # "rx_flags" /\ cm'.pc # "rx_flags"
    <3>1. CASE CmEvent
      <4>1. NextEvent \in Requests \cup {"tx", "note", "rx", "none"} /\ cm'.pc = NextEvent /\ cm.pc = "wait"
        BY <1>1, <3>1, NextEventIs DEF CmEvent, Handlers
      <4> QED BY <4>1 DEF Requests
    <3>2. CASE ~CmEvent
      BY <1>1, <1>8, <3>2, Zenon DEF Cm, Callback, CmAddressed, CmConfigure, CmDeconfigure, CmLineState,
             CmCoding, CmConfigureUsart, CmSendBreak, CmBreak, CmTxDone, CmNoteDone, Handlers
    <3> QED BY <3>1, <3>2
  <2>2. ep'.rx = ep.rx
    BY <1>1, <1>8, Zenon DEF Cm, CmEvent, Callback, CmAddressed, CmConfigure, CmDeconfigure, CmLineState,
             CmCoding, CmConfigureUsart, CmSendBreak, CmBreak, CmTxDone, CmNoteDone, Endpoints
  <2>3. flags'.avail = flags.avail /\ flags'.len = flags.len
    BY <1>1, <1>8 DEF Cm, CmEvent, Callback, CmAddressed, CmConfigure, CmDeconfigure, CmLineState,
             CmCoding, CmConfigureUsart, CmSendBreak, CmBreak, CmTxDone, CmNoteDone, FlagWords
  <2>4. dev'.input = dev.input
    BY <1>1, <1>8 DEF Cm, CmEvent, Callback, CmAddressed, CmConfigure, CmDeconfigure, CmLineState,
             CmCoding, CmConfigureUsart, CmSendBreak, CmBreak, CmTxDone, CmNoteDone, Devices
  <2>5. log'.gone = log.gone
    BY <1>8, Zenon DEF Cm, CmEvent, Callback, CmAddressed, CmConfigure, CmDeconfigure, CmLineState,
             CmCoding, CmConfigureUsart, CmSendBreak, CmBreak, CmTxDone, CmNoteDone, usart,
             Enabled, SetBreak, Rewritten, CountInv
  <2>6. Input' = Input /\ Coming' = Coming
    BY <2>1, <2>3, <2>4, InputIs, ComingIs
  <2> QED BY <1>1, <1>2, <1>3, <1>4, <2>2, <2>5, <2>6, TxStays, TxQuiet DEF TxHost
<1> QED BY <1>5, <1>6, <1>7, <1>8

LEMMA EarlyStep ==
  ASSUME SerialTypeOK, NoReset, EarlyInv, [Next]_vars
  PROVE  EarlyInv'
BY EarlyWorld, EarlyThreads, EarlyCm DEF Next

LEMMA TxStep ==
  ASSUME SerialTypeOK, CountInv, ApartInv, TokenInv, DrFree, EarlyInv, StartInv, TxInv, [Next]_vars
  PROVE  TxInv'
<1>1. ASSUME NEW t \in Threads, Carries(t) PROVE TxInv'
  BY <1>1, TxCarry, TxCdc DEF Carries
<1> QED BY <1>1, TxWorld, TxDriver, TxInput, TxCm DEF Next

\* Nothing is on the way at first.
LEMMA InitTx == Init => NoReset /\ TokenInv /\ DrFree /\ EarlyInv /\ SleepInv /\ StartInv /\ TxInv
<1> SUFFICES ASSUME Init PROVE NoReset /\ TokenInv /\ DrFree /\ EarlyInv /\ SleepInv /\ StartInv /\ TxInv
  OBVIOUS
<1>1. /\ log.wire = << >> /\ log.gone = {} /\ host.typed = 0 /\ ~host.hungup
      /\ uart.dr = NoChar /\ um.pc = "off" /\ slept = << >>
      /\ cm.pc = "wait" /\ dev.state = "UNCONNECTED" /\ ~flags.avail /\ ~flags.conn
      /\ ep.rx = << >> /\ ~ep.armed /\ ep.ctl = "none" /\ ~ep.reset /\ ~ep.on /\ ~ep.txdone /\ ~ep.notedone
  BY DEF Init, FreshEp, FreshUm, FreshUart, FreshFlags
<1>2. \A t \in Threads : thr[t].buf = << >> /\ thr[t].pc = "conn"
  BY DEF Init
<1>3. Contents(a2h, A2hSize) = << >> /\ a2h.empty
  <2>1. a2h = FreshRing(A2hSize) /\ A2hSize \in Sizes
    BY SizesAssumption DEF Init, Sizes
  <2> QED BY <2>1, FreshRingIs, Zenon DEF FreshRing
<1>4. TokenInv /\ NoReset /\ DrFree
  BY <1>1 DEF TokenInv, NoReset, DrFree
<1>5. EarlyInv
  BY <1>1 DEF EarlyInv, Blank
<1>6. SleepInv
  BY <1>1 DEF SleepInv, Sleep
<1>7. StartInv
  BY <1>1, <1>2, <1>3, TwoThreads DEF StartInv, Idle
<1>8. PICK P : P = TxParts
  OBVIOUS
<1>9. /\ P[1] = << >> /\ P[2] = << >> /\ P[3] = << >> /\ P[4] = << >> /\ P[5] = << >> /\ P[6] = << >>
      /\ P[7] = << >>
  BY <1>1, <1>2, <1>3, <1>8, TxPartsAre, InputIs, ComingIs, TwoThreads DEF Packet, Char
<1>10. \A i \in 1..7 : P[i] = << >>
  BY ONLY <1>9, SevenPlaces
<1>11. Accounted(P, 7, {}, 0)
  <2>1. << >> \in Seq(Nat) /\ ToSet(<< >>) = {} /\ Ascending(<< >>) /\ 1..0 = {}
    BY DEF ToSet, Ascending
  <2>2. Train(P, 7)
    BY ONLY <1>10, <2>1, Zenon DEF Train, AllBefore
  <2>3. Cargo(P, 7) = {}
    BY ONLY <1>10, <2>1 DEF Cargo
  <2> QED BY ONLY <2>1, <2>2, <2>3 DEF Accounted
<1>12. TxInv
  BY <1>1, <1>8, <1>11 DEF TxInv
<1> QED BY <1>4, <1>5, <1>6, <1>7, <1>12

\* The seven parts behind one another are in ascending order, and they have all there is.
LEMMA OutwardIs ==
  ASSUME TxInv, ~log.torn
  PROVE  /\ Increasing(Outward)
         /\ ToSet(Outward) = Cargo(TxParts, 7)
<1>1. PICK P : P = TxParts
  OBVIOUS
<1>2. Train(P, 7)
  BY <1>1 DEF TxInv, Accounted
<1>3. Joined(P, 1, P[1])
  BY ONLY <1>2, SevenPlaces, TrainFirst
<1>4. 2 = 1 + 1 /\ 3 = 2 + 1 /\ 4 = 3 + 1 /\ 5 = 4 + 1 /\ 6 = 5 + 1 /\ 7 = 6 + 1
  OBVIOUS
<1>5. Joined(P, 2, P[1] \o P[2])
  BY ONLY <1>2, <1>3, <1>4, SevenPlaces, TrainJoins
<1>6. Joined(P, 3, P[1] \o P[2] \o P[3])
  BY ONLY <1>2, <1>5, <1>4, SevenPlaces, TrainJoins
<1>7. Joined(P, 4, P[1] \o P[2] \o P[3] \o P[4])
  BY ONLY <1>2, <1>6, <1>4, SevenPlaces, TrainJoins
<1>8. Joined(P, 5, P[1] \o P[2] \o P[3] \o P[4] \o P[5])
  BY ONLY <1>2, <1>7, <1>4, SevenPlaces, TrainJoins
<1>9. Joined(P, 6, P[1] \o P[2] \o P[3] \o P[4] \o P[5] \o P[6])
  BY ONLY <1>2, <1>8, <1>4, SevenPlaces, TrainJoins
<1>10. Joined(P, 7, P[1] \o P[2] \o P[3] \o P[4] \o P[5] \o P[6] \o P[7])
  BY ONLY <1>2, <1>9, <1>4, SevenPlaces, TrainJoins
<1>11. PICK s : s = Outward
  OBVIOUS
<1>12. s = P[1] \o P[2] \o P[3] \o P[4] \o P[5] \o P[6] \o P[7]
  BY <1>1, <1>11, TxPartsAre DEF Outward, Coming
<1>13. Joined(P, 7, s)
  BY ONLY <1>10, <1>12
<1>14. Increasing(s)
  BY ONLY <1>13 DEF Joined, Ascending, Increasing
<1>15. ToSet(s) = Cargo(P, 7)
  <2>1. ASSUME NEW x PROVE x \in ToSet(s) <=> x \in Cargo(P, 7)
    BY ONLY <1>13 DEF Joined, Cargo
  <2> QED BY ONLY <2>1
<1> QED BY <1>1, <1>11, <1>14, <1>15

\* Whatever host and line do, every character typed is in one place until it is on the line,
\* in order, or until the program has discarded it; and it discards none before the host has
\* hung up.  Only where the program tears a packet it is copying is nothing said any more.
THEOREM TypedComesOutInOrder == Spec => []TxInOrder
<1> DEFINE IInv == /\ ApartInv /\ NoReset /\ TokenInv /\ DrFree
                   /\ EarlyInv /\ SleepInv /\ StartInv /\ TxInv
<1>1. Init => IInv
  BY InitApart, InitTx
<1>2. SerialTypeOK /\ CountInv /\ IInv /\ [Next]_vars => IInv'
  <2> SUFFICES ASSUME SerialTypeOK, CountInv, IInv, [Next]_vars PROVE IInv'
    OBVIOUS
  <2>1. ApartInv' /\ NoReset' /\ TokenInv' /\ DrFree'
    BY ApartStep, NoResetStep, TokenStep, DrFreeStep
  <2>2. EarlyInv' /\ SleepInv' /\ StartInv' /\ TxInv'
    BY EarlyStep, SleepStep, StartStep, TxStep
  <2> QED BY <2>1, <2>2
<1>3. IInv => TxInOrder
  <2> SUFFICES ASSUME TxInv, ~log.torn
               PROVE  /\ Increasing(Outward)
                      /\ ToSet(Outward) \cup log.gone = 1..host.typed
                      /\ ToSet(Outward) \cap log.gone = {}
                      /\ log.gone # {} => host.hungup
    BY DEF TxInOrder
  <2> QED BY OutwardIs DEF TxInv, Accounted
<1> QED BY <1>1, <1>2, <1>3, SerialTypes, FramesAlwaysCounted, PTL DEF Spec

----------------------------------------------------------------------------
\* The sleepers of r are those of s, or fewer, in the order of s.
Fewer(s, r) ==
  \A i, j \in DOMAIN r : \E m, n \in DOMAIN s : r[i] = s[m] /\ r[j] = s[n] /\ (m < n => i < j)

LEMMA FewerRemoved ==
  ASSUME NEW s \in Seq(Sleepers), NEW k \in DOMAIN s
  PROVE  Fewer(s, RemoveAt(s, k))
<1>1. k \in 1..Len(s) /\ Len(s) \in Nat /\ DOMAIN s = 1..Len(s)
  OBVIOUS
<1>2. PICK r : r = RemoveAt(s, k)
  OBVIOUS
<1>3. /\ r \in Seq(Sleepers) /\ Len(r) = Len(s) - 1
      /\ \A j \in 1..(k-1) : r[j] = s[j]
      /\ \A j \in k..(Len(s)-1) : r[j] = s[j+1]
  BY <1>1, <1>2, RemoveAtFacts, Zenon
<1>4. DOMAIN r = 1..(Len(s) - 1)
  BY ONLY <1>1, <1>3
<1>5. ASSUME NEW i \in DOMAIN r
      PROVE  \E m \in DOMAIN s : r[i] = s[m] /\ m = (IF i < k THEN i ELSE i + 1)
  <2>1. CASE i < k
    BY ONLY <1>1, <1>3, <1>4, <1>5, <2>1
  <2>2. CASE ~(i < k)
    <3>1. i \in k..(Len(s) - 1) /\ i + 1 \in DOMAIN s
      BY ONLY <1>1, <1>4, <1>5, <2>2
    <3> QED BY ONLY <1>3, <2>2, <3>1
  <2> QED BY <2>1, <2>2
<1>6. ASSUME NEW i \in DOMAIN r, NEW j \in DOMAIN r
      PROVE  \E m, n \in DOMAIN s : r[i] = s[m] /\ r[j] = s[n] /\ (m < n => i < j)
  <2>1. PICK m \in DOMAIN s : r[i] = s[m] /\ m = (IF i < k THEN i ELSE i + 1)
    BY <1>5
  <2>2. PICK n \in DOMAIN s : r[j] = s[n] /\ n = (IF j < k THEN j ELSE j + 1)
    BY <1>5
  <2>3. m < n => i < j
    BY ONLY <1>1, <1>4, <1>6, <2>1, <2>2
  <2> QED BY <2>1, <2>2, <2>3
<1> QED BY <1>2, <1>6 DEF Fewer

LEMMA FewerSame ==
  ASSUME NEW s \in Seq(Sleepers)
  PROVE  Fewer(s, s)
BY DEF Fewer

LEMMA FewerTwice ==
  ASSUME NEW s, NEW r, NEW q, Fewer(s, r), Fewer(r, q)
  PROVE  Fewer(s, q)
<1>1. ASSUME NEW i \in DOMAIN q, NEW j \in DOMAIN q
      PROVE  \E m, n \in DOMAIN s : q[i] = s[m] /\ q[j] = s[n] /\ (m < n => i < j)
  <2>1. PICK a, b \in DOMAIN r : q[i] = r[a] /\ q[j] = r[b] /\ (a < b => i < j)
    BY DEF Fewer
  <2>2. PICK m, n \in DOMAIN s : r[a] = s[m] /\ r[b] = s[n] /\ (m < n => a < b)
    BY DEF Fewer
  <2> QED BY <2>1, <2>2
<1> QED BY <1>1 DEF Fewer

\* The first that waits is woken up, if there is one, and stays where it was.
LEMMA SignalledFirst ==
  ASSUME NEW s \in Seq(Sleepers), NEW on, NEW i \in DOMAIN s, s[i].on = on
  PROVE  \E k \in DOMAIN s : s[k].on = on /\ k <= i /\ Signalled(s, on) = RemoveAt(s, k)
<1> DEFINE waiting == {j \in DOMAIN s : s[j].on = on}
<1>1. waiting # {}
  OBVIOUS
<1>2. DOMAIN s = 1..Len(s) /\ Len(s) \in Nat
  OBVIOUS
<1>3. PICK m \in waiting : \A n \in waiting : m <= n
  <2>1. waiting \subseteq Nat
    BY <1>2
  <2> HIDE DEF waiting
  <2> QED BY <1>1, <2>1, LeastNat
<1>4. PICK k : k = CHOOSE a \in waiting : \A b \in waiting : a <= b
  OBVIOUS
<1>5. k \in waiting /\ k <= i
  BY <1>3, <1>4
<1>6. Signalled(s, on) = RemoveAt(s, k)
  BY <1>1, <1>4 DEF Signalled
<1> QED BY <1>5, <1>6

LEMMA FewerSignalled ==
  ASSUME NEW s, NEW T, NEW conn, Sleep(s, T, conn), NEW on
  PROVE  Fewer(s, Signalled(s, on))
<1>1. s \in Seq(Sleepers)
  BY DEF Sleep
<1>2. PICK r : r = Signalled(s, on)
  OBVIOUS
<1>3. r = s \/ \E k \in DOMAIN s : r = RemoveAt(s, k)
  BY <1>1, <1>2, SignalledIs
<1>4. Fewer(s, r)
  BY <1>1, <1>3, FewerRemoved, FewerSame
<1> QED BY <1>2, <1>4

LEMMA FewerBroadcast ==
  ASSUME NEW s, NEW T, NEW conn, Sleep(s, T, conn), NEW on
  PROVE  Fewer(s, Broadcast(s, on))
<1>1. PICK r : r = Signalled(s, on)
  OBVIOUS
<1>2. Sleep(r, T, conn) /\ Fewer(s, r)
  BY <1>1, SleepSignalled, FewerSignalled
<1>3. Fewer(r, Signalled(r, on))
  BY <1>2, FewerSignalled
<1>4. Broadcast(s, on) = Signalled(r, on)
  BY <1>1 DEF Broadcast
<1> QED BY <1>2, <1>3, <1>4, FewerTwice, Zenon

\* chopstx_cond_signal wakes up t, when nobody waits there before it.
LEMMA SignalledWakes ==
  ASSUME NEW s, NEW T, NEW conn, Sleep(s, T, conn), NEW on, NEW t,
         \A i, j \in DOMAIN s : s[i].on = on /\ s[i].t # t /\ s[j] = [t |-> t, on |-> on] => j < i
  PROVE  /\ \A j \in DOMAIN Signalled(s, on) : Signalled(s, on)[j] # [t |-> t, on |-> on]
         /\ (\E j \in DOMAIN s : s[j] = [t |-> t, on |-> on]) =>
              \A j \in DOMAIN Signalled(s, on) : Signalled(s, on)[j].t # t
<1>1. s \in Seq(Sleepers) /\ Len(s) \in Nat /\ DOMAIN s = 1..Len(s)
  BY DEF Sleep
<1>2. PICK x, r : x = [t |-> t, on |-> on] /\ r = Signalled(s, on)
  OBVIOUS
<1>3. x.t = t /\ x.on = on
  BY <1>2
<1>4. CASE \E j \in DOMAIN s : s[j] = x
  <2>1. PICK j \in DOMAIN s : s[j] = x
    BY <1>4
  <2>2. PICK k \in DOMAIN s : s[k].on = on /\ k <= j /\ r = RemoveAt(s, k)
    BY <1>1, <1>2, <1>3, <2>1, SignalledFirst
  <2>3. s[k].t = t
    <3>1. SUFFICES ASSUME s[k].t # t PROVE FALSE
      OBVIOUS
    <3>2. j < k
      BY <1>2, <2>1, <2>2, <3>1
    <3> QED BY ONLY <1>1, <2>2, <3>2, j \in DOMAIN s, k \in DOMAIN s
  <2>4. \A i \in DOMAIN r : r[i].t # t
    BY <2>2, <2>3, SleepRemoved
  <2>5. \A i \in DOMAIN r : r[i] # x
    BY <1>3, <2>4
  <2> QED BY <1>2, <2>4, <2>5
<1>5. CASE ~ \E j \in DOMAIN s : s[j] = x
  <2>1. Fewer(s, r)
    BY <1>2, FewerSignalled
  <2>2. \A i \in DOMAIN r : r[i] # x
    BY <1>5, <2>1 DEF Fewer
  <2> QED BY <1>2, <1>5, <2>2
<1> QED BY <1>4, <1>5

----------------------------------------------------------------------------
\* What a step makes of those who sleep.
LEMMA FewerWorld ==
  ASSUME SerialTypeOK, SleepInv, World \/ Um \/ UmNotify \/ MainStarts \/ Cm \/ TimeOut \/ UNCHANGED vars
  PROVE  Fewer(slept, slept')
<1>1. slept \in Seq(Sleepers) /\ Sleep(slept, thr, flags.conn)
  BY DEF SleepInv, Sleep
<1>2. CASE World \/ Um \/ UmNotify \/ MainStarts \/ UNCHANGED vars
  <2>1. slept' = slept \/ slept' = Signalled(slept, "data") \/ slept' = Signalled(slept, "space")
    BY <1>2, Zenon DEF World, Host, HostControl, HostReset, HostType, HostHears, HostNoticed, FrameComes, Line, port, vars,
           Um, UmPoll, UmInterrupt, UmStatus, UmData, UmPut, UmWrite, UmCheck, UmNotify, MainStarts
  <2> QED BY <1>1, <2>1, FewerSame, FewerSignalled, Zenon
<1>3. CASE Cm
  <2>1. slept' = slept \/ slept' = Signalled(slept, "rx") \/ slept' = Signalled(slept, "tx")
        \/ slept' = Broadcast(slept, "rx")
    BY <1>3, Zenon DEF Cm, CmEvent, Callback, CmReset, CmAddressed, CmConfigure, CmDeconfigure, CmLineState,
           CmCoding, CmConfigureUsart, CmSendBreak, CmBreak, CmTxDone, CmNoteDone, CmRxReady, CmRxFlags
  <2> QED BY <1>1, <2>1, FewerSame, FewerSignalled, FewerBroadcast, Zenon
<1>4. CASE TimeOut
  <2>1. \E k \in DOMAIN slept : slept' = RemoveAt(slept, k)
    BY <1>4 DEF TimeOut
  <2> QED BY <1>1, <2>1, FewerRemoved
<1> QED BY <1>2, <1>3, <1>4

\* A thread that runs goes to sleep itself, for a reason, or wakes others up.
LiesDown(t, on) ==
  /\ Sleeps(t, on) /\ UNCHANGED << a2h, h2a, log, port >>
  /\ on = "rx" => thr' = thr /\ IF thr[t].pc = "conn" THEN ~flags.conn ELSE flags.conn /\ ~flags.avail
  /\ on = "data" => h2a.empty
  /\ on = "space" => a2h.full
  /\ on = "tx" => thr[t].pc = "send"

LEMMA FewerThread ==
  ASSUME SerialTypeOK, SleepInv, NEW t \in Threads, Carries(t) \/ (t = "c2u" /\ (Recv \/ Take))
  PROVE  /\ Runs(t) /\ \A i \in DOMAIN slept : slept[i].t # t
         /\ \/ Fewer(slept, slept')
            \/ \E on \in {"rx", "data", "space", "tx", "delay"} : LiesDown(t, on)
<1>1. slept \in Seq(Sleepers) /\ Sleep(slept, thr, flags.conn)
  BY DEF SleepInv, Sleep
<1>2. Runs(t)
  BY DEF Carries, WaitConnection, Delay, Send, Carry, Recv, Take
<1>3. \A i \in DOMAIN slept : slept[i].t # t
  BY <1>2 DEF Runs, CanRun, Ready
<1>4. slept' = slept \/ slept' = Signalled(slept, "space")
      \/ LiesDown(t, "rx") \/ LiesDown(t, "data") \/ LiesDown(t, "space") \/ LiesDown(t, "tx")
      \/ LiesDown(t, "delay")
  <2>1. CASE WaitConnection(t) \/ Delay(t) \/ Send(t)
    BY <2>1, Zenon DEF WaitConnection, Delay, Send, LiesDown, usart, port
  <2>2. CASE RbRead(t) /\ Carry(t)
    BY <2>2, Zenon DEF RbRead, Carry, LiesDown
  <2>3. CASE RbWrite(t) /\ Carry(t)
    BY <2>3, Zenon DEF RbWrite, Carry, LiesDown
  <2>4. CASE FlushIn(t) \/ FlushOut(t)
    BY <2>4, Zenon DEF FlushIn, FlushOut
  <2>5. CASE Recv /\ t = "c2u"
    BY <2>5, Zenon DEF Recv, LiesDown, usart
  <2>6. CASE Take
    BY <2>6, Zenon DEF Take
  <2> QED BY <2>1, <2>2, <2>3, <2>4, <2>5, <2>6 DEF Carries, Carry
<1>5. slept' = slept \/ slept' = Signalled(slept, "space") => Fewer(slept, slept')
  BY <1>1, FewerSame, FewerSignalled, Zenon
<1> QED BY <1>2, <1>3, <1>4, <1>5

\* The list with one more.
LEMMA AppendedAre ==
  ASSUME NEW s \in Seq(Sleepers), NEW t \in Threads, NEW on \in {"rx", "data", "space", "tx", "delay"},
         NEW r, r = Append(s, [t |-> t, on |-> on])
  PROVE  /\ \A i \in DOMAIN r : (i \in DOMAIN s /\ r[i] = s[i]) \/ (i = Len(s) + 1 /\ r[i] = [t |-> t, on |-> on])
         /\ \A i \in DOMAIN s : i < Len(s) + 1
<1>1. PICK x : x = [t |-> t, on |-> on]
  OBVIOUS
<1>2. x \in Sleepers
  BY <1>1 DEF Sleepers
<1>3. /\ DOMAIN r = 1..(Len(s) + 1) /\ DOMAIN s = 1..Len(s) /\ Len(s) \in Nat
      /\ r[Len(s) + 1] = x /\ \A i \in 1..Len(s) : r[i] = s[i]
  BY <1>1, <1>2
<1>4. \A i \in DOMAIN r : (i \in DOMAIN s /\ r[i] = s[i]) \/ (i = Len(s) + 1 /\ r[i] = x)
  BY ONLY <1>3
<1>5. \A i \in DOMAIN s : i < Len(s) + 1
  BY ONLY <1>3
<1> QED BY <1>1, <1>4, <1>5

LEMMA ReadyThen ==
  ASSUME SleepInv, NEW t \in Threads, NEW on \in {"rx", "data", "space", "tx", "delay"}, Sleeps(t, on),
         NEW u \in Threads, u # t, Ready(u)
  PROVE  Ready(u)'
<1>1. slept \in Seq(Sleepers)
  BY DEF SleepInv, Sleep
<1>2. \A i \in DOMAIN slept' : (i \in DOMAIN slept /\ slept'[i] = slept[i]) \/ slept'[i] = [t |-> t, on |-> on]
  BY <1>1, AppendedAre DEF Sleeps
<1>3. [t |-> t, on |-> on].t = t
  OBVIOUS
<1> QED BY <1>2, <1>3 DEF Ready

LEMMA AsleepThen ==
  ASSUME SleepInv, NEW t \in Threads, NEW on \in {"rx", "data", "space", "tx", "delay"}, Sleeps(t, on)
  PROVE  \A u, o : Asleep(u, o)' => Asleep(u, o) \/ (u = t /\ o = on)
<1>1. slept \in Seq(Sleepers)
  BY DEF SleepInv, Sleep
<1>2. \A i \in DOMAIN slept' : (i \in DOMAIN slept /\ slept'[i] = slept[i]) \/ slept'[i] = [t |-> t, on |-> on]
  BY <1>1, AppendedAre DEF Sleeps
<1>3. \A u, o : [t |-> u, on |-> o] = [t |-> t, on |-> on] => u = t /\ o = on
  <2>1. \A u, o : [t |-> u, on |-> o].t = u /\ [t |-> u, on |-> o].on = o
    OBVIOUS
  <2> QED BY <2>1, Zenon
<1> QED BY <1>2, <1>3 DEF Asleep

----------------------------------------------------------------------------
\* A thread waits for a character, or for a place, only while there is none.
CarrierInv ==
  /\ Asleep("u2c", "data") => h2a.empty
  /\ Asleep("c2u", "space") => a2h.full

LEMMA StillAsleep ==
  ASSUME NEW t, NEW on, Fewer(slept, slept'), Asleep(t, on)'
  PROVE  Asleep(t, on)
BY DEF Fewer, Asleep

LEMMA CarrierQuiet ==
  ASSUME CarrierInv, Fewer(slept, slept'), h2a' = h2a \/ h2a'.empty \/ ~Asleep("u2c", "data")',
         a2h' = a2h \/ ~Asleep("c2u", "space")'
  PROVE  CarrierInv'
<1>1. Asleep("u2c", "data")' => Asleep("u2c", "data")
  BY StillAsleep
<1>2. Asleep("c2u", "space")' => Asleep("c2u", "space")
  BY StillAsleep
<1> QED BY <1>1, <1>2 DEF CarrierInv

\* Only one of the two waits for characters, and only the other for places.
LEMMA AloneThere ==
  ASSUME ApartInv, SleepInv
  PROVE  \A i \in DOMAIN slept : /\ slept[i].on = "data" => slept[i].t = "u2c"
                                 /\ slept[i].on = "space" => slept[i].t = "c2u"
<1>1. \A i \in DOMAIN slept : slept[i].t \in Threads /\ MaySleep(thr[slept[i].t].pc, slept[i].on)
  BY SleepersAre DEF SleepInv, Sleep
<1>2. \A on : MaySleep(thr["u2c"].pc, on) => on # "space"
  BY DEF MaySleep, ApartInv, U2cPlaces
<1>3. \A on : MaySleep(thr["c2u"].pc, on) => on # "data"
  BY DEF MaySleep, ApartInv, C2uPlaces
<1> QED BY <1>1, <1>2, <1>3, TwoThreads

LEMMA NobodyThere ==
  ASSUME ApartInv, SleepInv
  PROVE  /\ slept' = Signalled(slept, "data") => ~Asleep("u2c", "data")'
         /\ slept' = Signalled(slept, "space") => ~Asleep("c2u", "space")'
<1>1. Sleep(slept, thr, flags.conn)
  BY DEF SleepInv
<1>2. ASSUME slept' = Signalled(slept, "data") PROVE ~Asleep("u2c", "data")'
  <2>2. \A i, j \in DOMAIN slept : slept[i].on = "data" /\ slept[i].t # "u2c"
                                   /\ slept[j] = [t |-> "u2c", on |-> "data"] => j < i
    BY AloneThere, Zenon
  <2>1. \A j \in DOMAIN slept' : slept'[j] # [t |-> "u2c", on |-> "data"]
    BY ONLY <1>1, <1>2, <2>2, SignalledWakes
  <2> QED BY <2>1 DEF Asleep
<1>3. ASSUME slept' = Signalled(slept, "space") PROVE ~Asleep("c2u", "space")'
  <2>2. \A i, j \in DOMAIN slept : slept[i].on = "space" /\ slept[i].t # "c2u"
                                   /\ slept[j] = [t |-> "c2u", on |-> "space"] => j < i
    BY AloneThere, Zenon
  <2>1. \A j \in DOMAIN slept' : slept'[j] # [t |-> "c2u", on |-> "space"]
    BY ONLY <1>1, <1>3, <2>2, SignalledWakes
  <2> QED BY <2>1 DEF Asleep
<1> QED BY <1>2, <1>3

LEMMA CarrierStep ==
  ASSUME SerialTypeOK, ApartInv, SleepInv, CarrierInv, [Next]_vars
  PROVE  CarrierInv'
<1>1. RingsOK
  BY DEF SerialTypeOK
<1>2. CASE World \/ UmNotify \/ MainStarts \/ Cm \/ TimeOut \/ UNCHANGED vars
  <2>1. UNCHANGED << a2h, h2a >>
    BY <1>2, Zenon DEF World, Host, HostControl, HostReset, HostType, HostHears, HostNoticed, FrameComes, Line,
         UmNotify, MainStarts, TimeOut, Cm, CmEvent, Callback, CmReset, CmAddressed, CmConfigure,
         CmDeconfigure, CmLineState, CmCoding, CmConfigureUsart, CmSendBreak, CmBreak, CmTxDone,
         CmNoteDone, CmRxReady, CmRxFlags, usart, vars
  <2> QED BY <1>2, <2>1, FewerWorld, CarrierQuiet
<1>3. CASE Um
  <2>1. /\ h2a' = h2a \/ slept' = Signalled(slept, "data")
        /\ a2h' = a2h \/ slept' = Signalled(slept, "space")
    BY <1>3, Zenon DEF Um, UmPoll, UmInterrupt, UmStatus, UmData, UmPut, UmWrite, UmCheck
  <2> QED BY <1>3, <2>1, FewerWorld, CarrierQuiet, NobodyThere, Zenon
<1>4. ASSUME NEW t \in Threads, Carries(t) \/ (t = "c2u" /\ (Recv \/ Take)) PROVE CarrierInv'
  <2>1. Runs(t) /\ \A i \in DOMAIN slept : slept[i].t # t
    BY <1>4, FewerThread
  <2>2. \A on : ~Asleep(t, on)
    <3>1. \A on : [t |-> t, on |-> on].t = t
      OBVIOUS
    <3> QED BY <2>1, <3>1 DEF Asleep
  <2>3. CASE Fewer(slept, slept')
    <3>1. \A on : ~Asleep(t, on)'
      BY <2>2, <2>3 DEF Fewer, Asleep
    <3>2. h2a' = h2a \/ t = "u2c" \/ h2a'.empty
      BY <1>1, <1>4 DEF Carries, WaitConnection, Delay, Send, Recv, Take, Carry, usart, RbRead, RbWrite,
           FlushIn, FlushOut, RbFlush, RingsOK, Rings
    <3>3. a2h' = a2h \/ t = "c2u" \/ slept' = Signalled(slept, "space")
      BY <1>4, Zenon DEF Carries, WaitConnection, Delay, Send, Recv, Take, Carry, usart, RbRead, RbWrite,
           FlushIn, FlushOut
    <3> QED BY <2>3, <3>1, <3>2, <3>3, NobodyThere, CarrierQuiet
  <2>4. ASSUME NEW on \in {"rx", "data", "space", "tx", "delay"}, LiesDown(t, on) PROVE CarrierInv'
    <3>1. \A u, o : Asleep(u, o)' => Asleep(u, o) \/ (u = t /\ o = on)
      BY <2>4, AsleepThen DEF LiesDown
    <3>2. UNCHANGED << a2h, h2a >> /\ (on = "data" => h2a.empty) /\ (on = "space" => a2h.full)
      BY <2>4 DEF LiesDown
    <3> QED BY <3>1, <3>2 DEF CarrierInv
  <2> QED BY <1>4, <2>3, <2>4, FewerThread
<1> QED BY <1>2, <1>3, <1>4, TwoThreads DEF Next

----------------------------------------------------------------------------
\* cdc_to_usart_loop waits in cdc_recv only while there is no input and, configured, there
\* is a connection; and the other thread, should it wait for a connection, has come later:
\* a signal wakes up cdc_recv.
Before(s) ==
  \A i, j \in DOMAIN s :
    s[i] = [t |-> "u2c", on |-> "rx"] /\ s[j] = [t |-> "c2u", on |-> "rx"] => j < i
Receives == Asleep("c2u", "rx") /\ thr["c2u"].pc = "recv"
InputInv ==
  Receives => /\ ~flags.avail /\ (dev.state = "CONFIGURED" => flags.conn)
              /\ Before(slept)

LEMMA FewerBefore ==
  ASSUME NEW s, NEW r, Fewer(s, r), Before(s), s \in Seq(Sleepers), r \in Seq(Sleepers)
  PROVE  Before(r)
<1>1. ASSUME NEW i \in DOMAIN r, NEW j \in DOMAIN r,
             r[i] = [t |-> "u2c", on |-> "rx"] /\ r[j] = [t |-> "c2u", on |-> "rx"]
      PROVE  j < i
  <2>1. PICK n, m \in DOMAIN s : r[j] = s[n] /\ r[i] = s[m] /\ (n < m => j < i)
    BY DEF Fewer
  <2>2. n < m
    BY <1>1, <2>1 DEF Before
  <2> QED BY <2>1, <2>2
<1> QED BY <1>1 DEF Before

LEMMA InputQuiet ==
  ASSUME SleepInv, SleepInv', InputInv, Fewer(slept, slept'),
         Receives' => /\ thr["c2u"].pc = "recv" /\ (flags'.avail => flags.avail)
                      /\ (dev'.state = "CONFIGURED" => dev.state = "CONFIGURED" /\ flags'.conn = flags.conn)
  PROVE  InputInv'
<1> SUFFICES ASSUME Receives' PROVE InputInv'
  BY DEF InputInv
<1>1. Receives
  BY StillAsleep DEF Receives
<1>2. slept \in Seq(Sleepers) /\ slept' \in Seq(Sleepers)
  BY DEF SleepInv, Sleep
<1>3. Before(slept')
  BY <1>1, <1>2, FewerBefore DEF InputInv
<1> QED BY <1>1, <1>3 DEF InputInv

LEMMA InputSignalled ==
  ASSUME SleepInv, InputInv, thr["c2u"].pc = "recv", slept' = Signalled(slept, "rx")
  PROVE  ~Asleep("c2u", "rx")' /\ (Asleep("c2u", "rx") => Ready("c2u")')
<1>1. Sleep(slept, thr, flags.conn)
  BY DEF SleepInv
<1>2. CASE Asleep("c2u", "rx")
  <2>1. Before(slept)
    BY <1>2 DEF InputInv, Receives
  <2>2. \A i, j \in DOMAIN slept : slept[i].on = "rx" /\ slept[i].t # "c2u"
                                   /\ slept[j] = [t |-> "c2u", on |-> "rx"] => j < i
    <3>1. \A i \in DOMAIN slept : slept[i] \in Sleepers
      BY <1>1 DEF Sleep
    <3>2. \A x \in Sleepers : x.on = "rx" /\ x.t # "c2u" => x = [t |-> "u2c", on |-> "rx"]
      BY TwoThreads DEF Sleepers
    <3> QED BY <2>1, <3>1, <3>2 DEF Before
  <2>3. /\ \A j \in DOMAIN slept' : slept'[j] # [t |-> "c2u", on |-> "rx"]
        /\ (\E j \in DOMAIN slept : slept[j] = [t |-> "c2u", on |-> "rx"]) =>
             \A j \in DOMAIN slept' : slept'[j].t # "c2u"
    BY ONLY <1>1, <2>2, slept' = Signalled(slept, "rx"), SignalledWakes
  <2> QED BY <1>2, <2>3 DEF Asleep, Ready
<1>3. CASE ~Asleep("c2u", "rx")
  <2>1. Fewer(slept, slept')
    BY <1>1, FewerSignalled
  <2> QED BY <1>3, <2>1, StillAsleep
<1> QED BY <1>2, <1>3

LEMMA InputCm ==
  ASSUME SerialTypeOK, SleepInv, SleepInv', InputInv, Cm
  PROVE  InputInv'
<1>1. flags \in FlagWords /\ dev \in Devices
  BY DEF SerialTypeOK, PortOK
<1>2. thr' = thr /\ Fewer(slept, slept')
  BY FewerWorld, Zenon DEF Cm, CmEvent, Callback, CmReset, CmAddressed, CmConfigure, CmDeconfigure, CmLineState,
         CmCoding, CmConfigureUsart, CmSendBreak, CmBreak, CmTxDone, CmNoteDone, CmRxReady, CmRxFlags
<1>3. CASE CmLineState
  <2>1. slept' = Broadcast(slept, "rx")
    BY <1>3 DEF CmLineState
  <2>2. PICK b : b = slept'
    OBVIOUS
  <2>3. \A i \in DOMAIN b : b[i].on # "rx"
    BY <2>1, <2>2, SleepBroadcast DEF SleepInv
  <2>4. [t |-> "c2u", on |-> "rx"].on = "rx"
    OBVIOUS
  <2>5. ~Asleep("c2u", "rx")'
    BY <2>2, <2>3, <2>4 DEF Asleep
  <2> QED BY <2>5 DEF InputInv, Receives
<1>4. CASE slept' = Signalled(slept, "rx")
  BY <1>2, <1>4, InputSignalled DEF InputInv, Receives
<1>5. CASE CmReset
  <2>1. ~flags'.avail /\ dev'.state # "CONFIGURED"
    BY <1>1, <1>5 DEF CmReset, FreshFlags, Devices
  <2> QED BY <1>2, <2>1, InputQuiet DEF Receives
<1>6. CASE ~CmLineState /\ slept' # Signalled(slept, "rx") /\ ~CmReset
  <2>1. flags'.avail = flags.avail /\ flags'.conn = flags.conn /\ dev'.state = dev.state
    BY <1>1, <1>6, Zenon DEF Cm, CmEvent, Callback, CmAddressed, CmConfigure, CmDeconfigure,
         CmCoding, CmConfigureUsart, CmSendBreak, CmBreak, CmTxDone, CmNoteDone, CmRxReady, CmRxFlags,
         FlagWords, Devices
  <2> QED BY <1>2, <2>1, InputQuiet DEF Receives
<1> QED BY <1>3, <1>4, <1>5, <1>6

LEMMA InputThread ==
  ASSUME SerialTypeOK, ApartInv, SleepInv, SleepInv', InputInv, NEW t \in Threads,
         Carries(t) \/ (t = "c2u" /\ (Recv \/ Take))
  PROVE  InputInv'
<1>1. flags \in FlagWords /\ ThreadsOK
  BY DEF SerialTypeOK, PortOK
<1>2. dev' = dev /\ flags'.conn = flags.conn /\ (flags'.avail => flags.avail)
  BY <1>1, Zenon DEF Carries, WaitConnection, Delay, Send, Carry, Recv, Take, port, FlagWords
<1>3. thr' = thr \/ Goes(t)
  BY CarryGoes, CdcGoes, InputGoes DEF Carries
<1>4. Runs(t) /\ \A i \in DOMAIN slept : slept[i].t # t
  BY FewerThread
<1>5. \A on : ~Asleep(t, on)
  <2>1. \A on : [t |-> t, on |-> on].t = t
    OBVIOUS
  <2> QED BY <1>4, <2>1 DEF Asleep
<1>6. t = "u2c" => thr'["c2u"] = thr["c2u"]
  BY <1>3, TwoThreads DEF Goes
<1>7. CASE Fewer(slept, slept')
  <2>1. t = "c2u" => ~Receives'
    BY <1>5, <1>7, StillAsleep DEF Receives
  <2> QED BY <1>2, <1>6, <1>7, <2>1, InputQuiet, TwoThreads DEF Receives
<1>8. ASSUME NEW on \in {"rx", "data", "space", "tx", "delay"}, LiesDown(t, on) PROVE InputInv'
  <2> SUFFICES ASSUME Receives' PROVE InputInv'
    BY DEF InputInv
  <2>1. slept \in Seq(Sleepers) /\ Sleeps(t, on) /\ flags' = flags
    BY <1>8 DEF SleepInv, Sleep, LiesDown, port
  <2>2. PICK r : r = slept'
    OBVIOUS
  <2>3. /\ \A i \in DOMAIN r : (i \in DOMAIN slept /\ r[i] = slept[i])
                               \/ (i = Len(slept) + 1 /\ r[i] = [t |-> t, on |-> on])
        /\ \A i \in DOMAIN slept : i < Len(slept) + 1
    BY <2>1, <2>2, AppendedAre DEF Sleeps
  <2>4. Asleep("c2u", "rx") \/ ("c2u" = t /\ "rx" = on)
    BY <2>1, AsleepThen DEF Receives
  <2>5. CASE t = "c2u"
    <3>1. on = "rx" /\ thr' = thr
      BY <1>5, <1>8, <2>4, <2>5 DEF LiesDown
    <3>2. flags.conn /\ ~flags.avail
      BY <1>8, <2>5, <3>1 DEF LiesDown, Receives
    <3>3. \A i \in DOMAIN r : r[i] # [t |-> "u2c", on |-> "rx"]
      <4>1. \A i \in DOMAIN slept : slept[i].t = "u2c" => slept[i].on # "rx"
        BY <3>2 DEF SleepInv, Sleep, MaySleep, ApartInv, U2cPlaces
      <4>2. PICK x : x = [t |-> "u2c", on |-> "rx"]
        OBVIOUS
      <4>3. x.t = "u2c" /\ x.on = "rx" /\ x # [t |-> t, on |-> on]
        BY <2>5, <4>2
      <4> QED BY <2>3, <4>1, <4>2, <4>3
    <3>4. Before(slept')
      BY <2>2, <3>3 DEF Before
    <3> QED BY <1>2, <2>1, <3>2, <3>4 DEF InputInv
  <2>6. CASE t = "u2c"
    <3>1. Receives
      BY <1>6, <2>4, <2>6 DEF Receives
    <3>2. Before(r)
      <4>1. ASSUME NEW i \in DOMAIN r, NEW j \in DOMAIN r,
                   r[i] = [t |-> "u2c", on |-> "rx"], r[j] = [t |-> "c2u", on |-> "rx"]
            PROVE  j < i
        <5>1. r[j] # [t |-> t, on |-> on]
          BY <2>6, <4>1
        <5>2. j \in DOMAIN slept /\ r[j] = slept[j]
          BY <2>3, <5>1
        <5>3. CASE i \in DOMAIN slept /\ r[i] = slept[i]
          BY <3>1, <4>1, <5>2, <5>3 DEF InputInv, Before
        <5>4. CASE i = Len(slept) + 1
          BY <2>3, <5>2, <5>4
        <5> QED BY <2>3, <5>3, <5>4
      <4> QED BY <4>1 DEF Before
    <3> QED BY <1>2, <2>1, <2>2, <3>1, <3>2 DEF InputInv
  <2> QED BY <2>5, <2>6, TwoThreads
<1> QED BY <1>7, <1>8, FewerThread

LEMMA InputStep ==
  ASSUME SerialTypeOK, ApartInv, SleepInv, SleepInv', InputInv, [Next]_vars
  PROVE  InputInv'
<1>1. flags \in FlagWords /\ ThreadsOK
  BY DEF SerialTypeOK, PortOK
<1>2. CASE World \/ Um \/ UmNotify \/ MainStarts \/ UNCHANGED vars
  <2>1. thr' = thr /\ dev' = dev /\ flags'.avail = flags.avail /\ flags'.conn = flags.conn
    BY <1>1, <1>2, Zenon DEF World, Host, HostControl, HostReset, HostType, HostHears, HostNoticed, FrameComes, Line, port, vars,
         Um, UmPoll, UmInterrupt, UmStatus, UmData, UmPut, UmWrite, UmCheck, UmNotify, MainStarts, FlagWords
  <2> QED BY <1>2, <2>1, FewerWorld, InputQuiet DEF Receives
<1>3. CASE TimeOut
  <2>1. flags' = flags /\ dev' = dev
    BY <1>3 DEF TimeOut, port
  <2>2. thr'["c2u"].pc \in {thr["c2u"].pc, "take"}
    <3>1. PICK i \in DOMAIN slept :
            thr' = IF thr[slept[i].t].pc = "recv" THEN [thr EXCEPT ![slept[i].t].pc = "take"] ELSE thr
      BY <1>3 DEF TimeOut
    <3> QED BY <1>1, <3>1, TwoThreads DEF ThreadsOK
  <2> QED BY <1>3, <2>1, <2>2, FewerWorld, InputQuiet DEF Receives
<1> QED BY <1>2, <1>3, InputCm, InputThread, TwoThreads DEF Next

----------------------------------------------------------------------------
\* EP3 takes a packet, has one, or there is input, or cdc_to_usart_loop, which is running,
\* is about to see that the connection has ended, and will wait for another one.
EP3Busy == ep.armed \/ ep.rx # << >> \/ cm.pc = "rx_flags" \/ flags.avail
Leaving == Ready("c2u") /\ thr["c2u"].pc \in {"recv", "take"} /\ ~flags.conn
EP3Inv ==
  ep.on /\ dev.state = "CONFIGURED" /\ ~log.unseen /\ thr["c2u"].pc # "conn" => EP3Busy \/ Leaving

LEMMA EP3Quiet ==
  ASSUME EP3Inv, ep'.on /\ dev'.state = "CONFIGURED" /\ ~log'.unseen /\ thr'["c2u"].pc # "conn" =>
           ep.on /\ dev.state = "CONFIGURED" /\ ~log.unseen /\ thr["c2u"].pc # "conn",
         EP3Busy => EP3Busy', Leaving => Leaving' \/ thr'["c2u"].pc = "conn" \/ EP3Busy'
  PROVE  EP3Inv'
BY DEF EP3Inv

\* cdc_main does nothing before it has done so, except that it may write CR1.
LEMMA NotLeaving ==
  ASSUME ApartInv, CmRuns, cm.pc # "break"
  PROVE  ~Leaving
<1> SUFFICES ASSUME Leaving PROVE FALSE
  OBVIOUS
<1>1. um.pc # "off"
  BY TwoThreads DEF Leaving, ApartInv
<1>2. CanRun("c2u")
  BY <1>1 DEF Leaving, CanRun, MtxHeld
<1> QED BY <1>2, TwoThreads DEF CmRuns

LEMMA StillReady ==
  ASSUME NEW t, Fewer(slept, slept'), Ready(t)
  PROVE  Ready(t)'
BY DEF Fewer, Ready

LEMMA EP3World ==
  ASSUME SerialTypeOK, SleepInv, WakeInv, EP3Inv, World \/ Um \/ UmNotify \/ MainStarts \/ UNCHANGED vars
  PROVE  EP3Inv'
<1>1. flags \in FlagWords /\ ep \in Endpoints
  BY DEF SerialTypeOK, PortOK
<1>2. thr' = thr /\ dev' = dev /\ cm' = cm /\ flags'.avail = flags.avail /\ flags'.conn = flags.conn
  BY <1>1, Zenon DEF World, Host, HostControl, HostReset, HostType, HostHears, HostNoticed, FrameComes, Line, port, vars,
       Um, UmPoll, UmInterrupt, UmStatus, UmData, UmPut, UmWrite, UmCheck, UmNotify, MainStarts, FlagWords
<1>3. Leaving => Leaving'
  BY <1>2, FewerWorld, StillReady DEF Leaving
<1>4. CASE HostReset
  <2>1. ~ep'.on
    BY <1>4 DEF HostReset, FreshEp
  <2> QED BY <2>1 DEF EP3Inv
<1>5. CASE HostType
  <2>1. ep'.on = ep.on /\ ep'.rx # << >> /\ log'.unseen = log.unseen
    BY <1>1, <1>5 DEF HostType, Endpoints, WakeInv
  <2> QED BY <1>2, <1>3, <2>1, EP3Quiet DEF EP3Busy
<1>6. CASE ~HostReset /\ ~HostType
  <2>1. ep'.on = ep.on /\ ep'.armed = ep.armed /\ ep'.rx = ep.rx
    BY <1>1, <1>6, Zenon DEF World, Host, HostControl, HostHears, HostNoticed, FrameComes, Line, port, vars,
       Um, UmNotify, MainStarts, Endpoints
  <2>2. log'.unseen = log.unseen
    BY <1>6, Zenon DEF World, Host, HostControl, HostHears, HostNoticed, FrameComes, LineIn, Line, LineOut, BreakSent,
       vars, Um, UmPoll, UmInterrupt, UmStatus, UmData, UmPut, UmWrite, UmCheck, UmNotify, MainStarts, WakeInv
  <2> QED BY <1>2, <1>3, <2>1, <2>2, EP3Quiet DEF EP3Busy
<1> QED BY <1>4, <1>5, <1>6

LEMMA EP3Cm ==
  ASSUME SerialTypeOK, ApartInv, SleepInv, WakeInv, InputInv, EP3Inv, Cm
  PROVE  EP3Inv'
<1>1. flags \in FlagWords /\ ep \in Endpoints /\ cm \in Handlers /\ dev \in Devices
  BY DEF SerialTypeOK, PortOK
<1>2. thr' = thr /\ Fewer(slept, slept')
  BY FewerWorld, Zenon DEF Cm, CmEvent, Callback, CmReset, CmAddressed, CmConfigure, CmDeconfigure, CmLineState,
         CmCoding, CmConfigureUsart, CmSendBreak, CmBreak, CmTxDone, CmNoteDone, CmRxReady, CmRxFlags
<1>3. CASE CmBreak
  <2>1. flags' = flags /\ ep' = ep /\ dev' = dev /\ cm.pc = "break"
    BY <1>3 DEF CmBreak
  <2>2. log'.unseen = log.unseen
    BY <1>3 DEF CmBreak, SetBreak, Rewritten, WakeInv
  <2>3. Leaving => Leaving'
    BY <1>2, <2>1, StillReady DEF Leaving
  <2> QED BY <1>2, <2>1, <2>2, <2>3, EP3Quiet DEF EP3Busy
<1> SUFFICES ASSUME ~CmBreak PROVE EP3Inv'
  BY <1>3
<1>4. CmRuns /\ cm.pc # "break"
  BY Zenon DEF Cm, CmEvent, Callback, CmReset, CmAddressed, CmConfigure, CmDeconfigure, CmLineState,
         CmCoding, CmConfigureUsart, CmSendBreak, CmTxDone, CmNoteDone, CmRxReady, CmRxFlags
<1>5. ~Leaving
  BY <1>4, NotLeaving
<1>6. CASE CmReset
  <2>1. dev'.state # "CONFIGURED"
    BY <1>1, <1>6 DEF CmReset, Devices
  <2> QED BY <2>1 DEF EP3Inv
<1>7. CASE CmConfigure
  <2>1. flags' = flags /\ cm.pc = "config"
    BY <1>7 DEF CmConfigure, Callback
  <2>2. CASE dev.state = "CONFIGURED"
    <3>1. UNCHANGED << dev, ep, slept, log >>
      BY <1>7, <2>2, Zenon DEF CmConfigure
    <3> QED BY <1>2, <1>5, <2>1, <3>1, EP3Quiet DEF EP3Busy
  <2>3. CASE dev.state # "CONFIGURED"
    <3>1. slept' = Signalled(slept, "rx") /\ log' = [log EXCEPT !.unseen = @ \/ (thr["c2u"].pc # "conn"
                                                 /\ (flags.conn \/ ~Asleep("c2u", "rx")))]
      BY <1>7, <2>3, Zenon DEF CmConfigure
    <3>2. log'.unseen = (log.unseen \/ (thr["c2u"].pc # "conn" /\ (flags.conn \/ ~Asleep("c2u", "rx"))))
      BY <3>1, Zenon DEF WakeInv
    <3> SUFFICES ASSUME ~log'.unseen, thr["c2u"].pc # "conn" PROVE Leaving'
      BY <1>2 DEF EP3Inv
    <3>3. ~flags.conn /\ Asleep("c2u", "rx")
      BY <3>2
    <3>4. thr["c2u"].pc = "recv"
      <4>1. PICK i \in DOMAIN slept : slept[i] = [t |-> "c2u", on |-> "rx"]
        BY <3>3 DEF Asleep
      <4>2. slept[i].t = "c2u" /\ slept[i].on = "rx"
        BY <4>1
      <4>3. MaySleep(thr["c2u"].pc, "rx")
        BY <4>2 DEF SleepInv, Sleep
      <4> QED BY <4>3 DEF MaySleep
    <3>5. Ready("c2u")'
      BY <3>1, <3>3, <3>4, InputSignalled
    <3> QED BY <1>2, <2>1, <3>3, <3>4, <3>5 DEF Leaving
  <2> QED BY <2>2, <2>3
<1>8. CASE CmDeconfigure
  <2>1. dev'.state # "CONFIGURED"
    BY <1>1, <1>8, Zenon DEF CmDeconfigure, Devices
  <2> QED BY <2>1 DEF EP3Inv
<1>9. CASE CmRxReady
  <2>1. cm'.pc = "rx_flags" /\ ep'.on = ep.on /\ dev'.state = dev.state /\ log'.unseen = log.unseen
    BY <1>1, <1>9 DEF CmRxReady, Handlers, Endpoints, Devices, WakeInv
  <2> QED BY <1>2, <1>5, <2>1, EP3Quiet DEF EP3Busy
<1>10. CASE CmRxFlags
  <2>1. flags'.avail /\ ep' = ep /\ dev' = dev
    BY <1>1, <1>10 DEF CmRxFlags, Handlers, FlagWords
  <2>2. log'.unseen = log.unseen
    BY <1>10 DEF CmRxFlags, WakeInv
  <2> QED BY <1>2, <1>5, <2>1, <2>2, EP3Quiet DEF EP3Busy
<1>11. CASE CmEvent \/ CmAddressed \/ CmLineState \/ CmCoding \/ CmConfigureUsart \/ CmSendBreak \/ CmTxDone
            \/ CmNoteDone
  <2>1. ep'.on = ep.on /\ ep'.armed = ep.armed /\ ep'.rx = ep.rx
    <3>1. CASE CmEvent
      BY <1>1, <3>1 DEF CmEvent, Endpoints
    <3>2. CASE ~CmEvent
      BY <1>11, <3>2, Zenon DEF CmAddressed, CmLineState, CmCoding, CmConfigureUsart, CmSendBreak, CmTxDone, CmNoteDone
    <3> QED BY <3>1, <3>2
  <2>2. flags'.avail = flags.avail /\ (dev'.state = "CONFIGURED" => dev.state = "CONFIGURED")
    <3>1. flags'.avail = flags.avail
      BY <1>1, <1>11, Zenon DEF CmEvent, CmAddressed, CmLineState, CmCoding, CmConfigureUsart, CmSendBreak, CmTxDone, CmNoteDone,
         FlagWords
    <3>2. CASE CmEvent
      BY <1>1, <3>1, <3>2 DEF CmEvent, Devices
    <3>3. CASE ~CmEvent
      <4>1. dev' = dev \/ dev' = [dev EXCEPT !.state = "ADDRESSED"]
        BY <1>11, <3>3, Zenon DEF CmAddressed, CmLineState, CmCoding, CmConfigureUsart, CmSendBreak, CmTxDone, CmNoteDone
      <4> QED BY <1>1, <3>1, <4>1 DEF Devices
    <3> QED BY <3>1, <3>2, <3>3
  <2>3. log'.unseen = log.unseen
    BY <1>11, Zenon DEF CmEvent, CmAddressed, CmLineState, CmCoding, CmConfigureUsart, CmSendBreak, CmTxDone, CmNoteDone,
       Enabled, Rewritten, WakeInv
  <2>4. cm.pc # "rx_flags"
    BY <1>11, Zenon DEF CmEvent, Callback, CmAddressed, CmLineState, CmCoding, CmConfigureUsart, CmSendBreak, CmTxDone, CmNoteDone
  <2> QED BY <1>2, <1>5, <2>1, <2>2, <2>3, <2>4, EP3Quiet DEF EP3Busy
<1> QED BY <1>6, <1>7, <1>8, <1>9, <1>10, <1>11 DEF Cm

LEMMA EP3Thread ==
  ASSUME SerialTypeOK, ApartInv, SleepInv, WakeInv, EP3Inv, NEW t \in Threads,
         Carries(t) \/ (t = "c2u" /\ (Recv \/ Take))
  PROVE  EP3Inv'
<1>1. flags \in FlagWords /\ ep \in Endpoints /\ ThreadsOK
  BY DEF SerialTypeOK, PortOK
<1>2. dev' = dev /\ cm' = cm /\ flags'.conn = flags.conn /\ ep'.on = ep.on
  <2>1. dev' = dev /\ cm' = cm /\ flags'.conn = flags.conn
    BY <1>1, Zenon DEF Carries, WaitConnection, Delay, Send, Carry, Recv, Take, port, FlagWords
  <2>2. ep'.on = ep.on
    BY <1>1, Zenon DEF Carries, WaitConnection, Delay, Send, Carry, Recv, Take, port, Endpoints
  <2> QED BY <2>1, <2>2
<1>3. log'.unseen = log.unseen
  BY Zenon DEF Carries, WaitConnection, Delay, Send, Carry, RbRead, RbWrite, FlushIn, FlushOut, Recv, Take, WakeInv
<1>4. thr' = thr \/ Goes(t)
  BY CarryGoes, CdcGoes, InputGoes DEF Carries
<1>5. Runs(t)
  BY FewerThread
<1>6. CASE ep'.armed
  BY <1>6 DEF EP3Inv, EP3Busy
<1>7. CASE ~ep'.armed
  <2>1. ep'.armed = ep.armed /\ ep'.rx = ep.rx /\ flags'.avail = flags.avail
    <3>1. CASE Take /\ t = "c2u"
      BY <1>1, <1>7, <3>1, Zenon DEF Take, Endpoints
    <3>2. CASE WaitConnection(t)
      BY <1>1, <1>7, <3>2, Zenon DEF WaitConnection, Endpoints
    <3>3. CASE Send(t)
      BY <1>1, <3>3, Zenon DEF Send, Endpoints, FlagWords
    <3>4. CASE Delay(t) \/ Carry(t) \/ Recv
      BY <3>4, Zenon DEF Delay, Carry, Recv, port
    <3> QED BY <3>1, <3>2, <3>3, <3>4 DEF Carries
  <2>2. EP3Busy => EP3Busy'
    BY <1>2, <2>1 DEF EP3Busy
  <2>3. CASE t = "u2c"
    <3>1. thr'["c2u"] = thr["c2u"]
      BY <1>4, <2>3, TwoThreads DEF Goes
    <3>2. Ready("c2u") => Ready("c2u")'
      <4>1. CASE Fewer(slept, slept')
        BY <4>1, StillReady
      <4>2. ASSUME NEW on \in {"rx", "data", "space", "tx", "delay"}, LiesDown(t, on)
            PROVE  Ready("c2u") => Ready("c2u")'
        BY <2>3, <4>2, ReadyThen, TwoThreads DEF LiesDown
      <4> QED BY <4>1, <4>2, FewerThread
    <3>3. Leaving => Leaving'
      BY <1>2, <3>1, <3>2 DEF Leaving
    <3> QED BY <1>2, <1>3, <2>2, <3>1, <3>3, EP3Quiet
  <2>4. CASE t = "c2u"
    <3>1. CASE thr["c2u"].pc = "conn"
      <4>1. WaitConnection(t)
        BY <2>4, <3>1, Zenon DEF Carries, Delay, Send, Carry, RbRead, RbWrite, FlushIn, FlushOut, Recv, Take
      <4>2. ~flags.conn
        BY <1>1, <1>7, <4>1, Zenon DEF WaitConnection, Endpoints
      <4>3. thr' = thr
        BY <4>1, <4>2, Zenon DEF WaitConnection
      <4> QED BY <3>1, <4>3 DEF EP3Inv
    <3>2. CASE thr["c2u"].pc # "conn"
      <4>1. Leaving => Leaving' \/ thr'["c2u"].pc = "conn"
        <5> SUFFICES ASSUME Leaving PROVE Leaving' \/ thr'["c2u"].pc = "conn"
          OBVIOUS
        <5>1. CASE thr["c2u"].pc = "recv"
          <6>1. Recv
            BY <2>4, <5>1, Zenon DEF Carries, WaitConnection, Delay, Send, Carry, RbRead, RbWrite, FlushIn, FlushOut, Take
          <6>2. ~flags.conn
            BY DEF Leaving
          <6>3. thr' = [thr EXCEPT !["c2u"].pc = "take"] /\ slept' = slept
            BY <6>1, <6>2, Zenon DEF Recv
          <6>4. thr'["c2u"].pc = "take"
            BY <1>1, <6>3, TwoThreads DEF ThreadsOK
          <6> QED BY <1>2, <6>3, <6>4 DEF Leaving, Ready
        <5>2. CASE thr["c2u"].pc = "take"
          <6>1. Take
            BY <2>4, <5>2, Zenon DEF Carries, WaitConnection, Delay, Send, Carry, RbRead, RbWrite, FlushIn, FlushOut, Recv
          <6>2. ~flags.conn
            BY DEF Leaving
          <6>3. thr' = [thr EXCEPT !["c2u"].pc = "conn"]
            BY <6>1, <6>2, Zenon DEF Take
          <6> QED BY <1>1, <6>3, TwoThreads DEF ThreadsOK
        <5> QED BY <5>1, <5>2 DEF Leaving
      <4> QED BY <1>2, <1>3, <2>2, <3>2, <4>1, EP3Quiet
    <3> QED BY <3>1, <3>2
  <2> QED BY <2>3, <2>4, TwoThreads
<1> QED BY <1>6, <1>7

LEMMA EP3TimeOut ==
  ASSUME SerialTypeOK, ApartInv, SleepInv, EP3Inv, TimeOut
  PROVE  EP3Inv'
<1>1. UNCHANGED << flags, dev, ep, cm, log >> /\ CmRuns /\ ThreadsOK
  BY DEF TimeOut, port, SerialTypeOK
<1>2. PICK i \in DOMAIN slept :
        thr' = IF thr[slept[i].t].pc = "recv" THEN [thr EXCEPT ![slept[i].t].pc = "take"] ELSE thr
  BY DEF TimeOut
<1>3. thr'["c2u"].pc = thr["c2u"].pc \/ (thr["c2u"].pc = "recv" /\ thr'["c2u"].pc = "take")
  BY <1>1, <1>2, TwoThreads DEF ThreadsOK
<1>4. Leaving => Leaving'
  BY <1>1, <1>3, FewerWorld, StillReady DEF Leaving
<1>5. EP3Busy => EP3Busy'
  BY <1>1 DEF EP3Busy
<1> QED BY <1>1, <1>3, <1>4, <1>5, EP3Quiet

LEMMA EP3Step ==
  ASSUME SerialTypeOK, ApartInv, SleepInv, WakeInv, InputInv, EP3Inv, [Next]_vars
  PROVE  EP3Inv'
BY EP3World, EP3Cm, EP3Thread, EP3TimeOut, TwoThreads DEF Next

----------------------------------------------------------------------------
\* While flag_output_ready is not set, usb_tx_done is still to come, or a reset; and when it
\* is, the one that usb_tx_done has woken up is about to send.
Sending == ep.tx # << >> \/ ep.txdone \/ cm.pc = "tx" \/ ep.reset \/ cm.pc = "reset"
Watched ==
  \A t \in Threads : Asleep(t, "tx") => \E u \in Threads \ {t} : Ready(u) /\ thr[u].pc = "send"
SenderInv ==
  ~log.disturbed /\ ~log.torn => (~flags.ready => Sending) /\ (flags.ready => Watched)

LEMMA SenderQuiet ==
  ASSUME SenderInv,
         ~log'.disturbed /\ ~log'.torn =>
           ~log.disturbed /\ ~log.torn /\ flags'.ready = flags.ready,
         Sending => Sending', Watched => Watched'
  PROVE  SenderInv'
BY DEF SenderInv

LEMMA WatchedKept ==
  ASSUME Fewer(slept, slept'), \A u \in Threads : thr[u].pc = "send" => thr'[u].pc = "send", Watched
  PROVE  Watched'
<1>1. ASSUME NEW t \in Threads, Asleep(t, "tx")'
      PROVE  \E u \in Threads \ {t} : Ready(u)' /\ thr'[u].pc = "send"
  <2>1. Asleep(t, "tx")
    BY <1>1, StillAsleep
  <2>2. PICK u \in Threads \ {t} : Ready(u) /\ thr[u].pc = "send"
    BY <2>1 DEF Watched
  <2> QED BY <2>2, StillReady
<1> QED BY <1>1 DEF Watched

LEMMA SenderWorld ==
  ASSUME SerialTypeOK, SleepInv, WakeInv, SenderInv, World \/ Um \/ UmNotify \/ MainStarts \/ UNCHANGED vars
  PROVE  SenderInv'
<1>1. flags \in FlagWords /\ ep \in Endpoints
  BY DEF SerialTypeOK, PortOK
<1>2. thr' = thr /\ cm' = cm /\ flags'.ready = flags.ready
  BY <1>1, Zenon DEF World, Host, HostControl, HostReset, HostType, HostHears, HostNoticed, FrameComes, Line, port, vars,
       Um, UmPoll, UmInterrupt, UmStatus, UmData, UmPut, UmWrite, UmCheck, UmNotify, MainStarts, FlagWords
<1>3. Watched => Watched'
  BY <1>2, FewerWorld, WatchedKept
<1>4. log'.disturbed = log.disturbed /\ log'.torn = log.torn
  BY Zenon DEF World, Host, HostControl, HostReset, HostType, HostHears, HostNoticed, FrameComes, LineIn, Line,
     LineOut, BreakSent, vars, Um, UmPoll, UmInterrupt, UmStatus, UmData, UmPut, UmWrite, UmCheck, UmNotify,
     MainStarts, WakeInv
<1>5. CASE HostReset
  <2>1. ep'.reset
    BY <1>5 DEF HostReset, FreshEp
  <2> QED BY <1>2, <1>3, <1>4, <2>1, SenderQuiet DEF Sending
<1>6. CASE HostHears
  <2>1. ep'.txdone
    BY <1>1, <1>6 DEF HostHears, Endpoints
  <2> QED BY <1>2, <1>3, <1>4, <2>1, SenderQuiet DEF Sending
<1>7. CASE ~HostReset /\ ~HostHears
  <2>1. ep'.tx = ep.tx /\ ep'.txdone = ep.txdone /\ ep'.reset = ep.reset
    BY <1>1, <1>7, Zenon DEF World, Host, HostControl, HostType, HostNoticed, FrameComes, Line, port, vars,
       Um, UmNotify, MainStarts, Endpoints
  <2> QED BY <1>2, <1>3, <1>4, <2>1, SenderQuiet DEF Sending
<1> QED BY <1>5, <1>6, <1>7

LEMMA SenderCm ==
  ASSUME SerialTypeOK, ApartInv, SleepInv, WakeInv, SenderInv, Cm
  PROVE  SenderInv'
<1>1. flags \in FlagWords /\ ep \in Endpoints /\ cm \in Handlers
  BY DEF SerialTypeOK, PortOK
<1>2. thr' = thr /\ Fewer(slept, slept')
  BY FewerWorld, Zenon DEF Cm, CmEvent, Callback, CmReset, CmAddressed, CmConfigure, CmDeconfigure, CmLineState,
         CmCoding, CmConfigureUsart, CmSendBreak, CmBreak, CmTxDone, CmNoteDone, CmRxReady, CmRxFlags
<1>3. Watched => Watched'
  BY <1>2, WatchedKept
<1>4. CASE CmEvent
  <2>1. /\ flags' = flags /\ log' = log /\ cm.pc = "wait" /\ cm'.pc = NextEvent /\ ep'.tx = ep.tx
        /\ ep'.reset = (IF NextEvent = "reset" THEN FALSE ELSE ep.reset)
        /\ ep'.txdone = (IF NextEvent = "tx" THEN FALSE ELSE ep.txdone)
    BY <1>1, <1>4 DEF CmEvent, Handlers, Endpoints
  <2>2. Sending => Sending'
    BY <2>1 DEF Sending
  <2> QED BY <1>3, <2>1, <2>2, SenderQuiet
<1>5. CASE CmReset \/ CmDeconfigure
  <2> SUFFICES ASSUME ~log'.disturbed, ~log'.torn PROVE SenderInv'
    BY DEF SenderInv
  <2>1. ~log.disturbed /\ ~log.torn
    BY <1>5, Zenon DEF CmReset, CmDeconfigure, WakeInv
  <2>2. CASE dev.state # "CONFIGURED" /\ CmDeconfigure
    <3>1. UNCHANGED << ep, log, flags >> /\ cm.pc = "deconf"
      BY <2>2, Zenon DEF CmDeconfigure, Callback
    <3> QED BY <1>3, <3>1, SenderQuiet DEF Sending
  <2>3. CASE ~(dev.state # "CONFIGURED" /\ CmDeconfigure)
    <3>1. ~SendingDisturbed
      BY <1>5, <2>3, Zenon DEF CmReset, CmDeconfigure, WakeInv
    <3>2. flags.ready /\ flags'.ready
      BY <1>1, <1>5, <3>1, Zenon DEF CmReset, CmDeconfigure, SendingDisturbed, FreshFlags
    <3> QED BY <1>3, <2>1, <3>2 DEF SenderInv
  <2> QED BY <2>2, <2>3
<1>6. CASE CmTxDone
  <2>1. flags'.ready /\ log' = log
    BY <1>1, <1>6 DEF CmTxDone, FlagWords
  <2>2. CASE flags.ready
    BY <1>3, <2>1, <2>2 DEF SenderInv
  <2>3. CASE ~flags.ready
    <3>1. slept' = Signalled(slept, "tx")
      BY <1>6, <2>3, Zenon DEF CmTxDone
    <3>2. slept \in Seq(Sleepers) /\ Sleep(slept, thr, flags.conn)
      BY DEF SleepInv, Sleep
    <3>3. ASSUME NEW t \in Threads, Asleep(t, "tx")'
          PROVE  \E u \in Threads \ {t} : Ready(u)' /\ thr'[u].pc = "send"
      <4>1. PICK i \in DOMAIN slept : slept[i] = [t |-> t, on |-> "tx"]
        BY <1>2, <3>3, StillAsleep DEF Asleep
      <4>2. slept[i].on = "tx"
        BY <4>1
      <4>3. PICK k \in DOMAIN slept : slept[k].on = "tx" /\ slept' = RemoveAt(slept, k)
        BY <3>1, <3>2, <4>2, SignalledFirst
      <4>4. \A j \in DOMAIN slept' : slept'[j].t # slept[k].t
        BY <3>2, <4>3, SleepRemoved
      <4>5. slept[k].t # t
        <5>1. PICK j \in DOMAIN slept' : slept'[j] = [t |-> t, on |-> "tx"]
          BY <3>3 DEF Asleep
        <5>2. slept'[j].t = t
          BY <5>1
        <5> QED BY <4>4, <5>2
      <4>6. slept[k].t \in Threads
        BY <3>2, SleepersAre
      <4>7. thr[slept[k].t].pc = "send"
        <5>1. MaySleep(thr[slept[k].t].pc, "tx")
          BY <3>2, <4>3 DEF Sleep
        <5> QED BY <5>1 DEF MaySleep
      <4>8. PICK w : w = slept[k].t
        OBVIOUS
      <4>9. Ready(w)'
        BY <4>4, <4>8 DEF Ready
      <4> QED BY <1>2, <4>5, <4>6, <4>7, <4>8, <4>9
    <3>4. Watched'
      BY <3>3 DEF Watched
    <3> QED BY <2>1, <3>4 DEF SenderInv
  <2> QED BY <2>2, <2>3
<1>7. CASE CmRxFlags
  <2>1. ep' = ep /\ cm.pc = "rx_flags"
    BY <1>7 DEF CmRxFlags, Callback
  <2>2. log'.disturbed = log.disturbed /\ log'.torn = (log.torn \/ flags # cm.saw)
    BY <1>7 DEF CmRxFlags, WakeInv
  <2>3. ~log'.torn => flags'.ready = flags.ready
    BY <1>1, <1>7, <2>2 DEF CmRxFlags, FlagWords
  <2> QED BY <1>3, <2>1, <2>2, <2>3, SenderQuiet DEF Sending
<1>8. CASE CmAddressed \/ CmConfigure \/ CmLineState \/ CmCoding \/ CmConfigureUsart \/ CmSendBreak \/ CmBreak
           \/ CmNoteDone \/ CmRxReady
  <2>1. ep'.tx = ep.tx /\ ep'.txdone = ep.txdone /\ ep'.reset = ep.reset
    BY <1>1, <1>8, Zenon DEF CmAddressed, CmConfigure, CmLineState, CmCoding, CmConfigureUsart, CmSendBreak, CmBreak,
       CmNoteDone, CmRxReady, Endpoints
  <2>2. cm.pc \notin {"tx", "reset"}
    BY <1>8, Zenon DEF Callback, CmAddressed, CmConfigure, CmLineState, CmCoding, CmConfigureUsart, CmSendBreak, CmBreak,
       CmNoteDone, CmRxReady
  <2>3. flags'.ready = flags.ready
    BY <1>1, <1>8, Zenon DEF CmAddressed, CmConfigure, CmLineState, CmCoding, CmConfigureUsart, CmSendBreak, CmBreak,
       CmNoteDone, CmRxReady, FlagWords
  <2>4. log'.disturbed = log.disturbed /\ log'.torn = log.torn
    BY <1>8, Zenon DEF CmAddressed, CmConfigure, CmLineState, CmCoding, CmConfigureUsart, CmSendBreak, CmBreak,
       CmNoteDone, CmRxReady, Enabled, SetBreak, Rewritten, WakeInv
  <2> QED BY <1>3, <2>1, <2>2, <2>3, <2>4, SenderQuiet DEF Sending
<1> QED BY <1>4, <1>5, <1>6, <1>7, <1>8 DEF Cm

LEMMA SenderThread ==
  ASSUME SerialTypeOK, ApartInv, SleepInv, WakeInv, SenderInv, NEW t \in Threads,
         Carries(t) \/ (t = "c2u" /\ (Recv \/ Take))
  PROVE  SenderInv'
<1>1. flags \in FlagWords /\ ep \in Endpoints /\ ThreadsOK
  BY DEF SerialTypeOK, PortOK
<1>2. cm' = cm
  BY Zenon DEF Carries, WaitConnection, Delay, Send, Carry, Recv, Take, port
<1>3. thr' = thr \/ Goes(t)
  BY CarryGoes, CdcGoes, InputGoes DEF Carries
<1>4. CASE Send(t) /\ flags.ready
  <2>1. CASE ep.on
    <3>1. ep' = [ep EXCEPT !.tx = << thr[t].buf >>]
      BY <1>4, <2>1, Zenon DEF Send
    <3>2. ep'.tx # << >>
      BY <1>1, <3>1 DEF Endpoints
    <3>3. ~flags'.ready /\ log'.disturbed = log.disturbed /\ log'.torn = log.torn
      BY <1>1, <1>4, <2>1, Zenon DEF Send, FlagWords, WakeInv
    <3> QED BY <3>2, <3>3 DEF SenderInv, Sending
  <2>2. CASE ~ep.on
    <3>1. log'.disturbed
      BY <1>4, <2>2, Zenon DEF Send, WakeInv
    <3> QED BY <3>1 DEF SenderInv
  <2> QED BY <2>1, <2>2
<1>5. CASE Send(t) /\ ~flags.ready
  <2>1. flags' = flags /\ ep' = ep
    BY <1>5, Zenon DEF Send
  <2>2. log'.disturbed = log.disturbed /\ log'.torn = log.torn
    BY <1>5, Zenon DEF Send, WakeInv
  <2> QED BY <1>2, <1>5, <2>1, <2>2 DEF SenderInv, Sending
<1>6. CASE ~Send(t)
  <2>1. thr[t].pc # "send"
    BY <1>6, Zenon DEF Carries, WaitConnection, Delay, Carry, RbRead, RbWrite, FlushIn, FlushOut, Recv, Take
  <2>2. \A u \in Threads : thr[u].pc = "send" => u # t /\ thr'[u].pc = "send"
    BY <1>3, <2>1 DEF Goes
  <2>3. Watched => Watched'
    <3>1. CASE Fewer(slept, slept')
      BY <2>2, <3>1, WatchedKept
    <3>2. ASSUME NEW on \in {"rx", "data", "space", "tx", "delay"}, LiesDown(t, on), Watched PROVE Watched'
      <4>1. Sleeps(t, on)
        BY <3>2 DEF LiesDown
      <4>2. on # "tx"
        BY <2>1, <3>2 DEF LiesDown
      <4>3. ASSUME NEW v \in Threads, Asleep(v, "tx")'
            PROVE  \E u \in Threads \ {v} : Ready(u)' /\ thr'[u].pc = "send"
        <5>1. Asleep(v, "tx")
          BY <4>1, <4>2, <4>3, AsleepThen
        <5>2. PICK u \in Threads \ {v} : Ready(u) /\ thr[u].pc = "send"
          BY <3>2, <5>1 DEF Watched
        <5>3. Ready(u)'
          BY <2>2, <4>1, <5>2, ReadyThen
        <5> QED BY <2>2, <5>2, <5>3
      <4> QED BY <4>3 DEF Watched
    <3> QED BY <3>1, <3>2, FewerThread
  <2>4. CASE WaitConnection(t) /\ flags.conn
    <3>1. /\ flags'.ready /\ log'.disturbed = (log.disturbed \/ SendingDisturbed)
          /\ (~log'.torn => ~log.torn)
      BY <1>1, <2>4, Zenon DEF WaitConnection, FlagWords, WakeInv
    <3>2. ~log'.disturbed => flags.ready
      BY <3>1 DEF SendingDisturbed
    <3> QED BY <2>3, <3>1, <3>2 DEF SenderInv
  <2>5. CASE ~(WaitConnection(t) /\ flags.conn)
    <3>1. flags'.ready = flags.ready
      BY <1>1, <1>6, <2>5, Zenon DEF Carries, WaitConnection, Delay, Carry, Recv, Take, port, FlagWords
    <3>2. ep'.tx = ep.tx /\ ep'.txdone = ep.txdone /\ ep'.reset = ep.reset
      BY <1>1, <1>6, <2>5, Zenon DEF Carries, WaitConnection, Delay, Carry, Recv, Take, port, Endpoints
    <3>3. log'.disturbed = log.disturbed /\ log'.torn = log.torn
      BY <1>6, <2>5, Zenon DEF Carries, WaitConnection, Delay, Carry, RbRead, RbWrite, FlushIn, FlushOut, Recv, Take,
         WakeInv
    <3> QED BY <1>2, <2>3, <3>1, <3>2, <3>3, SenderQuiet DEF Sending
  <2> QED BY <2>4, <2>5
<1> QED BY <1>4, <1>5, <1>6

LEMMA SenderTimeOut ==
  ASSUME SerialTypeOK, ApartInv, SleepInv, SenderInv, TimeOut
  PROVE  SenderInv'
<1>1. UNCHANGED << flags, ep, cm, log >> /\ ThreadsOK
  BY DEF TimeOut, port, SerialTypeOK
<1>2. PICK i \in DOMAIN slept :
        thr' = IF thr[slept[i].t].pc = "recv" THEN [thr EXCEPT ![slept[i].t].pc = "take"] ELSE thr
  BY DEF TimeOut
<1>3. \A u \in Threads : thr[u].pc = "send" => thr'[u].pc = "send"
  BY <1>1, <1>2 DEF ThreadsOK
<1> QED BY <1>1, <1>3, FewerWorld, WatchedKept, SenderQuiet DEF Sending

LEMMA SenderStep ==
  ASSUME SerialTypeOK, ApartInv, SleepInv, WakeInv, SenderInv, [Next]_vars
  PROVE  SenderInv'
BY SenderWorld, SenderCm, SenderThread, SenderTimeOut, TwoThreads DEF Next

\* Nobody sleeps through what it waits for.  usart_main: a character that it could send, or
\* the free data register; usart_write tells it before it waits for a place, and
\* handle_tx_ready turns the interrupt of TXE on in time; only a rewritten CR1 can turn it
\* off behind its back.  The threads: characters, places, a connection and its end, a packet
\* that has been sent.  And cdc_recv waits for a packet that EP3 can take.
THEOREM NobodySleepsThrough == Spec => []WakeupsKept
<1> DEFINE IInv == ApartInv /\ SleepInv /\ CarrierInv /\ InputInv /\ EP3Inv /\ SenderInv
<1>1. Init => IInv
  <2> SUFFICES ASSUME Init PROVE IInv
    OBVIOUS
  <2>1. slept = << >> /\ ~ep.on /\ flags.ready
    BY DEF Init, FreshEp, FreshFlags
  <2>2. \A t, on : ~Asleep(t, on)
    BY <2>1 DEF Asleep
  <2>3. CarrierInv /\ InputInv /\ EP3Inv /\ SenderInv
    BY <2>1, <2>2 DEF CarrierInv, InputInv, Receives, EP3Inv, SenderInv, Watched
  <2> QED BY <2>3, InitApart, InitTx
<1>2. SerialTypeOK /\ WakeInv /\ IInv /\ [Next]_vars => IInv'
  <2> SUFFICES ASSUME SerialTypeOK, WakeInv, IInv, [Next]_vars PROVE IInv'
    OBVIOUS
  <2>1. ApartInv' /\ SleepInv'
    BY ApartStep, SleepStep
  <2>2. CarrierInv' /\ InputInv' /\ EP3Inv' /\ SenderInv'
    BY <2>1, CarrierStep, InputStep, EP3Step, SenderStep
  <2> QED BY <2>1, <2>2
<1>3. SerialTypeOK /\ WakeInv /\ IInv => WakeupsKept
  <2> SUFFICES ASSUME SerialTypeOK, WakeInv, IInv PROVE WakeupsKept
    OBVIOUS
  <2>1. DriverWoken
    BY DEF WakeInv, DriverWoken
  <2>2. \A t \in Threads : \A on : Asleep(t, on) => MaySleep(thr[t].pc, on)
                                                    /\ (thr[t].pc = "conn" => ~flags.conn)
    <3>1. ASSUME NEW t \in Threads, NEW on, NEW i \in DOMAIN slept, slept[i] = [t |-> t, on |-> on]
          PROVE  MaySleep(thr[t].pc, on) /\ (thr[t].pc = "conn" => ~flags.conn)
      <4>1. slept[i].t = t /\ slept[i].on = on
        BY <3>1
      <4> QED BY <4>1 DEF SleepInv, Sleep
    <3> QED BY <3>1 DEF Asleep
  <2>3. Asleep("c2u", "space") => a2h.full /\ (um.pc = "asleep" => ~um.txready)
    <3> SUFFICES ASSUME Asleep("c2u", "space") PROVE a2h.full /\ (um.pc = "asleep" => ~um.txready)
      OBVIOUS
    <3>1. a2h.full /\ ~a2h.empty
      BY DEF CarrierInv, SerialTypeOK, RingsOK, Rings
    <3>2. ~A2hHeld
      BY <2>2, TwoThreads DEF MaySleep, A2hHeld
    <3> QED BY <3>1, <3>2 DEF WakeInv
  <2>4. ASSUME NEW t \in Threads, Asleep(t, "rx"), thr[t].pc = "recv"
        PROVE  ~flags.avail /\ (flags.conn \/ dev.state \notin {"CONFIGURED"})
    <3>1. t = "c2u"
      BY <2>4, TwoThreads DEF ApartInv, U2cPlaces
    <3> QED BY <2>4, <3>1 DEF InputInv, Receives
  <2>5. ASSUME NEW t \in Threads, Asleep(t, "tx"), ~log.disturbed, ~log.torn
        PROVE  IF flags.ready THEN \E u \in Threads \ {t} : Ready(u) /\ thr[u].pc = "send"
               ELSE ep.tx # << >> \/ ep.txdone \/ cm.pc = "tx" \/ ep.reset \/ cm.pc = "reset"
    BY <2>5 DEF SenderInv, Watched, Sending
  <2>6. ThreadsWoken
    BY <2>2, <2>3, <2>4, <2>5 DEF ThreadsWoken, CarrierInv
  <2>7. ReceiverArmed
    <3> SUFFICES ASSUME Asleep("c2u", "rx"), thr["c2u"].pc = "recv", flags.conn, ep.on,
                        dev.state = "CONFIGURED", ~log.unseen
                 PROVE  ep.armed \/ ep.rx # << >> \/ cm.pc = "rx_flags"
      BY DEF ReceiverArmed
    <3>1. ~flags.avail
      BY DEF InputInv, Receives
    <3>2. ~Ready("c2u")
      <4>1. [t |-> "c2u", on |-> "rx"].t = "c2u"
        OBVIOUS
      <4> QED BY <4>1 DEF Asleep, Ready
    <3> QED BY <3>1, <3>2 DEF EP3Inv, EP3Busy, Leaving
  <2> QED BY <2>1, <2>6, <2>7 DEF WakeupsKept
<1> QED BY <1>1, <1>2, <1>3, SerialTypes, DriverAlwaysWoken, PTL DEF Spec
=============================================================================
