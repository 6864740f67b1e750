---------------------------- MODULE ListTheorems ----------------------------
(***************************************************************************)
(* Facts about the sequences that stand for the kernel's linked lists:     *)
(* what an insertion, a removal and a pop do to the elements, and to how   *)
(* often one occurs; a principle of the least counterexample; and facts    *)
(* about a train of sequences, which numbers pass through in order.        *)
(***************************************************************************)
EXTENDS Integers, SequencesExt, SequenceTheorems, WellFoundedInduction, TLAPS

\* The node x is linked in the list s, once at most.
Once(s, x) == \A i, j \in DOMAIN s : s[i] = x /\ s[j] = x => i = j

\* InsertAt puts x at place i and moves what follows by one.
LEMMA InsertAtFacts ==
  ASSUME NEW S, NEW s \in Seq(S), NEW x \in S, NEW i \in 1..(Len(s) + 1)
  PROVE  /\ InsertAt(s, i, x) \in Seq(S)
         /\ Len(InsertAt(s, i, x)) = Len(s) + 1
         /\ InsertAt(s, i, x)[i] = x
         /\ \A j \in 1..(i-1) : InsertAt(s, i, x)[j] = s[j]
         /\ \A j \in (i+1)..(Len(s) + 1) : InsertAt(s, i, x)[j] = s[j-1]
<1> DEFINE f == SubSeq(s, 1, i-1)
           g == SubSeq(s, i, Len(s))
           h == f \o <<x>>
<1>0. Len(s) \in Nat /\ i \in Nat
  BY LenProperties
<1>1. f \in Seq(S) /\ Len(f) = i - 1 /\ \A j \in 1..(i-1) : f[j] = s[j]
  OBVIOUS
<1>2. g \in Seq(S) /\ Len(g) = Len(s) - i + 1 /\ \A j \in 1..(Len(s)-i+1) : g[j] = s[i+j-1]
  OBVIOUS
<1>3. InsertAt(s, i, x) = h \o g
  BY DEF InsertAt
<1> HIDE DEF f, g
<1>4. <<x>> \in Seq(S) /\ Len(<<x>>) = 1 /\ <<x>>[1] = x
  OBVIOUS
<1>5. /\ h \in Seq(S) /\ Len(h) = i
      /\ \A j \in 1..i : h[j] = IF j <= i - 1 THEN f[j] ELSE <<x>>[j - (i - 1)]
  BY <1>0, <1>1, <1>4, ConcatProperties
<1> HIDE DEF h
<1>6. /\ h \o g \in Seq(S) /\ Len(h \o g) = Len(s) + 1
      /\ \A j \in 1..(Len(s) + 1) : (h \o g)[j] = IF j <= i THEN h[j] ELSE g[j - i]
  <2>1. /\ h \o g \in Seq(S) /\ Len(h \o g) = Len(h) + Len(g)
        /\ \A j \in 1..(Len(h) + Len(g)) :
              (h \o g)[j] = IF j <= Len(h) THEN h[j] ELSE g[j - Len(h)]
    BY <1>2, <1>5, ConcatProperties
  <2>2. Len(h) + Len(g) = Len(s) + 1
    BY <1>0, <1>2, <1>5
  <2> QED BY <1>5, <2>1, <2>2
<1>7. (h \o g)[i] = x
  BY <1>0, <1>4, <1>5, <1>6
<1>8. ASSUME NEW j \in 1..(i-1) PROVE (h \o g)[j] = s[j]
  BY <1>0, <1>1, <1>5, <1>6, SMTT(60)
<1>9. ASSUME NEW j \in (i+1)..(Len(s)+1) PROVE (h \o g)[j] = s[j-1]
  <2>1. j - i \in 1..(Len(s)-i+1) /\ i + (j - i) - 1 = j - 1
    BY <1>0
  <2> QED BY <1>0, <1>2, <1>6, <2>1
<1> QED BY <1>3, <1>6, <1>7, <1>8, <1>9

\* RemoveAt takes the node at place i out.
LEMMA RemoveAtFacts ==
  ASSUME NEW S, NEW s \in Seq(S), NEW i \in 1..Len(s)
  PROVE  /\ RemoveAt(s, i) \in Seq(S)
         /\ Len(RemoveAt(s, i)) = Len(s) - 1
         /\ \A j \in 1..(i-1) : RemoveAt(s, i)[j] = s[j]
         /\ \A j \in i..(Len(s)-1) : RemoveAt(s, i)[j] = s[j+1]
<1> DEFINE f == SubSeq(s, 1, i-1)
           g == SubSeq(s, i+1, Len(s))
<1>0. Len(s) \in Nat /\ i \in Nat
  BY LenProperties
<1>1. f \in Seq(S) /\ Len(f) = i - 1 /\ \A j \in 1..(i-1) : f[j] = s[j]
  OBVIOUS
<1>2. g \in Seq(S) /\ Len(g) = Len(s) - i /\ \A j \in 1..(Len(s)-i) : g[j] = s[i+j]
  OBVIOUS
<1>3. RemoveAt(s, i) = f \o g
  BY DEF RemoveAt
<1> HIDE DEF f, g
<1>4. /\ f \o g \in Seq(S) /\ Len(f \o g) = Len(s) - 1
      /\ \A j \in 1..(Len(s) - 1) : (f \o g)[j] = IF j <= i - 1 THEN f[j] ELSE g[j - (i - 1)]
  <2>1. /\ f \o g \in Seq(S) /\ Len(f \o g) = Len(f) + Len(g)
        /\ \A j \in 1..(Len(f) + Len(g)) :
              (f \o g)[j] = IF j <= Len(f) THEN f[j] ELSE g[j - Len(f)]
    BY <1>1, <1>2, ConcatProperties
  <2>2. Len(f) + Len(g) = Len(s) - 1
    BY <1>0, <1>1, <1>2
  <2> QED BY <1>1, <2>1, <2>2
<1>5. ASSUME NEW j \in 1..(i-1) PROVE (f \o g)[j] = s[j]
  BY <1>0, <1>1, <1>4
<1>6. ASSUME NEW j \in i..(Len(s)-1) PROVE (f \o g)[j] = s[j+1]
  <2>1. j - (i - 1) \in 1..(Len(s)-i) /\ i + (j - (i - 1)) = j + 1
    BY <1>0
  <2> QED BY <1>0, <1>2, <1>4, <2>1
<1> QED BY <1>3, <1>4, <1>5, <1>6

-----------------------------------------------------------------------------
\* After an insertion the list has x, and what it had; a node that was in it once at most
\* still is, and so is x when it was not in it.
LEMMA InsertAtElements ==
  ASSUME NEW S, NEW s \in Seq(S), NEW x \in S, NEW i \in 1..(Len(s) + 1)
  PROVE  /\ ToSet(InsertAt(s, i, x)) = ToSet(s) \cup {x}
         /\ \A y : y # x /\ Once(s, y) => Once(InsertAt(s, i, x), y)
         /\ x \notin ToSet(s) => Once(InsertAt(s, i, x), x)
<1> DEFINE r == InsertAt(s, i, x)
           n == Len(s)
<1>1. /\ r \in Seq(S) /\ Len(r) = n + 1 /\ r[i] = x
      /\ \A j \in 1..(i-1) : r[j] = s[j]
      /\ \A j \in (i+1)..(n+1) : r[j] = s[j-1]
  BY InsertAtFacts
<1>2. n \in Nat /\ i \in Nat /\ DOMAIN s = 1..n /\ DOMAIN r = 1..(n+1)
  BY <1>1, LenProperties
<1> HIDE DEF r, n
<1>3. i \in 1..(n+1)
  BY DEF n
<1>4. ToSet(s) = {s[j] : j \in 1..n} /\ ToSet(r) = {r[j] : j \in 1..(n+1)}
  BY <1>2 DEF ToSet
<1>5. \A j \in 1..(n+1) : j # i => \E k \in 1..n : r[j] = s[k] /\ k = (IF j < i THEN j ELSE j - 1)
  BY <1>1, <1>2, <1>3
<1>6. \A k \in 1..n : \E j \in 1..(n+1) : r[j] = s[k]
  <2> TAKE k \in 1..n
  <2>1. CASE k < i
    BY <1>1, <1>2, <1>3, <2>1
  <2>2. CASE k >= i
    <3>1. k + 1 \in (i+1)..(n+1) /\ k + 1 \in 1..(n+1) /\ (k + 1) - 1 = k
      BY <1>2, <1>3, <2>2
    <3> QED BY <1>1, <3>1
  <2> QED BY <2>1, <2>2, <1>2
<1>7. ToSet(r) = ToSet(s) \cup {x}
  <2>1. ToSet(s) \subseteq ToSet(r)
    BY <1>4, <1>6
  <2>2. x \in ToSet(r)
    BY <1>1, <1>3, <1>4
  <2>3. ToSet(r) \subseteq ToSet(s) \cup {x}
    BY <1>1, <1>4, <1>5
  <2> QED BY <2>1, <2>2, <2>3
<1>8. ASSUME NEW y, y # x, Once(s, y) PROVE Once(r, y)
  <2> SUFFICES ASSUME NEW j \in 1..(n+1), NEW k \in 1..(n+1), r[j] = y, r[k] = y
               PROVE  j = k
    BY <1>2 DEF Once
  <2>1. j # i /\ k # i
    BY <1>1, <1>8
  <2>2. PICK j1 \in 1..n : r[j] = s[j1] /\ j1 = (IF j < i THEN j ELSE j - 1)
    BY <1>5, <2>1
  <2>3. PICK k1 \in 1..n : r[k] = s[k1] /\ k1 = (IF k < i THEN k ELSE k - 1)
    BY <1>5, <2>1
  <2>4. j1 = k1
    BY <1>2, <1>8, <2>2, <2>3 DEF Once
  <2> QED BY <1>2, <1>3, <2>1, <2>2, <2>3, <2>4
<1>9. ASSUME x \notin ToSet(s) PROVE Once(r, x)
  BY <1>2, <1>4, <1>5, <1>9 DEF Once
<1> QED BY <1>7, <1>8, <1>9 DEF r

\* After a removal the list has what it had, but for one occurrence of the node removed.
LEMMA RemoveAtElements ==
  ASSUME NEW S, NEW s \in Seq(S), NEW i \in 1..Len(s)
  PROVE  /\ ToSet(RemoveAt(s, i)) \subseteq ToSet(s)
         /\ \A y \in ToSet(s) : y # s[i] => y \in ToSet(RemoveAt(s, i))
         /\ \A y : Once(s, y) => Once(RemoveAt(s, i), y)
         /\ Once(s, s[i]) => s[i] \notin ToSet(RemoveAt(s, i))
<1> DEFINE r == RemoveAt(s, i)
           n == Len(s)
<1>1. /\ r \in Seq(S) /\ Len(r) = n - 1
      /\ \A j \in 1..(i-1) : r[j] = s[j]
      /\ \A j \in i..(n-1) : r[j] = s[j+1]
  BY RemoveAtFacts
<1>2. n \in Nat /\ i \in Nat /\ DOMAIN s = 1..n /\ DOMAIN r = 1..(n-1)
  BY <1>1, LenProperties
<1> HIDE DEF r, n
<1>3. i \in 1..n
  BY DEF n
<1>4. ToSet(s) = {s[j] : j \in 1..n} /\ ToSet(r) = {r[j] : j \in 1..(n-1)}
  BY <1>2 DEF ToSet
<1>5. \A j \in 1..(n-1) : \E k \in 1..n : k # i /\ r[j] = s[k] /\ k = (IF j < i THEN j ELSE j + 1)
  BY <1>1, <1>2, <1>3
<1>6. \A k \in 1..n : k # i => \E j \in 1..(n-1) : r[j] = s[k]
  <2> TAKE k \in 1..n
  <2>1. CASE k < i
    BY <1>1, <1>2, <1>3, <2>1
  <2>2. CASE k > i
    <3>1. k - 1 \in i..(n-1) /\ k - 1 \in 1..(n-1) /\ (k - 1) + 1 = k
      BY <1>2, <1>3, <2>2
    <3> QED BY <1>1, <3>1
  <2> QED BY <2>1, <2>2, <1>2
<1>7. ToSet(r) \subseteq ToSet(s) /\ \A y \in ToSet(s) : y # s[i] => y \in ToSet(r)
  BY <1>4, <1>5, <1>6
<1>8. ASSUME NEW y, Once(s, y) PROVE Once(r, y)
  <2> SUFFICES ASSUME NEW j \in 1..(n-1), NEW k \in 1..(n-1), r[j] = y, r[k] = y
               PROVE  j = k
    BY <1>2 DEF Once
  <2>1. PICK j1 \in 1..n : r[j] = s[j1] /\ j1 = (IF j < i THEN j ELSE j + 1)
    BY <1>5
  <2>2. PICK k1 \in 1..n : r[k] = s[k1] /\ k1 = (IF k < i THEN k ELSE k + 1)
    BY <1>5
  <2>3. j1 = k1
    BY <1>2, <1>8, <2>1, <2>2 DEF Once
  <2> QED BY <1>2, <1>3, <2>1, <2>2, <2>3
<1>9. ASSUME Once(s, s[i]) PROVE s[i] \notin ToSet(r)
  BY <1>2, <1>3, <1>4, <1>5, <1>9 DEF Once
<1> QED BY <1>7, <1>8, <1>9 DEF r

\* A pop is the removal of the first node.
LEMMA TailElements ==
  ASSUME NEW S, NEW s \in Seq(S), s # << >>
  PROVE  /\ Tail(s) \in Seq(S) /\ Head(s) \in S /\ Head(s) \in ToSet(s)
         /\ ToSet(Tail(s)) \subseteq ToSet(s)
         /\ \A y \in ToSet(s) : y # Head(s) => y \in ToSet(Tail(s))
         /\ \A y : Once(s, y) => Once(Tail(s), y)
         /\ Once(s, Head(s)) => Head(s) \notin ToSet(Tail(s))
<1> DEFINE r == Tail(s)
           n == Len(s)
<1>1. /\ r \in Seq(S) /\ Len(r) = n - 1 /\ Head(s) = s[1] /\ Head(s) \in S
      /\ \A j \in 1..Len(r) : r[j] = s[j+1]
  BY HeadTailProperties
<1>2. n \in Nat \ {0} /\ DOMAIN s = 1..n /\ DOMAIN r = 1..(n-1)
  BY <1>1, LenProperties, EmptySeq
<1> HIDE DEF r, n
<1>3. ToSet(s) = {s[j] : j \in 1..n} /\ ToSet(r) = {r[j] : j \in 1..(n-1)}
  BY <1>2 DEF ToSet
<1>4. \A j \in 1..(n-1) : r[j] = s[j+1] /\ j + 1 \in 1..n /\ j + 1 # 1
  BY <1>1, <1>2
<1>5. \A k \in 1..n : k # 1 => k - 1 \in 1..(n-1) /\ r[k-1] = s[k]
  <2> SUFFICES ASSUME NEW k \in 1..n, k # 1 PROVE k - 1 \in 1..(n-1) /\ r[k-1] = s[k]
    OBVIOUS
  <2>1. k - 1 \in 1..(n-1) /\ (k - 1) + 1 = k
    BY <1>2
  <2> QED BY <1>4, <2>1
<1>6. ToSet(r) \subseteq ToSet(s) /\ Head(s) \in ToSet(s)
  BY <1>1, <1>2, <1>3, <1>4
<1>7. ASSUME NEW y \in ToSet(s), y # Head(s) PROVE y \in ToSet(r)
  <2>1. PICK k \in 1..n : s[k] = y
    BY <1>3, <1>7
  <2> QED BY <1>1, <1>3, <1>5, <1>7, <2>1
<1>8. ASSUME NEW y, Once(s, y) PROVE Once(r, y)
  <2> SUFFICES ASSUME NEW j \in 1..(n-1), NEW k \in 1..(n-1), r[j] = y, r[k] = y
               PROVE  j = k
    BY <1>2 DEF Once
  <2>1. j + 1 = k + 1
    BY <1>2, <1>4, <1>8 DEF Once
  <2> QED BY <2>1
<1>9. ASSUME Once(s, Head(s)) PROVE Head(s) \notin ToSet(r)
  BY <1>1, <1>2, <1>3, <1>4, <1>9 DEF Once
<1> QED BY <1>1, <1>6, <1>7, <1>8, <1>9 DEF r

\* A set of natural numbers has a least member.
LEMMA LeastNat ==
  ASSUME NEW N \in SUBSET Nat, N # {}
  PROVE  \E n \in N : \A m \in N : n <= m
<1>1. PICK n \in N : \A m \in N : ~(<<m, n>> \in OpToRel(<, Nat))
  BY WFMin, NatLessThanWellFounded
<1>2. ASSUME NEW m \in N PROVE n <= m
  <2>1. <<m, n>> \in Nat \X Nat /\ ~(m < n)
    BY <1>1 DEF OpToRel
  <2> QED BY <2>1
<1> QED BY <1>2

-----------------------------------------------------------------------------
\* Numbers in ascending order, and two sequences the one of which has the lesser numbers.
Ascending(s) == \A i, j \in DOMAIN s : i < j => s[i] < s[j]
AllBefore(s, t) == \A x \in ToSet(s), y \in ToSet(t) : x < y

LEMMA ConcatAscends ==
  ASSUME NEW s \in Seq(Nat), NEW t \in Seq(Nat)
  PROVE  /\ s \o t \in Seq(Nat)
         /\ ToSet(s \o t) = ToSet(s) \cup ToSet(t)
         /\ Ascending(s \o t) <=> Ascending(s) /\ Ascending(t) /\ AllBefore(s, t)
<1> DEFINE r == s \o t
<1>1. PICK m \in Nat, n \in Nat : m = Len(s) /\ n = Len(t) /\ DOMAIN s = 1..m /\ DOMAIN t = 1..n
  BY LenProperties
<1>2. /\ r \in Seq(Nat) /\ Len(r) = m + n /\ DOMAIN r = 1..(m + n)
      /\ \A i \in 1..(m + n) : r[i] = IF i <= m THEN s[i] ELSE t[i - m]
  <2>1. r \in Seq(Nat) /\ Len(r) = m + n
        /\ \A i \in 1..(m + n) : r[i] = IF i <= m THEN s[i] ELSE t[i - m]
    BY <1>1, ConcatProperties
  <2> QED BY <2>1, LenProperties
<1> HIDE DEF r
<1>3. ToSet(s) = {s[i] : i \in 1..m} /\ ToSet(t) = {t[i] : i \in 1..n}
      /\ ToSet(r) = {r[i] : i \in 1..(m + n)}
  BY <1>1, <1>2 DEF ToSet
<1>4. \A i \in 1..m : i \in 1..(m + n) /\ r[i] = s[i]
  BY <1>2
<1>5. \A i \in 1..n : m + i \in 1..(m + n) /\ r[m + i] = t[i]
  BY <1>2
<1>6. \A i \in 1..(m + n) : i \in 1..m \/ \E j \in 1..n : i = m + j
  <2> SUFFICES ASSUME NEW i \in 1..(m + n), i \notin 1..m PROVE \E j \in 1..n : i = m + j
    OBVIOUS
  <2>1. i - m \in 1..n /\ i = m + (i - m)
    OBVIOUS
  <2> QED BY <2>1
<1>7. ToSet(r) = ToSet(s) \cup ToSet(t)
  <2>1. ASSUME NEW i \in 1..(m + n) PROVE r[i] \in ToSet(s) \cup ToSet(t)
    <3>1. CASE i \in 1..m
      BY <1>3, <1>4, <3>1
    <3>2. ASSUME NEW j \in 1..n, i = m + j PROVE r[i] \in ToSet(s) \cup ToSet(t)
      BY <1>3, <1>5, <3>2
    <3> QED BY <1>6, <3>1, <3>2
  <2>2. ToSet(s) \subseteq ToSet(r)
    BY <1>3, <1>4
  <2>3. ToSet(t) \subseteq ToSet(r)
    BY <1>3, <1>5
  <2> QED BY <1>3, <2>1, <2>2, <2>3
<1>8. ASSUME Ascending(r) PROVE Ascending(s) /\ Ascending(t) /\ AllBefore(s, t)
  <2>1. \A i, j \in 1..(m + n) : i < j => r[i] < r[j]
    BY <1>2, <1>8 DEF Ascending
  <2>2. ASSUME NEW i \in 1..m, NEW j \in 1..m, i < j PROVE s[i] < s[j]
    BY <1>4, <2>1, <2>2
  <2>3. ASSUME NEW i \in 1..n, NEW j \in 1..n, i < j PROVE t[i] < t[j]
    <3>1. m + i < m + j
      BY <2>3
    <3> QED BY <1>5, <2>1, <3>1
  <2>4. ASSUME NEW i \in 1..m, NEW j \in 1..n PROVE s[i] < t[j]
    <3>1. i < m + j
      OBVIOUS
    <3> QED BY <1>4, <1>5, <2>1, <3>1
  <2>5. Ascending(s) /\ Ascending(t)
    BY <1>1, <2>2, <2>3 DEF Ascending
  <2>6. AllBefore(s, t)
    BY <1>3, <2>4 DEF AllBefore
  <2> QED BY <2>5, <2>6
<1>9. ASSUME Ascending(s), Ascending(t), AllBefore(s, t) PROVE Ascending(r)
  <2> SUFFICES ASSUME NEW i \in 1..(m + n), NEW j \in 1..(m + n), i < j PROVE r[i] < r[j]
    BY <1>2 DEF Ascending
  <2>1. CASE j \in 1..m
    <3>1. i \in 1..m
      BY <2>1
    <3> QED BY <1>1, <1>4, <1>9, <2>1, <3>1 DEF Ascending
  <2>2. ASSUME NEW k \in 1..n, j = m + k PROVE r[i] < r[j]
    <3>1. CASE i \in 1..m
      <4>1. s[i] \in ToSet(s) /\ t[k] \in ToSet(t)
        BY <1>3, <3>1
      <4> QED BY <1>4, <1>5, <1>9, <2>2, <3>1, <4>1 DEF AllBefore
    <3>2. ASSUME NEW l \in 1..n, i = m + l PROVE r[i] < r[j]
      <4>1. l < k
        BY <2>2, <3>2
      <4> QED BY <1>1, <1>5, <1>9, <2>2, <3>2, <4>1 DEF Ascending
    <3> QED BY <1>6, <3>1, <3>2
  <2> QED BY <1>6, <2>1, <2>2
<1> QED BY <1>2, <1>7, <1>8, <1>9 DEF r

-----------------------------------------------------------------------------
\* A train of n parts carries ascending numbers: characters on their way, say, from the
\* buffer they come into, the last part, to the one they arrive in, the first.  Of the
\* numbers up to top it carries those that have not gone.
Train(P, n) ==
  /\ \A i \in 1..n : P[i] \in Seq(Nat) /\ Ascending(P[i])
  /\ \A i, j \in 1..n : i < j => AllBefore(P[i], P[j])
Cargo(P, n) == UNION {ToSet(P[i]) : i \in 1..n}
Accounted(P, n, gone, top) ==
  Train(P, n) /\ Cargo(P, n) \cup gone = 1..top /\ Cargo(P, n) \cap gone = {}

\* Numbers at the head of a part, u, go on to the end of the next one; v stays.
Shifts(P, Q, n, k, l, u, v) ==
  /\ k \in 1..n /\ l \in 1..n /\ l = k + 1 /\ u \in Seq(Nat) /\ v \in Seq(Nat)
  /\ P[l] = u \o v /\ Q[k] = P[k] \o u /\ Q[l] = v
  /\ \A i \in 1..n : i # k /\ i # l => Q[i] = P[i]

LEMMA TrainMoves ==
  ASSUME NEW n \in Nat, NEW P, NEW Q, NEW gone, NEW top, Accounted(P, n, gone, top),
         NEW k, NEW l, NEW u, NEW v, Shifts(P, Q, n, k, l, u, v)
  PROVE  Accounted(Q, n, gone, top)
<1>0. /\ k \in 1..n /\ l \in 1..n /\ l = k + 1 /\ u \in Seq(Nat) /\ v \in Seq(Nat)
      /\ P[l] = u \o v /\ Q[k] = P[k] \o u /\ Q[l] = v
      /\ \A i \in 1..n : i # k /\ i # l => Q[i] = P[i]
  BY DEF Shifts
<1>1. /\ \A i \in 1..n : P[i] \in Seq(Nat) /\ Ascending(P[i])
      /\ \A i, j \in 1..n : i < j => AllBefore(P[i], P[j])
      /\ k \in Nat /\ k < l
  BY <1>0 DEF Accounted, Train
<1>2. ToSet(P[l]) = ToSet(u) \cup ToSet(v) /\ Ascending(u) /\ Ascending(v) /\ AllBefore(u, v)
  <2>1. Ascending(u \o v) /\ ToSet(P[l]) = ToSet(u \o v)
    BY <1>0, <1>1
  <2> QED BY <1>0, <2>1, ConcatAscends
<1>3. AllBefore(P[k], P[l]) /\ AllBefore(P[k], u)
  <2>1. AllBefore(P[k], P[l])
    BY <1>0, <1>1
  <2> QED BY <1>0, <1>2, <2>1 DEF AllBefore
<1>4. Q[k] \in Seq(Nat) /\ Ascending(Q[k]) /\ ToSet(Q[k]) = ToSet(P[k]) \cup ToSet(u)
  BY <1>0, <1>1, <1>2, <1>3, ConcatAscends
<1>5. \A i \in 1..n : Q[i] \in Seq(Nat) /\ Ascending(Q[i])
  BY <1>0, <1>1, <1>2, <1>4
<1>6. ASSUME NEW i \in 1..n, NEW j \in 1..n, i < j PROVE AllBefore(Q[i], Q[j])
  <2>1. CASE i = k /\ j = l
    BY <1>0, <1>2, <1>3, <1>4, <2>1 DEF AllBefore
  <2>2. CASE i = k /\ j # l
    <3>1. j \in Nat /\ k < j /\ l < j /\ j # k /\ j # l
      BY <1>0, <1>6, <2>2
    <3>2. AllBefore(P[k], P[j]) /\ AllBefore(P[l], P[j]) /\ Q[j] = P[j]
      BY <1>0, <1>1, <3>1
    <3> QED BY <1>0, <1>2, <1>4, <2>2, <3>2 DEF AllBefore
  <2>3. CASE i = l
    <3>1. l < j /\ j # k /\ j # l
      BY <1>0, <1>6, <2>3
    <3>2. AllBefore(P[l], P[j]) /\ Q[j] = P[j]
      BY <1>0, <1>1, <3>1
    <3> QED BY <1>0, <1>2, <2>3, <3>2 DEF AllBefore
  <2>4. CASE i # k /\ i # l /\ j = k
    <3>1. i < k /\ i < l
      BY <1>0, <1>6, <2>4
    <3>2. AllBefore(P[i], P[k]) /\ AllBefore(P[i], P[l]) /\ Q[i] = P[i]
      BY <1>0, <1>1, <2>4, <3>1
    <3> QED BY <1>0, <1>2, <1>4, <2>4, <3>2 DEF AllBefore
  <2>5. CASE i # k /\ i # l /\ j = l
    <3>1. AllBefore(P[i], P[l]) /\ Q[i] = P[i]
      BY <1>0, <1>1, <1>6, <2>5
    <3> QED BY <1>0, <1>2, <2>5, <3>1 DEF AllBefore
  <2>6. CASE i # k /\ i # l /\ j # k /\ j # l
    BY <1>0, <1>1, <1>6, <2>6
  <2> QED BY <2>1, <2>2, <2>3, <2>4, <2>5, <2>6
<1>7. Cargo(Q, n) = Cargo(P, n)
  <2>1. ASSUME NEW x PROVE (\E i \in 1..n : x \in ToSet(Q[i])) <=> \E i \in 1..n : x \in ToSet(P[i])
    BY <1>0, <1>2, <1>4
  <2> QED BY <2>1 DEF Cargo
<1> QED BY <1>5, <1>6, <1>7 DEF Accounted, Train

\* A part is emptied, and what it had is gone.
LEMMA TrainDrops ==
  ASSUME NEW n \in Nat, NEW P, NEW Q, NEW gone, NEW top, Accounted(P, n, gone, top),
         NEW k \in 1..n, Q[k] = << >>, \A i \in 1..n : i # k => Q[i] = P[i]
  PROVE  Accounted(Q, n, gone \cup ToSet(P[k]), top)
<1>1. /\ \A i \in 1..n : P[i] \in Seq(Nat) /\ Ascending(P[i])
      /\ \A i, j \in 1..n : i < j => AllBefore(P[i], P[j])
  BY DEF Accounted, Train
<1>2. << >> \in Seq(Nat) /\ ToSet(<< >>) = {} /\ Ascending(<< >>)
  BY DEF ToSet, Ascending
<1>3. \A i \in 1..n : Q[i] \in Seq(Nat) /\ Ascending(Q[i])
  BY <1>1, <1>2
<1>4. \A i, j \in 1..n : i < j => AllBefore(Q[i], Q[j])
  BY <1>1, <1>2 DEF AllBefore
<1>5. ASSUME NEW i \in 1..n, i # k PROVE ToSet(P[i]) \cap ToSet(P[k]) = {}
  <2>1. i < k \/ k < i
    BY <1>5
  <2>2. AllBefore(P[i], P[k]) \/ AllBefore(P[k], P[i])
    BY <1>1, <2>1
  <2>3. \A x \in ToSet(P[i]) : x \in Nat
    BY <1>1 DEF ToSet
  <2> QED BY <2>2, <2>3 DEF AllBefore
<1>6. Cargo(P, n) = Cargo(Q, n) \cup ToSet(P[k]) /\ Cargo(Q, n) \cap ToSet(P[k]) = {}
  <2>1. ASSUME NEW x PROVE x \in Cargo(P, n) <=> x \in Cargo(Q, n) \/ x \in ToSet(P[k])
    BY <1>2 DEF Cargo
  <2>2. ASSUME NEW x \in Cargo(Q, n) PROVE x \notin ToSet(P[k])
    BY <1>2, <1>5 DEF Cargo
  <2> QED BY <2>1, <2>2
<1> QED BY <1>3, <1>4, <1>6 DEF Accounted, Train

\* New numbers come into the last part, which is empty ...
LEMMA TrainGrows ==
  ASSUME NEW n \in Nat \ {0}, NEW P, NEW Q, NEW gone, NEW top \in Nat, NEW m \in Nat,
         Accounted(P, n, gone, top), P[n] = << >>, Q[n] = [i \in 1..m |-> top + i],
         \A i \in 1..n : i # n => Q[i] = P[i]
  PROVE  Accounted(Q, n, gone, top + m)
<1>1. /\ \A i \in 1..n : P[i] \in Seq(Nat) /\ Ascending(P[i])
      /\ \A i, j \in 1..n : i < j => AllBefore(P[i], P[j])
      /\ Cargo(P, n) \cup gone = 1..top /\ Cargo(P, n) \cap gone = {}
  BY DEF Accounted, Train
<1>2. PICK s : s = [i \in 1..m |-> top + i]
  OBVIOUS
<1>3. s \in Seq(Nat) /\ DOMAIN s = 1..m /\ \A i \in 1..m : s[i] = top + i
  <2>1. s \in [1..m -> Nat] /\ DOMAIN s = 1..m /\ \A i \in 1..m : s[i] = top + i
    BY <1>2
  <2> QED BY <2>1, IsASeq
<1>4. Ascending(s)
  BY <1>3 DEF Ascending
<1>5. ToSet(s) = (top + 1)..(top + m)
  <2>1. \A x \in (top + 1)..(top + m) : x - top \in 1..m /\ top + (x - top) = x
    OBVIOUS
  <2>2. \A i \in 1..m : top + i \in (top + 1)..(top + m)
    OBVIOUS
  <2>3. ToSet(s) = {top + i : i \in 1..m}
    BY <1>3 DEF ToSet
  <2> QED BY <2>1, <2>2, <2>3
<1>6. \A i \in 1..n : Q[i] \in Seq(Nat) /\ Ascending(Q[i])
  BY <1>1, <1>2, <1>3, <1>4
<1>7. ASSUME NEW i \in 1..n, NEW j \in 1..n, i < j PROVE AllBefore(Q[i], Q[j])
  <2>1. CASE j # n
    BY <1>1, <1>7, <2>1
  <2>2. CASE j = n
    <3>1. Q[i] = P[i] /\ ToSet(P[i]) \subseteq 1..top
      BY <1>1, <1>7, <2>2 DEF Cargo
    <3> QED BY <1>2, <1>5, <2>2, <3>1 DEF AllBefore
  <2> QED BY <2>1, <2>2
<1>8. Cargo(Q, n) = Cargo(P, n) \cup (top + 1)..(top + m)
  <2>1. ToSet(P[n]) = {} /\ ToSet(Q[n]) = (top + 1)..(top + m)
    <3>1. ToSet(<< >>) = {}
      BY DEF ToSet
    <3> QED BY <1>2, <1>5, <3>1
  <2>2. ASSUME NEW x PROVE x \in Cargo(Q, n) <=> x \in Cargo(P, n) \/ x \in (top + 1)..(top + m)
    BY <2>1 DEF Cargo
  <2> QED BY <2>2
<1>9. 1..(top + m) = 1..top \cup (top + 1)..(top + m) /\ (1..top) \cap (top + 1)..(top + m) = {}
  OBVIOUS
<1>10. Cargo(Q, n) \cup gone = 1..(top + m) /\ Cargo(Q, n) \cap gone = {}
  BY <1>1, <1>8, <1>9
<1> QED BY <1>6, <1>7, <1>10 DEF Accounted, Train

\* ... or one is gone at once.
LEMMA TrainMisses ==
  ASSUME NEW n \in Nat, NEW P, NEW Q, NEW gone, NEW top \in Nat,
         Accounted(P, n, gone, top), \A i \in 1..n : Q[i] = P[i]
  PROVE  Accounted(Q, n, gone, top) /\ Accounted(Q, n, gone \cup {top + 1}, top + 1)
<1>1. Train(Q, n)
  BY DEF Accounted, Train
<1>2. Cargo(Q, n) = Cargo(P, n)
  <2>1. ASSUME NEW x PROVE x \in Cargo(Q, n) <=> x \in Cargo(P, n)
    BY DEF Cargo
  <2> QED BY <2>1
<1>3. 1..(top + 1) = 1..top \cup {top + 1} /\ top + 1 \notin 1..top
  OBVIOUS
<1>4. Cargo(P, n) \cup gone = 1..top /\ Cargo(P, n) \cap gone = {}
  BY DEF Accounted
<1> QED BY <1>1, <1>2, <1>3, <1>4 DEF Accounted

\* The first number of a part moves, or all of them do.
HeadShifts(P, Q, n, k, l) ==
  /\ k \in 1..n /\ l \in 1..n /\ l = k + 1 /\ P[l] # << >>
  /\ Q[k] = Append(P[k], Head(P[l])) /\ Q[l] = Tail(P[l])
  /\ \A i \in 1..n : i # k /\ i # l => Q[i] = P[i]
PartShifts(P, Q, n, k, l) ==
  /\ k \in 1..n /\ l \in 1..n /\ l = k + 1
  /\ Q[k] = P[k] \o P[l] \/ (P[k] = << >> /\ Q[k] = P[l])
  /\ Q[l] = << >>
  /\ \A i \in 1..n : i # k /\ i # l => Q[i] = P[i]

LEMMA TrainHeadMoves ==
  ASSUME NEW n \in Nat, NEW P, NEW Q, NEW gone, NEW top, Accounted(P, n, gone, top),
         NEW k, NEW l, HeadShifts(P, Q, n, k, l)
  PROVE  Accounted(Q, n, gone, top)
<1>0. /\ k \in 1..n /\ l \in 1..n /\ l = k + 1 /\ P[l] # << >>
      /\ Q[k] = Append(P[k], Head(P[l])) /\ Q[l] = Tail(P[l])
      /\ \A i \in 1..n : i # k /\ i # l => Q[i] = P[i]
  BY DEF HeadShifts
<1>1. P[k] \in Seq(Nat) /\ P[l] \in Seq(Nat)
  BY <1>0 DEF Accounted, Train
<1>2. PICK s, t : s = P[k] /\ t = P[l]
  OBVIOUS
<1>3. s \in Seq(Nat) /\ t \in Seq(Nat) /\ t # << >>
  BY ONLY <1>0, <1>1, <1>2
<1>4. PICK u, v : u = << Head(t) >> /\ v = Tail(t)
  OBVIOUS
<1>5. u \in Seq(Nat) /\ v \in Seq(Nat) /\ Append(s, Head(t)) = s \o u
  <2>1. Head(t) \in Nat /\ Tail(t) \in Seq(Nat)
    BY ONLY <1>3
  <2>2. Append(s, Head(t)) = s \o << Head(t) >>
    BY ONLY <1>3, <2>1, AppendIsConcat
  <2> QED BY ONLY <1>4, <2>1, <2>2
<1>6. t = u \o v
  <2>1. /\ Len(t) \in Nat \ {0} /\ Head(t) = t[1] /\ Len(Tail(t)) = Len(t) - 1
        /\ \A i \in 1..Len(t) - 1 : Tail(t)[i] = t[i + 1]
    BY ONLY <1>3
  <2>2. Len(u) = 1 /\ u[1] = t[1] /\ Len(v) = Len(t) - 1 /\ \A i \in 1..Len(t) - 1 : v[i] = t[i + 1]
    BY ONLY <1>4, <2>1
  <2>3. /\ u \o v \in Seq(Nat) /\ Len(u \o v) = Len(u) + Len(v)
        /\ \A i \in 1..Len(u) + Len(v) : (u \o v)[i] = IF i <= Len(u) THEN u[i] ELSE v[i - Len(u)]
    BY ONLY <1>5, ConcatProperties
  <2>4. PICK r, m : r = u \o v /\ m = Len(t)
    OBVIOUS
  <2>5. r \in Seq(Nat) /\ Len(r) = m /\ m \in Nat \ {0}
    <3>1. Len(u \o v) = 1 + (Len(t) - 1) /\ Len(t) \in Nat \ {0}
      BY ONLY <2>1, <2>2, <2>3
    <3> QED BY ONLY <2>3, <2>4, <3>1
  <2>6. ASSUME NEW i \in 1..m PROVE r[i] = t[i]
    <3>1. CASE i = 1
      BY ONLY <2>1, <2>2, <2>3, <2>4, <3>1
    <3>2. CASE i # 1
      <4>1. i - 1 \in 1..m - 1 /\ (i - 1) + 1 = i
        BY ONLY <2>5, <3>2, i \in 1..m
      <4>2. v[i - 1] = t[i]
        BY ONLY <2>2, <2>4, <4>1
      <4>3. r[i] = v[i - 1]
        BY ONLY <2>2, <2>3, <2>4, <2>5, <3>2, i \in 1..m
      <4> QED BY ONLY <4>2, <4>3
    <3> QED BY <3>1, <3>2
  <2>7. Len(r) = Len(t) /\ \A i \in 1..Len(r) : r[i] = t[i]
    BY ONLY <2>4, <2>5, <2>6
  <2>8. r = t
    BY ONLY <1>3, <2>5, <2>7, SeqEqual, Zenon
  <2> QED BY ONLY <2>4, <2>8
<1>7. P[l] = u \o v /\ Q[k] = P[k] \o u /\ Q[l] = v
  BY ONLY <1>2, <1>4, <1>5, <1>6, <1>0
<1>8. \A i \in 1..n : i # k /\ i # l => Q[i] = P[i]
  BY <1>0
<1>9. Shifts(P, Q, n, k, l, u, v)
  BY <1>0, <1>5, <1>7, <1>8 DEF Shifts
<1> QED BY <1>9, TrainMoves

LEMMA TrainPartMoves ==
  ASSUME NEW n \in Nat, NEW P, NEW Q, NEW gone, NEW top, Accounted(P, n, gone, top),
         NEW k, NEW l, PartShifts(P, Q, n, k, l)
  PROVE  Accounted(Q, n, gone, top)
<1>0. /\ k \in 1..n /\ l \in 1..n /\ l = k + 1
      /\ Q[k] = P[k] \o P[l] \/ (P[k] = << >> /\ Q[k] = P[l])
      /\ Q[l] = << >>
      /\ \A i \in 1..n : i # k /\ i # l => Q[i] = P[i]
  BY DEF PartShifts
<1>1. P[k] \in Seq(Nat) /\ P[l] \in Seq(Nat) /\ << >> \in Seq(Nat)
  BY <1>0 DEF Accounted, Train
<1>2. P[l] \o << >> = P[l] /\ << >> \o P[l] = P[l]
  BY ONLY <1>1, ConcatEmptySeq
<1>3. Q[k] = P[k] \o P[l]
  BY <1>0, <1>2
<1>4. PICK v : v = << >>
  OBVIOUS
<1>5. P[l] = P[l] \o v /\ Q[l] = v /\ v \in Seq(Nat)
  BY <1>0, <1>1, <1>2, <1>4
<1>6. \A i \in 1..n : i # k /\ i # l => Q[i] = P[i]
  BY <1>0
<1>7. Shifts(P, Q, n, k, l, P[l], v)
  BY <1>0, <1>1, <1>3, <1>5, <1>6 DEF Shifts
<1> QED BY <1>7, TrainMoves

\* The first k parts of a train, one behind the other.
Joined(P, k, s) ==
  s \in Seq(Nat) /\ Ascending(s) /\ \A x : x \in ToSet(s) <=> \E i \in 1..k : x \in ToSet(P[i])

LEMMA TrainFirst ==
  ASSUME NEW n \in Nat \ {0}, NEW P, Train(P, n)
  PROVE  Joined(P, 1, P[1])
BY DEF Train, Joined

LEMMA TrainJoins ==
  ASSUME NEW n \in Nat, NEW P, Train(P, n), NEW k \in 1..n, NEW l \in 1..n, l = k + 1,
         NEW s, Joined(P, k, s)
  PROVE  Joined(P, l, s \o P[l])
<1>1. P[l] \in Seq(Nat) /\ Ascending(P[l]) /\ s \in Seq(Nat) /\ Ascending(s)
  BY DEF Train, Joined
<1>2. \A i \in 1..k : i \in 1..n /\ i < l
  OBVIOUS
<1>3. \A i \in 1..k : AllBefore(P[i], P[l])
  BY <1>2 DEF Train
<1>4. AllBefore(s, P[l])
  BY <1>3 DEF AllBefore, Joined
<1>5. /\ s \o P[l] \in Seq(Nat) /\ Ascending(s \o P[l])
      /\ ToSet(s \o P[l]) = ToSet(s) \cup ToSet(P[l])
  BY <1>1, <1>4, ConcatAscends
<1>6. \A i : i \in 1..l <=> i \in 1..k \/ i = l
  OBVIOUS
<1>7. ASSUME NEW x PROVE x \in ToSet(s \o P[l]) <=> \E i \in 1..l : x \in ToSet(P[i])
  BY <1>5, <1>6 DEF Joined
<1> QED BY <1>5, <1>7 DEF Joined
=============================================================================
