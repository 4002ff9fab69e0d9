----------------------------- MODULE TcpProofs -----------------------------
(***************************************************************************)
(* Proofs about Tcp: what the application is told (Callbacks), the close   *)
(* that is never turned into a reset (GracefulClose), and the send queues  *)
(* that lose nothing (SendQueueWhole).                                     *)
(***************************************************************************)
EXTENDS Tcp, FiniteSetTheorems, FunctionTheorems, SequenceTheorems, WellFoundedInduction, TLAPS

-----------------------------------------------------------------------------
(* Lists.                                                                  *)

\* A set of numbers has a least one.
LEMMA LeastOf ==
    ASSUME NEW S, S \subseteq Nat, S # {}
    PROVE  \E x \in S : \A y \in S : x <= y
<1> DEFINE R == OpToRel(<, Nat)
<1>1. IsWellFoundedOn(R, Nat)
  BY NatLessThanWellFounded
<1>2. R = {ss \in Nat \X Nat : ss[1] < ss[2]}
  BY DEF OpToRel
<1> HIDE DEF R
<1>3. PICK x \in S : \A y \in S : ~(<<y, x>> \in R)
  BY <1>1, WFMin
<1>4. ASSUME NEW y \in S PROVE x <= y
  <2>1. <<y, x>> \in Nat \X Nat /\ y \in Nat /\ x \in Nat
    OBVIOUS
  <2>2. ~(y < x)
    BY <1>2, <1>3, <2>1
  <2>3. QED
    BY <2>1, <2>2
<1>5. QED
  BY <1>4

\* The walk along a list ends before the first index that is not in the set.
LEMMA LeadingOf ==
    ASSUME NEW n \in Nat, NEW S, S \subseteq 1 .. n
    PROVE  /\ Leading(S) \in 0 .. n
           /\ \A k \in 1 .. Leading(S) : k \in S
           /\ Leading(S) + 1 \notin S
<1> DEFINE Out == {k \in 1 .. n + 1 : k \notin S}
<1>1. n + 1 \in Out /\ Out \subseteq Nat
  OBVIOUS
<1>2. PICK m \in Out : \A y \in Out : m <= y
  BY <1>1, LeastOf
<1>3. m \in 1 .. n + 1 /\ m \notin S
  OBVIOUS
<1>4. \A k \in 1 .. m - 1 : k \in S
  <2> TAKE k \in 1 .. m - 1
  <2>1. k \in 1 .. n + 1 /\ ~(m <= k)
    BY <1>3
  <2>2. QED
    BY <2>1, <1>2
<1>5. {k \in S : 1 .. k \subseteq S} = 1 .. m - 1
  <2>1. ASSUME NEW k \in S, 1 .. k \subseteq S PROVE k \in 1 .. m - 1
    <3>1. k \in 1 .. n
      OBVIOUS
    <3>2. ~(m <= k)
      BY <2>1, <3>1, <1>3
    <3>3. QED
      BY <3>1, <3>2, <1>3
  <2>2. ASSUME NEW k \in 1 .. m - 1 PROVE k \in S /\ 1 .. k \subseteq S
    BY <1>3, <1>4
  <2>3. QED
    BY <2>1, <2>2
<1>6. Cardinality(1 .. m - 1) = m - 1
  <2>1. 1 \in Int /\ m - 1 \in Int
    BY <1>3
  <2>2. Cardinality(1 .. m - 1) = IF 1 > m - 1 THEN 0 ELSE (m - 1) - 1 + 1
    BY <2>1, FS_Interval
  <2>3. QED
    BY <2>2, <1>3
<1>7. Leading(S) = m - 1
  BY <1>5, <1>6 DEF Leading
<1>8. QED
  BY <1>3, <1>4, <1>7

-----------------------------------------------------------------------------
(* The queue of segments that arrived out of order.                        *)

Segments == [seq : Nat, len : Nat, syn : BOOLEAN, fin : BOOLEAN]

\* Parts of the answer of A bytes, whose FIN comes after the last of them.
Streamed(A) ==
    {t \in Segments : t.seq >= 1 /\ ~t.syn /\ EndOf(t) <= A + 1 /\ (t.fin => EndOf(t) = A + 1)}

Precedes(a, b) == a.seq < b.seq /\ EndOf(a) <= b.seq /\ ~a.fin
InOrder(q) == \A i, j \in 1 .. Len(q) : i < j => Precedes(q[i], q[j])

Ahead(q, r) == \A i \in 1 .. Len(q) : \A j \in 1 .. Len(r) : Precedes(q[i], r[j])

\* A queue of parts of the answer behind number n: in order, without overlap, and
\* with a FIN on the last segment at most.
Queued(q, n, A) ==
    /\ q \in Seq(Streamed(A)) /\ InOrder(q)
    /\ \A k \in 1 .. Len(q) : q[k].seq > n

LEMMA SegmentFields ==
    ASSUME NEW a \in Nat, NEW n \in Nat, NEW b \in BOOLEAN, NEW c \in BOOLEAN
    PROVE  LET t == Segment(a, n, b, c)
           IN  t \in Segments /\ t.seq = a /\ t.len = n /\ t.syn = b /\ t.fin = c
BY DEF Segment, Segments

LEMMA SegmentTypes ==
    ASSUME NEW t \in Segments
    PROVE  /\ t.seq \in Nat /\ t.len \in Nat /\ t.syn \in BOOLEAN /\ t.fin \in BOOLEAN
           /\ t = Segment(t.seq, t.len, t.syn, t.fin)
           /\ EndOf(t) \in Nat /\ EndOf(t) = t.seq + t.len
           /\ After(t) \in Nat
           /\ After(t) = EndOf(t) + (IF t.syn THEN 1 ELSE 0) + (IF t.fin THEN 1 ELSE 0)
           /\ TCP_TCPLEN(t) \in Nat /\ TCP_TCPLEN(t) = After(t) - t.seq
<1>1. t.seq \in Nat /\ t.len \in Nat /\ t.syn \in BOOLEAN /\ t.fin \in BOOLEAN
  BY DEF Segments
<1>2. t = Segment(t.seq, t.len, t.syn, t.fin)
  BY DEF Segment, Segments
<1>3. QED
  BY <1>1, <1>2 DEF EndOf, After, TCP_TCPLEN

LEMMA StreamedTypes ==
    ASSUME NEW A \in Nat, NEW t \in Streamed(A)
    PROVE  /\ t \in Segments /\ t.seq \in Nat /\ t.len \in Nat /\ t.syn = FALSE /\ t.fin \in BOOLEAN
           /\ t.seq >= 1 /\ EndOf(t) \in Nat /\ EndOf(t) = t.seq + t.len /\ t.seq <= EndOf(t)
           /\ EndOf(t) <= A + 1 /\ (t.fin => EndOf(t) = A + 1)
           /\ After(t) = EndOf(t) + (IF t.fin THEN 1 ELSE 0) /\ (~t.fin => After(t) = EndOf(t))
<1>1. t \in Segments /\ t.seq >= 1 /\ ~t.syn /\ EndOf(t) <= A + 1 /\ (t.fin => EndOf(t) = A + 1)
  BY DEF Streamed
<1>2. /\ t.seq \in Nat /\ t.len \in Nat /\ t.syn = FALSE /\ t.fin \in BOOLEAN
      /\ EndOf(t) \in Nat /\ EndOf(t) = t.seq + t.len
      /\ After(t) = EndOf(t) + (IF t.syn THEN 1 ELSE 0) + (IF t.fin THEN 1 ELSE 0)
  BY <1>1, SegmentTypes
<1>3. QED
  BY <1>1, <1>2

\* Two queues one before the other are a queue.
LEMMA Joined ==
    ASSUME NEW A, NEW q, NEW r, q \in Seq(Streamed(A)), r \in Seq(Streamed(A)), InOrder(q), InOrder(r), Ahead(q, r)
    PROVE  /\ q \o r \in Seq(Streamed(A)) /\ InOrder(q \o r) /\ Len(q \o r) = Len(q) + Len(r)
           /\ \A i \in 1 .. Len(q) + Len(r) : (q \o r)[i] = IF i <= Len(q) THEN q[i] ELSE r[i - Len(q)]
<1>1. /\ q \o r \in Seq(Streamed(A)) /\ Len(q \o r) = Len(q) + Len(r)
      /\ \A i \in 1 .. Len(q) + Len(r) : (q \o r)[i] = IF i <= Len(q) THEN q[i] ELSE r[i - Len(q)]
  BY ConcatProperties
<1>2. Len(q) \in Nat /\ Len(r) \in Nat
  BY LenProperties
<1>3. ASSUME NEW i \in 1 .. Len(q) + Len(r), NEW j \in 1 .. Len(q) + Len(r), i < j
      PROVE  Precedes((q \o r)[i], (q \o r)[j])
  <2>1. CASE j <= Len(q)
    <3>1. (q \o r)[i] = q[i] /\ (q \o r)[j] = q[j] /\ i \in 1 .. Len(q) /\ j \in 1 .. Len(q)
      BY <1>1, <1>2, <1>3, <2>1
    <3>2. QED
      BY <3>1, <1>3 DEF InOrder
  <2>2. CASE ~(i <= Len(q))
    <3>1. /\ (q \o r)[i] = r[i - Len(q)] /\ (q \o r)[j] = r[j - Len(q)]
          /\ i - Len(q) \in 1 .. Len(r) /\ j - Len(q) \in 1 .. Len(r) /\ i - Len(q) < j - Len(q)
      BY <1>1, <1>2, <1>3, <2>2
    <3>2. QED
      BY <3>1 DEF InOrder
  <2>3. CASE i <= Len(q) /\ ~(j <= Len(q))
    <3>1. /\ (q \o r)[i] = q[i] /\ (q \o r)[j] = r[j - Len(q)]
          /\ i \in 1 .. Len(q) /\ j - Len(q) \in 1 .. Len(r)
      BY <1>1, <1>2, <1>3, <2>3
    <3>2. QED
      BY <3>1 DEF Ahead
  <2>4. QED
    BY <2>1, <2>2, <2>3, <1>2
<1>4. InOrder(q \o r)
  BY <1>1, <1>3 DEF InOrder
<1>5. QED
  BY <1>1, <1>4

\* The first segments of a queue, and the others.
LEMMA FirstOf ==
    ASSUME NEW A, NEW q, q \in Seq(Streamed(A)), InOrder(q), NEW n \in 0 .. Len(q)
    PROVE  /\ SubSeq(q, 1, n) \in Seq(Streamed(A)) /\ InOrder(SubSeq(q, 1, n))
           /\ Len(SubSeq(q, 1, n)) = n
           /\ \A i \in 1 .. n : SubSeq(q, 1, n)[i] = q[i] /\ i \in 1 .. Len(q)
<1>1. Len(q) \in Nat /\ \A i \in 1 .. Len(q) : q[i] \in Streamed(A)
  BY LenProperties, ElementOfSeq
<1>2. n \in Int /\ 1 \in Int /\ \A i \in 1 .. n : i \in 1 .. Len(q)
  BY <1>1
<1>3. PICK f : f = SubSeq(q, 1, n)
  OBVIOUS
<1>4. f \in Seq(Streamed(A)) /\ Len(f) = n /\ \A i \in 1 .. n : f[i] = q[i]
  <2>1. /\ f \in Seq(Streamed(A)) /\ Len(f) = IF 1 <= n THEN n - 1 + 1 ELSE 0
        /\ \A i \in 1 .. n - 1 + 1 : f[i] = q[1 + i - 1]
    BY <1>1, <1>2, <1>3, SubSeqProperties
  <2>2. QED
    BY <2>1, <1>2
<1>5. InOrder(f)
  BY <1>2, <1>4 DEF InOrder
<1>6. QED
  BY <1>2, <1>3, <1>4, <1>5

LEMMA RestOf ==
    ASSUME NEW A, NEW q, q \in Seq(Streamed(A)), InOrder(q), NEW n \in 0 .. Len(q)
    PROVE  /\ SubSeq(q, n + 1, Len(q)) \in Seq(Streamed(A)) /\ InOrder(SubSeq(q, n + 1, Len(q)))
           /\ Len(SubSeq(q, n + 1, Len(q))) = Len(q) - n
           /\ \A i \in 1 .. Len(q) - n : SubSeq(q, n + 1, Len(q))[i] = q[n + i] /\ n + i \in 1 .. Len(q)
<1>1. Len(q) \in Nat /\ \A i \in 1 .. Len(q) : q[i] \in Streamed(A)
  BY LenProperties, ElementOfSeq
<1>2. PICK m \in Int : m = n + 1
  BY <1>1
<1>3. PICK h \in Int : h = Len(q)
  BY <1>1
<1>4. \A i \in m .. h : i \in 1 .. Len(q)
  BY <1>1, <1>2, <1>3
<1>5. PICK f : f = SubSeq(q, m, h)
  OBVIOUS
<1>6. f \in Seq(Streamed(A)) /\ Len(f) = Len(q) - n /\ \A i \in 1 .. Len(q) - n : f[i] = q[n + i]
  <2>1. /\ f \in Seq(Streamed(A)) /\ Len(f) = IF m <= h THEN h - m + 1 ELSE 0
        /\ \A i \in 1 .. h - m + 1 : f[i] = q[m + i - 1]
    BY <1>1, <1>4, <1>5, SubSeqProperties
  <2>2. QED
    BY <2>1, <1>1, <1>2, <1>3
<1>7. \A i \in 1 .. Len(q) - n : n + i \in 1 .. Len(q)
  BY <1>1
<1>8. ASSUME NEW i \in 1 .. Len(f), NEW j \in 1 .. Len(f), i < j PROVE Precedes(f[i], f[j])
  <2>1. i \in 1 .. Len(q) - n /\ j \in 1 .. Len(q) - n /\ n + i < n + j
    BY <1>1, <1>6, <1>8
  <2>2. Precedes(q[n + i], q[n + j])
    BY <2>1, <1>7 DEF InOrder
  <2>3. QED
    BY <2>1, <2>2, <1>6
<1>9. InOrder(f)
  BY <1>8 DEF InOrder
<1>10. QED
  BY <1>2, <1>3, <1>5, <1>6, <1>7, <1>9

LEMMA Single ==
    ASSUME NEW S, NEW c \in S
    PROVE  <<c>> \in Seq(S) /\ Len(<<c>>) = 1 /\ <<c>>[1] = c
OBVIOUS

\* A segment cut where another begins.
LEMMA CutSegment ==
    ASSUME NEW A \in Nat, NEW t \in Streamed(A), NEW n \in Nat, t.seq <= n, ~t.fin
    PROVE  /\ CutAt(t, n) \in Streamed(A) /\ CutAt(t, n).seq = t.seq /\ ~CutAt(t, n).fin
           /\ EndOf(CutAt(t, n)) <= n /\ EndOf(CutAt(t, n)) <= EndOf(t)
<1>1. t \in Segments /\ t.seq >= 1 /\ ~t.syn /\ EndOf(t) <= A + 1
  BY DEF Streamed
<1>2. /\ t.seq \in Nat /\ t.len \in Nat /\ t.syn \in BOOLEAN /\ t.fin \in BOOLEAN
      /\ EndOf(t) \in Nat /\ EndOf(t) = t.seq + t.len
  BY <1>1, SegmentTypes
<1> DEFINE m == Smaller(t.len, n - t.seq)
           u == Segment(t.seq, m, t.syn, t.fin)
<1>3. m \in Nat /\ m <= t.len /\ t.seq + m <= n
  BY <1>2 DEF Smaller
<1> HIDE DEF m
<1>4. u \in Segments /\ u.seq = t.seq /\ u.len = m /\ u.syn = t.syn /\ u.fin = t.fin
  BY <1>2, <1>3, SegmentFields
<1>5. CutAt(t, n) = u
  BY DEF CutAt, m
<1> HIDE DEF u
<1>6. EndOf(u) = t.seq + m
  BY <1>4 DEF EndOf
<1>7. u \in Streamed(A)
  BY <1>1, <1>2, <1>3, <1>4, <1>6 DEF Streamed
<1>8. QED
  BY <1>2, <1>3, <1>4, <1>5, <1>6, <1>7

\* A queue that is not empty, and begins at number n.
Begins(q, n, A) == q \in Seq(Streamed(A)) /\ InOrder(q) /\ Len(q) >= 1 /\ q[1].seq = n

\* A segment before the rest of a queue.
Leads(c, fin, rest, A) ==
    /\ c \in Streamed(A) /\ ~c.fin /\ fin \in BOOLEAN
    /\ rest \in Seq(Streamed(A)) /\ InOrder(rest) /\ \A k \in 1 .. Len(rest) : rest[k].seq > c.seq
    /\ rest # << >> => ~fin
    /\ fin => EndOf(c) = A + 1

LEMMA BeforeRest ==
    ASSUME NEW A \in Nat, NEW c, NEW fin, NEW rest, Leads(c, fin, rest, A)
    PROVE  Begins(Before(c, fin, rest), c.seq, A)
<1> USE DEF Leads
<1>1. c \in Segments /\ c.seq >= 1 /\ ~c.syn /\ EndOf(c) <= A + 1
  BY DEF Streamed
<1>2. /\ c.seq \in Nat /\ c.len \in Nat /\ c.syn \in BOOLEAN /\ c.syn = FALSE
      /\ EndOf(c) \in Nat /\ EndOf(c) = c.seq + c.len
  BY <1>1, SegmentTypes
<1>3. PICK d : d = Segment(c.seq, c.len, c.syn, fin)
  OBVIOUS
<1>4. d \in Segments /\ d.seq = c.seq /\ d.len = c.len /\ d.syn = FALSE /\ d.fin = fin
  BY <1>2, <1>3, SegmentFields
<1>5. EndOf(d) = EndOf(c)
  BY <1>4 DEF EndOf
<1>6. d \in Streamed(A)
  BY <1>1, <1>2, <1>4, <1>5 DEF Streamed
<1>7. PICK f : f = IF rest = << >> THEN d ELSE CutAt(d, rest[1].seq)
  OBVIOUS
<1>8. Before(c, fin, rest) = <<f>> \o rest
  BY <1>3, <1>7 DEF Before
<1>9. Len(rest) \in Nat /\ \A k \in 1 .. Len(rest) : rest[k] \in Streamed(A)
  BY LenProperties, ElementOfSeq
<1>10. /\ f \in Streamed(A) /\ f.seq = c.seq
       /\ \A k \in 1 .. Len(rest) : Precedes(f, rest[k])
  <2>1. CASE rest = << >>
    <3>1. f = d /\ Len(rest) = 0
      BY <2>1, <1>7, EmptySeq
    <3>2. QED
      BY <3>1, <1>4, <1>6
  <2>2. CASE rest # << >>
    <3>1. Len(rest) \in Nat \ {0}
      BY <2>2, EmptySeq
    <3>2. rest[1] \in Streamed(A) /\ rest[1].seq > c.seq
      BY <3>1, <1>9
    <3>3. rest[1] \in Segments
      BY <3>2 DEF Streamed
    <3>4. rest[1].seq \in Nat
      BY <3>3, SegmentTypes
    <3>5. PICK n \in Nat : n = rest[1].seq
      BY <3>4
    <3>6. f = CutAt(d, n) /\ d.seq <= n /\ ~d.fin /\ c.seq < n
      BY <2>2, <3>2, <3>5, <1>2, <1>4, <1>7
    <3>7. f \in Streamed(A) /\ f.seq = d.seq /\ ~f.fin /\ EndOf(f) <= n
      BY <3>6, <1>6, CutSegment
    <3>8. EndOf(f) \in Nat
      BY <3>7, SegmentTypes DEF Streamed
    <3>9. ASSUME NEW k \in 1 .. Len(rest) PROVE Precedes(f, rest[k])
      <4>1. rest[k] \in Segments /\ rest[k].seq \in Nat
        BY <1>9, SegmentTypes DEF Streamed
      <4>2. n <= rest[k].seq
        <5>1. CASE k = 1
          BY <5>1, <3>5
        <5>2. CASE k # 1
          <6>1. 1 \in 1 .. Len(rest) /\ 1 < k
            BY <5>2, <3>1
          <6>2. Precedes(rest[1], rest[k])
            BY <6>1 DEF InOrder
          <6>3. QED
            BY <6>2, <3>5, <4>1 DEF Precedes
        <5>3. QED
          BY <5>1, <5>2
      <4>3. QED
        BY <4>1, <4>2, <3>6, <3>7, <3>8, <1>2, <1>4 DEF Precedes
    <3>10. QED
      BY <3>7, <3>9, <1>4
  <2>3. QED
    BY <2>1, <2>2
<1>11. PICK g : g = <<f>>
  OBVIOUS
<1>12. g \in Seq(Streamed(A)) /\ Len(g) = 1 /\ g[1] = f
  BY <1>10, <1>11, Single
<1>13. InOrder(g) /\ Ahead(g, rest)
  BY <1>10, <1>12 DEF InOrder, Ahead
<1>14. /\ g \o rest \in Seq(Streamed(A)) /\ InOrder(g \o rest) /\ Len(g \o rest) = Len(g) + Len(rest)
       /\ \A i \in 1 .. Len(g) + Len(rest) : (g \o rest)[i] = IF i <= Len(g) THEN g[i] ELSE rest[i - Len(g)]
  <2>1. g \in Seq(Streamed(A)) /\ InOrder(g) /\ Ahead(g, rest)
    BY <1>12, <1>13
  <2>2. QED
    BY <2>1, Joined
<1>15. PICK b : b = Before(c, fin, rest)
  OBVIOUS
<1>16. /\ b \in Seq(Streamed(A)) /\ InOrder(b) /\ Len(b) = 1 + Len(rest)
       /\ \A i \in 1 .. 1 + Len(rest) : b[i] = IF i <= 1 THEN f ELSE rest[i - 1]
  BY <1>8, <1>9, <1>11, <1>12, <1>14, <1>15
<1>17. b[1] = f
  BY <1>16, <1>9
<1>18. QED
  BY <1>9, <1>10, <1>15, <1>16, <1>17 DEF Begins

\* The numbers of a queue's segments grow.
LEMMA Growing ==
    ASSUME NEW A \in Nat, NEW q, q \in Seq(Streamed(A)), InOrder(q), NEW i \in 1 .. Len(q), NEW j \in i .. Len(q)
    PROVE  /\ q[i] \in Streamed(A) /\ q[j] \in Streamed(A) /\ q[i].seq \in Nat /\ q[j].seq \in Nat
           /\ q[i].seq <= q[j].seq /\ (i # j => q[i].seq < q[j].seq /\ EndOf(q[i]) <= q[j].seq /\ ~q[i].fin)
           /\ EndOf(q[i]) \in Nat /\ EndOf(q[j]) \in Nat /\ EndOf(q[i]) <= EndOf(q[j])
<1>1. Len(q) \in Nat /\ j \in 1 .. Len(q) /\ i <= j
  BY LenProperties
<1>2. q[i] \in Streamed(A) /\ q[j] \in Streamed(A)
  BY <1>1, ElementOfSeq
<1>3. /\ q[i].seq \in Nat /\ q[j].seq \in Nat /\ EndOf(q[i]) \in Nat /\ EndOf(q[j]) \in Nat
      /\ q[j].seq <= EndOf(q[j])
  BY <1>2, StreamedTypes
<1>4. i # j => q[i].seq < q[j].seq /\ EndOf(q[i]) <= q[j].seq /\ ~q[i].fin
  <2>1. i # j => i < j
    BY <1>1
  <2>2. QED
    BY <2>1, <1>1 DEF InOrder, Precedes
<1>5. q[i].seq <= q[j].seq /\ EndOf(q[i]) <= EndOf(q[j])
  BY <1>3, <1>4
<1>6. QED
  BY <1>2, <1>3, <1>4, <1>5

\* A segment c before a queue that it overlaps.
Overlays(c, next) == next # << >> => next[1].seq > c.seq \/ Covers(c, next[1])

LEMMA Inserted ==
    ASSUME NEW A \in Nat, NEW c \in Streamed(A), NEW next \in Seq(Streamed(A)), InOrder(next),
           \A k \in 1 .. Len(next) : next[k].seq >= c.seq, Overlays(c, next)
    PROVE  Begins(tcp_oos_insert_segment(c, next), c.seq, A)
<1>1. c \in Segments /\ c.seq >= 1 /\ ~c.syn /\ EndOf(c) <= A + 1
  BY DEF Streamed
<1>2. c.seq \in Nat /\ EndOf(c) \in Nat /\ c.fin \in BOOLEAN
  BY <1>1, SegmentTypes
<1>3. Len(next) \in Nat /\ DOMAIN next = 1 .. Len(next) /\ \A k \in 1 .. Len(next) : next[k] \in Streamed(A)
  BY LenProperties, ElementOfSeq
<1> DEFINE S == {k \in DOMAIN next : Covers(c, next[k])}
           n == Leading(S)
           rest == SubSeq(next, n + 1, Len(next))
           fin == FinWithin(next, n)
           r == tcp_oos_insert_segment(c, next)
<1>4. /\ n \in 0 .. Len(next) /\ n + 1 \notin S
      /\ \A k \in 1 .. n : k \in S
  <2>1. S \subseteq 1 .. Len(next)
    BY <1>3
  <2> HIDE DEF S
  <2>2. QED
    BY <2>1, <1>3, LeadingOf
<1>5. r = IF c.fin THEN <<c>> ELSE Before(c, fin, rest)
  BY DEF tcp_oos_insert_segment
<1>6. n + 1 \in 1 .. Len(next) => ~Covers(c, next[n + 1])
  BY <1>3, <1>4
<1>7. \A k \in 1 .. n : Covers(c, next[k])
  BY <1>4
<1> HIDE DEF n, S, r
<1>8. CASE c.fin
  <2>1. <<c>> \in Seq(Streamed(A)) /\ Len(<<c>>) = 1 /\ <<c>>[1] = c
    BY Single
  <2>2. r = <<c>>
    BY <1>5, <1>8
  <2>3. r \in Seq(Streamed(A)) /\ Len(r) = 1 /\ r[1] = c
    BY <2>1, <2>2
  <2>4. InOrder(r)
    BY <2>3 DEF InOrder
  <2>5. QED
    BY <2>3, <2>4 DEF r, Begins
<1>9. CASE ~c.fin
  <2>1. /\ rest \in Seq(Streamed(A)) /\ InOrder(rest) /\ Len(rest) = Len(next) - n
        /\ \A i \in 1 .. Len(next) - n : rest[i] = next[n + i] /\ n + i \in 1 .. Len(next)
    BY <1>4, RestOf
  <2> HIDE DEF rest
  <2>2. \A k \in 1 .. Len(rest) : rest[k].seq > c.seq
    <3> TAKE k \in 1 .. Len(rest)
    <3>1. rest[k] = next[n + k] /\ n + k \in 1 .. Len(next) /\ 1 \in 1 .. Len(next)
          /\ n + k \in 1 .. Len(next) /\ n + k \in 1 .. Len(next) /\ k >= 1
      BY <2>1, <1>3, <1>4
    <3>2. next[1].seq \in Nat /\ next[n + k].seq \in Nat
          /\ next[1].seq <= next[n + k].seq /\ (n + k # 1 => next[1].seq < next[n + k].seq)
      <4>1. n + k \in 1 .. Len(next)
        BY <3>1
      <4>2. QED
        BY <3>1, <4>1, Growing
    <3>3. next[1].seq >= c.seq
      BY <3>1
    <3>4. n + k = 1 => next[1].seq > c.seq
      <4>1. n + k = 1 => n = 0
        BY <3>1, <1>4
      <4>2. n = 0 => ~Covers(c, next[1])
        BY <1>6, <3>1
      <4>3. next # << >>
        BY <3>1, EmptySeq
      <4>4. QED
        BY <4>1, <4>2, <4>3 DEF Overlays
    <3>5. QED
      BY <3>1, <3>2, <3>3, <3>4, <1>2
  <2>3. rest # << >> => ~fin
    <3>1. ASSUME rest # << >> PROVE n < Len(next)
      <4>1. Len(rest) \in Nat \ {0}
        BY <2>1, <3>1, EmptySeq
      <4>2. QED
        BY <4>1, <2>1, <1>3, <1>4
    <3>2. ASSUME n < Len(next), NEW k \in 1 .. n PROVE ~next[k].fin
      <4>1. \A a, b \in Nat : \A x \in 1 .. a : a < b => x \in 1 .. b /\ b \in x .. b /\ x # b
        OBVIOUS
      <4>2. n \in Nat
        BY <1>4
      <4>3. k \in 1 .. Len(next) /\ Len(next) \in k .. Len(next) /\ k # Len(next)
        BY <4>1, <4>2, <3>2, <1>3
      <4>4. QED
        BY <4>3, Growing
    <3>3. QED
      BY <3>1, <3>2 DEF FinWithin
  <2>4. fin => EndOf(c) = A + 1
    <3>1. ASSUME NEW k \in 1 .. n, next[k].fin PROVE EndOf(c) = A + 1
      <4>1. Covers(c, next[k]) /\ k \in 1 .. Len(next)
        BY <1>3, <1>4, <1>7
      <4>2. EndOf(next[k]) = A + 1
        BY <4>1, <1>3, <3>1 DEF Streamed
      <4>3. QED
        BY <4>1, <4>2, <1>1, <1>2 DEF Covers
    <3>2. QED
      BY <3>1 DEF FinWithin
  <2>5. fin \in BOOLEAN
    BY DEF FinWithin
  <2> HIDE DEF fin
  <2>6. Leads(c, fin, rest, A)
    BY <1>9, <2>1, <2>2, <2>3, <2>4, <2>5 DEF Leads
  <2>7. Begins(Before(c, fin, rest), c.seq, A)
    BY <2>6, BeforeRest
  <2>8. r = Before(c, fin, rest)
    BY <1>5, <1>9
  <2>9. QED
    BY <2>7, <2>8 DEF r
<1>10. QED
  BY <1>8, <1>9 DEF r

LEMMA AsSequence ==
    ASSUME NEW S, NEW n \in Nat, NEW f, f \in [1 .. n -> S]
    PROVE  f \in Seq(S) /\ Len(f) = n
<1>1. f \in Seq(S)
  BY SeqDef
<1>2. DOMAIN f = 1 .. n /\ DOMAIN f = 1 .. Len(f) /\ Len(f) \in Nat
  BY <1>1, LenProperties
<1>3. ASSUME Len(f) # n PROVE FALSE
  <2>1. \A a, b \in Nat : 1 .. a = 1 .. b => a = b
    <3> TAKE a, b \in Nat
    <3> HAVE 1 .. a = 1 .. b
    <3>1. \A x : x \in 1 .. a <=> x \in 1 .. b
      OBVIOUS
    <3>2. a >= 1 => a \in 1 .. b
      BY <3>1
    <3>3. b >= 1 => b \in 1 .. a
      BY <3>1
    <3>4. QED
      BY <3>2, <3>3
  <2>2. QED
    BY <2>1, <1>2, <1>3
<1>4. QED
  BY <1>1, <1>3

\* What a queue below number n becomes when its last segment is cut there.
Below(r, q, n, A) ==
    /\ r \in Seq(Streamed(A)) /\ InOrder(r) /\ Len(r) = Len(q)
    /\ \A k \in 1 .. Len(q) : r[k].seq = q[k].seq /\ EndOf(r[k]) <= n /\ ~r[k].fin

LEMMA CutLastBelow ==
    ASSUME NEW A \in Nat, NEW q \in Seq(Streamed(A)), InOrder(q), NEW n \in Nat,
           \A k \in 1 .. Len(q) : q[k].seq < n /\ ~q[k].fin
    PROVE  Below(CutLast(q, n), q, n, A)
<1>1. Len(q) \in Nat /\ DOMAIN q = 1 .. Len(q) /\ \A k \in 1 .. Len(q) : q[k] \in Streamed(A)
  BY LenProperties, ElementOfSeq
<1>2. PICK r : r = CutLast(q, n)
  OBVIOUS
<1>3. /\ r = [k \in 1 .. Len(q) |-> IF k = Len(q) THEN CutAt(q[k], n) ELSE q[k]]
  BY <1>1, <1>2 DEF CutLast
<1>4. ASSUME NEW k \in 1 .. Len(q)
      PROVE  /\ r[k] \in Streamed(A) /\ r[k].seq = q[k].seq /\ EndOf(r[k]) <= n /\ ~r[k].fin
             /\ EndOf(r[k]) <= EndOf(q[k])
  <2>1. q[k] \in Streamed(A) /\ q[k].seq < n /\ ~q[k].fin
    BY <1>1
  <2>2. q[k].seq \in Nat /\ EndOf(q[k]) \in Nat
    BY <2>1, StreamedTypes
  <2>3. CASE k = Len(q)
    <3>1. r[k] = CutAt(q[k], n)
      BY <1>3, <2>3
    <3>2. q[k].seq <= n
      BY <2>1, <2>2
    <3>3. PICK t \in Streamed(A) : t = q[k]
      BY <2>1
    <3>4. t.seq <= n /\ ~t.fin
      BY <2>1, <3>2, <3>3
    <3>5. QED
      BY <3>1, <3>3, <3>4, CutSegment
  <2>4. CASE k # Len(q)
    <3>0. r[k] = q[k]
      BY <1>3, <2>4
    <3>1. Len(q) \in 1 .. Len(q) /\ Len(q) \in k .. Len(q)
      BY <1>1
    <3>2. q[Len(q)].seq \in Nat /\ q[Len(q)].seq < n
      BY <3>1, <1>1, StreamedTypes
    <3>3. EndOf(q[k]) <= q[Len(q)].seq
      BY <3>1, <2>4, Growing
    <3>4. QED
      BY <3>0, <3>1, <3>2, <3>3, <2>1, <2>2
  <2>5. QED
    BY <2>3, <2>4
<1>5. r \in [1 .. Len(q) -> Streamed(A)]
  BY <1>3, <1>4
<1>6. r \in Seq(Streamed(A)) /\ Len(r) = Len(q)
  BY <1>1, <1>5, AsSequence
<1>7. ASSUME NEW i \in 1 .. Len(q), NEW j \in 1 .. Len(q), i < j PROVE Precedes(r[i], r[j])
  <2>1. Precedes(q[i], q[j])
    BY <1>7 DEF InOrder
  <2>2. EndOf(r[i]) \in Nat /\ EndOf(q[i]) \in Nat /\ q[i].seq \in Nat /\ q[j].seq \in Nat
    BY <1>1, <1>4, StreamedTypes
  <2>3. r[i].seq = q[i].seq /\ r[j].seq = q[j].seq /\ ~r[i].fin /\ EndOf(r[i]) <= EndOf(q[i])
    BY <1>4
  <2>4. QED
    BY <2>1, <2>2, <2>3 DEF Precedes
<1>8. InOrder(r)
  BY <1>6, <1>7 DEF InOrder
<1>9. QED
  BY <1>2, <1>4, <1>6, <1>8 DEF Below

\* What TrimToWindow cuts of a segment that ends in the window is its FIN.
LEMMA Trimmed ==
    ASSUME NEW A \in Nat, NEW p, NEW t \in Streamed(A), p.rcv_nxt \in Nat, p.rcv_wnd \in Nat,
           EndOf(t) <= p.rcv_nxt + p.rcv_wnd
    PROVE  LET u == TrimToWindow(p, t) IN u \in Streamed(A) /\ u.seq = t.seq /\ EndOf(u) = EndOf(t)
<1>1. /\ t \in Segments /\ t.seq \in Nat /\ t.len \in Nat /\ t.syn = FALSE /\ t.fin \in BOOLEAN
      /\ t.seq >= 1 /\ EndOf(t) = t.seq + t.len /\ EndOf(t) <= A + 1
      /\ After(t) = EndOf(t) + (IF t.fin THEN 1 ELSE 0)
  BY StreamedTypes
<1>2. CASE ~(After(t) > p.rcv_nxt + p.rcv_wnd)
  BY <1>2 DEF TrimToWindow
<1>3. CASE After(t) > p.rcv_nxt + p.rcv_wnd
  <2>1. p.rcv_nxt + p.rcv_wnd - t.seq = t.len
    BY <1>1, <1>3
  <2>2. PICK u : u = Segment(t.seq, t.len, t.syn, FALSE)
    OBVIOUS
  <2>3. TrimToWindow(p, t) = u
    BY <1>3, <2>1, <2>2 DEF TrimToWindow
  <2>4. u \in Segments /\ u.seq = t.seq /\ u.len = t.len /\ u.syn = FALSE /\ u.fin = FALSE
    BY <1>1, <2>2 DEF Segment, Segments
  <2>5. EndOf(u) = EndOf(t)
    BY <2>4 DEF EndOf
  <2>6. u \in Streamed(A)
    BY <1>1, <2>4, <2>5 DEF Streamed
  <2>7. QED
    BY <2>3, <2>4, <2>5, <2>6
<1>4. QED
  BY <1>2, <1>3

\* A queue, and one that begins behind all of its segments.
LEMMA JoinedBehind ==
    ASSUME NEW A \in Nat, NEW n \in Nat, NEW m \in Nat, NEW q, NEW r, q \in Seq(Streamed(A)), InOrder(q), Begins(r, m, A),
           \A k \in 1 .. Len(q) : q[k].seq > n /\ q[k].seq < m /\ EndOf(q[k]) <= m /\ ~q[k].fin,
           m > n
    PROVE  Queued(q \o r, n, A)
<1>1. r \in Seq(Streamed(A)) /\ InOrder(r) /\ Len(r) \in Nat /\ Len(r) >= 1 /\ r[1].seq = m
  BY LenProperties DEF Begins
<1>2. Len(q) \in Nat
  BY LenProperties
<1>3. ASSUME NEW j \in 1 .. Len(r) PROVE r[j].seq \in Nat /\ r[j].seq >= m
  <2>1. 1 \in 1 .. Len(r) /\ j \in 1 .. Len(r)
    BY <1>1
  <2>2. r[1].seq <= r[j].seq /\ r[j].seq \in Nat
    BY <1>1, <2>1, Growing
  <2>3. QED
    BY <2>2, <1>1
<1>4. ASSUME NEW i \in 1 .. Len(q), NEW j \in 1 .. Len(r) PROVE Precedes(q[i], r[j])
  <2>1. q[i].seq \in Nat /\ EndOf(q[i]) \in Nat
    BY ElementOfSeq, StreamedTypes
  <2>2. QED
    BY <2>1, <1>3 DEF Precedes
<1>5. Ahead(q, r)
  BY <1>4 DEF Ahead
<1>6. PICK u : u = q \o r
  OBVIOUS
<1>7. /\ u \in Seq(Streamed(A)) /\ InOrder(u) /\ Len(u) = Len(q) + Len(r)
      /\ \A i \in 1 .. Len(q) + Len(r) : u[i] = IF i <= Len(q) THEN q[i] ELSE r[i - Len(q)]
  <2>1. r \in Seq(Streamed(A)) /\ InOrder(r)
    BY <1>1
  <2>2. QED
    BY <2>1, <1>5, <1>6, Joined
<1>8. ASSUME NEW k \in 1 .. Len(u) PROVE u[k].seq > n
  <2>1. CASE k <= Len(q)
    BY <2>1, <1>2, <1>7
  <2>2. CASE ~(k <= Len(q))
    <3>1. k - Len(q) \in 1 .. Len(r) /\ u[k] = r[k - Len(q)]
      BY <2>2, <1>1, <1>2, <1>7
    <3>2. QED
      BY <3>1, <1>3
  <2>3. QED
    BY <2>1, <2>2
<1>9. QED
  BY <1>6, <1>7, <1>8 DEF Queued

LEMMA OneBegins ==
    ASSUME NEW A \in Nat, NEW t \in Streamed(A)
    PROVE  Begins(<<t>>, t.seq, A)
<1>1. PICK q : q = <<t>>
  OBVIOUS
<1>2. q \in Seq(Streamed(A)) /\ Len(q) = 1 /\ q[1] = t
  BY <1>1, Single
<1>3. InOrder(q)
  BY <1>2 DEF InOrder
<1>4. QED
  BY <1>1, <1>2, <1>3 DEF Begins

LEMMA EmptyQueue ==
    ASSUME NEW A, NEW n
    PROVE  Queued(<< >>, n, A)
<1>1. PICK q : q = << >>
  OBVIOUS
<1>2. q \in Seq(Streamed(A)) /\ Len(q) = 0
  BY <1>1, EmptySeq
<1>3. QED
  BY <1>1, <1>2 DEF Queued, InOrder

\* QueueOoseq keeps the queue in order, whatever the segment overlaps.
LEMMA QueueOoseqQueued ==
    ASSUME NEW A \in Nat, NEW p, p.rcv_nxt \in Nat, p.rcv_wnd \in Nat, Queued(p.ooseq, p.rcv_nxt, A),
           NEW s \in Streamed(A), s.seq > p.rcv_nxt, EndOf(s) <= p.rcv_nxt + p.rcv_wnd
    PROVE  Queued(QueueOoseq(p, s), p.rcv_nxt, A)
<1>1. PICK q : q = p.ooseq
  OBVIOUS
<1>2. PICK x \in Nat : x = p.rcv_nxt
  OBVIOUS
<1>3. q \in Seq(Streamed(A)) /\ InOrder(q) /\ \A k \in 1 .. Len(q) : q[k].seq > x
  BY <1>1, <1>2 DEF Queued
<1>4. Len(q) \in Nat /\ DOMAIN q = 1 .. Len(q) /\ \A k \in 1 .. Len(q) : q[k] \in Streamed(A)
  BY <1>3, LenProperties, ElementOfSeq
<1>5. \A k \in 1 .. Len(q) : q[k].seq \in Nat /\ EndOf(q[k]) \in Nat
  BY <1>4, StreamedTypes
<1>6. /\ s.seq \in Nat /\ s.len \in Nat /\ EndOf(s) = s.seq + s.len /\ s.seq > x
      /\ s.fin \in BOOLEAN
  BY <1>2, StreamedTypes
<1> DEFINE S == {k \in DOMAIN q : q[k].seq < s.seq}
           n == Leading(S)
           below == SubSeq(q, 1, n)
           above == SubSeq(q, n + 1, Len(q))
<1>7. n \in 0 .. Len(q) /\ n + 1 \notin S /\ \A k \in 1 .. n : k \in S
  <2>1. S \subseteq 1 .. Len(q)
    BY <1>4
  <2> HIDE DEF S
  <2>2. QED
    BY <2>1, <1>4, LeadingOf
<1>8. \A k \in 1 .. n : q[k].seq < s.seq
  BY <1>7
<1>9. n + 1 \in 1 .. Len(q) => ~(q[n + 1].seq < s.seq)
  BY <1>4, <1>7
<1>10. QueueOoseq(p, s) =
         CASE q = << >> -> <<s>>
           [] above # << >> /\ above[1].seq = s.seq ->
                IF s.len > above[1].len THEN below \o tcp_oos_insert_segment(s, above) ELSE q
           [] above # << >> /\ above[1].seq # s.seq ->
                CutLast(below, s.seq) \o tcp_oos_insert_segment(s, above)
           [] above = << >> /\ q # << >> ->
                IF Last(below).fin THEN q
                ELSE Append(CutLast(below, s.seq), TrimToWindow(p, s))
  BY <1>1 DEF QueueOoseq
<1> HIDE DEF n, S
<1>11. /\ below \in Seq(Streamed(A)) /\ InOrder(below) /\ Len(below) = n
       /\ \A i \in 1 .. n : below[i] = q[i] /\ i \in 1 .. Len(q)
  BY <1>3, <1>7, FirstOf
<1>12. /\ above \in Seq(Streamed(A)) /\ InOrder(above) /\ Len(above) = Len(q) - n
       /\ \A i \in 1 .. Len(q) - n : above[i] = q[n + i] /\ n + i \in 1 .. Len(q)
  BY <1>3, <1>7, RestOf
<1> HIDE DEF below, above
<1>13. \A k \in 1 .. Len(below) : below[k].seq > x /\ below[k].seq < s.seq
  BY <1>3, <1>8, <1>11
<1>14. above # << >> => 1 \in 1 .. Len(above) /\ n < Len(q) /\ above[1] = q[n + 1] /\ n + 1 \in 1 .. Len(q)
  <2> HAVE above # << >>
  <2>1. Len(above) \in Nat \ {0}
    BY <1>12, EmptySeq
  <2>2. n \in Nat /\ Len(above) = Len(q) - n
    BY <1>7, <1>12
  <2>3. 1 \in 1 .. Len(above) /\ n < Len(q) /\ n + 1 \in 1 .. Len(q) /\ 1 \in 1 .. Len(q) - n
    BY <2>1, <2>2, <1>4
  <2>4. above[1] = q[n + 1]
    BY <2>3, <1>12
  <2>5. QED
    BY <2>3, <2>4
<1>15. \A k \in 1 .. Len(above) : above[k].seq >= s.seq /\ above[k].seq \in Nat /\ above[1].seq <= above[k].seq
  <2> TAKE k \in 1 .. Len(above)
  <2>1. 1 \in 1 .. Len(above) /\ k \in 1 .. Len(above) /\ Len(above) >= 1
    BY <1>4, <1>7, <1>12
  <2>2. above[1].seq \in Nat /\ above[k].seq \in Nat /\ above[1].seq <= above[k].seq
    BY <2>1, <1>12, Growing
  <2>3. above # << >>
    BY <2>1, EmptySeq
  <2>4. ~(above[1].seq < s.seq)
    BY <2>3, <1>9, <1>14
  <2>5. QED
    BY <2>2, <2>4, <1>6
<1>16. above # << >> => \A k \in 1 .. Len(below) : ~below[k].fin /\ EndOf(below[k]) <= above[1].seq
  <2> HAVE above # << >>
  <2> TAKE k \in 1 .. Len(below)
  <2>1. k \in 1 .. n
    BY <1>11
  <2>2. k \in 1 .. Len(q) /\ n + 1 \in k .. Len(q) /\ k # n + 1
    BY <2>1, <1>4, <1>7, <1>14
  <2>3. ~q[k].fin /\ EndOf(q[k]) <= q[n + 1].seq
    BY <2>2, <1>3, Growing
  <2>4. QED
    BY <2>1, <2>3, <1>11, <1>14
<1>17. Queued(q, x, A)
  BY <1>3 DEF Queued
<1>18. PICK e \in Nat : e = s.seq
  BY <1>6
<1>19. CASE q = << >>
  <2>1. Queued(<< >>, x, A) /\ << >> \in Seq(Streamed(A)) /\ Len(<< >>) = 0
    BY EmptyQueue, EmptySeq
  <2>2. PICK r : r = <<s>>
    OBVIOUS
  <2>3. r \in Seq(Streamed(A)) /\ Len(r) = 1 /\ r[1] = s /\ InOrder(r)
    BY <2>2, OneBegins, Single DEF Begins
  <2>4. Queued(r, x, A)
    BY <2>3, <1>6 DEF Queued
  <2>5. QueueOoseq(p, s) = r
    <3>1. Len(q) = 0
      BY <1>19, EmptySeq
    <3>2. above = << >>
      BY <3>1, <1>7, <1>14
    <3>3. QED
      BY <1>10, <1>19, <2>2, <3>2
  <2>6. QED
    BY <2>4, <2>5, <1>2
<1>20. CASE q # << >> /\ above # << >> /\ above[1].seq = s.seq
  <2>1. CASE ~(s.len > above[1].len)
    <3>1. QueueOoseq(p, s) = q
      BY <1>10, <1>20, <2>1
    <3>2. QED
      BY <3>1, <1>2, <1>17
  <2>2. CASE s.len > above[1].len
    <3>1. QueueOoseq(p, s) = below \o tcp_oos_insert_segment(s, above)
      BY <1>10, <1>20, <2>2
    <3>2. Overlays(s, above)
      <4>1. above[1] \in Streamed(A)
        BY <1>12, <1>14, <1>20, ElementOfSeq
      <4>2. above[1].seq \in Nat /\ above[1].len \in Nat /\ EndOf(above[1]) = above[1].seq + above[1].len
        BY <4>1, StreamedTypes
      <4>3. EndOf(s) >= EndOf(above[1])
        BY <4>2, <2>2, <1>6, <1>20
      <4>4. QED
        BY <4>3 DEF Overlays, Covers
    <3>3. PICK r : r = tcp_oos_insert_segment(s, above)
      OBVIOUS
    <3>4. Begins(r, e, A)
      BY <3>2, <3>3, <1>12, <1>15, <1>18, Inserted
    <3>5. \A k \in 1 .. Len(below) : below[k].seq > x /\ below[k].seq < e /\ EndOf(below[k]) <= e /\ ~below[k].fin
      BY <1>13, <1>16, <1>18, <1>20
    <3>6. Queued(below \o r, x, A)
      BY <3>4, <3>5, <1>6, <1>11, <1>18, JoinedBehind
    <3>7. QED
      BY <3>1, <3>3, <3>6, <1>2
  <2>3. QED
    BY <2>1, <2>2
<1>21. CASE q # << >> /\ above # << >> /\ above[1].seq # s.seq
  <2>1. PICK c : c = CutLast(below, s.seq)
    OBVIOUS
  <2>2. PICK r : r = tcp_oos_insert_segment(s, above)
    OBVIOUS
  <2>3. QueueOoseq(p, s) = c \o r
    BY <1>10, <1>21, <2>1, <2>2
  <2>4. Below(c, below, e, A)
    BY <2>1, <1>11, <1>13, <1>16, <1>18, <1>21, CutLastBelow
  <2>5. Overlays(s, above)
    BY <1>6, <1>14, <1>15, <1>21 DEF Overlays
  <2>6. Begins(r, e, A)
    BY <2>2, <2>5, <1>12, <1>15, <1>18, Inserted
  <2>7. \A k \in 1 .. Len(c) : c[k].seq > x /\ c[k].seq < e /\ EndOf(c[k]) <= e /\ ~c[k].fin
    BY <2>4, <1>13, <1>18 DEF Below
  <2>8. c \in Seq(Streamed(A)) /\ InOrder(c)
    BY <2>4 DEF Below
  <2>9. Queued(c \o r, x, A)
    BY <2>6, <2>7, <2>8, <1>6, <1>18, JoinedBehind
  <2>10. QED
    BY <2>3, <2>9, <1>2
<1>22. CASE q # << >> /\ above = << >>
  <2>1. CASE Last(below).fin
    <3>1. QueueOoseq(p, s) = q
      BY <1>10, <1>22, <2>1
    <3>2. QED
      BY <3>1, <1>2, <1>17
  <2>2. CASE ~Last(below).fin
    <3>1. PICK c : c = CutLast(below, s.seq)
      OBVIOUS
    <3>2. PICK t : t = TrimToWindow(p, s)
      OBVIOUS
    <3>3. QueueOoseq(p, s) = Append(c, t)
      BY <1>10, <1>22, <2>2, <3>1, <3>2
    <3>4. t \in Streamed(A) /\ t.seq = e
      BY <3>2, <1>18, Trimmed
    <3>5. \A k \in 1 .. Len(below) : ~below[k].fin
      <4> TAKE k \in 1 .. Len(below)
      <4>1. CASE k = Len(below)
        BY <4>1, <2>2 DEF Last
      <4>2. CASE k # Len(below)
        <5>1. Len(below) \in Nat
          BY <1>11, LenProperties
        <5>2. k \in 1 .. Len(below) /\ Len(below) \in k .. Len(below)
          BY <5>1
        <5>3. QED
          BY <5>2, <4>2, <1>11, Growing
      <4>3. QED
        BY <4>1, <4>2
    <3>6. Below(c, below, e, A)
      BY <3>1, <3>5, <1>11, <1>13, <1>18, CutLastBelow
    <3>7. \A k \in 1 .. Len(c) : c[k].seq > x /\ c[k].seq < e /\ EndOf(c[k]) <= e /\ ~c[k].fin
      BY <3>6, <1>13, <1>18 DEF Below
    <3>8. c \in Seq(Streamed(A)) /\ InOrder(c)
      BY <3>6 DEF Below
    <3>9. PICK r : r = <<t>>
      OBVIOUS
    <3>10. Begins(r, e, A)
      BY <3>4, <3>9, OneBegins
    <3>11. Queued(c \o r, x, A)
      BY <3>7, <3>8, <3>10, <1>6, <1>18, JoinedBehind
    <3>12. Append(c, t) = c \o r
      BY <3>4, <3>8, <3>9, AppendIsConcat
    <3>13. QED
      BY <3>3, <3>11, <3>12, <1>2
  <2>3. QED
    BY <2>1, <2>2
<1>23. QED
  BY <1>19, <1>20, <1>21, <1>22

-----------------------------------------------------------------------------
(* What is in sequence.                                                    *)

LEMMA ChainBegins ==
    ASSUME NEW A \in Nat, NEW n \in Nat, NEW q, Queued(q, n, A), NEW t \in Streamed(A), t.seq = n
    PROVE  Begins(Chain(q, t), n, A)
<1>1. q \in Seq(Streamed(A)) /\ InOrder(q) /\ \A k \in 1 .. Len(q) : q[k].seq > n
  BY DEF Queued
<1>2. DOMAIN q = 1 .. Len(q) /\ \A k \in 1 .. Len(q) : q[k] \in Streamed(A)
  BY <1>1, LenProperties, ElementOfSeq
<1>3. ~t.fin => After(t) = EndOf(t)
  BY StreamedTypes
<1>4. Chain(q, t) = tcp_oos_insert_segment(t, q)
  BY <1>3 DEF Chain, tcp_oos_insert_segment, Covers
<1>5. \A k \in 1 .. Len(q) : q[k].seq >= t.seq
  <2>1. \A k \in 1 .. Len(q) : q[k].seq \in Nat
    BY <1>2, StreamedTypes
  <2>2. QED
    BY <2>1, <1>1
<1>6. Overlays(t, q)
  <2> SUFFICES ASSUME q # << >> PROVE q[1].seq > t.seq
    BY DEF Overlays
  <2>1. Len(q) \in Nat \ {0}
    BY <1>1, EmptySeq
  <2>2. QED
    BY <2>1, <1>1
<1>7. Begins(tcp_oos_insert_segment(t, q), t.seq, A)
  BY <1>1, <1>5, <1>6, Inserted
<1>8. QED
  BY <1>4, <1>7

\* Where the segments in sequence at the head of a chain end, and their bytes.
RunEnd(c) == EndOf(c[LastInSequence(c)])
RunData(c) == UNION {Data(c[k]) : k \in 1 .. LastInSequence(c)}
RunFin(c) == FinWithin(c, LastInSequence(c))
RunRest(c) == SubSeq(c, LastInSequence(c) + 1, Len(c))

\* They are the bytes from n on, without a gap; a FIN is that of the last one; and
\* the other segments stay a queue behind them.
LEMMA Run ==
    ASSUME NEW A \in Nat, NEW n \in Nat, NEW c, Begins(c, n, A)
    PROVE  /\ RunEnd(c) \in n .. A + 1 /\ RunData(c) = n .. RunEnd(c) - 1
           /\ After(c[LastInSequence(c)]) = RunEnd(c) + (IF RunFin(c) THEN 1 ELSE 0)
           /\ RunFin(c) => RunEnd(c) = A + 1
           /\ ~RunFin(c) => Queued(RunRest(c), RunEnd(c), A)
<1>1. c \in Seq(Streamed(A)) /\ InOrder(c) /\ Len(c) >= 1 /\ c[1].seq = n
  BY DEF Begins
<1>2. Len(c) \in Nat /\ \A k \in 1 .. Len(c) : c[k] \in Streamed(A)
  BY <1>1, LenProperties, ElementOfSeq
<1> DEFINE S == {k \in 1 .. Len(c) - 1 : After(c[k]) = c[k + 1].seq}
           l == LastInSequence(c)
<1>3. l \in 1 .. Len(c) /\ (\A k \in 1 .. l - 1 : After(c[k]) = c[k + 1].seq)
      /\ (l < Len(c) => After(c[l]) # c[l + 1].seq)
  <2>1. l = 1 + Leading(S)
    BY DEF LastInSequence
  <2>2. Len(c) - 1 \in Nat /\ S \subseteq 1 .. Len(c) - 1
    BY <1>1, <1>2
  <2> HIDE DEF S
  <2>3. /\ Leading(S) \in 0 .. Len(c) - 1 /\ Leading(S) + 1 \notin S
        /\ \A k \in 1 .. Leading(S) : k \in S
    BY <2>2, LeadingOf
  <2> HIDE DEF l
  <2>4. l \in 1 .. Len(c) /\ l \notin S /\ \A k \in 1 .. l - 1 : k \in S
    BY <2>1, <2>3, <1>2
  <2>5. QED
    BY <2>4, <1>2 DEF S
<1> HIDE DEF l
<1>4. RunEnd(c) = EndOf(c[l]) /\ RunData(c) = UNION {Data(c[k]) : k \in 1 .. l}
      /\ RunFin(c) = FinWithin(c, l) /\ RunRest(c) = SubSeq(c, l + 1, Len(c))
  BY DEF RunEnd, RunData, RunFin, RunRest, l
<1>5. c[l] \in Streamed(A) /\ c[l].fin \in BOOLEAN /\ EndOf(c[l]) \in Nat /\ c[l].seq \in Nat
      /\ c[l].seq <= EndOf(c[l]) /\ EndOf(c[l]) <= A + 1
      /\ (c[l].fin => EndOf(c[l]) = A + 1) /\ After(c[l]) = EndOf(c[l]) + (IF c[l].fin THEN 1 ELSE 0)
  BY <1>2, <1>3, StreamedTypes
<1>6. \A i \in 1 .. Len(c), j \in 1 .. Len(c) : i <= j =>
         /\ c[i].seq \in Nat /\ EndOf(c[i]) \in Nat /\ c[j].seq \in Nat /\ EndOf(c[j]) \in Nat
         /\ c[i].seq <= c[j].seq /\ EndOf(c[i]) <= EndOf(c[j])
         /\ (i # j => c[i].seq < c[j].seq /\ EndOf(c[i]) <= c[j].seq /\ ~c[i].fin)
  <2> TAKE i \in 1 .. Len(c), j \in 1 .. Len(c)
  <2> HAVE i <= j
  <2>1. j \in i .. Len(c)
    BY <1>2
  <2>2. QED
    BY <2>1, <1>1, Growing
<1>7. n <= EndOf(c[l])
  <2>1. 1 \in 1 .. Len(c) /\ 1 <= l
    BY <1>1, <1>2, <1>3
  <2>2. c[1].seq <= c[l].seq
    BY <2>1, <1>3, <1>6
  <2>3. QED
    BY <2>2, <1>1, <1>5
<1>8. RunFin(c) <=> c[l].fin
  <2>1. ASSUME NEW k \in 1 .. l, c[k].fin PROVE c[l].fin
    <3>1. k \in 1 .. Len(c) /\ k <= l
      BY <1>2, <1>3
    <3>2. QED
      BY <3>1, <2>1, <1>3, <1>6
  <2>2. l \in 1 .. l
    BY <1>3
  <2>3. QED
    BY <2>1, <2>2, <1>4 DEF FinWithin
<1>9. RunData(c) = n .. EndOf(c[l]) - 1
  <2>1. ASSUME NEW k \in 1 .. l, NEW x \in Data(c[k]) PROVE x \in n .. EndOf(c[l]) - 1
    <3>1. k \in 1 .. Len(c) /\ k <= l /\ 1 \in 1 .. Len(c) /\ 1 <= k
      BY <1>1, <1>2, <1>3
    <3>2. c[1].seq <= c[k].seq /\ EndOf(c[k]) <= EndOf(c[l]) /\ c[k].seq \in Nat /\ EndOf(c[k]) \in Nat
      BY <3>1, <1>3, <1>6
    <3>3. x \in c[k].seq .. EndOf(c[k]) - 1
      BY <2>1 DEF Data
    <3>4. \A a, b, d, e \in Nat : \A y \in a .. b - 1 : d <= a /\ b <= e => y \in d .. e - 1
      OBVIOUS
    <3>5. QED
      BY <3>2, <3>3, <3>4, <1>1, <1>5
  <2>2. ASSUME NEW x \in n .. EndOf(c[l]) - 1 PROVE \E k \in 1 .. l : x \in Data(c[k])
    <3> DEFINE T == {k \in 1 .. l : c[k].seq <= x}
               m == Leading(T)
    <3>1. l \in Nat /\ T \subseteq 1 .. l
      BY <1>2, <1>3
    <3>2. 1 \in T
      BY <1>1, <1>3
    <3>3. m \in 0 .. l /\ m + 1 \notin T /\ \A k \in 1 .. m : k \in T
      <4> HIDE DEF T
      <4>1. QED
        BY <3>1, LeadingOf
    <3>4. m \in 1 .. l
      <4> HIDE DEF T
      <4>1. m # 0
        BY <3>2, <3>3
      <4>2. QED
        BY <4>1, <3>3
    <3>5. c[m].seq <= x /\ (m + 1 \in 1 .. l => ~(c[m + 1].seq <= x))
      BY <3>3, <3>4
    <3> HIDE DEF m, T
    <3>6. x < EndOf(c[m])
      <4>1. CASE m = l
        BY <4>1, <1>5
      <4>2. CASE m # l
        <5>1. m \in 1 .. l - 1 /\ m + 1 \in 1 .. l /\ m \in 1 .. Len(c) /\ m + 1 \in 1 .. Len(c) /\ m <= m + 1
          BY <3>1, <3>4, <4>2, <1>2, <1>3
        <5>2. After(c[m]) = c[m + 1].seq /\ c[m + 1].seq \in Nat /\ ~c[m].fin
          BY <5>1, <1>3, <1>6
        <5>3. After(c[m]) = EndOf(c[m])
          BY <5>1, <5>2, <1>2, StreamedTypes
        <5>4. QED
          BY <5>1, <5>2, <5>3, <3>5
      <4>3. QED
        BY <4>1, <4>2
    <3>7. m \in 1 .. Len(c)
      BY <3>4, <1>2, <1>3
    <3>8. x \in Data(c[m])
      <4>1. c[m].seq \in Nat /\ EndOf(c[m]) \in Nat
        BY <3>7, <1>6
      <4>2. QED
        BY <4>1, <3>5, <3>6 DEF Data
    <3>9. QED
      BY <3>4, <3>8
  <2>3. QED
    BY <2>1, <2>2, <1>4
<1>10. ~c[l].fin => Queued(RunRest(c), EndOf(c[l]), A)
  <2> HAVE ~c[l].fin
  <2>1. After(c[l]) = EndOf(c[l])
    BY <1>5
  <2>2. PICK r : r = SubSeq(c, l + 1, Len(c))
    OBVIOUS
  <2>3. /\ r \in Seq(Streamed(A)) /\ InOrder(r) /\ Len(r) = Len(c) - l
        /\ \A i \in 1 .. Len(c) - l : r[i] = c[l + i] /\ l + i \in 1 .. Len(c)
    <3>1. l \in 0 .. Len(c)
      BY <1>3
    <3>2. QED
      BY <3>1, <2>2, <1>1, RestOf
  <2>4. ASSUME NEW i \in 1 .. Len(r) PROVE r[i].seq > EndOf(c[l])
    <3>1. r[i] = c[l + i] /\ l + i \in 1 .. Len(c) /\ l + 1 \in 1 .. Len(c) /\ l + 1 <= l + i /\ l < Len(c) /\ l <= l + 1 /\ l # l + 1
      BY <2>3, <2>4, <1>2, <1>3
    <3>2. EndOf(c[l]) <= c[l + 1].seq /\ c[l + 1].seq <= c[l + i].seq /\ c[l + 1].seq \in Nat /\ c[l + i].seq \in Nat
      BY <3>1, <1>3, <1>6
    <3>3. EndOf(c[l]) # c[l + 1].seq
      BY <3>1, <2>1, <1>3
    <3>4. \A a, b, d \in Nat : a <= b /\ b <= d /\ a # b => d > a
      OBVIOUS
    <3>5. QED
      BY <3>1, <3>2, <3>3, <3>4, <1>5
  <2>5. QED
    BY <2>2, <2>3, <2>4, <1>4 DEF Queued
<1>11. QED
  BY <1>4, <1>5, <1>7, <1>8, <1>9, <1>10 DEF l

-----------------------------------------------------------------------------
(* The control block: what sending leaves alone.                           *)

IsPcb(p) ==
    DOMAIN p = {"state", "rcv_nxt", "rcv_wnd", "ooseq", "lastack", "snd_nxt", "snd_lbb", "snd_wnd", "wl1", "wl2",
                "cwnd", "unsent", "unacked", "rtime", "nrtx", "dupacks", "infr", "persist", "probes",
                "rxclosed", "closepend", "finq"}

\* Block q has what p has for receiving.
SameRx(p, q) ==
    /\ IsPcb(q) /\ q.state = p.state /\ q.rcv_nxt = p.rcv_nxt /\ q.rcv_wnd = p.rcv_wnd /\ q.ooseq = p.ooseq
    /\ q.rxclosed = p.rxclosed /\ q.closepend = p.closepend

LEMMA SameRxTrans ==
    ASSUME NEW p, NEW q, NEW r, SameRx(p, q), SameRx(q, r)
    PROVE  SameRx(p, r)
BY DEF SameRx

LEMMA tcp_outputRx ==
    ASSUME NEW p, IsPcb(p)
    PROVE  SameRx(p, tcp_output(p))
<1>1. CASE p.unsent = << >>
  BY <1>1 DEF tcp_output, SameRx
<1>2. CASE p.unsent # << >> /\ ~Fits(p, 1)
  <2>1. CASE p.snd_wnd <= p.cwnd /\ p.unacked = << >> /\ ~p.persist
    <3>1. PICK q : q = tcp_output(p)
      OBVIOUS
    <3>2. q = [p EXCEPT !.persist = TRUE, !.probes = 0]
      BY <3>1, <2>1, <1>2 DEF tcp_output
    <3>3. QED
      BY <3>1, <3>2 DEF SameRx, IsPcb
  <2>2. CASE ~(p.snd_wnd <= p.cwnd /\ p.unacked = << >> /\ ~p.persist)
    <3>1. tcp_output(p) = p
      BY <2>2, <1>2 DEF tcp_output
    <3>2. QED
      BY <3>1 DEF SameRx
  <2>3. QED
    BY <2>1, <2>2
<1>3. CASE p.unsent # << >> /\ Fits(p, 1)
  <2>1. PICK q : q = tcp_output(p)
    OBVIOUS
  <2>2. \E a, b, c, d : q = [p EXCEPT !.persist = FALSE, !.unsent = a, !.unacked = b, !.snd_nxt = c, !.rtime = d]
    BY <2>1, <1>3 DEF tcp_output
  <2>3. PICK a, b, c, d : q = [p EXCEPT !.persist = FALSE, !.unsent = a, !.unacked = b, !.snd_nxt = c, !.rtime = d]
    BY <2>2
  <2>4. QED
    BY <2>1, <2>3 DEF SameRx, IsPcb
<1>4. QED
  BY <1>1, <1>2, <1>3

LEMMA SameRxSelf ==
    ASSUME NEW p, IsPcb(p)
    PROVE  SameRx(p, p)
BY DEF SameRx

LEMMA tcp_send_finRx ==
    ASSUME NEW p, IsPcb(p)
    PROVE  SameRx(p, tcp_send_fin(p))
<1>1. PICK q : q = tcp_send_fin(p)
  OBVIOUS
<1>2. \/ \E a : q = [p EXCEPT !.unsent = a, !.finq = TRUE]
      \/ \E a, b, c : q = [p EXCEPT !.unsent = a, !.snd_lbb = b, !.finq = c]
  BY <1>1, Zenon DEF tcp_send_fin, tcp_enqueue_flags
<1>3. CASE \E a : q = [p EXCEPT !.unsent = a, !.finq = TRUE]
  BY <1>1, <1>3 DEF SameRx, IsPcb
<1>4. CASE \E a, b, c : q = [p EXCEPT !.unsent = a, !.snd_lbb = b, !.finq = c]
  BY <1>1, <1>4 DEF SameRx, IsPcb
<1>5. QED
  BY <1>2, <1>3, <1>4

LEMMA tcp_writeRx ==
    ASSUME NEW p, IsPcb(p)
    PROVE  SameRx(p, tcp_write(p))
<1>1. PICK q : q = tcp_write(p)
  OBVIOUS
<1>2. \E a, b : q = [p EXCEPT !.unsent = a, !.snd_lbb = b]
  BY <1>1, Zenon DEF tcp_write
<1>3. QED
  BY <1>1, <1>2 DEF SameRx, IsPcb

LEMMA tcp_rexmit_rto_prepareRx ==
    ASSUME NEW p, IsPcb(p)
    PROVE  SameRx(p, tcp_rexmit_rto_prepare(p))
<1>1. PICK q : q = tcp_rexmit_rto_prepare(p)
  OBVIOUS
<1>2. \E a : q = [p EXCEPT !.unsent = a, !.unacked = << >>]
  BY <1>1, Zenon DEF tcp_rexmit_rto_prepare
<1>3. QED
  BY <1>1, <1>2 DEF SameRx, IsPcb

LEMMA tcp_rexmit_fastRx ==
    ASSUME NEW p, IsPcb(p)
    PROVE  SameRx(p, tcp_rexmit_fast(p))
<1>1. CASE p.unacked # << >> /\ ~p.infr
  <2>1. PICK r : r = tcp_rexmit(p)
    OBVIOUS
  <2>2. \E a, b, c : r = [p EXCEPT !.unacked = a, !.unsent = b, !.nrtx = c]
    BY <2>1, Zenon DEF tcp_rexmit
  <2>3. SameRx(p, r)
    BY <2>2 DEF SameRx, IsPcb
  <2>4. PICK q : q = tcp_rexmit_fast(p)
    OBVIOUS
  <2>5. q = [r EXCEPT !.cwnd = 2 * TCP_MSS, !.infr = TRUE]
    BY <2>1, <2>4, <1>1 DEF tcp_rexmit_fast
  <2>6. SameRx(r, q)
    BY <2>3, <2>5 DEF SameRx, IsPcb
  <2>7. QED
    BY <2>3, <2>4, <2>6, SameRxTrans
<1>2. CASE ~(p.unacked # << >> /\ ~p.infr)
  <2>1. tcp_rexmit_fast(p) = p
    BY <1>2 DEF tcp_rexmit_fast
  <2>2. QED
    BY <2>1, SameRxSelf
<1>3. QED
  BY <1>1, <1>2

\* The block with the window of a segment, and the parts of AckReceived.
WithWindow(p, s) == IF NewerWindow(p, s) THEN [p EXCEPT !.snd_wnd = s.wnd, !.wl1 = s.seq, !.wl2 = s.ack] ELSE p
Duplicated(q) ==
    [q EXCEPT !.dupacks = Smaller(@ + 1, DupAcks),
              !.cwnd = IF q.dupacks = DupAcks THEN Smaller(@ + TCP_MSS, 2 * TCP_MSS) ELSE @]

Unmoved(q) == [q EXCEPT !.dupacks = 0]
Advanced(q, ack, c, t) ==
    [q EXCEPT !.infr = FALSE, !.nrtx = 0, !.dupacks = 0, !.lastack = ack, !.cwnd = c,
              !.unacked = tcp_free_acked_segments(q.unacked, ack),
              !.unsent = tcp_free_acked_segments(q.unsent, ack), !.rtime = t]

LEMMA WithWindowRx ==
    ASSUME NEW p, NEW s, IsPcb(p)
    PROVE  LET q == WithWindow(p, s)
           IN  /\ SameRx(p, q) /\ q.unsent = p.unsent /\ q.unacked = p.unacked /\ q.lastack = p.lastack
               /\ q.snd_nxt = p.snd_nxt /\ q.snd_lbb = p.snd_lbb /\ q.finq = p.finq
BY DEF WithWindow, SameRx, IsPcb

LEMMA AckCases ==
    ASSUME NEW p, NEW s, NEW q, q = WithWindow(p, s)
    PROVE  \/ AckReceived(p, s) = Unmoved(q)
           \/ AckReceived(p, s) = Duplicated(q)
           \/ AckReceived(p, s) = tcp_rexmit_fast(Duplicated(q))
           \/ ~(s.ack <= p.lastack) /\ \E c, t : AckReceived(p, s) = Advanced(q, s.ack, c, t)
<1>1. CASE s.ack <= p.lastack
  BY <1>1 DEF AckReceived, WithWindow, Duplicated, Unmoved
<1>2. CASE ~(s.ack <= p.lastack)
  BY <1>2 DEF AckReceived, WithWindow, Advanced
<1>3. QED
  BY <1>1, <1>2

LEMMA AckPartsRx ==
    ASSUME NEW q, IsPcb(q), NEW a, NEW c, NEW t
    PROVE  SameRx(q, Unmoved(q)) /\ SameRx(q, Duplicated(q)) /\ SameRx(q, Advanced(q, a, c, t))
<1>1. SameRx(q, Unmoved(q))
  BY DEF Unmoved, SameRx, IsPcb
<1>2. SameRx(q, Duplicated(q))
  BY DEF Duplicated, SameRx, IsPcb
<1>3. SameRx(q, Advanced(q, a, c, t))
  BY DEF Advanced, SameRx, IsPcb
<1>4. QED
  BY <1>1, <1>2, <1>3

LEMMA AckReceivedRx ==
    ASSUME NEW p, NEW s, IsPcb(p)
    PROVE  SameRx(p, AckReceived(p, s))
<1>1. PICK q : q = WithWindow(p, s)
  OBVIOUS
<1>2. SameRx(p, q) /\ IsPcb(q)
  BY <1>1, WithWindowRx DEF SameRx
<1>3. PICK r : r = AckReceived(p, s)
  OBVIOUS
<1>4. PICK d : d = Duplicated(q)
  OBVIOUS
<1>5. SameRx(q, d) /\ IsPcb(d)
  BY <1>2, <1>4, AckPartsRx DEF SameRx
<1>6. \/ r = Unmoved(q)
      \/ r = d
      \/ r = tcp_rexmit_fast(d)
      \/ \E c, t : r = Advanced(q, s.ack, c, t)
  BY <1>1, <1>3, <1>4, AckCases
<1>7. SameRx(q, r)
  <2>1. CASE r = tcp_rexmit_fast(d)
    BY <2>1, <1>5, tcp_rexmit_fastRx, SameRxTrans
  <2>2. QED
    BY <2>1, <1>2, <1>5, <1>6, AckPartsRx
<1>8. QED
  BY <1>2, <1>3, <1>7, SameRxTrans

-----------------------------------------------------------------------------
(* Receiving.                                                              *)

\* A block that takes data: it has all before rcv_nxt, the queue is behind that, and
\* the whole window is open, since the application took everything.
Taking(p, A) ==
    /\ IsPcb(p) /\ p.state \in Receiving /\ p.rcv_wnd = TCP_WND
    /\ p.rcv_nxt \in 1 .. A + 1 /\ Queued(p.ooseq, p.rcv_nxt, A)

\* What result r of receiving a segment is: the bytes from rcv_nxt to e, the FIN if e
\* is the end of the answer, and the window smaller by as much.
TookUpTo(p, r, A, e) ==
    /\ e \in p.rcv_nxt .. A + 1 /\ r.data = p.rcv_nxt .. e - 1
    /\ DOMAIN r = {"p", "data", "fin", "assert"} /\ r.fin \in BOOLEAN /\ r.assert \in BOOLEAN
    /\ IsPcb(r.p) /\ r.p.rxclosed = p.rxclosed /\ r.p.closepend = p.closepend
    /\ r.p.rcv_wnd = TCP_WND - (e - p.rcv_nxt) - (IF r.fin THEN 1 ELSE 0)
    /\ r.fin => e = A + 1 /\ r.p.state = IF p.state = "ESTABLISHED" THEN "CLOSE_WAIT" ELSE p.state
    /\ ~r.fin => r.p.rcv_nxt = e /\ Queued(r.p.ooseq, e, A) /\ r.p.state = p.state

InRun(p, c) ==
    [p EXCEPT !.rcv_nxt = After(c[LastInSequence(c)]),
              !.rcv_wnd = @ - (After(c[LastInSequence(c)]) - p.rcv_nxt),
              !.ooseq = RunRest(c),
              !.state = IF @ = "ESTABLISHED" /\ RunFin(c) THEN "CLOSE_WAIT" ELSE @]

LEMMA InSequenceTook ==
    ASSUME NEW A \in Nat, NEW p, Taking(p, A), NEW t \in Streamed(A), t.seq = p.rcv_nxt,
           EndOf(t) <= p.rcv_nxt + p.rcv_wnd
    PROVE  \E e : TookUpTo(p, InSequence(p, t), A, e)
<1>1. /\ IsPcb(p) /\ p.state \in Receiving /\ p.rcv_wnd = TCP_WND /\ TCP_WND \in Nat /\ p.rcv_wnd \in Nat
      /\ p.rcv_nxt \in 1 .. A + 1 /\ p.rcv_nxt \in Nat /\ Queued(p.ooseq, p.rcv_nxt, A)
  BY TcpAssumption DEF Taking
<1>2. PICK u : u = TrimToWindow(p, t)
  OBVIOUS
<1>3. u \in Streamed(A) /\ u.seq = p.rcv_nxt
  BY <1>1, <1>2, Trimmed
<1>4. PICK c : c = Chain(p.ooseq, u)
  OBVIOUS
<1>5. PICK n \in Nat : n = p.rcv_nxt
  BY <1>1
<1>6. Begins(c, n, A)
  BY <1>1, <1>3, <1>4, <1>5, ChainBegins
<1>7. /\ RunEnd(c) \in n .. A + 1 /\ RunData(c) = n .. RunEnd(c) - 1
      /\ After(c[LastInSequence(c)]) = RunEnd(c) + (IF RunFin(c) THEN 1 ELSE 0)
      /\ RunFin(c) => RunEnd(c) = A + 1
      /\ ~RunFin(c) => Queued(RunRest(c), RunEnd(c), A)
  BY <1>6, Run
<1>8. PICK e : e = RunEnd(c)
  OBVIOUS
<1>9. PICK fin : fin = RunFin(c)
  OBVIOUS
<1>10. fin \in BOOLEAN
  BY <1>9 DEF RunFin, FinWithin
<1>11. PICK r : r = InSequence(p, t)
  OBVIOUS
<1>12. /\ r = [p |-> InRun(p, c), data |-> RunData(c), fin |-> RunFin(c),
               assert |-> After(c[LastInSequence(c)]) - p.rcv_nxt <= p.rcv_wnd]
  BY <1>2, <1>4, <1>11, Zenon DEF InSequence, InRun, RunData, RunFin, RunRest
<1>13. /\ r.p = InRun(p, c) /\ r.data = RunData(c) /\ r.fin = RunFin(c) /\ r.assert \in BOOLEAN
       /\ DOMAIN r = {"p", "data", "fin", "assert"}
  BY <1>12
<1>14. PICK w : w = InRun(p, c)
  OBVIOUS
<1>15. PICK a : a = After(c[LastInSequence(c)])
  OBVIOUS
<1>16. a = e + (IF fin THEN 1 ELSE 0)
  BY <1>7, <1>8, <1>9, <1>15
<1>17. /\ IsPcb(w) /\ w.rxclosed = p.rxclosed /\ w.closepend = p.closepend
       /\ w.rcv_nxt = a /\ w.rcv_wnd = TCP_WND - (a - n) /\ w.ooseq = RunRest(c)
       /\ w.state = IF p.state = "ESTABLISHED" /\ fin THEN "CLOSE_WAIT" ELSE p.state
  <2>1. w = [p EXCEPT !.rcv_nxt = a, !.rcv_wnd = TCP_WND - (a - n), !.ooseq = RunRest(c),
                      !.state = IF p.state = "ESTABLISHED" /\ fin THEN "CLOSE_WAIT" ELSE p.state]
    BY <1>1, <1>5, <1>9, <1>14, <1>15 DEF InRun, IsPcb
  <2>2. QED
    BY <2>1, <1>1 DEF IsPcb
<1>18. e \in Nat /\ e \in n .. A + 1 /\ r.data = n .. e - 1
  BY <1>7, <1>8, <1>13
<1>19. w.rcv_wnd = TCP_WND - (e - n) - (IF fin THEN 1 ELSE 0)
  BY <1>1, <1>10, <1>16, <1>17, <1>18
<1>20. fin => e = A + 1 /\ w.state = IF p.state = "ESTABLISHED" THEN "CLOSE_WAIT" ELSE p.state
  BY <1>7, <1>8, <1>9, <1>17
<1>21. ~fin => w.rcv_nxt = e /\ Queued(w.ooseq, e, A) /\ w.state = p.state
  BY <1>7, <1>8, <1>9, <1>16, <1>17, <1>18
<1>22. TookUpTo(p, r, A, e)
  BY <1>5, <1>9, <1>10, <1>13, <1>14, <1>17, <1>18, <1>19, <1>20, <1>21 DEF TookUpTo
<1>23. QED
  BY <1>11, <1>22

\* A segment of the answer of A bytes that p's window allows, or an empty one.
Arrived(p, s, A) ==
    /\ s.seq \in Nat /\ s.seq >= 1 /\ s.len \in Nat /\ s.fin \in BOOLEAN /\ s.syn = FALSE
    /\ TCP_TCPLEN(s) > 0 => EndOf(s) <= A + 1 /\ EndOf(s) <= p.rcv_nxt + p.rcv_wnd
    /\ s.fin => EndOf(s) = A + 1

LEMMA TakingSame ==
    ASSUME NEW A, NEW p, NEW q, Taking(p, A), SameRx(p, q)
    PROVE  Taking(q, A)
BY DEF Taking, SameRx

LEMMA TookSame ==
    ASSUME NEW A, NEW p, NEW q, SameRx(p, q), NEW r, NEW e, TookUpTo(q, r, A, e)
    PROVE  TookUpTo(p, r, A, e)
BY DEF TookUpTo, SameRx

\* Nothing is taken of a segment that is queued, old or empty.
LEMMA NoDataTook ==
    ASSUME NEW A \in Nat, NEW p, Taking(p, A), NEW q, IsPcb(q), q.state = p.state, q.rcv_nxt = p.rcv_nxt,
           q.rcv_wnd = p.rcv_wnd, q.rxclosed = p.rxclosed, q.closepend = p.closepend, Queued(q.ooseq, p.rcv_nxt, A)
    PROVE  TookUpTo(p, NoData(q), A, p.rcv_nxt)
<1>1. p.rcv_nxt \in 1 .. A + 1 /\ p.rcv_wnd = TCP_WND /\ TCP_WND \in Nat
  BY TcpAssumption DEF Taking
<1>2. PICK r : r = NoData(q)
  OBVIOUS
<1>3. r.p = q /\ r.data = {} /\ r.fin = FALSE /\ r.assert = TRUE /\ DOMAIN r = {"p", "data", "fin", "assert"}
  BY <1>2 DEF NoData
<1>4. PICK n \in Nat : n = p.rcv_nxt
  BY <1>1
<1>5. n \in n .. A + 1 /\ n .. n - 1 = {} /\ TCP_WND - (n - n) - 0 = TCP_WND
  BY <1>1, <1>4
<1>6. QED
  BY <1>1, <1>2, <1>3, <1>4, <1>5 DEF TookUpTo

\* A segment that begins before rcv_nxt is cut there and stays a part of the answer.
LEMMA FrontTrimmed ==
    ASSUME NEW A \in Nat, NEW p, p.rcv_nxt \in Nat, p.rcv_nxt >= 1, NEW s, Arrived(p, s, A), TCP_TCPLEN(s) > 0
    PROVE  LET t == TrimFront(p, Segment(s.seq, s.len, FALSE, s.fin))
           IN  t \in Streamed(A) /\ EndOf(t) <= p.rcv_nxt + p.rcv_wnd
<1>1. PICK u : u = Segment(s.seq, s.len, FALSE, s.fin)
  OBVIOUS
<1>2. /\ s.seq \in Nat /\ s.seq >= 1 /\ s.len \in Nat /\ s.fin \in BOOLEAN
      /\ EndOf(s) <= A + 1 /\ EndOf(s) <= p.rcv_nxt + p.rcv_wnd /\ (s.fin => EndOf(s) = A + 1)
  BY DEF Arrived
<1>3. u \in Segments /\ u.seq = s.seq /\ u.len = s.len /\ u.syn = FALSE /\ u.fin = s.fin
  BY <1>1, <1>2 DEF Segment, Segments
<1>4. EndOf(u) = EndOf(s)
  BY <1>3 DEF EndOf
<1>5. u \in Streamed(A)
  BY <1>2, <1>3, <1>4 DEF Streamed
<1>6. EndOf(u) \in Nat /\ EndOf(u) = u.seq + u.len /\ After(u) = EndOf(u) + (IF u.fin THEN 1 ELSE 0)
  BY <1>5, StreamedTypes
<1>7. CASE ~(u.seq < p.rcv_nxt /\ p.rcv_nxt < After(u))
  <2>1. TrimFront(p, u) = u
    BY <1>7 DEF TrimFront
  <2>2. QED
    BY <2>1, <1>1, <1>2, <1>4, <1>5
<1>8. CASE u.seq < p.rcv_nxt /\ p.rcv_nxt < After(u)
  <2>1. PICK m : m = u.len - (p.rcv_nxt - u.seq)
    OBVIOUS
  <2>2. m \in Nat /\ p.rcv_nxt + m = EndOf(u)
    BY <2>1, <1>2, <1>3, <1>6, <1>8
  <2>3. PICK v : v = Segment(p.rcv_nxt, m, u.syn, u.fin)
    OBVIOUS
  <2>4. TrimFront(p, u) = v
    BY <2>1, <2>3, <1>8 DEF TrimFront
  <2>5. v \in Segments /\ v.seq = p.rcv_nxt /\ v.len = m /\ v.syn = FALSE /\ v.fin = s.fin
    BY <2>2, <2>3, <1>2, <1>3 DEF Segment, Segments
  <2>6. EndOf(v) = EndOf(s)
    BY <2>2, <2>5, <1>4 DEF EndOf
  <2>7. v \in Streamed(A)
    BY <2>5, <2>6, <1>2 DEF Streamed
  <2>8. QED
    BY <2>4, <2>6, <2>7, <1>1, <1>2
<1>9. QED
  BY <1>7, <1>8

LEMMA tcp_receiveTook ==
    ASSUME NEW A \in Nat, NEW p, Taking(p, A), NEW s, Arrived(p, s, A)
    PROVE  \E e : TookUpTo(p, tcp_receive(p, s), A, e)
<1>1. PICK q : q = AckReceived(p, s)
  OBVIOUS
<1>2. SameRx(p, q) /\ Taking(q, A) /\ Arrived(q, s, A)
  <2>1. SameRx(p, q)
    BY <1>1, AckReceivedRx DEF Taking
  <2>2. QED
    BY <2>1, TakingSame DEF Arrived, SameRx
<1>3. /\ IsPcb(q) /\ q.state \in Receiving /\ q.rcv_wnd = TCP_WND /\ q.rcv_wnd \in Nat
      /\ q.rcv_nxt \in 1 .. A + 1 /\ q.rcv_nxt \in Nat /\ q.rcv_nxt >= 1 /\ Queued(q.ooseq, q.rcv_nxt, A)
  BY <1>2, TcpAssumption DEF Taking
<1>4. PICK t : t = TrimFront(q, Segment(s.seq, s.len, FALSE, s.fin))
  OBVIOUS
<1>5. PICK r : r = tcp_receive(p, s)
  OBVIOUS
<1>6. r = IF TCP_TCPLEN(s) > 0 /\ q.state \in Receiving
             /\ t.seq >= q.rcv_nxt /\ t.seq < q.rcv_nxt + q.rcv_wnd
          THEN IF t.seq = q.rcv_nxt THEN InSequence(q, t)
               ELSE NoData([q EXCEPT !.ooseq = QueueOoseq(q, t)])
          ELSE NoData(q)
  BY <1>1, <1>4, <1>5, Zenon DEF tcp_receive
<1>7. TCP_TCPLEN(s) > 0 => t \in Streamed(A) /\ EndOf(t) <= q.rcv_nxt + q.rcv_wnd
  BY <1>2, <1>3, <1>4, FrontTrimmed
<1>8. CASE r = NoData(q)
  BY <1>2, <1>3, <1>5, <1>8, NoDataTook, TookSame
<1>9. CASE TCP_TCPLEN(s) > 0 /\ t.seq = q.rcv_nxt /\ r = InSequence(q, t)
  <2>1. \E e : TookUpTo(q, r, A, e)
    BY <1>2, <1>7, <1>9, InSequenceTook
  <2>2. QED
    BY <2>1, <1>2, <1>5, TookSame
<1>10. CASE TCP_TCPLEN(s) > 0 /\ t.seq >= q.rcv_nxt /\ t.seq # q.rcv_nxt
            /\ r = NoData([q EXCEPT !.ooseq = QueueOoseq(q, t)])
  <2>1. PICK w : w = [q EXCEPT !.ooseq = QueueOoseq(q, t)]
    OBVIOUS
  <2>2. /\ IsPcb(w) /\ w.state = q.state /\ w.rcv_nxt = q.rcv_nxt
        /\ w.rcv_wnd = q.rcv_wnd /\ w.rxclosed = q.rxclosed /\ w.closepend = q.closepend
        /\ w.ooseq = QueueOoseq(q, t)
    BY <2>1, <1>3 DEF IsPcb
  <2>3. t \in Streamed(A) /\ EndOf(t) <= q.rcv_nxt + q.rcv_wnd
    BY <1>7, <1>10
  <2>4. t.seq > q.rcv_nxt
    <3>1. t.seq \in Nat
      BY <2>3, StreamedTypes
    <3>2. QED
      BY <3>1, <1>3, <1>10
  <2>5. Queued(w.ooseq, q.rcv_nxt, A)
    BY <2>2, <2>3, <2>4, <1>3, QueueOoseqQueued
  <2>6. TookUpTo(q, NoData(w), A, q.rcv_nxt)
    BY <2>2, <2>5, <1>2, NoDataTook
  <2>7. QED
    BY <2>1, <2>6, <1>2, <1>5, <1>10, TookSame
<1>11. QED
  <2>1. \/ r = NoData(q)
        \/ TCP_TCPLEN(s) > 0 /\ t.seq = q.rcv_nxt /\ r = InSequence(q, t)
        \/ TCP_TCPLEN(s) > 0 /\ t.seq >= q.rcv_nxt /\ t.seq # q.rcv_nxt
             /\ r = NoData([q EXCEPT !.ooseq = QueueOoseq(q, t)])
    BY <1>6, Zenon
  <2>2. QED
    BY <2>1, <1>8, <1>9, <1>10

-----------------------------------------------------------------------------
(* The log.                                                                *)

Names == {"connected", "recv", "eof", "close", "err", "reset"}
Entries == Names \X SUBSET Nat

\* Callbacks, of any log and any length of the answer.
Tells(l, A) ==
    /\ \A j, k \in Index(l, "recv") : j < k => \A a \in l[j][2], b \in l[k][2] : a < b
    /\ \A b \in Given(l) : 1 .. b \subseteq Given(l)
    /\ \A k \in Index(l, "recv") : \A c \in Index(l, "close") \cup Index(l, "eof") : k < c
    /\ \A j, k \in Index(l, "eof") : j = k
    /\ Index(l, "eof") # {} => Given(l) = 1 .. A
    /\ Index(l, "err") \subseteq {Len(l)}

LEMMA TellsCallbacks == Tells(log, talk.answer) <=> Callbacks
BY DEF Tells, Callbacks

\* Log m is log l and event e with data d.
Grown(m, l, e, d) ==
    /\ m \in Seq(Entries) /\ Len(m) = Len(l) + 1 /\ Len(l) \in Nat
    /\ \A k \in 1 .. Len(l) : m[k] = l[k]
    /\ m[Len(l) + 1] = <<e, d>>
    /\ \A x : Index(m, x) = Index(l, x) \cup (IF x = e THEN {Len(l) + 1} ELSE {})
    /\ Given(m) = Given(l) \cup (IF e = "recv" THEN d ELSE {})
    /\ \A x : Index(l, x) \subseteq 1 .. Len(l)
Grow(l, e, d) == Append(l, <<e, d>>)

LEMMA LogAppend ==
    ASSUME NEW l \in Seq(Entries), NEW e \in Names, NEW d \in SUBSET Nat
    PROVE  Grown(Grow(l, e, d), l, e, d)
<1>1. PICK ev : ev = <<e, d>>
  OBVIOUS
<1>2. ev \in Entries /\ ev[1] = e /\ ev[2] = d
  BY <1>1 DEF Entries
<1>3. PICK m : m = Append(l, ev)
  OBVIOUS
<1>4. /\ m \in Seq(Entries) /\ Len(m) = Len(l) + 1 /\ Len(l) \in Nat
      /\ \A k \in 1 .. Len(l) : m[k] = l[k]
      /\ m[Len(l) + 1] = ev
  BY <1>2, <1>3, AppendProperties, LenProperties
<1>5. ASSUME NEW x PROVE Index(m, x) = Index(l, x) \cup (IF x = e THEN {Len(l) + 1} ELSE {})
  <2>1. \A k : k \in 1 .. Len(m) <=> k \in 1 .. Len(l) \/ k = Len(l) + 1
    BY <1>4
  <2>2. \A k \in 1 .. Len(l) : m[k][1] = l[k][1]
    BY <1>4
  <2>3. m[Len(l) + 1][1] = e
    BY <1>2, <1>4
  <2>4. QED
    BY <2>1, <2>2, <2>3 DEF Index
<1>6. \A x : Index(l, x) \subseteq 1 .. Len(l)
  BY DEF Index
<1>7. Given(m) = Given(l) \cup (IF e = "recv" THEN d ELSE {})
  <2>1. Index(m, "recv") = Index(l, "recv") \cup (IF "recv" = e THEN {Len(l) + 1} ELSE {})
    BY <1>5
  <2>2. \A k \in Index(l, "recv") : m[k] = l[k]
    BY <1>4, <1>6
  <2>3. m[Len(l) + 1][2] = d
    BY <1>2, <1>4
  <2>4. ASSUME NEW b PROVE b \in Given(m) <=> b \in Given(l) \/ (e = "recv" /\ b \in d)
    <3>1. b \in Given(m) <=> \E k \in Index(m, "recv") : b \in m[k][2]
      BY DEF Given
    <3>2. b \in Given(l) <=> \E k \in Index(l, "recv") : b \in l[k][2]
      BY DEF Given
    <3>3. QED
      BY <3>1, <3>2, <2>1, <2>2, <2>3
  <2>5. QED
    BY <2>4
<1>8. QED
  BY <1>1, <1>3, <1>4, <1>5, <1>6, <1>7 DEF Grown, Grow

\* An event that is no data and no end may follow anything but an error.
LEMMA TellsEvent ==
    ASSUME NEW A, NEW l \in Seq(Entries), Tells(l, A), Index(l, "err") = {}, NEW e \in Names, e \notin {"recv", "eof"}
    PROVE  Tells(Grow(l, e, {}), A)
<1>1. PICK m : m = Grow(l, e, {})
  OBVIOUS
<1>2. /\ Len(l) \in Nat /\ Len(m) = Len(l) + 1
      /\ \A k \in 1 .. Len(l) : m[k] = l[k]
      /\ \A x : Index(m, x) = Index(l, x) \cup (IF x = e THEN {Len(l) + 1} ELSE {})
      /\ \A x : Index(l, x) \subseteq 1 .. Len(l)
      /\ Given(m) = Given(l)
  <2>1. e \in Names /\ {} \in SUBSET Nat
    OBVIOUS
  <2>2. Grown(m, l, e, {})
    BY <1>1, <2>1, LogAppend
  <2>3. QED
    BY <2>2 DEF Grown
<1>3. Index(m, "recv") = Index(l, "recv") /\ Index(m, "eof") = Index(l, "eof")
  BY <1>2
<1>4. \A j, k \in Index(m, "recv") : j < k => \A a \in m[j][2], b \in m[k][2] : a < b
  <2>1. \A k \in Index(m, "recv") : m[k] = l[k]
    BY <1>2, <1>3
  <2>2. QED
    BY <2>1, <1>3 DEF Tells
<1>5. \A k \in Index(m, "recv") : \A c \in Index(m, "close") \cup Index(m, "eof") : k < c
  <2> TAKE k \in Index(m, "recv")
  <2> TAKE c \in Index(m, "close") \cup Index(m, "eof")
  <2>1. k \in 1 .. Len(l) /\ k \in Index(l, "recv")
    BY <1>2, <1>3
  <2>2. c \in Index(l, "close") \cup Index(l, "eof") \/ c = Len(l) + 1
    BY <1>2, <1>3
  <2>3. QED
    BY <2>1, <2>2, <1>2 DEF Tells
<1>6. Index(m, "err") \subseteq {Len(m)}
  BY <1>2
<1>7. Tells(m, A)
  BY <1>2, <1>3, <1>4, <1>5, <1>6 DEF Tells
<1>8. QED
  BY <1>1, <1>7

\* The end, after the whole answer.
LEMMA TellsEof ==
    ASSUME NEW A \in Nat, NEW l \in Seq(Entries), Tells(l, A), Index(l, "err") = {}, Index(l, "eof") = {}, Given(l) = 1 .. A
    PROVE  Tells(Grow(l, "eof", {}), A)
<1>1. PICK m : m = Grow(l, "eof", {})
  OBVIOUS
<1>2. /\ Len(l) \in Nat /\ Len(m) = Len(l) + 1
      /\ \A k \in 1 .. Len(l) : m[k] = l[k]
      /\ \A x : Index(m, x) = Index(l, x) \cup (IF x = "eof" THEN {Len(l) + 1} ELSE {})
      /\ \A x : Index(l, x) \subseteq 1 .. Len(l)
      /\ Given(m) = Given(l)
  <2>1. "eof" \in Names /\ {} \in SUBSET Nat
    BY DEF Names
  <2>2. Grown(m, l, "eof", {})
    BY <1>1, <2>1, LogAppend
  <2>3. QED
    BY <2>2 DEF Grown
<1>3. /\ Index(m, "recv") = Index(l, "recv") /\ Index(m, "eof") = {Len(l) + 1}
      /\ Index(m, "close") = Index(l, "close") /\ Index(m, "err") = {}
  BY <1>2
<1>4. \A j, k \in Index(m, "recv") : j < k => \A a \in m[j][2], b \in m[k][2] : a < b
  <2>1. \A k \in Index(m, "recv") : m[k] = l[k]
    BY <1>2, <1>3
  <2>2. QED
    BY <2>1, <1>3 DEF Tells
<1>5. \A k \in Index(m, "recv") : \A c \in Index(m, "close") \cup Index(m, "eof") : k < c
  <2> TAKE k \in Index(m, "recv")
  <2> TAKE c \in Index(m, "close") \cup Index(m, "eof")
  <2>1. k \in 1 .. Len(l) /\ k \in Index(l, "recv")
    BY <1>2, <1>3
  <2>2. c \in Index(l, "close") \/ c = Len(l) + 1
    BY <1>3
  <2>3. QED
    BY <2>1, <2>2, <1>2 DEF Tells
<1>6. Tells(m, A)
  BY <1>2, <1>3, <1>4, <1>5 DEF Tells
<1>7. QED
  BY <1>1, <1>6

\* The bytes that come next.
LEMMA TellsRecv ==
    ASSUME NEW A, NEW l \in Seq(Entries), Tells(l, A), Index(l, "err") = {}, Index(l, "eof") = {}, Index(l, "close") = {},
           NEW n \in Nat, n >= 1, NEW e \in Nat, n <= e, Given(l) = 1 .. n - 1
    PROVE  Tells(Grow(l, "recv", n .. e - 1), A) /\ Given(Grow(l, "recv", n .. e - 1)) = 1 .. e - 1
<1>1. PICK d : d = n .. e - 1
  OBVIOUS
<1>2. d \in SUBSET Nat
  BY <1>1
<1>3. PICK m : m = Grow(l, "recv", d)
  OBVIOUS
<1>4. /\ Len(l) \in Nat /\ Len(m) = Len(l) + 1
      /\ \A k \in 1 .. Len(l) : m[k] = l[k]
      /\ m[Len(l) + 1] = <<"recv", d>>
      /\ \A x : Index(m, x) = Index(l, x) \cup (IF x = "recv" THEN {Len(l) + 1} ELSE {})
      /\ \A x : Index(l, x) \subseteq 1 .. Len(l)
      /\ Given(m) = Given(l) \cup d
  <2>1. "recv" \in Names /\ d \in SUBSET Nat
    BY <1>2 DEF Names
  <2>2. Grown(m, l, "recv", d)
    BY <1>2, <1>3, <2>1, LogAppend
  <2>3. QED
    BY <2>2 DEF Grown
<1>5. /\ Index(m, "recv") = Index(l, "recv") \cup {Len(l) + 1} /\ Index(m, "eof") = {}
      /\ Index(m, "close") = {} /\ Index(m, "err") = {}
  BY <1>4
<1>6. Given(m) = 1 .. e - 1
  BY <1>1, <1>4
<1>7. ASSUME NEW j \in Index(m, "recv"), NEW k \in Index(m, "recv"), j < k, NEW a \in m[j][2], NEW b \in m[k][2]
      PROVE  a < b
  <2>1. j \in Index(l, "recv") /\ m[j] = l[j] /\ j \in 1 .. Len(l)
    BY <1>4, <1>5, <1>7
  <2>2. CASE k \in Index(l, "recv")
    <3>1. m[k] = l[k]
      BY <2>2, <1>4
    <3>2. QED
      BY <2>1, <2>2, <3>1, <1>7 DEF Tells
  <2>3. CASE k = Len(l) + 1
    <3>1. b \in n .. e - 1
      BY <2>3, <1>1, <1>4, <1>7
    <3>2. a \in l[j][2]
      BY <2>1, <1>7
    <3>3. a \in Given(l)
      BY <3>2, <2>1 DEF Given
    <3>4. a \in 1 .. n - 1
      BY <3>3
    <3>5. QED
      BY <3>1, <3>4
  <2>4. QED
    BY <2>2, <2>3, <1>5
<1>8. \A b \in Given(m) : 1 .. b \subseteq Given(m)
  BY <1>6
<1>9. Tells(m, A)
  BY <1>5, <1>7, <1>8 DEF Tells
<1>10. QED
  BY <1>1, <1>3, <1>6, <1>9

-----------------------------------------------------------------------------
(* The receiving side: the inductive invariant.                            *)

Ended == {"CLOSE_WAIT", "CLOSING", "LAST_ACK", "TIME_WAIT"}
States == {"CLOSED", "SYN_SENT", "FREE", "HALTED"} \cup Receiving \cup Ended

\* The block: what is received, and whether the application closed.
RxOk(p, A) ==
    /\ IsPcb(p) /\ p.state \in States /\ p.rcv_wnd = TCP_WND
    /\ p.rxclosed \in BOOLEAN /\ p.closepend \in BOOLEAN
    /\ p.state \in Receiving => p.rcv_nxt \in 1 .. A + 1 /\ Queued(p.ooseq, p.rcv_nxt, A)
    /\ p.state \in {"CLOSED", "SYN_SENT"} => p.ooseq = << >> /\ ~p.rxclosed
    /\ p.closepend => p.rxclosed
    /\ p.state \in {"FIN_WAIT_1", "FIN_WAIT_2"} => p.rxclosed

\* The log: what the application was given is what was received.
LogOk(p, l, A) ==
    /\ l \in Seq(Entries) /\ Tells(l, A) /\ Index(l, "reset") = {}
    /\ p.state \notin {"FREE", "HALTED"} => Index(l, "err") = {}
    /\ p.state \in {"CLOSED", "SYN_SENT"} => l = << >>
    /\ p.state \in Receiving =>
          /\ Index(l, "eof") = {} /\ Given(l) = 1 .. p.rcv_nxt - 1
          /\ p.rxclosed => p.rcv_nxt = 1 /\ Index(l, "recv") = {}
          /\ ~p.rxclosed => Index(l, "close") = {}
    /\ p.state \in Ended => Given(l) = 1 .. A

RxInv(p, l, A) == RxOk(p, A) /\ LogOk(p, l, A)

LEMMA RxInvSame ==
    ASSUME NEW A, NEW p, NEW q, NEW l, RxInv(p, l, A), SameRx(p, q)
    PROVE  RxInv(q, l, A)
<1>1. RxOk(q, A)
  BY DEF RxInv, RxOk, SameRx
<1>2. LogOk(q, l, A)
  BY DEF RxInv, LogOk, SameRx
<1>3. QED
  BY <1>1, <1>2 DEF RxInv

LEMMA NewPcbFields ==
    /\ IsPcb(NewPcb) /\ NewPcb.state = "CLOSED" /\ NewPcb.rcv_wnd = TCP_WND /\ NewPcb.ooseq = << >>
    /\ NewPcb.rxclosed = FALSE /\ NewPcb.closepend = FALSE
    /\ NewPcb.unsent = << >> /\ NewPcb.unacked = << >>
    /\ NewPcb.lastack = 0 /\ NewPcb.snd_nxt = 0 /\ NewPcb.snd_lbb = 0
BY DEF NewPcb, IsPcb

LEMMA FreeFields ==
    /\ IsPcb(Free) /\ Free.state = "FREE" /\ Free.rcv_wnd = TCP_WND
    /\ Free.rxclosed = FALSE /\ Free.closepend = FALSE
    /\ IsPcb(Halted) /\ Halted.state = "HALTED" /\ Halted.rcv_wnd = TCP_WND
    /\ Halted.rxclosed = FALSE /\ Halted.closepend = FALSE
<1>1. PICK p : p = NewPcb
  OBVIOUS
<1>2. IsPcb(p) /\ p.rcv_wnd = TCP_WND /\ p.rxclosed = FALSE /\ p.closepend = FALSE
  BY <1>1, NewPcbFields
<1>3. Free = [p EXCEPT !.state = "FREE"] /\ Halted = [p EXCEPT !.state = "HALTED"]
  BY <1>1 DEF Free, Halted
<1>4. QED
  BY <1>2, <1>3 DEF IsPcb

\* A block that is given up, or a kernel that stopped.
LEMMA GoneInv ==
    ASSUME NEW A, NEW l \in Seq(Entries), Tells(l, A), Index(l, "reset") = {}
    PROVE  RxInv(Free, l, A) /\ RxInv(Halted, l, A)
<1>1. PICK p : p = Free
  OBVIOUS
<1>2. PICK h : h = Halted
  OBVIOUS
<1>3. /\ IsPcb(p) /\ p.state = "FREE" /\ p.rcv_wnd = TCP_WND /\ p.rxclosed = FALSE /\ p.closepend = FALSE
      /\ IsPcb(h) /\ h.state = "HALTED" /\ h.rcv_wnd = TCP_WND /\ h.rxclosed = FALSE /\ h.closepend = FALSE
  BY <1>1, <1>2, FreeFields
<1>4. RxOk(p, A) /\ RxOk(h, A)
  BY <1>3 DEF RxOk, States, Receiving, Ended
<1>5. LogOk(p, l, A) /\ LogOk(h, l, A)
  BY <1>3 DEF LogOk, States, Receiving, Ended
<1>6. QED
  BY <1>1, <1>2, <1>4, <1>5 DEF RxInv

\* The FIN is queued, or it is left to the timer.
LEMMA tcp_close_shutdown_finRx ==
    ASSUME NEW p, IsPcb(p), NEW mem
    PROVE  LET q == tcp_close_shutdown_fin(p, mem)
           IN  /\ IsPcb(q) /\ q.rcv_nxt = p.rcv_nxt /\ q.rcv_wnd = p.rcv_wnd /\ q.ooseq = p.ooseq
               /\ q.rxclosed = p.rxclosed /\ q.closepend \in {p.closepend, TRUE}
               /\ p.state \notin {"ESTABLISHED", "CLOSE_WAIT"} => q.state = p.state
               /\ p.state = "ESTABLISHED" => q.state \in {"ESTABLISHED", "FIN_WAIT_1"}
               /\ p.state = "CLOSE_WAIT" => q.state \in {"CLOSE_WAIT", "LAST_ACK"}
<1>1. PICK q : q = tcp_close_shutdown_fin(p, mem)
  OBVIOUS
<1>2. PICK w : w = tcp_send_fin(p)
  OBVIOUS
<1>3. SameRx(p, w)
  BY <1>2, tcp_send_finRx
<1>4. \/ p.state \notin {"ESTABLISHED", "CLOSE_WAIT"} /\ q = p
      \/ /\ p.state \in {"ESTABLISHED", "CLOSE_WAIT"}
         /\ q = [w EXCEPT !.state = IF p.state = "ESTABLISHED" THEN "FIN_WAIT_1" ELSE "LAST_ACK"]
      \/ p.state \in {"ESTABLISHED", "CLOSE_WAIT"} /\ q = [p EXCEPT !.closepend = TRUE]
  BY <1>1, <1>2, Zenon DEF tcp_close_shutdown_fin
<1>5. CASE p.state \notin {"ESTABLISHED", "CLOSE_WAIT"} /\ q = p
  BY <1>1, <1>5
<1>6. CASE /\ p.state \in {"ESTABLISHED", "CLOSE_WAIT"}
           /\ q = [w EXCEPT !.state = IF p.state = "ESTABLISHED" THEN "FIN_WAIT_1" ELSE "LAST_ACK"]
  <2>1. /\ IsPcb(q) /\ q.rcv_nxt = w.rcv_nxt /\ q.rcv_wnd = w.rcv_wnd /\ q.ooseq = w.ooseq
        /\ q.rxclosed = w.rxclosed /\ q.closepend = w.closepend
        /\ q.state = IF p.state = "ESTABLISHED" THEN "FIN_WAIT_1" ELSE "LAST_ACK"
    BY <1>3, <1>6 DEF IsPcb, SameRx
  <2>2. QED
    BY <2>1, <1>1, <1>3, <1>6 DEF SameRx
<1>7. CASE p.state \in {"ESTABLISHED", "CLOSE_WAIT"} /\ q = [p EXCEPT !.closepend = TRUE]
  <2>1. /\ IsPcb(q) /\ q.rcv_nxt = p.rcv_nxt /\ q.rcv_wnd = p.rcv_wnd /\ q.ooseq = p.ooseq
        /\ q.rxclosed = p.rxclosed /\ q.closepend = TRUE /\ q.state = p.state
    BY <1>7 DEF IsPcb
  <2>2. QED
    BY <2>1, <1>1, <1>7
<1>8. QED
  BY <1>4, <1>5, <1>6, <1>7

LEMMA ResultFields ==
    ASSUME NEW p, NEW l
    PROVE  Result(p, l).p = p /\ Result(p, l).log = l
BY DEF Result

\* Events put at the end of a log, one after the other.
LEMMA LogConcat ==
    ASSUME NEW l \in Seq(Entries), NEW e \in Names
    PROVE  /\ l \o << >> = l /\ << >> \in Seq(Entries)
           /\ <<Event(e)>> \in Seq(Entries) /\ l \o <<Event(e)>> = Grow(l, e, {})
           /\ \A m \in Seq(Entries) : l \o (<<Event(e)>> \o m) = Grow(l, e, {}) \o m
<1>1. PICK ev \in Entries : ev = Event(e)
  BY DEF Event, Entries
<1>2. PICK t : t = <<ev>>
  OBVIOUS
<1>3. t \in Seq(Entries)
  BY <1>2
<1>4. Append(l, ev) = l \o t
  BY <1>2, AppendIsConcat
<1>5. Grow(l, e, {}) = l \o t
  BY <1>1, <1>4 DEF Grow, Event
<1>6. \A m \in Seq(Entries) : l \o (t \o m) = (l \o t) \o m
  BY <1>3, ConcatAssociative
<1>7. l \o << >> = l /\ << >> \in Seq(Entries)
  BY ConcatEmptySeq, EmptySeq
<1>8. QED
  BY <1>1, <1>2, <1>3, <1>5, <1>6, <1>7

\* The log after data d was given to the application.
Taken(l, d) == IF d = {} THEN l ELSE Grow(l, "recv", d)

LEMMA ReceivedConcat ==
    ASSUME NEW l \in Seq(Entries), NEW d \in SUBSET Nat, NEW m \in Seq(Entries)
    PROVE  l \o (Received(d) \o m) = Taken(l, d) \o m
<1>1. CASE d = {}
  <2>1. Received(d) = << >>
    BY <1>1 DEF Received
  <2>2. << >> \o m = m
    BY ConcatEmptySeq
  <2>3. QED
    BY <1>1, <2>1, <2>2 DEF Taken
<1>2. CASE d # {}
  <2>1. PICK ev \in Entries : ev = <<"recv", d>>
    BY DEF Entries, Names
  <2>2. PICK t : t = <<ev>>
    OBVIOUS
  <2>3. t \in Seq(Entries)
    BY <2>2
  <2>4. Append(l, ev) = l \o t
    BY <2>2, AppendIsConcat
  <2>5. Grow(l, "recv", d) = l \o t
    BY <2>1, <2>4 DEF Grow
  <2>6. l \o (t \o m) = (l \o t) \o m
    BY <2>3, ConcatAssociative
  <2>7. Received(d) = t
    BY <1>2, <2>1, <2>2 DEF Received
  <2>8. QED
    BY <1>2, <2>5, <2>6, <2>7 DEF Taken
<1>3. QED
  BY <1>1, <1>2

\* An event other than data, the end and a reset: what the log says stays.
LEMMA Noted ==
    ASSUME NEW A, NEW l \in Seq(Entries), Tells(l, A), Index(l, "err") = {}, Index(l, "reset") = {},
           NEW e \in {"connected", "close", "err"}
    PROVE  LET m == Grow(l, e, {})
           IN  /\ m \in Seq(Entries) /\ Tells(m, A) /\ Given(m) = Given(l) /\ Index(m, "reset") = {}
               /\ Index(m, "eof") = Index(l, "eof") /\ Index(m, "recv") = Index(l, "recv")
               /\ (e # "err" => Index(m, "err") = {})
               /\ (e # "close" => Index(m, "close") = Index(l, "close"))
<1>1. e \in Names /\ e \notin {"recv", "eof"} /\ {} \in SUBSET Nat /\ e # "reset"
  BY DEF Names
<1>2. PICK m : m = Grow(l, e, {})
  OBVIOUS
<1>3. Tells(m, A)
  BY <1>1, <1>2, TellsEvent
<1>4. Grown(m, l, e, {})
  BY <1>1, <1>2, LogAppend
<1>5. /\ m \in Seq(Entries) /\ Given(m) = Given(l)
      /\ \A x : Index(m, x) = Index(l, x) \cup (IF x = e THEN {Len(l) + 1} ELSE {})
  BY <1>1, <1>4 DEF Grown
<1>6. QED
  BY <1>1, <1>2, <1>3, <1>5

\* tcp_close_shutdown_fin of a block that the application has closed.
LEMMA ShutInv ==
    ASSUME NEW A, NEW p, NEW l, NEW mem, RxInv(p, l, A), p.rxclosed
    PROVE  RxInv(tcp_close_shutdown_fin(p, mem), l, A)
<1>1. PICK q : q = tcp_close_shutdown_fin(p, mem)
  OBVIOUS
<1>2. RxOk(p, A) /\ LogOk(p, l, A) /\ IsPcb(p)
  BY DEF RxInv, RxOk
<1>3. /\ IsPcb(q) /\ q.rcv_nxt = p.rcv_nxt /\ q.rcv_wnd = p.rcv_wnd /\ q.ooseq = p.ooseq
      /\ q.rxclosed = p.rxclosed /\ q.closepend \in {p.closepend, TRUE}
      /\ p.state \notin {"ESTABLISHED", "CLOSE_WAIT"} => q.state = p.state
      /\ p.state = "ESTABLISHED" => q.state \in {"ESTABLISHED", "FIN_WAIT_1"}
      /\ p.state = "CLOSE_WAIT" => q.state \in {"CLOSE_WAIT", "LAST_ACK"}
  BY <1>1, <1>2, tcp_close_shutdown_finRx
<1>4. /\ q.state \in States
      /\ q.state \in Receiving <=> p.state \in Receiving
      /\ q.state \in Ended <=> p.state \in Ended
      /\ \A s \in {"CLOSED", "SYN_SENT", "FREE", "HALTED"} : q.state = s <=> p.state = s
  BY <1>2, <1>3 DEF RxOk, States, Receiving, Ended
<1>5. RxOk(q, A)
  BY <1>2, <1>3, <1>4 DEF RxOk
<1>6. LogOk(q, l, A)
  BY <1>2, <1>3, <1>4 DEF LogOk
<1>7. QED
  BY <1>1, <1>5, <1>6 DEF RxInv

Shut(q, mem) == tcp_close_shutdown_fin([q EXCEPT !.rxclosed = TRUE], mem)

\* With the whole window open tcp_close never resets.
LEMMA CloseResult ==
    ASSUME NEW q, NEW mem, q.rcv_wnd = TCP_WND, q.state # "CLOSED"
    PROVE  tcp_close(q, mem).p = Shut(q, mem) /\ tcp_close(q, mem).log = <<Event("close")>>
<1>1. tcp_close(q, mem) = Result(Shut(q, mem), <<Event("close")>>)
  BY DEF tcp_close, Shut
<1>2. QED
  BY <1>1, ResultFields

-----------------------------------------------------------------------------
(* A segment for a connection.                                             *)

Unprobed(p) == [p EXCEPT !.probes = 0]
InState(p, st) == IF st = "TIME_WAIT" THEN Purged(p, st) ELSE [p EXCEPT !.state = st]

LEMMA InStateFields ==
    ASSUME NEW p, IsPcb(p), NEW st
    PROVE  LET q == InState(p, st)
           IN  /\ IsPcb(q) /\ q.state = st /\ q.rcv_nxt = p.rcv_nxt /\ q.rcv_wnd = p.rcv_wnd
               /\ q.rxclosed = p.rxclosed /\ q.closepend = p.closepend
               /\ (st # "TIME_WAIT" => q.ooseq = p.ooseq)
<1>1. PICK q : q = InState(p, st)
  OBVIOUS
<1>2. CASE st = "TIME_WAIT"
  <2>1. q = [p EXCEPT !.state = st, !.unsent = << >>, !.unacked = << >>, !.ooseq = << >>, !.rtime = FALSE]
    BY <1>1, <1>2 DEF InState, Purged
  <2>2. /\ IsPcb(q) /\ q.state = st /\ q.rcv_nxt = p.rcv_nxt /\ q.rcv_wnd = p.rcv_wnd
        /\ q.rxclosed = p.rxclosed /\ q.closepend = p.closepend
    BY <2>1 DEF IsPcb
  <2>3. QED
    BY <1>1, <1>2, <2>2
<1>3. CASE st # "TIME_WAIT"
  <2>1. q = [p EXCEPT !.state = st]
    BY <1>1, <1>3 DEF InState
  <2>2. QED
    BY <1>1, <2>1 DEF IsPcb
<1>4. QED
  BY <1>2, <1>3

LEMMA UnprobedRx ==
    ASSUME NEW p, IsPcb(p)
    PROVE  SameRx(p, Unprobed(p))
BY DEF Unprobed, SameRx, IsPcb

\* The state that follows.
LEMMA StateAfterCases ==
    ASSUME NEW p, NEW s, NEW st \in Synchronized, NEW fin \in BOOLEAN
    PROVE  /\ st \in Receiving /\ fin => StateAfter(st, p, s, fin) \in {"CLOSE_WAIT", "CLOSING", "TIME_WAIT"}
           /\ st = "ESTABLISHED" /\ ~fin => StateAfter(st, p, s, fin) = p.state
           /\ st \in {"FIN_WAIT_1", "FIN_WAIT_2"} /\ ~fin => StateAfter(st, p, s, fin) \in {"FIN_WAIT_1", "FIN_WAIT_2"}
           /\ st = "CLOSE_WAIT" /\ ~fin => StateAfter(st, p, s, fin) = p.state
           /\ st \in {"CLOSING", "LAST_ACK"} => StateAfter(st, p, s, fin) \in {st, "TIME_WAIT", "FREE"}
<1>1. st \in {"ESTABLISHED", "CLOSE_WAIT", "FIN_WAIT_1", "FIN_WAIT_2", "CLOSING", "LAST_ACK"}
  BY DEF Synchronized, Active
<1>2. CASE st \in {"ESTABLISHED", "CLOSE_WAIT"}
  BY <1>2 DEF StateAfter, Receiving
<1>3. CASE st = "FIN_WAIT_1"
  BY <1>3 DEF StateAfter, Receiving
<1>4. CASE st = "FIN_WAIT_2"
  BY <1>4 DEF StateAfter, Receiving
<1>5. CASE st = "CLOSING"
  BY <1>5 DEF StateAfter, Receiving
<1>6. CASE st = "LAST_ACK"
  BY <1>6 DEF StateAfter, Receiving
<1>7. QED
  BY <1>1, <1>2, <1>3, <1>4, <1>5, <1>6

\* TookUpTo, with the state that tcp_process finds.
ProcessedUpTo(p, r, A, e) ==
    /\ e \in p.rcv_nxt .. A + 1 /\ r.data = p.rcv_nxt .. e - 1
    /\ r.fin \in BOOLEAN /\ r.assert \in BOOLEAN
    /\ IsPcb(r.p) /\ r.p.rxclosed = p.rxclosed /\ r.p.closepend = p.closepend
    /\ r.p.rcv_wnd = TCP_WND - (e - p.rcv_nxt) - (IF r.fin THEN 1 ELSE 0)
    /\ r.fin => e = A + 1 /\ r.p.state \in {"CLOSE_WAIT", "CLOSING", "TIME_WAIT"}
    /\ ~r.fin => /\ r.p.rcv_nxt = e /\ Queued(r.p.ooseq, e, A) /\ r.p.state \in Receiving
                 /\ r.p.state = "ESTABLISHED" <=> p.state = "ESTABLISHED"

LEMMA ProcessForm ==
    ASSUME NEW p, NEW s, NEW r0, r0 = tcp_receive(Unprobed(p), s), DOMAIN r0 = {"p", "data", "fin", "assert"}
    PROVE  LET r == tcp_process(p, s)
           IN  /\ r.p = InState(r0.p, StateAfter(p.state, r0.p, s, r0.fin))
               /\ r.data = r0.data /\ r.fin = r0.fin /\ r.assert = r0.assert
<1>1. PICK st : st = StateAfter(p.state, r0.p, s, r0.fin)
  OBVIOUS
<1>2. tcp_process(p, s) = [r0 EXCEPT !.p = IF st = "TIME_WAIT" THEN Purged(@, st) ELSE [@ EXCEPT !.state = st]]
  BY <1>1 DEF tcp_process, Unprobed
<1>3. PICK x : x = InState(r0.p, st)
  OBVIOUS
<1>4. tcp_process(p, s) = [r0 EXCEPT !.p = x]
  BY <1>2, <1>3 DEF InState
<1>5. QED
  BY <1>1, <1>3, <1>4

LEMMA tcp_processTook ==
    ASSUME NEW A \in Nat, NEW p, Taking(p, A), NEW s, Arrived(p, s, A)
    PROVE  \E e : ProcessedUpTo(p, tcp_process(p, s), A, e)
<1>1. PICK q : q = Unprobed(p)
  OBVIOUS
<1>2. SameRx(p, q)
  BY <1>1, UnprobedRx DEF Taking
<1>3. Taking(q, A) /\ Arrived(q, s, A)
  BY <1>2, TakingSame DEF Arrived, SameRx
<1>4. PICK r0 : r0 = tcp_receive(q, s)
  OBVIOUS
<1>5. PICK e : TookUpTo(q, r0, A, e)
  BY <1>3, <1>4, tcp_receiveTook
<1>6. TookUpTo(p, r0, A, e)
  BY <1>2, <1>5, TookSame
<1>7. PICK st : st = StateAfter(p.state, r0.p, s, r0.fin)
  OBVIOUS
<1>8. PICK r : r = tcp_process(p, s)
  OBVIOUS
<1>9. r.p = InState(r0.p, st) /\ r.data = r0.data /\ r.fin = r0.fin /\ r.assert = r0.assert
  <2>1. DOMAIN r0 = {"p", "data", "fin", "assert"}
    BY <1>6 DEF TookUpTo
  <2>2. QED
    BY <2>1, <1>1, <1>4, <1>7, <1>8, ProcessForm
<1>10. /\ IsPcb(r.p) /\ r.p.state = st /\ r.p.rcv_nxt = r0.p.rcv_nxt /\ r.p.rcv_wnd = r0.p.rcv_wnd
       /\ r.p.rxclosed = r0.p.rxclosed /\ r.p.closepend = r0.p.closepend
       /\ (st # "TIME_WAIT" => r.p.ooseq = r0.p.ooseq)
  <2>1. IsPcb(r0.p)
    BY <1>6 DEF TookUpTo
  <2>2. QED
    BY <2>1, <1>9, InStateFields
<1>11. p.state \in Receiving /\ p.state \in Synchronized /\ r0.fin \in BOOLEAN
  BY <1>6 DEF Taking, Receiving, Synchronized, Active, TookUpTo
<1>12. r0.fin => st \in {"CLOSE_WAIT", "CLOSING", "TIME_WAIT"}
  BY <1>7, <1>11, StateAfterCases
<1>13. ~r0.fin => st \in Receiving /\ st # "TIME_WAIT" /\ (st = "ESTABLISHED" <=> p.state = "ESTABLISHED")
  <2> HAVE ~r0.fin
  <2>1. CASE p.state = "ESTABLISHED"
    <3>1. r0.p.state = p.state
      BY <1>6 DEF TookUpTo
    <3>2. st = r0.p.state
      BY <2>1, <1>7, <1>11, StateAfterCases
    <3>3. QED
      BY <2>1, <3>1, <3>2 DEF Receiving
  <2>2. CASE p.state # "ESTABLISHED"
    <3>1. p.state \in {"FIN_WAIT_1", "FIN_WAIT_2"}
      BY <2>2, <1>11 DEF Receiving
    <3>2. st \in {"FIN_WAIT_1", "FIN_WAIT_2"}
      BY <3>1, <1>7, <1>11, StateAfterCases
    <3>3. QED
      BY <3>1, <3>2 DEF Receiving
  <2>3. QED
    BY <2>1, <2>2
<1>14. ProcessedUpTo(p, r, A, e)
  BY <1>6, <1>9, <1>10, <1>12, <1>13 DEF TookUpTo, ProcessedUpTo
<1>15. QED
  BY <1>8, <1>14

\* After the end of the answer nothing is taken.
NothingTaken(p, r) ==
    /\ r.data = {} /\ r.fin = FALSE /\ r.assert = TRUE
    /\ IsPcb(r.p) /\ r.p.rxclosed = p.rxclosed /\ r.p.closepend = p.closepend /\ r.p.rcv_wnd = p.rcv_wnd
    /\ r.p.state \in Ended \cup {"FREE"}

LEMMA tcp_processEnded ==
    ASSUME NEW p, IsPcb(p), p.state \in {"CLOSE_WAIT", "CLOSING", "LAST_ACK"}, NEW s
    PROVE  NothingTaken(p, tcp_process(p, s))
<1>1. PICK w : w = Unprobed(p)
  OBVIOUS
<1>2. SameRx(p, w) /\ IsPcb(w)
  BY <1>1, UnprobedRx DEF SameRx
<1>3. PICK q : q = AckReceived(w, s)
  OBVIOUS
<1>4. SameRx(p, q)
  BY <1>2, <1>3, AckReceivedRx, SameRxTrans
<1>5. PICK r0 : r0 = tcp_receive(w, s)
  OBVIOUS
<1>6. q.state \notin Receiving
  BY <1>4 DEF SameRx, Receiving
<1>7. r0 = NoData(q)
  BY <1>3, <1>5, <1>6 DEF tcp_receive
<1>8. r0.p = q /\ r0.data = {} /\ r0.fin = FALSE /\ r0.assert = TRUE /\ DOMAIN r0 = {"p", "data", "fin", "assert"}
  BY <1>7 DEF NoData
<1>9. PICK st : st = StateAfter(p.state, r0.p, s, r0.fin)
  OBVIOUS
<1>10. PICK r : r = tcp_process(p, s)
  OBVIOUS
<1>11. r.p = InState(q, st) /\ r.data = {} /\ r.fin = FALSE /\ r.assert = TRUE
  BY <1>1, <1>5, <1>8, <1>9, <1>10, ProcessForm
<1>12. st \in Ended \cup {"FREE"}
  <2>1. p.state \in Synchronized /\ r0.fin \in BOOLEAN /\ r0.fin = FALSE
    BY <1>8 DEF Synchronized, Active
  <2>2. q.state = p.state /\ r0.p = q
    BY <1>4, <1>8 DEF SameRx
  <2>3. st \in {p.state, "TIME_WAIT", "FREE"}
    BY <2>1, <2>2, <1>9, StateAfterCases
  <2>4. QED
    BY <2>3 DEF Ended
<1>13. IsPcb(q)
  BY <1>4 DEF SameRx
<1>14. /\ IsPcb(r.p) /\ r.p.state = st /\ r.p.rcv_wnd = q.rcv_wnd
       /\ r.p.rxclosed = q.rxclosed /\ r.p.closepend = q.closepend
  BY <1>11, <1>13, InStateFields
<1>15. QED
  BY <1>4, <1>10, <1>11, <1>12, <1>14 DEF SameRx, NothingTaken

\* What the log says after the bytes from rcv_nxt up to e were given to the application.
TakenOk(m, l, d, p, A, e) ==
    /\ m \in Seq(Entries) /\ Tells(m, A) /\ Given(m) = 1 .. e - 1 /\ Index(m, "eof") = {}
    /\ Index(m, "err") = {} /\ Index(m, "reset") = {} /\ Index(m, "close") = Index(l, "close")
    /\ (d = {} => m = l /\ e = p.rcv_nxt) /\ d \in SUBSET Nat

LEMMA TakenLog ==
    ASSUME NEW A \in Nat, NEW p, NEW l, RxInv(p, l, A), p.state \in Receiving,
           NEW e, e \in p.rcv_nxt .. A + 1, NEW d, d = p.rcv_nxt .. e - 1, d = {} \/ ~p.rxclosed
    PROVE  TakenOk(Taken(l, d), l, d, p, A, e)
<1>1. /\ l \in Seq(Entries) /\ Tells(l, A) /\ Index(l, "reset") = {} /\ Index(l, "err") = {}
      /\ Index(l, "eof") = {} /\ Given(l) = 1 .. p.rcv_nxt - 1
      /\ ~p.rxclosed => Index(l, "close") = {}
  BY DEF RxInv, LogOk, Receiving
<1>2. PICK n \in Nat : n = p.rcv_nxt /\ n >= 1
  BY DEF RxInv, RxOk
<1>3. e \in Nat /\ n <= e /\ d = n .. e - 1 /\ d \in SUBSET Nat
  BY <1>2
<1>4. CASE d = {}
  <2>1. e = n
    <3>1. n \notin n .. e - 1
      BY <1>3, <1>4
    <3>2. QED
      BY <3>1, <1>3
  <2>2. Taken(l, d) = l
    BY <1>4 DEF Taken
  <2>3. QED
    BY <2>1, <2>2, <1>1, <1>2, <1>3 DEF TakenOk
<1>5. CASE d # {}
  <2>1. PICK m : m = Grow(l, "recv", d)
    OBVIOUS
  <2>2. Tells(m, A) /\ Given(m) = 1 .. e - 1
    <3>1. Index(l, "close") = {} /\ Given(l) = 1 .. n - 1
      BY <1>1, <1>2, <1>5
    <3>2. Tells(Grow(l, "recv", n .. e - 1), A) /\ Given(Grow(l, "recv", n .. e - 1)) = 1 .. e - 1
      BY <3>1, <1>1, <1>2, <1>3, TellsRecv
    <3>3. QED
      BY <3>2, <2>1, <1>3
  <2>3. "recv" \in Names
    BY DEF Names
  <2>4. Grown(m, l, "recv", d)
    BY <2>1, <2>3, <1>1, <1>3, LogAppend
  <2>5. /\ m \in Seq(Entries)
        /\ \A x : Index(m, x) = Index(l, x) \cup (IF x = "recv" THEN {Len(l) + 1} ELSE {})
    BY <2>4 DEF Grown
  <2>6. Taken(l, d) = m
    BY <2>1, <1>5 DEF Taken
  <2>7. QED
    BY <2>2, <2>5, <2>6, <1>1, <1>3, <1>5 DEF TakenOk
<1>6. QED
  BY <1>4, <1>5

\* What tcp_recved makes of the window: it is whole again but for the number of a FIN.
LEMMA WindowBack ==
    ASSUME NEW A \in Nat, NEW p, p.rcv_nxt \in Nat, NEW r, NEW e, ProcessedUpTo(p, r, A, e)
    PROVE  LET w == tcp_recved(r.p, Cardinality(r.data))
           IN  /\ IsPcb(w) /\ w.rcv_wnd = TCP_WND - (IF r.fin THEN 1 ELSE 0) /\ w.state = r.p.state
               /\ w.rcv_nxt = r.p.rcv_nxt /\ w.ooseq = r.p.ooseq /\ w.rxclosed = p.rxclosed /\ w.closepend = p.closepend
<1>1. PICK n \in Nat : n = p.rcv_nxt
  OBVIOUS
<1>2. /\ e \in Nat /\ n <= e /\ r.data = n .. e - 1 /\ r.fin \in BOOLEAN /\ TCP_WND \in Nat
      /\ IsPcb(r.p) /\ r.p.rxclosed = p.rxclosed /\ r.p.closepend = p.closepend
      /\ r.p.rcv_wnd = TCP_WND - (e - n) - (IF r.fin THEN 1 ELSE 0)
  BY <1>1, TcpAssumption DEF ProcessedUpTo
<1>3. Cardinality(r.data) = e - n
  <2>1. n \in Int /\ e - 1 \in Int
    BY <1>2
  <2>2. Cardinality(n .. e - 1) = IF n > e - 1 THEN 0 ELSE (e - 1) - n + 1
    BY <2>1, FS_Interval
  <2>3. QED
    BY <2>2, <1>2
<1>4. PICK x : x = r.p
  OBVIOUS
<1>5. PICK w : w = tcp_recved(x, Cardinality(r.data))
  OBVIOUS
<1>6. PICK y : y = Smaller(x.rcv_wnd + Cardinality(r.data), TCP_WND)
  OBVIOUS
<1>7. y = TCP_WND - (IF r.fin THEN 1 ELSE 0)
  BY <1>2, <1>3, <1>4, <1>6 DEF Smaller
<1>8. w = [x EXCEPT !.rcv_wnd = y]
  BY <1>2, <1>4, <1>5, <1>6 DEF tcp_recved, IsPcb
<1>9. /\ IsPcb(w) /\ w.rcv_wnd = y /\ w.state = x.state
      /\ w.rcv_nxt = x.rcv_nxt /\ w.ooseq = x.ooseq /\ w.rxclosed = x.rxclosed /\ w.closepend = x.closepend
  BY <1>2, <1>4, <1>8 DEF IsPcb
<1>10. QED
  BY <1>2, <1>4, <1>5, <1>7, <1>9

\* A block without the window's last number, with which Eof closes.
Whole(w) == [w EXCEPT !.rcv_wnd = IF @ # TCP_WND THEN @ + 1 ELSE @]

LEMMA EofResult ==
    ASSUME NEW w, IsPcb(w), w.rcv_wnd = TCP_WND - 1, w.state # "CLOSED", NEW mem
    PROVE  /\ Eof(w, mem).p = Shut(Whole(w), mem) /\ Eof(w, mem).log = <<Event("eof")>> \o <<Event("close")>>
           /\ LET v == Whole(w)
              IN  /\ IsPcb(v) /\ v.rcv_wnd = TCP_WND /\ v.state = w.state /\ v.rxclosed = w.rxclosed
                  /\ v.closepend = w.closepend
<1>1. TCP_WND \in Nat
  BY TcpAssumption
<1>2. PICK v : v = Whole(w)
  OBVIOUS
<1>3. IsPcb(v) /\ v.rcv_wnd = TCP_WND /\ v.state = w.state /\ v.rxclosed = w.rxclosed /\ v.closepend = w.closepend
  BY <1>1, <1>2 DEF Whole, IsPcb
<1>4. PICK c : c = tcp_close(v, mem)
  OBVIOUS
<1>5. c.p = Shut(v, mem) /\ c.log = <<Event("close")>>
  BY <1>3, <1>4, CloseResult
<1>6. PICK g : g = <<Event("eof")>> \o c.log
  OBVIOUS
<1>7. Eof(w, mem) = Result(c.p, g)
  BY <1>2, <1>4, <1>6 DEF Eof, Whole
<1>8. Eof(w, mem).p = c.p /\ Eof(w, mem).log = g
  BY <1>7, ResultFields
<1>9. QED
  BY <1>2, <1>3, <1>5, <1>6, <1>8

\* The end is told and the connection closed: the log then, and the block.
LEMMA EofInv ==
    ASSUME NEW A \in Nat, NEW v, IsPcb(v), v.rcv_wnd = TCP_WND, v.state \in {"CLOSE_WAIT", "CLOSING", "TIME_WAIT"},
           v.closepend \in BOOLEAN, NEW mem,
           NEW l \in Seq(Entries), Tells(l, A), Given(l) = 1 .. A, Index(l, "eof") = {},
           Index(l, "err") = {}, Index(l, "reset") = {}
    PROVE  RxInv(Shut(v, mem), l \o (<<Event("eof")>> \o <<Event("close")>>), A)
<1>1. PICK m : m = Grow(l, "eof", {})
  OBVIOUS
<1>2. "eof" \in Names /\ "close" \in Names /\ {} \in SUBSET Nat
  BY DEF Names
<1>3. Tells(m, A)
  BY <1>1, TellsEof
<1>4. Grown(m, l, "eof", {})
  BY <1>1, <1>2, LogAppend
<1>5. m \in Seq(Entries) /\ Given(m) = 1 .. A /\ Index(m, "err") = {} /\ Index(m, "reset") = {}
  BY <1>4 DEF Grown
<1>6. PICK k : k = Grow(m, "close", {})
  OBVIOUS
<1>7. k \in Seq(Entries) /\ Tells(k, A) /\ Given(k) = 1 .. A /\ Index(k, "err") = {} /\ Index(k, "reset") = {}
  <2>1. "close" \in {"connected", "close", "err"} /\ "close" # "err"
    OBVIOUS
  <2>2. QED
    BY <2>1, <1>3, <1>5, <1>6, Noted
<1>8. l \o (<<Event("eof")>> \o <<Event("close")>>) = k
  <2>1. <<Event("close")>> \in Seq(Entries) /\ m \o <<Event("close")>> = k
    BY <1>2, <1>5, <1>6, LogConcat
  <2>2. l \o (<<Event("eof")>> \o <<Event("close")>>) = Grow(l, "eof", {}) \o <<Event("close")>>
    BY <2>1, <1>2, LogConcat
  <2>3. QED
    BY <2>1, <2>2, <1>1
<1>9. PICK x : x = [v EXCEPT !.rxclosed = TRUE]
  OBVIOUS
<1>10. IsPcb(x) /\ x.rcv_wnd = TCP_WND /\ x.state = v.state /\ x.rxclosed = TRUE /\ x.closepend = v.closepend
  BY <1>9 DEF IsPcb
<1>11. RxOk(x, A)
  BY <1>10 DEF RxOk, States, Receiving, Ended
<1>12. LogOk(x, k, A)
  BY <1>7, <1>10 DEF LogOk, States, Receiving, Ended
<1>13. RxInv(tcp_close_shutdown_fin(x, mem), k, A)
  BY <1>10, <1>11, <1>12, ShutInv DEF RxInv
<1>14. QED
  BY <1>8, <1>9, <1>13 DEF Shut

LEMMA DiedInv ==
    ASSUME NEW A, NEW p, NEW l, RxInv(p, l, A), p.state \notin {"FREE", "HALTED"}
    PROVE  /\ RxInv(Died.p, l \o Died.log, A)
           /\ RxInv(Free, l \o << >>, A) /\ RxInv(Halted, l \o << >>, A)
           /\ RxInv(Free, l \o <<Event("err")>>, A)
<1>1. l \in Seq(Entries) /\ Tells(l, A) /\ Index(l, "reset") = {} /\ Index(l, "err") = {}
  BY DEF RxInv, LogOk
<1>2. "err" \in {"connected", "close", "err"} /\ "err" \in Names
  BY DEF Names
<1>3. l \o << >> = l /\ l \o <<Event("err")>> = Grow(l, "err", {})
  BY <1>1, <1>2, LogConcat
<1>4. PICK m : m = Grow(l, "err", {})
  OBVIOUS
<1>5. m \in Seq(Entries) /\ Tells(m, A) /\ Index(m, "reset") = {}
  BY <1>1, <1>2, <1>4, Noted
<1>6. RxInv(Free, m, A) /\ RxInv(Free, l, A) /\ RxInv(Halted, l, A)
  BY <1>1, <1>5, GoneInv
<1>7. Died.p = Free /\ Died.log = <<Event("err")>>
  BY ResultFields DEF Died
<1>8. QED
  BY <1>3, <1>4, <1>6, <1>7

LEMMA DeliverTook ==
    ASSUME NEW A \in Nat, NEW p, NEW l, RxInv(p, l, A), p.state \in Receiving, NEW r, NEW e, ProcessedUpTo(p, r, A, e),
           NEW mem
    PROVE  RxInv(Deliver(r, mem).p, l \o Deliver(r, mem).log, A)
<1>1. /\ p.state \notin {"FREE", "HALTED"} /\ p.rcv_nxt \in Nat /\ l \in Seq(Entries) /\ TCP_WND \in Nat
      /\ p.rxclosed \in BOOLEAN /\ p.closepend \in BOOLEAN /\ p.rcv_wnd = TCP_WND
      /\ (p.closepend => p.rxclosed) /\ (p.state \in {"FIN_WAIT_1", "FIN_WAIT_2"} => p.rxclosed)
      /\ (p.rxclosed => Index(l, "recv") = {} /\ p.rcv_nxt = 1) /\ (~p.rxclosed => Index(l, "close") = {})
  BY TcpAssumption DEF RxInv, RxOk, LogOk, Receiving
<1>2. /\ e \in p.rcv_nxt .. A + 1 /\ r.data = p.rcv_nxt .. e - 1
      /\ r.fin \in BOOLEAN /\ r.assert \in BOOLEAN
      /\ r.fin => e = A + 1 /\ r.p.state \in {"CLOSE_WAIT", "CLOSING", "TIME_WAIT"}
      /\ ~r.fin => /\ r.p.rcv_nxt = e /\ Queued(r.p.ooseq, e, A) /\ r.p.state \in Receiving
                   /\ r.p.state = "ESTABLISHED" <=> p.state = "ESTABLISHED"
  BY DEF ProcessedUpTo
<1>3. PICK w : w = tcp_recved(r.p, Cardinality(r.data))
  OBVIOUS
<1>4. /\ IsPcb(w) /\ w.rcv_wnd = TCP_WND - (IF r.fin THEN 1 ELSE 0) /\ w.state = r.p.state
      /\ w.rcv_nxt = r.p.rcv_nxt /\ w.ooseq = r.p.ooseq /\ w.rxclosed = p.rxclosed /\ w.closepend = p.closepend
  BY <1>1, <1>3, WindowBack
<1>5. w.state # "FREE" /\ w.state # "CLOSED"
  BY <1>2, <1>4 DEF Receiving
<1>6. PICK c : c = IF r.fin THEN Eof(w, mem) ELSE Result(w, << >>)
  OBVIOUS
<1>7. PICK x : x = Deliver(r, mem)
  OBVIOUS
<1>8. \/ ~r.assert /\ x = Result(Halted, << >>)
      \/ r.data # {} /\ w.rxclosed /\ x = tcp_abort(w)
      \/ (r.data = {} \/ ~w.rxclosed) /\ x = Result(tcp_output(c.p), Received(r.data) \o c.log)
  BY <1>3, <1>5, <1>6, <1>7 DEF Deliver
<1>9. CASE ~r.assert /\ x = Result(Halted, << >>)
  <2>1. x.p = Halted /\ x.log = << >>
    BY <1>9, ResultFields
  <2>2. RxInv(Halted, l \o << >>, A)
    BY <1>1, DiedInv
  <2>3. QED
    BY <2>1, <2>2, <1>7
<1>10. CASE r.data # {} /\ w.rxclosed /\ x = tcp_abort(w)
  <2>1. x = Result(Free, << >>) \/ x = Died
    BY <1>10 DEF tcp_abort
  <2>2. (x.p = Free /\ x.log = << >>) \/ x = Died
    BY <2>1, ResultFields
  <2>3. RxInv(Free, l \o << >>, A) /\ RxInv(Died.p, l \o Died.log, A)
    BY <1>1, DiedInv
  <2>4. QED
    BY <2>2, <2>3, <1>7
<1>11. CASE (r.data = {} \/ ~w.rxclosed) /\ x = Result(tcp_output(c.p), Received(r.data) \o c.log)
  <2>1. PICK d : d = r.data
    OBVIOUS
  <2>2. PICK m : m = Taken(l, d)
    OBVIOUS
  <2>3. /\ m \in Seq(Entries) /\ Tells(m, A) /\ Given(m) = 1 .. e - 1 /\ Index(m, "eof") = {}
        /\ Index(m, "err") = {} /\ Index(m, "reset") = {} /\ Index(m, "close") = Index(l, "close")
        /\ (d = {} => m = l /\ e = p.rcv_nxt) /\ d \in SUBSET Nat
    <3>1. d = {} \/ ~p.rxclosed
      BY <2>1, <1>4, <1>11
    <3>2. d = p.rcv_nxt .. e - 1 /\ e \in p.rcv_nxt .. A + 1
      BY <2>1, <1>2
    <3>3. TakenOk(m, l, d, p, A, e)
      BY <3>1, <3>2, <2>2, TakenLog
    <3>4. QED
      BY <3>3 DEF TakenOk
  <2>4. x.p = tcp_output(c.p) /\ x.log = Received(d) \o c.log
    BY <2>1, <1>11, ResultFields
  <2>5. ASSUME NEW g \in Seq(Entries), c.log = g, RxInv(c.p, m \o g, A)
        PROVE  RxInv(x.p, l \o x.log, A)
    <3>1. l \o (Received(d) \o g) = m \o g
      BY <2>2, <2>3, <1>1, ReceivedConcat
    <3>2. IsPcb(c.p)
      BY <2>5 DEF RxInv, RxOk
    <3>3. RxInv(tcp_output(c.p), m \o g, A)
      BY <3>2, <2>5, tcp_outputRx, RxInvSame
    <3>4. QED
      BY <3>1, <3>3, <2>4, <2>5
  <2>6. "eof" \in Names /\ "close" \in Names
    BY DEF Names
  <2>7. CASE ~r.fin
    <3>1. c.p = w /\ c.log = << >>
      BY <2>7, <1>6, ResultFields
    <3>2. << >> \in Seq(Entries) /\ m \o << >> = m
      BY <2>3, <2>6, LogConcat
    <3>3. /\ w.state \in Receiving /\ w.rcv_nxt = e /\ Queued(w.ooseq, e, A) /\ w.rcv_wnd = TCP_WND
          /\ (w.state \in {"FIN_WAIT_1", "FIN_WAIT_2"} => w.rxclosed)
      BY <2>7, <1>1, <1>2, <1>4 DEF Receiving
    <3>4. e \in 1 .. A + 1
      BY <1>2 DEF RxInv, RxOk
    <3>5. RxOk(w, A)
      BY <3>3, <3>4, <1>1, <1>4 DEF RxOk, States, Receiving
    <3>6. w.rxclosed => e = 1 /\ Index(m, "recv") = {}
      BY <2>1, <2>3, <1>1, <1>4, <1>11
    <3>7. LogOk(w, m, A)
      BY <3>3, <3>6, <2>3, <1>1, <1>4 DEF LogOk, Receiving, Ended
    <3>8. RxInv(c.p, m \o << >>, A)
      BY <3>1, <3>2, <3>5, <3>7 DEF RxInv
    <3>9. RxInv(x.p, l \o x.log, A)
      BY <2>5, <3>1, <3>2, <3>8
    <3>10. QED
      BY <3>9, <1>7
  <2>8. CASE r.fin
    <3>1. w.rcv_wnd = TCP_WND - 1 /\ c = Eof(w, mem)
      BY <2>8, <1>4, <1>6
    <3>2. PICK v : v = Whole(w)
      OBVIOUS
    <3>3. /\ c.p = Shut(v, mem) /\ c.log = <<Event("eof")>> \o <<Event("close")>>
          /\ IsPcb(v) /\ v.rcv_wnd = TCP_WND /\ v.state = w.state /\ v.rxclosed = w.rxclosed
          /\ v.closepend = w.closepend
      BY <3>1, <3>2, <1>4, <1>5, EofResult
    <3>4. PICK g : g = <<Event("eof")>> \o <<Event("close")>>
      OBVIOUS
    <3>5. g \in Seq(Entries)
      <4>1. <<Event("eof")>> \in Seq(Entries) /\ <<Event("close")>> \in Seq(Entries)
        BY <2>6, <1>1, LogConcat
      <4>2. QED
        BY <4>1, <3>4, ConcatProperties
    <3>6. Given(m) = 1 .. A
      <4>1. (A + 1) - 1 = A
        OBVIOUS
      <4>2. QED
        BY <4>1, <2>3, <2>8, <1>2
    <3>7. v.state \in {"CLOSE_WAIT", "CLOSING", "TIME_WAIT"} /\ v.closepend \in BOOLEAN
      BY <3>3, <2>8, <1>1, <1>2, <1>4
    <3>8. RxInv(Shut(v, mem), m \o g, A)
      BY <3>3, <3>4, <3>6, <3>7, <2>3, EofInv
    <3>9. RxInv(x.p, l \o x.log, A)
      BY <2>5, <3>3, <3>4, <3>5, <3>8
    <3>10. QED
      BY <3>9, <1>7
  <2>9. QED
    BY <2>7, <2>8, <1>2
<1>12. QED
  BY <1>8, <1>9, <1>10, <1>11

LEMMA DeliverEnded ==
    ASSUME NEW A \in Nat, NEW p, NEW l, RxInv(p, l, A), p.state \in {"CLOSE_WAIT", "CLOSING", "LAST_ACK"}, NEW s, NEW mem
    PROVE  RxInv(Deliver(tcp_process(p, s), mem).p, l \o Deliver(tcp_process(p, s), mem).log, A)
<1>1. /\ p.state \notin {"FREE", "HALTED"} /\ IsPcb(p) /\ l \in Seq(Entries) /\ TCP_WND \in Nat
      /\ p.rxclosed \in BOOLEAN /\ p.closepend \in BOOLEAN /\ p.rcv_wnd = TCP_WND /\ (p.closepend => p.rxclosed)
      /\ Tells(l, A) /\ Given(l) = 1 .. A /\ Index(l, "reset") = {} /\ Index(l, "err") = {}
  BY TcpAssumption DEF RxInv, RxOk, LogOk, Ended
<1>2. PICK r : r = tcp_process(p, s)
  OBVIOUS
<1>3. /\ r.data = {} /\ r.fin = FALSE /\ r.assert = TRUE
      /\ IsPcb(r.p) /\ r.p.rxclosed = p.rxclosed /\ r.p.closepend = p.closepend /\ r.p.rcv_wnd = p.rcv_wnd
      /\ r.p.state \in Ended \cup {"FREE"}
  <2>1. NothingTaken(p, r)
    BY <1>1, <1>2, tcp_processEnded
  <2>2. QED
    BY <2>1 DEF NothingTaken
<1>4. PICK y : y = r.p
  OBVIOUS
<1>5. PICK w : w = tcp_recved(y, Cardinality(r.data))
  OBVIOUS
<1>6. /\ IsPcb(w) /\ w.rcv_wnd = TCP_WND /\ w.state = y.state /\ w.rxclosed = p.rxclosed /\ w.closepend = p.closepend
  <2>1. Cardinality(r.data) = 0
    BY <1>3, FS_EmptySet
  <2>2. Smaller(y.rcv_wnd + 0, TCP_WND) = TCP_WND
    BY <1>1, <1>3, <1>4 DEF Smaller
  <2>3. w = [y EXCEPT !.rcv_wnd = TCP_WND]
    BY <2>1, <2>2, <1>3, <1>4, <1>5 DEF tcp_recved, IsPcb
  <2>4. QED
    BY <2>3, <1>3, <1>4 DEF IsPcb
<1>7. PICK x : x = Deliver(r, mem)
  OBVIOUS
<1>8. PICK c : c = Result(w, << >>)
  OBVIOUS
<1>9. \/ w.state = "FREE" /\ x = Result(Free, IF w.rxclosed THEN << >> ELSE <<Event("err")>>)
      \/ w.state # "FREE" /\ x = Result(tcp_output(c.p), Received(r.data) \o c.log)
  BY <1>3, <1>4, <1>5, <1>7, <1>8 DEF Deliver
<1>10. CASE w.state = "FREE" /\ x = Result(Free, IF w.rxclosed THEN << >> ELSE <<Event("err")>>)
  <2>1. PICK g : g = IF w.rxclosed THEN << >> ELSE <<Event("err")>>
    OBVIOUS
  <2>2. x.p = Free /\ x.log = g
    BY <2>1, <1>10, ResultFields
  <2>3. g = << >> \/ g = <<Event("err")>>
    BY <2>1
  <2>4. RxInv(Free, l \o << >>, A) /\ RxInv(Free, l \o <<Event("err")>>, A)
    BY <1>1, DiedInv
  <2>5. QED
    BY <2>2, <2>3, <2>4, <1>2, <1>7
<1>11. CASE w.state # "FREE" /\ x = Result(tcp_output(c.p), Received(r.data) \o c.log)
  <2>1. c.p = w /\ c.log = << >>
    BY <1>8, ResultFields
  <2>2. Received(r.data) = << >>
    BY <1>3 DEF Received
  <2>3. << >> \o << >> = << >> /\ l \o << >> = l
    BY <1>1, EmptySeq, ConcatEmptySeq
  <2>4. x.p = tcp_output(w) /\ x.log = << >>
    BY <2>1, <2>2, <2>3, <1>11, ResultFields
  <2>5. w.state \in Ended
    BY <1>3, <1>4, <1>6, <1>11
  <2>6. RxOk(w, A)
    BY <2>5, <1>1, <1>6 DEF RxOk, States, Ended, Receiving
  <2>7. LogOk(w, l, A)
    BY <2>5, <1>1, <1>6 DEF LogOk, States, Ended, Receiving
  <2>8. RxInv(tcp_output(w), l, A)
    BY <2>6, <2>7, <1>6, tcp_outputRx, RxInvSame DEF RxInv
  <2>9. QED
    BY <2>3, <2>4, <2>8, <1>2, <1>7
<1>12. QED
  BY <1>9, <1>10, <1>11

\* The talk is one of the exchanges.
TalkOk(t) ==
    /\ DOMAIN t = {"request", "answer", "up"} /\ t.answer \in Nat
    /\ \E e \in Exchanges : t.request = e.request /\ t.answer = e.answer

LEMMA SendableArrived ==
    ASSUME TalkOk(talk), NEW s \in Sendable, pcb.rcv_nxt \in Nat, pcb.rcv_wnd \in Nat
    PROVE  Arrived(pcb, s, talk.answer)
<1>1. PICK A \in Nat : A = talk.answer
  BY DEF TalkOk
<1>2. TCP_MSS \in Nat
  BY TcpAssumption
<1>3. /\ s.seq \in 1 .. A + 2 /\ s.len \in 0 .. TCP_MSS /\ s.syn = FALSE /\ s.fin \in BOOLEAN
      /\ \/ EndOf(s) <= Smaller(A + 1, pcb.rcv_nxt + pcb.rcv_wnd)
         \/ TCP_TCPLEN(s) = 0 /\ s.seq <= pcb.rcv_nxt
      /\ s.fin => EndOf(s) = A + 1
  BY <1>1 DEF Sendable
<1>4. EndOf(s) \in Nat
  BY <1>2, <1>3 DEF EndOf
<1>5. TCP_TCPLEN(s) > 0 => EndOf(s) <= Smaller(A + 1, pcb.rcv_nxt + pcb.rcv_wnd)
  BY <1>3
<1>6. TCP_TCPLEN(s) > 0 => EndOf(s) <= A + 1 /\ EndOf(s) <= pcb.rcv_nxt + pcb.rcv_wnd
  BY <1>4, <1>5 DEF Smaller
<1>7. s.seq \in Nat /\ s.seq >= 1 /\ s.len \in Nat
  BY <1>2, <1>3
<1>8. QED
  BY <1>1, <1>3, <1>6, <1>7 DEF Arrived

\* A segment of the talk, in any state that takes one.
LEMMA ArrivalInv ==
    ASSUME TalkOk(talk), RxInv(pcb, log, talk.answer), pcb.state \in Synchronized, NEW s \in Sendable, NEW mem
    PROVE  RxInv(Deliver(tcp_process(pcb, s), mem).p, log \o Deliver(tcp_process(pcb, s), mem).log, talk.answer)
<1>1. talk.answer \in Nat
  BY DEF TalkOk
<1>2. CASE pcb.state \in Receiving
  <2>1. Taking(pcb, talk.answer)
    BY <1>2 DEF RxInv, RxOk, Taking
  <2>2. pcb.rcv_nxt \in Nat /\ pcb.rcv_wnd \in Nat
    BY <2>1, <1>1, TcpAssumption DEF Taking
  <2>3. Arrived(pcb, s, talk.answer)
    BY <2>2, SendableArrived
  <2>4. PICK r : r = tcp_process(pcb, s)
    OBVIOUS
  <2>5. PICK e : ProcessedUpTo(pcb, r, talk.answer, e)
    BY <2>1, <2>3, <2>4, <1>1, tcp_processTook
  <2>6. QED
    BY <2>4, <2>5, <1>1, <1>2, DeliverTook
<1>3. CASE pcb.state \notin Receiving
  <2>1. pcb.state \in {"CLOSE_WAIT", "CLOSING", "LAST_ACK"}
    BY <1>3 DEF Synchronized, Active, Receiving
  <2>2. QED
    BY <2>1, <1>1, DeliverEnded
<1>4. QED
  BY <1>2, <1>3

-----------------------------------------------------------------------------
(* The other steps.                                                        *)

Opened(p, wnd) ==
    [p EXCEPT !.state = "ESTABLISHED", !.rcv_nxt = 1, !.lastack = 1, !.snd_wnd = wnd,
              !.wl1 = -1, !.cwnd = 2 * TCP_MSS, !.probes = 0,
              !.unacked = IF @ # << >> THEN Tail(@) ELSE @,
              !.unsent = IF p.unacked # << >> THEN @ ELSE Tail(@),
              !.rtime = FALSE]

IsOpened(q) ==
    /\ IsPcb(q) /\ q.state = "ESTABLISHED" /\ q.rcv_nxt = 1 /\ q.rcv_wnd = TCP_WND
    /\ q.ooseq = << >> /\ q.rxclosed = FALSE /\ q.closepend = FALSE

\* The connection is established: nothing was received yet.
LEMMA OpenedInv ==
    ASSUME NEW A \in Nat, NEW p, NEW l, RxInv(p, l, A), p.state = "SYN_SENT", NEW wnd, NEW q, q = Opened(p, wnd)
    PROVE  IsOpened(q)
<1>1. IsPcb(p) /\ p.rcv_wnd = TCP_WND /\ p.ooseq = << >> /\ p.rxclosed = FALSE /\ p.closepend = FALSE
  BY DEF RxInv, RxOk
<1>2. QED
  BY <1>1 DEF Opened, IsOpened, IsPcb

\* What a connection is that has received nothing.
LEMMA FreshInv ==
    ASSUME NEW A \in Nat, NEW q, IsPcb(q), q.state = "ESTABLISHED", q.rcv_nxt = 1, q.rcv_wnd = TCP_WND,
           q.ooseq = << >>, q.rxclosed \in BOOLEAN, q.closepend = FALSE,
           NEW m \in Seq(Entries), Tells(m, A), Index(m, "reset") = {}, Index(m, "err") = {}, Index(m, "eof") = {},
           Index(m, "recv") = {}, ~q.rxclosed => Index(m, "close") = {}
    PROVE  RxInv(q, m, A)
<1>1. Queued(q.ooseq, q.rcv_nxt, A)
  BY EmptyQueue
<1>2. 1 \in 1 .. A + 1 /\ 1 .. 1 - 1 = {}
  OBVIOUS
<1>3. RxOk(q, A)
  BY <1>1, <1>2 DEF RxOk, States, Receiving, Ended
<1>4. Given(m) = {}
  BY DEF Given
<1>5. LogOk(q, m, A)
  BY <1>2, <1>4 DEF LogOk, Receiving, Ended
<1>6. QED
  BY <1>3, <1>5 DEF RxInv

LEMMA EmptyLog ==
    ASSUME NEW A
    PROVE  /\ << >> \in Seq(Entries) /\ Tells(<< >>, A) /\ Given(<< >>) = {}
           /\ \A x : Index(<< >>, x) = {}
<1>1. PICK l : l = << >>
  OBVIOUS
<1>2. l \in Seq(Entries) /\ Len(l) = 0
  BY <1>1, EmptySeq
<1>3. \A x : Index(l, x) = {}
  BY <1>2 DEF Index
<1>4. Given(l) = {}
  BY <1>3 DEF Given
<1>5. Tells(l, A)
  BY <1>3, <1>4 DEF Tells
<1>6. QED
  BY <1>1, <1>2, <1>3, <1>4, <1>5

\* The connected callback.
LEMMA SynAckInv ==
    ASSUME NEW A \in Nat, NEW p, NEW l, RxInv(p, l, A), p.state = "SYN_SENT", NEW wnd, NEW written, NEW mem
    PROVE  RxInv(SynAckArrives(p, wnd, written, mem).p, l \o SynAckArrives(p, wnd, written, mem).log, A)
<1>1. PICK q : q = Opened(p, wnd)
  OBVIOUS
<1>2. /\ IsPcb(q) /\ q.state = "ESTABLISHED" /\ q.rcv_nxt = 1 /\ q.rcv_wnd = TCP_WND
      /\ q.ooseq = << >> /\ q.rxclosed = FALSE /\ q.closepend = FALSE
  <2>1. IsOpened(q)
    BY <1>1, OpenedInv
  <2>2. QED
    BY <2>1 DEF IsOpened
<1>3. PICK c : c = ollama_connected_cb(q, written, mem)
  OBVIOUS
<1>4. PICK x : x = SynAckArrives(p, wnd, written, mem)
  OBVIOUS
<1>5. x = Result(tcp_output(c.p), c.log)
  BY <1>1, <1>3, <1>4, Zenon DEF SynAckArrives, Opened
<1>6. x.p = tcp_output(c.p) /\ x.log = c.log
  BY <1>5, ResultFields
<1>7. l = << >>
  BY DEF RxInv, LogOk
<1>8. /\ l \in Seq(Entries) /\ Tells(l, A) /\ \A y : Index(l, y) = {}
  BY <1>7, EmptyLog
<1>9. PICK m : m = Grow(l, "connected", {})
  OBVIOUS
<1>10. "connected" \in Names /\ "close" \in Names /\ "connected" \in {"connected", "close", "err"}
       /\ "close" \in {"connected", "close", "err"} /\ "connected" # "err" /\ "close" # "err" /\ "connected" # "close"
  BY DEF Names
<1>11. /\ m \in Seq(Entries) /\ Tells(m, A) /\ Index(m, "reset") = {} /\ Index(m, "err") = {} /\ Index(m, "eof") = {}
       /\ Index(m, "recv") = {} /\ Index(m, "close") = {}
  BY <1>8, <1>9, <1>10, Noted
<1>12. RxInv(c.p, l \o c.log, A)
  <2>1. CASE written
    <3>1. c = Result(tcp_write(q), <<Event("connected")>>)
      BY <2>1, <1>3 DEF ollama_connected_cb
    <3>2. c.p = tcp_write(q) /\ c.log = <<Event("connected")>>
      BY <3>1, ResultFields
    <3>3. l \o <<Event("connected")>> = m
      BY <1>8, <1>9, <1>10, LogConcat
    <3>4. RxInv(q, m, A)
      BY <1>2, <1>11, FreshInv
    <3>5. RxInv(tcp_write(q), m, A)
      BY <3>4, <1>2, tcp_writeRx, RxInvSame
    <3>6. QED
      BY <3>2, <3>3, <3>5
  <2>2. CASE ~written
    <3>1. PICK d : d = tcp_close(q, mem)
      OBVIOUS
    <3>2. d.p = Shut(q, mem) /\ d.log = <<Event("close")>>
      <4>1. q.rcv_wnd = TCP_WND /\ q.state # "CLOSED"
        BY <1>2
      <4>2. QED
        BY <4>1, <3>1, CloseResult
    <3>3. PICK g : g = <<Event("connected")>> \o d.log
      OBVIOUS
    <3>4. c = Result(d.p, g)
      BY <2>2, <3>1, <3>3, <1>3 DEF ollama_connected_cb
    <3>5. c.p = d.p /\ c.log = g
      BY <3>4, ResultFields
    <3>6. PICK k : k = Grow(m, "close", {})
      OBVIOUS
    <3>7. l \o g = k
      <4>1. <<Event("close")>> \in Seq(Entries) /\ m \o <<Event("close")>> = k
        BY <3>6, <1>10, <1>11, LogConcat
      <4>2. l \o (<<Event("connected")>> \o <<Event("close")>>) = Grow(l, "connected", {}) \o <<Event("close")>>
        BY <4>1, <1>8, <1>10, LogConcat
      <4>3. QED
        BY <4>1, <4>2, <3>2, <3>3, <1>9
    <3>8. /\ k \in Seq(Entries) /\ Tells(k, A) /\ Index(k, "reset") = {} /\ Index(k, "err") = {} /\ Index(k, "eof") = {}
          /\ Index(k, "recv") = {}
      BY <3>6, <1>10, <1>11, Noted
    <3>9. PICK y : y = [q EXCEPT !.rxclosed = TRUE]
      OBVIOUS
    <3>10. /\ IsPcb(y) /\ y.state = "ESTABLISHED" /\ y.rcv_nxt = 1 /\ y.rcv_wnd = TCP_WND
           /\ y.ooseq = << >> /\ y.rxclosed = TRUE /\ y.closepend = FALSE
      BY <3>9, <1>2 DEF IsPcb
    <3>11. RxInv(y, k, A)
      BY <3>8, <3>10, FreshInv
    <3>12. RxInv(tcp_close_shutdown_fin(y, mem), k, A)
      BY <3>10, <3>11, ShutInv
    <3>13. QED
      BY <3>2, <3>5, <3>7, <3>9, <3>12 DEF Shut
  <2>3. QED
    BY <2>1, <2>2
<1>13. RxInv(tcp_output(c.p), l \o c.log, A)
  <2>1. IsPcb(c.p)
    BY <1>12 DEF RxInv, RxOk
  <2>2. QED
    BY <2>1, <1>12, tcp_outputRx, RxInvSame
<1>14. QED
  BY <1>4, <1>6, <1>13

\* A block that goes on, with nothing said.
LEMMA Silent ==
    ASSUME NEW A, NEW p, NEW q, NEW l, NEW x, RxInv(p, l, A), SameRx(p, q), x = Result(q, << >>)
    PROVE  RxInv(x.p, l \o x.log, A)
<1>1. x.p = q /\ x.log = << >>
  BY ResultFields
<1>2. l \in Seq(Entries)
  BY DEF RxInv, LogOk
<1>3. l \o << >> = l
  BY <1>2, ConcatEmptySeq
<1>4. RxInv(q, l, A)
  BY RxInvSame
<1>5. QED
  BY <1>1, <1>3, <1>4

LEMMA SentRx ==
    ASSUME NEW p, NEW q, SameRx(p, q)
    PROVE  SameRx(p, tcp_output(q))
<1>1. IsPcb(q)
  BY DEF SameRx
<1>2. QED
  BY <1>1, tcp_outputRx, SameRxTrans

\* Everything is to be sent again, whatever is noted of that.
LEMMA RetransmitRx ==
    ASSUME NEW p, IsPcb(p)
    PROVE  SameRx(p, Retransmit(p)) /\ SameRx(p, StaleAckArrives(p)) /\ SameRx(p, Persist(p))
<1>1. SameRx(p, Retransmit(p))
  <2>1. PICK r : r = tcp_rexmit_rto_prepare(p)
    OBVIOUS
  <2>2. SameRx(p, r)
    BY <2>1, tcp_rexmit_rto_prepareRx
  <2>3. PICK n : n = [r EXCEPT !.cwnd = TCP_MSS, !.nrtx = @ + 1]
    OBVIOUS
  <2>4. SameRx(p, n)
    BY <2>2, <2>3 DEF SameRx, IsPcb
  <2>5. Retransmit(p) = p \/ Retransmit(p) = tcp_output(n)
    BY <2>1, <2>3, Zenon DEF Retransmit
  <2>6. QED
    BY <2>4, <2>5, SentRx, SameRxSelf
<1>2. SameRx(p, StaleAckArrives(p))
  <2>1. PICK q : q = [p EXCEPT !.probes = 0]
    OBVIOUS
  <2>2. SameRx(p, q) /\ IsPcb(q)
    BY <2>1 DEF SameRx, IsPcb
  <2>3. PICK r : r = tcp_rexmit_rto_prepare(q)
    OBVIOUS
  <2>4. SameRx(p, r)
    BY <2>2, <2>3, tcp_rexmit_rto_prepareRx, SameRxTrans
  <2>5. PICK n : n = [r EXCEPT !.nrtx = @ + 1]
    OBVIOUS
  <2>6. SameRx(p, n)
    BY <2>4, <2>5 DEF SameRx, IsPcb
  <2>7. StaleAckArrives(p) = tcp_output(q) \/ StaleAckArrives(p) = tcp_output(n)
    BY <2>1, <2>3, <2>5, Zenon DEF StaleAckArrives
  <2>8. QED
    BY <2>2, <2>6, <2>7, SentRx
<1>3. SameRx(p, tcp_zero_window_probe(p))
  <2>1. PICK q : q = tcp_zero_window_probe(p)
    OBVIOUS
  <2>2. \E a, b : q = [p EXCEPT !.probes = a, !.snd_nxt = b]
    BY <2>1, Zenon DEF tcp_zero_window_probe
  <2>3. QED
    BY <2>1, <2>2 DEF SameRx, IsPcb
<1>4. SameRx(p, tcp_split_unsent_seg(p))
  <2>1. PICK q : q = tcp_split_unsent_seg(p)
    OBVIOUS
  <2>2. q = p \/ \E a : q = [p EXCEPT !.unsent = a]
    BY <2>1, Zenon DEF tcp_split_unsent_seg
  <2>3. QED
    BY <2>1, <2>2 DEF SameRx, IsPcb
<1>5. Persist(p) \in {p, tcp_zero_window_probe(p), tcp_output(tcp_split_unsent_seg(p))}
  BY DEF Persist
<1>6. SameRx(p, Persist(p))
  BY <1>3, <1>4, <1>5, SentRx, SameRxSelf
<1>7. QED
  BY <1>1, <1>2, <1>6

\* What a tick sends.
TickSends(p, due) ==
    CASE TooManyTries(p) \/ ~due -> p
      [] ~TooManyTries(p) /\ due /\ p.persist -> Persist(p)
      [] OTHER -> IF p.rtime THEN Retransmit(p) ELSE p

LEMMA TickSendsCases ==
    ASSUME NEW p, NEW due \in BOOLEAN
    PROVE  TickSends(p, due) \in {p, Persist(p), Retransmit(p)}
<1>1. CASE TooManyTries(p) \/ ~due
  BY <1>1 DEF TickSends
<1>2. CASE ~TooManyTries(p) /\ due /\ p.persist
  BY <1>2 DEF TickSends
<1>3. CASE ~(TooManyTries(p) \/ ~due) /\ ~(~TooManyTries(p) /\ due /\ p.persist)
  <2>1. TickSends(p, due) = IF p.rtime THEN Retransmit(p) ELSE p
    BY <1>3 DEF TickSends
  <2>2. QED
    BY <2>1
<1>4. QED
  BY <1>1, <1>2, <1>3

LEMMA SlowTickCases ==
    ASSUME NEW p, NEW due \in BOOLEAN, NEW aged \in BOOLEAN, NEW q, q = TickSends(p, due)
    PROVE  \/ SlowTick(p, due, aged) = Result(Halted, << >>)
           \/ SlowTick(p, due, aged) = Died
           \/ SlowTick(p, due, aged) = Result(tcp_output([q EXCEPT !.ooseq = << >>]), << >>)
           \/ SlowTick(p, due, aged) = Result(tcp_output(q), << >>)
BY Zenon DEF SlowTick, TickSends

LEMMA SlowTickInv ==
    ASSUME NEW A, NEW p, NEW l, RxInv(p, l, A), p.state \notin {"FREE", "HALTED"},
           NEW due \in BOOLEAN, NEW aged \in BOOLEAN
    PROVE  RxInv(SlowTick(p, due, aged).p, l \o SlowTick(p, due, aged).log, A)
<1>1. PICK x : x = SlowTick(p, due, aged)
  OBVIOUS
<1>2. PICK q : q = TickSends(p, due)
  OBVIOUS
<1>3. IsPcb(p)
  BY DEF RxInv, RxOk
<1>4. SameRx(p, q)
  BY <1>2, <1>3, TickSendsCases, RetransmitRx, SameRxSelf
<1>5. CASE x = Result(Halted, << >>)
  <2>1. x.p = Halted /\ x.log = << >>
    BY <1>5, ResultFields
  <2>2. RxInv(Halted, l \o << >>, A)
    BY DiedInv
  <2>3. QED
    BY <1>1, <2>1, <2>2
<1>6. CASE x = Died
  BY <1>1, <1>6, DiedInv
<1>7. CASE x = Result(tcp_output([q EXCEPT !.ooseq = << >>]), << >>)
  <2>1. PICK w : w = [q EXCEPT !.ooseq = << >>]
    OBVIOUS
  <2>2. /\ IsPcb(w) /\ w.state = p.state /\ w.rcv_nxt = p.rcv_nxt /\ w.rcv_wnd = p.rcv_wnd /\ w.ooseq = << >>
        /\ w.rxclosed = p.rxclosed /\ w.closepend = p.closepend
    BY <1>4, <2>1 DEF SameRx, IsPcb
  <2>3. Queued(w.ooseq, w.rcv_nxt, A)
    BY <2>2, EmptyQueue
  <2>4. RxOk(w, A)
    BY <2>2, <2>3 DEF RxInv, RxOk
  <2>5. LogOk(w, l, A)
    BY <2>2 DEF RxInv, LogOk
  <2>6. RxInv(w, l, A)
    BY <2>4, <2>5 DEF RxInv
  <2>7. SameRx(w, tcp_output(w))
    BY <2>2, tcp_outputRx
  <2>8. QED
    BY <1>1, <1>7, <2>1, <2>6, <2>7, Silent
<1>8. CASE x = Result(tcp_output(q), << >>)
  <2>1. SameRx(p, tcp_output(q))
    BY <1>4, SentRx
  <2>2. QED
    BY <1>1, <1>8, <2>1, Silent
<1>9. QED
  BY <1>1, <1>2, <1>5, <1>6, <1>7, <1>8, SlowTickCases

\* The FIN that was left to the timer.
LEMMA PendingInv ==
    ASSUME NEW A, NEW p, NEW l, RxInv(p, l, A), p.closepend, NEW mem, NEW x,
           x = Result(tcp_output(tcp_close_shutdown_fin([p EXCEPT !.closepend = FALSE], mem)), << >>)
    PROVE  RxInv(x.p, l \o x.log, A)
<1>1. PICK q : q = [p EXCEPT !.closepend = FALSE]
  OBVIOUS
<1>2. p.rxclosed /\ IsPcb(p)
  BY DEF RxInv, RxOk
<1>3. /\ IsPcb(q) /\ q.state = p.state /\ q.rcv_nxt = p.rcv_nxt /\ q.rcv_wnd = p.rcv_wnd /\ q.ooseq = p.ooseq
      /\ q.rxclosed = p.rxclosed /\ q.closepend = FALSE
  BY <1>1, <1>2 DEF IsPcb
<1>4. RxOk(q, A)
  BY <1>3 DEF RxInv, RxOk
<1>5. LogOk(q, l, A)
  BY <1>3 DEF RxInv, LogOk
<1>6. RxInv(q, l, A)
  BY <1>4, <1>5 DEF RxInv
<1>7. PICK w : w = tcp_close_shutdown_fin(q, mem)
  OBVIOUS
<1>8. RxInv(w, l, A)
  BY <1>2, <1>3, <1>6, <1>7, ShutInv
<1>9. SameRx(w, tcp_output(w))
  BY <1>8, tcp_outputRx DEF RxInv, RxOk
<1>10. QED
  BY <1>1, <1>7, <1>8, <1>9, Silent

\* The connection is opened, or the block is closed again.
LEMMA ConnectInv ==
    ASSUME NEW A, NEW p, NEW l, RxInv(p, l, A), p.state = "CLOSED"
    PROVE  /\ RxInv(tcp_close(p, FALSE).p, l \o tcp_close(p, FALSE).log, A)
           /\ \A w, x : /\ w = [p EXCEPT !.state = "SYN_SENT", !.snd_nxt = 1, !.snd_wnd = TCP_WND]
                        /\ x = Result(tcp_output(tcp_enqueue_flags(w, TRUE, FALSE)), << >>)
                        => RxInv(x.p, l \o x.log, A)
<1>1. /\ IsPcb(p) /\ p.rcv_wnd = TCP_WND /\ p.ooseq = << >> /\ p.rxclosed = FALSE
      /\ p.closepend = FALSE /\ l \in Seq(Entries) /\ Tells(l, A) /\ Index(l, "reset") = {} /\ Index(l, "err") = {}
      /\ l = << >>
  BY DEF RxInv, RxOk, LogOk
<1>2. RxInv(tcp_close(p, FALSE).p, l \o tcp_close(p, FALSE).log, A)
  <2>1. PICK x : x = tcp_close(p, FALSE)
    OBVIOUS
  <2>2. x = Result(Free, <<Event("close")>>)
    BY <2>1 DEF tcp_close
  <2>3. x.p = Free /\ x.log = <<Event("close")>>
    BY <2>2, ResultFields
  <2>4. "close" \in {"connected", "close", "err"} /\ "close" \in Names
    BY DEF Names
  <2>5. l \o <<Event("close")>> = Grow(l, "close", {})
    BY <1>1, <2>4, LogConcat
  <2>6. PICK m : m = Grow(l, "close", {})
    OBVIOUS
  <2>7. m \in Seq(Entries) /\ Tells(m, A) /\ Index(m, "reset") = {}
    BY <1>1, <2>4, <2>6, Noted
  <2>8. RxInv(Free, m, A)
    BY <2>7, GoneInv
  <2>9. QED
    BY <2>1, <2>3, <2>5, <2>6, <2>8
<1>3. ASSUME NEW w, NEW x, w = [p EXCEPT !.state = "SYN_SENT", !.snd_nxt = 1, !.snd_wnd = TCP_WND],
             x = Result(tcp_output(tcp_enqueue_flags(w, TRUE, FALSE)), << >>)
      PROVE  RxInv(x.p, l \o x.log, A)
  <2>1. PICK y : y = tcp_enqueue_flags(w, TRUE, FALSE)
    OBVIOUS
  <2>2. /\ IsPcb(w) /\ w.state = "SYN_SENT" /\ w.rcv_wnd = TCP_WND /\ w.ooseq = << >>
        /\ w.rxclosed = FALSE /\ w.closepend = FALSE
    BY <1>1, <1>3 DEF IsPcb
  <2>3. \E a, b, c : y = [w EXCEPT !.unsent = a, !.snd_lbb = b, !.finq = c]
    BY <2>1, Zenon DEF tcp_enqueue_flags
  <2>4. SameRx(w, y)
    BY <2>2, <2>3 DEF SameRx, IsPcb
  <2>5. RxOk(w, A)
    BY <2>2 DEF RxOk, States, Receiving, Ended
  <2>6. LogOk(w, l, A)
    BY <2>2, <1>1 DEF LogOk, Receiving, Ended
  <2>7. RxInv(w, l, A)
    BY <2>5, <2>6 DEF RxInv
  <2>8. SameRx(w, tcp_output(y))
    BY <2>4, SentRx
  <2>9. QED
    BY <1>3, <2>1, <2>7, <2>8, Silent
<1>4. QED
  BY <1>2, <1>3

-----------------------------------------------------------------------------
(* The receiving side: the theorems.                                       *)

RxIInv == TalkOk(talk) /\ RxInv(pcb, log, talk.answer)

LEMMA RxInit == Init => RxIInv
<1>1. SUFFICES ASSUME Init PROVE RxIInv
  OBVIOUS
<1>2. PICK e \in Exchanges : talk = [request |-> e.request, answer |-> e.answer, up |-> TRUE]
  BY <1>1 DEF Init
<1>3. e.answer \in Nat
  BY TcpAssumption
<1>4. TalkOk(talk)
  BY <1>2, <1>3 DEF TalkOk
<1>5. PICK p : p = pcb
  OBVIOUS
<1>6. /\ IsPcb(p) /\ p.state = "CLOSED" /\ p.rcv_wnd = TCP_WND /\ p.ooseq = << >>
      /\ p.rxclosed = FALSE /\ p.closepend = FALSE
  BY <1>1, <1>5, NewPcbFields DEF Init
<1>7. RxOk(p, talk.answer)
  BY <1>6 DEF RxOk, States, Receiving, Ended
<1>8. log \in Seq(Entries) /\ Tells(log, talk.answer) /\ \A x : Index(log, x) = {}
  BY <1>1, EmptyLog DEF Init
<1>9. LogOk(p, log, talk.answer)
  BY <1>1, <1>6, <1>8 DEF LogOk, Receiving, Ended, Init
<1>10. QED
  BY <1>4, <1>5, <1>7, <1>9 DEF RxIInv, RxInv

LEMMA BecomesSome ==
    ASSUME NEW S, Becomes(S)
    PROVE  \E x \in S : Becomes({x})
<1>1. PICK x \in S : pcb' = x.p /\ log' = log \o x.log
  BY DEF Becomes
<1>2. Becomes({x})
  BY <1>1 DEF Becomes
<1>3. QED
  BY <1>2

LEMMA BecomesOne ==
    ASSUME NEW x, Becomes({x}), UNCHANGED talk, TalkOk(talk), RxInv(x.p, log \o x.log, talk.answer)
    PROVE  RxIInv'
<1>1. pcb' = x.p /\ log' = log \o x.log
  BY DEF Becomes
<1>2. RxInv(pcb', log', talk.answer)
  BY <1>1
<1>3. QED
  BY <1>2 DEF RxIInv, RxInv, RxOk, LogOk, TalkOk

LEMMA RxNext == RxIInv /\ [Next]_vars => RxIInv'
<1>1. SUFFICES ASSUME RxIInv, [Next]_vars PROVE RxIInv'
  OBVIOUS
<1>2. TalkOk(talk) /\ RxInv(pcb, log, talk.answer) /\ talk.answer \in Nat /\ IsPcb(pcb)
  BY <1>1 DEF RxIInv, TalkOk, RxInv, RxOk
<1>3. ASSUME NEW mem \in BOOLEAN, tcp_connect(mem) PROVE RxIInv'
  <2>1. pcb.state = "CLOSED" /\ UNCHANGED talk
    BY <1>3 DEF tcp_connect
  <2>2. CASE mem
    <3>1. PICK w : w = [pcb EXCEPT !.state = "SYN_SENT", !.snd_nxt = 1, !.snd_wnd = TCP_WND]
      OBVIOUS
    <3>2. PICK x : x = Result(tcp_output(tcp_enqueue_flags(w, TRUE, FALSE)), << >>)
      OBVIOUS
    <3>3. Becomes({x})
      BY <1>3, <2>2, <3>1, <3>2 DEF tcp_connect
    <3>4. RxInv(x.p, log \o x.log, talk.answer)
      BY <1>2, <2>1, <3>1, <3>2, ConnectInv
    <3>5. QED
      BY <1>2, <2>1, <3>3, <3>4, BecomesOne
  <2>3. CASE ~mem
    <3>1. Becomes({tcp_close(pcb, FALSE)})
      BY <1>3, <2>3 DEF tcp_connect
    <3>2. QED
      BY <1>2, <2>1, <3>1, ConnectInv, BecomesOne
  <2>4. QED
    BY <2>2, <2>3
<1>4. CASE tcp_input
  <2>1. UNCHANGED talk
    BY <1>4 DEF tcp_input
  <2>2. CASE pcb.state = "SYN_SENT" /\ Becomes({Result(StaleAckArrives(pcb), << >>)})
    <3>1. PICK x : x = Result(StaleAckArrives(pcb), << >>)
      OBVIOUS
    <3>2. SameRx(pcb, StaleAckArrives(pcb))
      BY <1>2, RetransmitRx
    <3>3. RxInv(x.p, log \o x.log, talk.answer)
      BY <1>2, <3>1, <3>2, Silent
    <3>4. QED
      BY <1>2, <2>1, <2>2, <3>1, <3>3, BecomesOne
  <2>3. ASSUME pcb.state = "SYN_SENT",
               Becomes({SynAckArrives(pcb, wnd, written, mem) :
                          wnd \in 0 .. PeerWnd, written \in BOOLEAN, mem \in BOOLEAN})
        PROVE  RxIInv'
    <3> DEFINE R == {SynAckArrives(pcb, wnd, written, mem) :
                       wnd \in 0 .. PeerWnd, written \in BOOLEAN, mem \in BOOLEAN}
    <3>0. Becomes(R)
      BY <2>3
    <3> HIDE DEF R
    <3>1. PICK x \in R : Becomes({x})
      BY <3>0, BecomesSome
    <3>2. PICK wnd, written, mem : x = SynAckArrives(pcb, wnd, written, mem)
      BY <3>1 DEF R
    <3>3. RxInv(x.p, log \o x.log, talk.answer)
      BY <1>2, <2>3, <3>2, SynAckInv
    <3>4. QED
      BY <1>2, <2>1, <3>1, <3>3, BecomesOne
  <2>4. ASSUME pcb.state \in Synchronized,
               Becomes({Deliver(r, mem) : r \in {tcp_process(pcb, s) : s \in Sendable}, mem \in BOOLEAN})
        PROVE  RxIInv'
    <3>1. PICK x \in {Deliver(r, mem) : r \in {tcp_process(pcb, s) : s \in Sendable}, mem \in BOOLEAN} :
             Becomes({x})
      BY <2>4, BecomesSome
    <3>2. PICK s \in Sendable, mem \in BOOLEAN : x = Deliver(tcp_process(pcb, s), mem)
      BY <3>1
    <3>3. RxInv(x.p, log \o x.log, talk.answer)
      BY <1>2, <2>4, <3>2, ArrivalInv
    <3>4. QED
      BY <1>2, <2>1, <3>1, <3>3, BecomesOne
  <2>5. CASE pcb.state \in Active /\ Becomes({Died})
    <3>1. pcb.state \notin {"FREE", "HALTED"}
      BY <2>5 DEF Active
    <3>2. QED
      BY <1>2, <2>1, <2>5, <3>1, DiedInv, BecomesOne
  <2>6. QED
    BY <1>4, <2>2, <2>3, <2>4, <2>5 DEF tcp_input
<1>5. CASE FallsSilent
  <2>1. pcb' = pcb /\ log' = log /\ talk' = [talk EXCEPT !.up = FALSE]
    BY <1>5 DEF FallsSilent
  <2>2. talk'.answer = talk.answer /\ TalkOk(talk')
    BY <1>2, <2>1 DEF TalkOk
  <2>3. QED
    BY <1>2, <2>1, <2>2 DEF RxIInv, TalkOk, RxInv, RxOk, LogOk
<1>6. ASSUME NEW due \in BOOLEAN, NEW aged \in BOOLEAN, tcp_slowtmr(due, aged) PROVE RxIInv'
  <2>1. UNCHANGED talk
    BY <1>6 DEF tcp_slowtmr
  <2>2. CASE pcb.state \in Active /\ Becomes({SlowTick(pcb, due, aged)})
    <3>1. pcb.state \notin {"FREE", "HALTED"}
      BY <2>2 DEF Active
    <3>2. QED
      BY <1>2, <2>1, <2>2, <3>1, SlowTickInv, BecomesOne
  <2>3. CASE pcb.state = "TIME_WAIT" /\ Becomes({Result(Free, << >>)})
    <3>1. PICK x : x = Result(Free, << >>)
      OBVIOUS
    <3>2. x.p = Free /\ x.log = << >>
      BY <3>1, ResultFields
    <3>3. pcb.state \notin {"FREE", "HALTED"}
      BY <2>3
    <3>4. RxInv(Free, log \o << >>, talk.answer)
      BY <1>2, <3>3, DiedInv
    <3>5. QED
      BY <1>2, <2>1, <2>3, <3>1, <3>2, <3>4, BecomesOne
  <2>4. QED
    BY <1>6, <2>2, <2>3 DEF tcp_slowtmr
<1>7. ASSUME NEW mem \in BOOLEAN, tcp_fasttmr(mem) PROVE RxIInv'
  <2>1. UNCHANGED talk /\ pcb.closepend
    BY <1>7 DEF tcp_fasttmr
  <2>2. PICK x : x = Result(tcp_output(tcp_close_shutdown_fin([pcb EXCEPT !.closepend = FALSE], mem)), << >>)
    OBVIOUS
  <2>3. Becomes({x})
    BY <1>7, <2>2 DEF tcp_fasttmr
  <2>4. RxInv(x.p, log \o x.log, talk.answer)
    BY <1>2, <2>1, <2>2, PendingInv
  <2>5. QED
    BY <1>2, <2>1, <2>3, <2>4, BecomesOne
<1>8. CASE tcp_netif_ip_addr_changed
  <2>1. UNCHANGED talk /\ pcb.state \in Active /\ Becomes({tcp_abort(pcb)})
    BY <1>8 DEF tcp_netif_ip_addr_changed
  <2>2. pcb.state \notin {"FREE", "HALTED", "TIME_WAIT"}
    BY <2>1 DEF Active
  <2>3. tcp_abort(pcb) = Died
    BY <2>2 DEF tcp_abort
  <2>4. QED
    BY <1>2, <2>1, <2>2, <2>3, DiedInv, BecomesOne
<1>9. CASE UNCHANGED vars
  BY <1>1, <1>9 DEF vars, RxIInv, TalkOk, RxInv, RxOk, LogOk
<1>10. QED
  BY <1>1, <1>3, <1>4, <1>5, <1>6, <1>7, <1>8, <1>9 DEF Next

\* However the answer is cut, repeated and reordered by the network, the receive
\* callback of net_stack.c gets each byte once and in order, nothing after it closed
\* the connection, the end once and after the whole answer, and nothing after an
\* error: for every window, segment size, request and answer.
THEOREM CallbacksHold == Spec => []Callbacks
<1>1. Init => RxIInv
  BY RxInit
<1>2. RxIInv /\ [Next]_vars => RxIInv'
  BY RxNext
<1>3. RxIInv => Callbacks
  BY TellsCallbacks DEF RxIInv, RxInv, LogOk
<1>4. QED
  BY <1>1, <1>2, <1>3, PTL DEF Spec

\* tcp_close in the receive callback never finds a part of the window missing, which
\* would make it a reset: whatever was trimmed, queued and delivered before.
THEOREM GracefulCloseHolds == Spec => []GracefulClose
<1>1. Init => RxIInv
  BY RxInit
<1>2. RxIInv /\ [Next]_vars => RxIInv'
  BY RxNext
<1>3. RxIInv => GracefulClose
  BY DEF RxIInv, RxInv, LogOk, GracefulClose
<1>4. QED
  BY <1>1, <1>2, <1>3, PTL DEF Spec

-----------------------------------------------------------------------------
(* The send queues: lists and the segments on them.                        *)

\* List q has the segments in S, each of them once.
ListOf(q, S) ==
    /\ q \in Seq(Segments) /\ \A i \in 1 .. Len(q) : q[i] \in S
    /\ \A t \in S : \E i \in 1 .. Len(q) : q[i] = t
    /\ \A i, j \in 1 .. Len(q) : q[i] = q[j] => i = j

\* Segments differ in their first numbers.
Uniq(S) == S \subseteq Segments /\ \A s, t \in S : s.seq = t.seq => s = t

LEMMA ListToSet ==
    ASSUME NEW q, NEW S, ListOf(q, S)
    PROVE  ToSet(q) = S /\ IsFiniteSet(S) /\ S \subseteq Segments
<1>1. /\ q \in Seq(Segments) /\ DOMAIN q = 1 .. Len(q) /\ Len(q) \in Nat
      /\ \A i \in 1 .. Len(q) : q[i] \in S /\ q[i] \in Segments
      /\ \A t \in S : \E i \in 1 .. Len(q) : q[i] = t
  BY DEF ListOf
<1>2. ToSet(q) = S
  BY <1>1 DEF ToSet
<1>3. q \in [1 .. Len(q) -> S]
  BY <1>1
<1>4. q \in Surjection(1 .. Len(q), S)
  BY <1>1, <1>3, Fun_IsSurj
<1>5. IsFiniteSet(1 .. Len(q))
  BY <1>1, FS_Interval
<1>6. IsFiniteSet(S)
  BY <1>4, <1>5, FS_Surjection
<1>7. QED
  BY <1>1, <1>2, <1>6

LEMMA ListEmpty == ListOf(<< >>, {})
BY EmptySeq DEF ListOf

LEMMA ListSingle ==
    ASSUME NEW t \in Segments
    PROVE  ListOf(<<t>>, {t})
<1>1. PICK q : q = <<t>>
  OBVIOUS
<1>2. q \in Seq(Segments) /\ Len(q) = 1 /\ q[1] = t
  BY <1>1
<1>3. ListOf(q, {t})
  BY <1>2 DEF ListOf
<1>4. QED
  BY <1>1, <1>3

LEMMA ListConcat ==
    ASSUME NEW q, NEW r, NEW S, NEW T, ListOf(q, S), ListOf(r, T), S \cap T = {}
    PROVE  ListOf(q \o r, S \cup T)
<1>1. PICK c : c = q \o r
  OBVIOUS
<1>2. q \in Seq(Segments) /\ r \in Seq(Segments)
  BY DEF ListOf
<1>3. PICK m \in Nat, n \in Nat : m = Len(q) /\ n = Len(r)
  BY <1>2
<1>4. /\ c \in Seq(Segments) /\ Len(c) = m + n
      /\ \A i \in 1 .. m + n : c[i] = IF i <= m THEN q[i] ELSE r[i - m]
  BY <1>1, <1>2, <1>3, ConcatProperties
<1>5. /\ \A i \in 1 .. m : q[i] \in S
      /\ \A t \in S : \E i \in 1 .. m : q[i] = t
      /\ \A i, j \in 1 .. m : q[i] = q[j] => i = j
      /\ \A i \in 1 .. n : r[i] \in T
      /\ \A t \in T : \E i \in 1 .. n : r[i] = t
      /\ \A i, j \in 1 .. n : r[i] = r[j] => i = j
  BY <1>3 DEF ListOf
<1>6. \A i \in 1 .. m + n : i <= m => i \in 1 .. m /\ c[i] = q[i]
  BY <1>4
<1>7. \A i \in 1 .. m + n : ~(i <= m) => i - m \in 1 .. n /\ c[i] = r[i - m]
  BY <1>4
<1>8. \A i \in 1 .. m + n : c[i] \in S \cup T
  BY <1>5, <1>6, <1>7
<1>9. ASSUME NEW t \in S \cup T PROVE \E i \in 1 .. m + n : c[i] = t
  <2>1. CASE t \in S
    <3>1. PICK i \in 1 .. m : q[i] = t
      BY <2>1, <1>5
    <3>2. i \in 1 .. m + n /\ c[i] = q[i]
      BY <1>6
    <3>3. QED
      BY <3>1, <3>2
  <2>2. CASE t \in T
    <3>1. PICK i \in 1 .. n : r[i] = t
      BY <2>2, <1>5
    <3>2. i + m \in 1 .. m + n /\ ~(i + m <= m) /\ (i + m) - m = i
      OBVIOUS
    <3>3. c[i + m] = r[i]
      BY <3>2, <1>7
    <3>4. QED
      BY <3>1, <3>2, <3>3
  <2>3. QED
    BY <2>1, <2>2
<1>10. ASSUME NEW i \in 1 .. m + n, NEW j \in 1 .. m + n, c[i] = c[j] PROVE i = j
  <2>1. CASE i <= m /\ j <= m
    BY <2>1, <1>10, <1>5, <1>6
  <2>2. CASE ~(i <= m) /\ ~(j <= m)
    <3>1. i - m = j - m
      BY <2>2, <1>10, <1>5, <1>7
    <3>2. QED
      BY <3>1
  <2>3. CASE i <= m /\ ~(j <= m)
    BY <2>3, <1>10, <1>5, <1>6, <1>7
  <2>4. CASE ~(i <= m) /\ j <= m
    BY <2>4, <1>10, <1>5, <1>6, <1>7
  <2>5. QED
    BY <2>1, <2>2, <2>3, <2>4
<1>11. ListOf(c, S \cup T)
  BY <1>4, <1>8, <1>9, <1>10 DEF ListOf
<1>12. QED
  BY <1>1, <1>11

\* The first n segments of a list.
Firsts(q, n) == {q[i] : i \in 1 .. n}

LEMMA ListSplit ==
    ASSUME NEW q, NEW S, ListOf(q, S), NEW n \in 0 .. Len(q)
    PROVE  /\ Firsts(q, n) \subseteq S
           /\ ListOf(SubSeq(q, 1, n), Firsts(q, n))
           /\ ListOf(SubSeq(q, n + 1, Len(q)), S \ Firsts(q, n))
<1>1. q \in Seq(Segments) /\ Len(q) \in Nat
  BY DEF ListOf
<1>2. PICK m \in Nat : m = Len(q)
  BY <1>1
<1>3. /\ \A i \in 1 .. m : q[i] \in S /\ q[i] \in Segments
      /\ \A t \in S : \E i \in 1 .. m : q[i] = t
      /\ \A i, j \in 1 .. m : q[i] = q[j] => i = j
  BY <1>1, <1>2 DEF ListOf
<1>4. PICK F : F = Firsts(q, n)
  OBVIOUS
<1>5. n \in Nat /\ n <= m /\ \A i \in 1 .. n : i \in 1 .. m
  BY <1>2
<1>6. /\ \A i \in 1 .. n : q[i] \in F
      /\ \A t \in F : \E i \in 1 .. n : q[i] = t
  BY <1>4 DEF Firsts
<1>7. F \subseteq S
  BY <1>3, <1>5, <1>6
<1>8. ListOf(SubSeq(q, 1, n), F)
  <2>1. PICK a : a = SubSeq(q, 1, n)
    OBVIOUS
  <2>2. \A i \in 1 .. n : q[i] \in Segments
    BY <1>3, <1>5
  <2>3. /\ a \in Seq(Segments) /\ Len(a) = IF 1 <= n THEN n - 1 + 1 ELSE 0
        /\ \A i \in 1 .. n - 1 + 1 : a[i] = q[1 + i - 1]
    BY <2>1, <2>2, <1>5, SubSeqProperties
  <2>4. Len(a) = n /\ \A i \in 1 .. n : a[i] = q[i]
    BY <2>3, <1>5
  <2>5. ListOf(a, F)
    BY <2>3, <2>4, <1>3, <1>5, <1>6 DEF ListOf
  <2>6. QED
    BY <2>1, <2>5
<1>9. ListOf(SubSeq(q, n + 1, m), S \ F)
  <2>1. PICK a : a = SubSeq(q, n + 1, m)
    OBVIOUS
  <2>2. \A i \in n + 1 .. m : q[i] \in Segments
    BY <1>3, <1>5
  <2>3. /\ a \in Seq(Segments) /\ Len(a) = IF n + 1 <= m THEN m - (n + 1) + 1 ELSE 0
        /\ \A i \in 1 .. m - (n + 1) + 1 : a[i] = q[(n + 1) + i - 1]
    <3>1. n + 1 \in Int /\ m \in Int
      BY <1>5
    <3>2. QED
      BY <2>1, <2>2, <3>1, SubSeqProperties
  <2>4. Len(a) = m - n /\ \A i \in 1 .. m - n : a[i] = q[n + i]
    <3>1. m - (n + 1) + 1 = m - n /\ (~(n + 1 <= m) => m - n = 0)
      BY <1>5
    <3>2. \A i \in 1 .. m - n : (n + 1) + i - 1 = n + i
      BY <1>5
    <3>3. QED
      BY <2>3, <3>1, <3>2
  <2>5. \A i \in 1 .. m - n : n + i \in 1 .. m /\ n + i \notin 1 .. n
    BY <1>5
  <2>6. ASSUME NEW i \in 1 .. m - n PROVE a[i] \in S \ F
    <3>1. a[i] = q[n + i] /\ n + i \in 1 .. m /\ n + i \notin 1 .. n
      BY <2>4, <2>5
    <3>2. ASSUME NEW j \in 1 .. n, q[j] = q[n + i] PROVE FALSE
      BY <3>1, <3>2, <1>3, <1>5
    <3>3. q[n + i] \notin F
      BY <3>2, <1>6
    <3>4. QED
      BY <3>1, <3>3, <1>3
  <2>7. ASSUME NEW t \in S \ F PROVE \E i \in 1 .. m - n : a[i] = t
    <3>1. PICK i \in 1 .. m : q[i] = t
      BY <1>3
    <3>2. i \notin 1 .. n
      BY <3>1, <1>6, <2>7
    <3>3. i - n \in 1 .. m - n /\ n + (i - n) = i
      BY <3>2, <1>5
    <3>4. QED
      BY <3>1, <3>3, <2>4
  <2>8. ASSUME NEW i \in 1 .. m - n, NEW j \in 1 .. m - n, a[i] = a[j] PROVE i = j
    <3>1. n + i = n + j
      BY <2>8, <2>4, <2>5, <1>3
    <3>2. QED
      BY <3>1, <1>5
  <2>9. ListOf(a, S \ F)
    BY <2>3, <2>4, <2>6, <2>7, <2>8 DEF ListOf
  <2>10. QED
    BY <2>1, <2>9
<1>10. QED
  BY <1>2, <1>4, <1>7, <1>8, <1>9

LEMMA ListTail ==
    ASSUME NEW q, NEW S, ListOf(q, S), q # << >>
    PROVE  Head(q) \in S /\ ListOf(Tail(q), S \ {Head(q)})
<1>1. q \in Seq(Segments) /\ Len(q) \in Nat /\ Len(q) >= 1 /\ Head(q) = q[1]
  BY EmptySeq DEF ListOf
<1>2. Firsts(q, 1) = {q[1]}
  BY DEF Firsts
<1>3. Tail(q) = SubSeq(q, 2, Len(q))
  BY <1>1, TailIsSubSeq
<1>4. 1 \in 0 .. Len(q) /\ 1 + 1 = 2
  BY <1>1
<1>5. ListOf(SubSeq(q, 1 + 1, Len(q)), S \ Firsts(q, 1))
  BY <1>4, ListSplit
<1>6. SubSeq(q, 1 + 1, Len(q)) = Tail(q) /\ S \ Firsts(q, 1) = S \ {Head(q)}
  BY <1>1, <1>2, <1>3, <1>4
<1>7. Head(q) \in S
  BY <1>1 DEF ListOf
<1>8. QED
  BY <1>5, <1>6, <1>7

\* The sorted list of a set of segments has all of them.
LEMMA SortedList ==
    ASSUME NEW S, IsFiniteSet(S), Uniq(S)
    PROVE  ListOf(Sorted(S), S)
<1> DEFINE Upto(t) == {u \in S : u.seq <= t.seq}
           Rank == [t \in S |-> Cardinality(Upto(t))]
<1>1. PICK n \in Nat : n = Cardinality(S)
  BY FS_CardinalityType
<1>2. \A t \in S : t \in Segments /\ t.seq \in Nat
  BY DEF Uniq, Segments
<1>3. ASSUME NEW t \in S PROVE IsFiniteSet(Upto(t)) /\ Rank[t] \in 1 .. n
  <2>1. Upto(t) \in SUBSET S
    OBVIOUS
  <2>2. IsFiniteSet(Upto(t)) /\ Cardinality(Upto(t)) <= n
    BY <2>1, <1>1, FS_Subset
  <2>3. Cardinality(Upto(t)) \in Nat
    BY <2>2, FS_CardinalityType
  <2>4. t \in Upto(t)
    BY <1>2
  <2>5. Cardinality(Upto(t)) # 0
    BY <2>2, <2>4, FS_EmptySet
  <2>6. Rank[t] = Cardinality(Upto(t))
    OBVIOUS
  <2> HIDE DEF Upto, Rank
  <2>7. QED
    BY <2>2, <2>3, <2>5, <2>6
<1>4. ASSUME NEW t \in S, NEW w \in S, t.seq < w.seq PROVE Rank[t] # Rank[w]
  <2>1. Upto(t) \in SUBSET Upto(w)
    BY <1>2, <1>4
  <2>2. w \in Upto(w) /\ w \notin Upto(t)
    BY <1>2, <1>4
  <2>3. Rank[t] = Cardinality(Upto(t)) /\ Rank[w] = Cardinality(Upto(w)) /\ IsFiniteSet(Upto(w))
    BY <1>3
  <2> HIDE DEF Upto, Rank
  <2>4. Cardinality(Upto(w)) = Cardinality(Upto(t)) => Upto(w) = Upto(t)
    BY <2>1, <2>3, FS_Subset
  <2>5. QED
    BY <2>2, <2>3, <2>4
<1>5. \A t, w \in S : Rank[t] = Rank[w] => t = w
  <2> TAKE t, w \in S
  <2> HAVE Rank[t] = Rank[w]
  <2> HIDE DEF Upto, Rank
  <2>1. t.seq = w.seq
    BY <1>2, <1>4
  <2>2. QED
    BY <2>1 DEF Uniq
<1>6. Rank \in [S -> 1 .. n]
  <2>1. Rank = [t \in S |-> Rank[t]]
    OBVIOUS
  <2> HIDE DEF Rank
  <2>2. QED
    BY <2>1, <1>3
<1>7. Rank \in Surjection(S, 1 .. n)
  <2> HIDE DEF Rank
  <2>1. Rank \in Injection(S, 1 .. n)
    BY <1>5, <1>6, Fun_IsInj
  <2>2. IsFiniteSet(1 .. n) /\ Cardinality(1 .. n) = n
    <3>1. 1 \in Int /\ n \in Int
      OBVIOUS
    <3>2. IsFiniteSet(1 .. n) /\ Cardinality(1 .. n) = IF 1 > n THEN 0 ELSE n - 1 + 1
      BY <3>1, FS_Interval
    <3>3. QED
      BY <3>2
  <2>3. QED
    BY <2>1, <2>2, <1>1, FS_Injection
<1>8. \A k \in 1 .. n : \E t \in S : Rank[t] = k
  <2> HIDE DEF Rank
  <2>1. QED
    BY <1>7, Fun_SurjectionProperties
<1> DEFINE q == Sorted(S)
           At(k) == CHOOSE t \in S : Cardinality(Upto(t)) = k
<1>9. q = [k \in 1 .. n |-> CHOOSE t \in S : Cardinality(Upto(t)) = k]
  BY <1>1 DEF Sorted
<1>10. ASSUME NEW k \in 1 .. n PROVE q[k] \in S /\ Rank[q[k]] = k
  <2>1. q[k] = CHOOSE t \in S : Cardinality(Upto(t)) = k
    BY <1>9
  <2>2. PICK t \in S : Rank[t] = k
    BY <1>8
  <2>3. Cardinality(Upto(t)) = k
    BY <2>2
  <2>4. q[k] \in S /\ Cardinality(Upto(q[k])) = k
    <3> HIDE DEF q, Upto, Rank
    <3>1. QED
      BY <2>1, <2>3
  <2>5. QED
    BY <2>4
<1>11. q \in Seq(Segments) /\ Len(q) = n
  <2>1. \A k \in 1 .. n : q[k] \in Segments
    <3> HIDE DEF q, Rank
    <3>1. QED
      BY <1>2, <1>10
  <2>2. q = [k \in 1 .. n |-> At(k)]
    BY <1>9
  <2> HIDE DEF At, q
  <2>3. q \in [1 .. n -> Segments]
    <3>1. \A k \in 1 .. n : At(k) = q[k]
      BY <2>2
    <3>2. QED
      BY <2>1, <2>2, <3>1
  <2>4. QED
    BY <2>3, AsSequence
<1> HIDE DEF q, Rank, Upto
<1>12. ASSUME NEW t \in S PROVE \E k \in 1 .. n : q[k] = t
  <2>1. Rank[t] \in 1 .. n
    BY <1>3
  <2>2. q[Rank[t]] \in S /\ Rank[q[Rank[t]]] = Rank[t]
    BY <2>1, <1>10
  <2>3. q[Rank[t]] = t
    BY <2>2, <1>5
  <2>4. QED
    BY <2>1, <2>3
<1>13. \A i, j \in 1 .. n : q[i] = q[j] => i = j
  BY <1>10
<1>14. ListOf(q, S)
  BY <1>10, <1>11, <1>12, <1>13 DEF ListOf
<1>15. QED
  BY <1>14 DEF q

\* Between them the two queues hold the segments in Q, each of them once.
Holds(u, v, Q) == \E S, T : ListOf(u, S) /\ ListOf(v, T) /\ S \cap T = {} /\ Q = S \cup T

\* Segments are sent: they join the unacknowledged ones.
LEMMA HoldsSent ==
    ASSUME NEW u, NEW v, NEW Q, Holds(u, v, Q), Uniq(Q), NEW n \in 0 .. Len(v)
    PROVE  Holds(Sorted(ToSet(u) \cup ToSet(SubSeq(v, 1, n))), SubSeq(v, n + 1, Len(v)), Q)
<1>1. PICK S, T : ListOf(u, S) /\ ListOf(v, T) /\ S \cap T = {} /\ Q = S \cup T
  BY DEF Holds
<1>2. PICK F : F = Firsts(v, n)
  OBVIOUS
<1>3. F \subseteq T /\ ListOf(SubSeq(v, 1, n), F) /\ ListOf(SubSeq(v, n + 1, Len(v)), T \ F)
  BY <1>1, <1>2, ListSplit
<1>4. ToSet(u) = S /\ IsFiniteSet(S) /\ ToSet(SubSeq(v, 1, n)) = F /\ IsFiniteSet(F)
  BY <1>1, <1>3, ListToSet
<1>5. IsFiniteSet(S \cup F) /\ Uniq(S \cup F)
  BY <1>1, <1>3, <1>4, FS_Union DEF Uniq
<1>6. ListOf(Sorted(S \cup F), S \cup F)
  BY <1>5, SortedList
<1>7. (S \cup F) \cap (T \ F) = {} /\ Q = (S \cup F) \cup (T \ F)
  BY <1>1, <1>3
<1>8. QED
  BY <1>3, <1>4, <1>6, <1>7 DEF Holds

\* Everything unacknowledged is put before the rest.
LEMMA HoldsAgain ==
    ASSUME NEW u, NEW v, NEW Q, Holds(u, v, Q)
    PROVE  Holds(<< >>, u \o v, Q)
<1>1. PICK S, T : ListOf(u, S) /\ ListOf(v, T) /\ S \cap T = {} /\ Q = S \cup T
  BY DEF Holds
<1>2. ListOf(u \o v, Q)
  BY <1>1, ListConcat
<1>3. {} \cap Q = {} /\ Q = {} \cup Q
  OBVIOUS
<1>4. QED
  BY <1>2, <1>3, ListEmpty DEF Holds

\* One segment is put back.
LEMMA HoldsRexmit ==
    ASSUME NEW u, NEW v, NEW Q, Holds(u, v, Q), Uniq(Q), u # << >>
    PROVE  Holds(Tail(u), Sorted(ToSet(v) \cup {Head(u)}), Q)
<1>1. PICK S, T : ListOf(u, S) /\ ListOf(v, T) /\ S \cap T = {} /\ Q = S \cup T
  BY DEF Holds
<1>2. PICK h : h = Head(u)
  OBVIOUS
<1>3. h \in S /\ ListOf(Tail(u), S \ {h})
  BY <1>1, <1>2, ListTail
<1>4. ToSet(v) = T /\ IsFiniteSet(T)
  BY <1>1, ListToSet
<1>5. IsFiniteSet(T \cup {h}) /\ Uniq(T \cup {h})
  BY <1>1, <1>3, <1>4, FS_AddElement DEF Uniq
<1>6. ListOf(Sorted(T \cup {h}), T \cup {h})
  BY <1>5, SortedList
<1>7. (S \ {h}) \cap (T \cup {h}) = {} /\ Q = (S \ {h}) \cup (T \cup {h})
  BY <1>1, <1>3
<1>8. QED
  BY <1>2, <1>3, <1>4, <1>6, <1>7 DEF Holds

\* Only acknowledged segments go.
LEMMA ListAcked ==
    ASSUME NEW q, NEW S, ListOf(q, S), NEW ack
    PROVE  \E R : R \subseteq S /\ ListOf(tcp_free_acked_segments(q, ack), R) /\ \A s \in S \ R : After(s) <= ack
<1> DEFINE K == {k \in DOMAIN q : After(q[k]) <= ack}
           n == Leading(K)
<1>1. Len(q) \in Nat /\ DOMAIN q = 1 .. Len(q)
  BY DEF ListOf
<1>2. K \subseteq 1 .. Len(q)
  BY <1>1
<1>3. tcp_free_acked_segments(q, ack) = SubSeq(q, n + 1, Len(q))
  BY DEF tcp_free_acked_segments
<1>4. \A k \in K : After(q[k]) <= ack
  OBVIOUS
<1> HIDE DEF K
<1>5. n \in 0 .. Len(q) /\ \A k \in 1 .. n : k \in K
  BY <1>1, <1>2, LeadingOf
<1> HIDE DEF n
<1>6. ListOf(SubSeq(q, n + 1, Len(q)), S \ Firsts(q, n))
  BY <1>5, ListSplit
<1>7. \A s \in Firsts(q, n) : After(s) <= ack
  BY <1>4, <1>5 DEF Firsts
<1>8. PICK R : R = S \ Firsts(q, n)
  OBVIOUS
<1>9. R \subseteq S /\ \A s \in S \ R : After(s) <= ack
  BY <1>7, <1>8
<1>10. QED
  BY <1>3, <1>6, <1>8, <1>9

LEMMA HoldsAcked ==
    ASSUME NEW u, NEW v, NEW Q, Holds(u, v, Q), NEW ack
    PROVE  \E R : /\ R \subseteq Q /\ \A s \in Q \ R : After(s) <= ack
                  /\ Holds(tcp_free_acked_segments(u, ack), tcp_free_acked_segments(v, ack), R)
<1>1. PICK S, T : ListOf(u, S) /\ ListOf(v, T) /\ S \cap T = {} /\ Q = S \cup T
  BY DEF Holds
<1>2. PICK A : A \subseteq S /\ ListOf(tcp_free_acked_segments(u, ack), A) /\ \A s \in S \ A : After(s) <= ack
  BY <1>1, ListAcked
<1>3. PICK B : B \subseteq T /\ ListOf(tcp_free_acked_segments(v, ack), B) /\ \A s \in T \ B : After(s) <= ack
  BY <1>1, ListAcked
<1>4. PICK R : R = A \cup B
  OBVIOUS
<1>5. A \cap B = {} /\ R \subseteq Q /\ \A s \in Q \ R : s \in S \ A \/ s \in T \ B
  BY <1>1, <1>2, <1>3, <1>4
<1>6. Holds(tcp_free_acked_segments(u, ack), tcp_free_acked_segments(v, ack), R)
  BY <1>2, <1>3, <1>4, <1>5 DEF Holds
<1>7. QED
  BY <1>2, <1>3, <1>5, <1>6

\* New segments are queued.
LEMMA HoldsQueued ==
    ASSUME NEW u, NEW v, NEW Q, Holds(u, v, Q), NEW w, NEW W, ListOf(w, W), Q \cap W = {}
    PROVE  Holds(u, v \o w, Q \cup W)
<1>1. PICK S, T : ListOf(u, S) /\ ListOf(v, T) /\ S \cap T = {} /\ Q = S \cup T
  BY DEF Holds
<1>2. ListOf(v \o w, T \cup W)
  BY <1>1, ListConcat
<1>3. S \cap (T \cup W) = {} /\ Q \cup W = S \cup (T \cup W)
  BY <1>1
<1>4. QED
  BY <1>1, <1>2, <1>3 DEF Holds

\* The segment with a FIN.
WithFin(s) == [s EXCEPT !.fin = TRUE]

\* The FIN is put on the last segment.
LEMMA ListFin ==
    ASSUME NEW v, NEW T, ListOf(v, T), v # << >>, NEW w, w = [v EXCEPT ![Len(v)].fin = TRUE],
           WithFin(Last(v)) \notin T
    PROVE  Last(v) \in T /\ ListOf(w, (T \ {Last(v)}) \cup {WithFin(Last(v))})
<1>1. v \in Seq(Segments) /\ DOMAIN v = 1 .. Len(v)
  BY DEF ListOf
<1>2. PICK n \in Nat : n = Len(v) /\ n >= 1
  BY <1>1, EmptySeq
<1>3. /\ \A i \in 1 .. n : v[i] \in T /\ v[i] \in Segments
      /\ \A t \in T : \E i \in 1 .. n : v[i] = t
      /\ \A i, j \in 1 .. n : v[i] = v[j] => i = j
  BY <1>1, <1>2 DEF ListOf
<1>4. PICK s, f : s = v[n] /\ f = WithFin(s)
  OBVIOUS
<1>5. Last(v) = s
  BY <1>2, <1>4 DEF Last
<1>6. n \in 1 .. n /\ s \in T /\ s \in Segments
  BY <1>2, <1>3, <1>4
<1>7. f \in Segments /\ f \notin T
  BY <1>4, <1>5, <1>6 DEF WithFin, Segments
<1>8. w = [v EXCEPT ![n] = f]
  BY <1>1, <1>2, <1>4, <1>6 DEF WithFin
<1>9. DOMAIN w = 1 .. n /\ w[n] = f /\ \A i \in 1 .. n : i # n => w[i] = v[i]
  BY <1>1, <1>2, <1>6, <1>8
<1>10. w \in [1 .. n -> Segments]
  <2>1. v \in [1 .. n -> Segments]
    BY <1>1, <1>2, LenProperties
  <2>2. QED
    BY <2>1, <1>7, <1>8
<1>11. w \in Seq(Segments) /\ Len(w) = n
  BY <1>10, AsSequence
<1>12. PICK R : R = (T \ {s}) \cup {f}
  OBVIOUS
<1>13. \A i \in 1 .. n : w[i] \in R
  BY <1>3, <1>4, <1>6, <1>9, <1>12
<1>14. ASSUME NEW t \in R PROVE \E i \in 1 .. n : w[i] = t
  <2>1. CASE t = f
    BY <2>1, <1>6, <1>9
  <2>2. CASE t # f
    <3>1. t \in T /\ t # s
      BY <2>2, <1>12
    <3>2. PICK i \in 1 .. n : v[i] = t
      BY <3>1, <1>3
    <3>3. QED
      BY <3>1, <3>2, <1>4, <1>9
  <2>3. QED
    BY <2>1, <2>2
<1>15. ASSUME NEW i \in 1 .. n, NEW j \in 1 .. n, w[i] = w[j] PROVE i = j
  <2>1. CASE i = n
    BY <2>1, <1>3, <1>7, <1>9, <1>15
  <2>2. CASE j = n
    BY <2>2, <1>3, <1>7, <1>9, <1>15
  <2>3. CASE i # n /\ j # n
    BY <2>3, <1>3, <1>9, <1>15
  <2>4. QED
    BY <2>1, <2>2, <2>3
<1>16. ListOf(w, R)
  BY <1>11, <1>13, <1>14, <1>15 DEF ListOf
<1>17. QED
  BY <1>4, <1>5, <1>6, <1>12, <1>16

LEMMA HoldsFin ==
    ASSUME NEW u, NEW v, NEW Q, Holds(u, v, Q), Uniq(Q), v # << >>, ~Last(v).fin,
           NEW w, w = [v EXCEPT ![Len(v)].fin = TRUE]
    PROVE  \E s \in Q : Holds(u, w, (Q \ {s}) \cup {WithFin(s)})
<1>1. PICK S, T : ListOf(u, S) /\ ListOf(v, T) /\ S \cap T = {} /\ Q = S \cup T
  BY DEF Holds
<1>2. PICK s : s = Last(v)
  OBVIOUS
<1>3. s \in T
  <2>1. v \in Seq(Segments) /\ Len(v) >= 1 /\ Len(v) \in Nat
    BY <1>1, EmptySeq DEF ListOf
  <2>2. Len(v) \in 1 .. Len(v)
    BY <2>1
  <2>3. QED
    BY <2>2, <1>1, <1>2 DEF ListOf, Last
<1>4. PICK f : f = WithFin(s)
  OBVIOUS
<1>5. s \in Segments /\ f.seq = s.seq /\ f.fin = TRUE
  BY <1>1, <1>3, <1>4 DEF Uniq, Segments, WithFin
<1>6. f # s
  BY <1>2, <1>5
<1>7. f \notin Q
  BY <1>1, <1>3, <1>5, <1>6 DEF Uniq
<1>8. ListOf(w, (T \ {s}) \cup {f})
  BY <1>1, <1>2, <1>4, <1>7, ListFin
<1>9. S \cap ((T \ {s}) \cup {f}) = {} /\ (Q \ {s}) \cup {f} = S \cup ((T \ {s}) \cup {f})
  BY <1>1, <1>3, <1>7
<1>10. Holds(u, w, (Q \ {s}) \cup {f})
  BY <1>1, <1>8, <1>9 DEF Holds
<1>11. QED
  BY <1>1, <1>3, <1>4, <1>10

\* The data of different segments does not overlap, ends before number b, and does
\* not follow a SYN: a segment that is split gives no number of another one away.
Placed(Q, b) ==
    /\ \A s \in Q : EndOf(s) <= b /\ (s.syn => s.len = 0)
    /\ \A s, t \in Q : s.seq < t.seq => EndOf(s) <= t.seq

\* The segments in Q hold the numbers from a on that were sent, up to x, or given
\* out, up to b.
Numbered(Q, a, x, b) ==
    /\ a \in Nat /\ x \in Nat /\ b \in Nat /\ Uniq(Q) /\ Placed(Q, b)
    /\ \A s \in Q : s.seq < b
    /\ \A n \in a .. Larger(x, b) - 1 : \E s \in Q : n \in Numbers(s)

LEMMA NumbersOf ==
    ASSUME NEW s \in Segments
    PROVE  /\ s.seq \in Nat /\ After(s) \in Nat
           /\ \A n \in Nat : n \in Numbers(s) <=> s.seq <= n /\ n < After(s)
<1>1. s.seq \in Nat /\ s.len \in Nat /\ s.syn \in BOOLEAN /\ s.fin \in BOOLEAN
  BY DEF Segments
<1>2. TCP_TCPLEN(s) \in Nat
  BY <1>1 DEF TCP_TCPLEN
<1>3. After(s) \in Nat
  BY <1>1, <1>2 DEF After
<1>4. QED
  BY <1>1, <1>3 DEF Numbers

LEMMA LargerOf ==
    ASSUME NEW a \in Nat, NEW b \in Nat
    PROVE  /\ Larger(a, b) \in Nat /\ \A n \in Nat : n < Larger(a, b) <=> n < a \/ n < b
           /\ \A m \in Nat : \A n : n \in m .. Larger(a, b) - 1 <=> n \in Nat /\ m <= n /\ (n < a \/ n < b)
BY DEF Larger

\* Numbers that are held, without intervals.
Held(Q, n) == \E s \in Q : s.seq <= n /\ n < After(s)

LEMMA NumberedHeld ==
    ASSUME NEW Q, NEW a, NEW x, NEW b
    PROVE  Numbered(Q, a, x, b)
             <=> /\ a \in Nat /\ x \in Nat /\ b \in Nat /\ Uniq(Q) /\ Placed(Q, b)
                 /\ \A s \in Q : s.seq < b
                 /\ \A n \in Nat : a <= n /\ (n < x \/ n < b) => Held(Q, n)
<1>1. SUFFICES ASSUME a \in Nat, x \in Nat, b \in Nat, Uniq(Q), Placed(Q, b)
               PROVE  (\A n \in a .. Larger(x, b) - 1 : \E s \in Q : n \in Numbers(s))
                        <=> \A n \in Nat : a <= n /\ (n < x \/ n < b) => Held(Q, n)
  BY DEF Numbered
<1>2. \A s \in Q : s \in Segments
  BY <1>1 DEF Uniq
<1>3. \A n \in Nat : (\E s \in Q : n \in Numbers(s)) <=> Held(Q, n)
  BY <1>2, NumbersOf DEF Held
<1>4. \A n : n \in a .. Larger(x, b) - 1 <=> n \in Nat /\ a <= n /\ (n < x \/ n < b)
  BY <1>1, LargerOf
<1>5. QED
  BY <1>3, <1>4

\* A segment of the queues is sent.
LEMMA NumberedSent ==
    ASSUME NEW Q, NEW a, NEW x, NEW b, Numbered(Q, a, x, b), NEW t \in Q
    PROVE  /\ Numbered(Q, a, Larger(x, After(t)), b)
           /\ Numbered(Q, a, Larger(x, t.seq + 1), b)
<1>1. /\ a \in Nat /\ x \in Nat /\ b \in Nat /\ Uniq(Q) /\ Placed(Q, b) /\ \A s \in Q : s.seq < b
      /\ \A n \in Nat : a <= n /\ (n < x \/ n < b) => Held(Q, n)
  BY NumberedHeld
<1>2. t \in Segments
  BY <1>1 DEF Uniq
<1>3. PICK e \in Nat : e = After(t)
  BY <1>2, NumbersOf
<1>4. t.seq \in Nat /\ t.seq < b
  BY <1>1, <1>2, NumbersOf
<1>5. Numbered(Q, a, Larger(x, e), b)
  <2>1. PICK y \in Nat : y = Larger(x, e) /\ \A n \in Nat : n < y <=> n < x \/ n < e
    BY <1>1, <1>3 DEF Larger
  <2>2. ASSUME NEW n \in Nat, a <= n, n < y \/ n < b PROVE Held(Q, n)
    <3>1. CASE n < x \/ n < b
      BY <3>1, <2>2, <1>1
    <3>2. CASE ~(n < x \/ n < b)
      <4>1. n < e /\ t.seq <= n
        BY <3>2, <2>1, <2>2, <1>1, <1>4
      <4>2. QED
        BY <4>1, <1>3 DEF Held
    <3>3. QED
      BY <3>1, <3>2
  <2>3. Numbered(Q, a, y, b)
    BY <2>2, <1>1, NumberedHeld
  <2>4. QED
    BY <2>1, <2>3
<1>6. Numbered(Q, a, Larger(x, t.seq + 1), b)
  <2>1. PICK y \in Nat : y = Larger(x, t.seq + 1) /\ \A n \in Nat : n < y <=> n < x \/ n < t.seq + 1
    BY <1>1, <1>4 DEF Larger
  <2>2. ASSUME NEW n \in Nat, a <= n, n < y \/ n < b PROVE Held(Q, n)
    <3>1. n < x \/ n < b
      BY <2>1, <2>2, <1>1, <1>4
    <3>2. QED
      BY <3>1, <2>2, <1>1
  <2>3. Numbered(Q, a, y, b)
    BY <2>2, <1>1, NumberedHeld
  <2>4. QED
    BY <2>1, <2>3
<1>7. QED
  BY <1>3, <1>5, <1>6

\* Segments that are acknowledged go.
LEMMA NumberedAcked ==
    ASSUME NEW Q, NEW a, NEW x, NEW b, Numbered(Q, a, x, b), NEW R, R \subseteq Q,
           NEW c \in Nat, a <= c, \A s \in Q \ R : After(s) <= c
    PROVE  Numbered(R, c, x, b)
<1>1. /\ a \in Nat /\ x \in Nat /\ b \in Nat /\ Uniq(Q) /\ Placed(Q, b) /\ \A s \in Q : s.seq < b
      /\ \A n \in Nat : a <= n /\ (n < x \/ n < b) => Held(Q, n)
  BY NumberedHeld
<1>2. Uniq(R) /\ Placed(R, b) /\ \A s \in R : s.seq < b
  BY <1>1 DEF Uniq, Placed
<1>3. ASSUME NEW n \in Nat, c <= n, n < x \/ n < b PROVE Held(R, n)
  <2>1. a <= n
    BY <1>1, <1>3
  <2>2. PICK s \in Q : s.seq <= n /\ n < After(s)
    BY <1>1, <1>3, <2>1 DEF Held
  <2>3. After(s) \in Nat
    BY <1>1, NumbersOf DEF Uniq
  <2>4. ~(After(s) <= c)
    BY <1>3, <2>2, <2>3
  <2>5. QED
    BY <2>2, <2>4 DEF Held
<1>4. QED
  BY <1>1, <1>2, <1>3, NumberedHeld

\* Segments W are given the numbers from b to c.
LEMMA NumberedQueued ==
    ASSUME NEW Q, NEW a, NEW x, NEW b, Numbered(Q, a, x, b), NEW W, Uniq(W), NEW c \in Nat, b <= c, Placed(W, c),
           \A s \in W : b <= s.seq /\ s.seq < c, \A n \in Nat : b <= n /\ n < c => Held(W, n)
    PROVE  Q \cap W = {} /\ Numbered(Q \cup W, a, x, c)
<1>1. /\ a \in Nat /\ x \in Nat /\ b \in Nat /\ Uniq(Q) /\ Placed(Q, b) /\ \A s \in Q : s.seq < b
      /\ \A n \in Nat : a <= n /\ (n < x \/ n < b) => Held(Q, n)
  BY NumberedHeld
<1>2. \A s \in Q \cup W : s.seq \in Nat /\ s \in Segments
  BY <1>1 DEF Uniq, Segments
<1>3. \A s \in Q, t \in W : s.seq # t.seq
  BY <1>1, <1>2
<1>4. Q \cap W = {}
  BY <1>3
<1>5. Uniq(Q \cup W)
  BY <1>1, <1>2, <1>3 DEF Uniq
<1>6. Placed(Q \cup W, c) /\ \A s \in Q \cup W : s.seq < c
  <2>1. \A s \in Q \cup W : s.seq \in Nat /\ EndOf(s) \in Nat
    BY <1>2 DEF EndOf, Segments
  <2>2. \A s \in Q : EndOf(s) <= b /\ s.seq < b /\ (s.syn => s.len = 0)
    BY <1>1 DEF Placed
  <2>3. \A s \in W : EndOf(s) <= c /\ b <= s.seq /\ s.seq < c /\ (s.syn => s.len = 0)
    BY DEF Placed
  <2>4. \A s \in Q \cup W : EndOf(s) <= c /\ s.seq < c /\ (s.syn => s.len = 0)
    BY <1>1, <2>1, <2>2, <2>3
  <2>5. ASSUME NEW s \in Q \cup W, NEW t \in Q \cup W, s.seq < t.seq PROVE EndOf(s) <= t.seq
    <3>1. CASE s \in Q /\ t \in Q
      BY <3>1, <2>5, <1>1 DEF Placed
    <3>2. CASE s \in W /\ t \in W
      BY <3>2, <2>5 DEF Placed
    <3>3. CASE s \in Q /\ t \in W
      BY <3>3, <1>1, <2>1, <2>2, <2>3
    <3>4. CASE s \in W /\ t \in Q
      BY <3>4, <2>5, <1>1, <2>1, <2>2, <2>3
    <3>5. QED
      BY <3>1, <3>2, <3>3, <3>4
  <2>6. QED
    BY <2>4, <2>5 DEF Placed
<1>7. ASSUME NEW n \in Nat, a <= n, n < x \/ n < c PROVE Held(Q \cup W, n)
  <2>1. CASE n < x \/ n < b
    BY <2>1, <1>1, <1>7 DEF Held
  <2>2. CASE ~(n < x \/ n < b)
    <3>1. b <= n /\ n < c
      BY <2>2, <1>1, <1>7
    <3>2. QED
      BY <3>1 DEF Held
  <2>3. QED
    BY <2>1, <2>2
<1>8. QED
  BY <1>1, <1>4, <1>5, <1>6, <1>7, NumberedHeld

\* A segment gets the FIN.
LEMMA NumberedFin ==
    ASSUME NEW Q, NEW a, NEW x, NEW b, Numbered(Q, a, x, b), NEW t \in Q
    PROVE  Numbered((Q \ {t}) \cup {WithFin(t)}, a, x, b)
<1>1. /\ a \in Nat /\ x \in Nat /\ b \in Nat /\ Uniq(Q) /\ Placed(Q, b) /\ \A s \in Q : s.seq < b
      /\ \A n \in Nat : a <= n /\ (n < x \/ n < b) => Held(Q, n)
  BY NumberedHeld
<1>2. PICK f : f = WithFin(t)
  OBVIOUS
<1>3. t \in Segments
  BY <1>1 DEF Uniq
<1>4. /\ f \in Segments /\ f.seq = t.seq /\ f.len = t.len /\ f.syn = t.syn /\ f.fin = TRUE
      /\ t.seq \in Nat /\ t.len \in Nat
  BY <1>2, <1>3 DEF Segments, WithFin
<1>5. After(t) <= After(f) /\ After(t) \in Nat /\ After(f) \in Nat
  <2>1. After(t) \in Nat /\ After(f) \in Nat
    BY <1>3, <1>4, NumbersOf
  <2>2. PICK k \in Nat : k = t.seq + t.len + (IF t.syn THEN 1 ELSE 0)
    BY <1>4
  <2>3. After(f) = k + 1 /\ After(t) = k + (IF t.fin THEN 1 ELSE 0)
    BY <1>4, <2>2 DEF After, TCP_TCPLEN
  <2>4. QED
    BY <2>1, <2>2, <2>3
<1>6. PICK R : R = (Q \ {t}) \cup {f}
  OBVIOUS
<1>7. Uniq(R)
  <2>1. \A s \in Q : s # t => s.seq # f.seq
    BY <1>1, <1>4 DEF Uniq
  <2>2. QED
    BY <1>1, <1>4, <1>6, <2>1 DEF Uniq
<1>8. Placed(R, b) /\ \A s \in R : s.seq < b
  <2>1. EndOf(f) = EndOf(t)
    BY <1>4 DEF EndOf
  <2>2. \A s \in R : EndOf(s) <= b /\ s.seq < b /\ (s.syn => s.len = 0)
    BY <1>1, <1>4, <1>6, <2>1 DEF Placed
  <2>3. \A s \in R : \E o \in Q : o.seq = s.seq /\ EndOf(o) = EndOf(s)
    BY <1>4, <1>6, <2>1
  <2>4. \A s, r \in R : s.seq < r.seq => EndOf(s) <= r.seq
    BY <1>1, <2>3 DEF Placed
  <2>5. QED
    BY <2>2, <2>4 DEF Placed
<1>9. ASSUME NEW n \in Nat, a <= n, n < x \/ n < b PROVE Held(R, n)
  <2>1. PICK s \in Q : s.seq <= n /\ n < After(s)
    BY <1>1, <1>9 DEF Held
  <2>2. CASE s = t
    <3>1. f.seq <= n /\ n < After(f)
      BY <2>1, <2>2, <1>4, <1>5
    <3>2. QED
      BY <3>1, <1>6 DEF Held
  <2>3. CASE s # t
    BY <2>1, <2>3, <1>6 DEF Held
  <2>4. QED
    BY <2>2, <2>3
<1>10. QED
  BY <1>1, <1>2, <1>6, <1>7, <1>8, <1>9, NumberedHeld

-----------------------------------------------------------------------------
(* The send queues: the operations.                                        *)

TxHas(p, Q) == Holds(p.unacked, p.unsent, Q) /\ Numbered(Q, p.lastack, p.snd_nxt, p.snd_lbb)
TxOk(p) == \E Q : TxHas(p, Q)

\* Block q has what p has for sending.
SameTx(p, q) ==
    /\ IsPcb(q) /\ q.unacked = p.unacked /\ q.unsent = p.unsent
    /\ q.lastack = p.lastack /\ q.snd_nxt = p.snd_nxt /\ q.snd_lbb = p.snd_lbb

LEMMA SameTxHas ==
    ASSUME NEW p, NEW q, SameTx(p, q), NEW Q, TxHas(p, Q)
    PROVE  TxHas(q, Q)
BY DEF TxHas, SameTx

LEMMA SameTxOk ==
    ASSUME NEW p, NEW q, SameTx(p, q), TxOk(p)
    PROVE  TxOk(q)
BY SameTxHas DEF TxOk

LEMMA HoldsUnsent ==
    ASSUME NEW u, NEW v, NEW Q, Holds(u, v, Q)
    PROVE  /\ u \in Seq(Segments) /\ v \in Seq(Segments) /\ Len(v) \in Nat
           /\ \A i \in 1 .. Len(v) : v[i] \in Q
           /\ v # << >> => Head(v) \in Q
<1>1. PICK S, T : ListOf(u, S) /\ ListOf(v, T) /\ S \cap T = {} /\ Q = S \cup T
  BY DEF Holds
<1>2. v # << >> => Head(v) \in T
  BY <1>1, ListTail
<1>3. QED
  BY <1>1, <1>2 DEF ListOf

\* The number that is sent next grows by segments of the queues only.
SentOn(p, q, Q) ==
    /\ IsPcb(q) /\ TxHas(q, Q) /\ q.snd_lbb = p.snd_lbb
    /\ q.snd_nxt = p.snd_nxt \/ \E t \in Q : q.snd_nxt = Larger(p.snd_nxt, After(t))

LEMMA tcp_outputTx ==
    ASSUME NEW p, IsPcb(p), NEW Q, TxHas(p, Q)
    PROVE  SentOn(p, tcp_output(p), Q)
<1>1. PICK q : q = tcp_output(p)
  OBVIOUS
<1>2. CASE q = p
  BY <1>1, <1>2 DEF SentOn
<1>3. CASE q = [p EXCEPT !.persist = TRUE, !.probes = 0]
  <2>1. SameTx(p, q)
    BY <1>3 DEF SameTx, IsPcb
  <2>2. QED
    BY <1>1, <2>1, SameTxHas DEF SentOn, SameTx
<1>4. CASE p.unsent # << >> /\ Fits(p, 1)
  <2>1. PICK n : n = LastToSend(p)
    OBVIOUS
  <2>2. PICK a, b, c, d :
           /\ a = SubSeq(p.unsent, n + 1, Len(p.unsent))
           /\ b = Sorted(ToSet(p.unacked) \cup ToSet(SubSeq(p.unsent, 1, n)))
           /\ c = (IF n = 0 THEN p.snd_nxt ELSE Larger(p.snd_nxt, After(p.unsent[n])))
           /\ d = (p.rtime \/ n > 0)
    BY Zenon
  <2>3. q = [p EXCEPT !.persist = FALSE, !.unsent = a, !.unacked = b, !.snd_nxt = c, !.rtime = d]
    BY <1>1, <1>4, <2>1, <2>2 DEF tcp_output
  <2>4. /\ IsPcb(q) /\ q.unsent = a /\ q.unacked = b /\ q.snd_nxt = c
        /\ q.lastack = p.lastack /\ q.snd_lbb = p.snd_lbb
    BY <2>3 DEF IsPcb
  <2>5. PICK u, v : u = p.unacked /\ v = p.unsent
    OBVIOUS
  <2>6. Holds(u, v, Q) /\ Numbered(Q, p.lastack, p.snd_nxt, p.snd_lbb) /\ Uniq(Q)
    BY <2>5 DEF TxHas, Numbered
  <2>7. v \in Seq(Segments) /\ Len(v) \in Nat /\ DOMAIN v = 1 .. Len(v) /\ \A i \in 1 .. Len(v) : v[i] \in Q
    BY <2>6, HoldsUnsent
  <2>8. n \in 0 .. Len(v)
    <3> DEFINE K == {k \in DOMAIN p.unsent : Fits(p, k) /\ tcp_do_output_nagle(p, k)}
    <3>1. K \subseteq 1 .. Len(v)
      BY <2>5, <2>7
    <3>2. n = Leading(K)
      BY <2>1 DEF LastToSend
    <3> HIDE DEF K
    <3>3. QED
      BY <3>1, <3>2, <2>7, LeadingOf
  <2>9. Holds(b, a, Q)
    BY <2>2, <2>5, <2>6, <2>8, HoldsSent
  <2>10. CASE n = 0
    <3>1. c = p.snd_nxt
      BY <2>2, <2>10
    <3>2. QED
      BY <1>1, <2>4, <2>6, <2>9, <3>1 DEF SentOn, TxHas
  <2>11. CASE n # 0
    <3>1. PICK t \in Q : t = p.unsent[n]
      BY <2>5, <2>7, <2>8, <2>11
    <3>2. c = Larger(p.snd_nxt, After(t))
      BY <2>2, <2>11, <3>1
    <3>3. Numbered(Q, p.lastack, Larger(p.snd_nxt, After(t)), p.snd_lbb)
      BY <2>6, NumberedSent
    <3>4. TxHas(q, Q)
      BY <2>4, <2>9, <3>2, <3>3 DEF TxHas
    <3>5. QED
      BY <1>1, <2>4, <3>2, <3>4 DEF SentOn
  <2>12. QED
    BY <2>10, <2>11
<1>5. QED
  BY <1>1, <1>2, <1>3, <1>4 DEF tcp_output

LEMMA tcp_outputOk ==
    ASSUME NEW p, IsPcb(p), TxOk(p)
    PROVE  IsPcb(tcp_output(p)) /\ TxOk(tcp_output(p))
<1>1. PICK Q : TxHas(p, Q)
  BY DEF TxOk
<1>2. SentOn(p, tcp_output(p), Q)
  BY <1>1, tcp_outputTx
<1>3. QED
  BY <1>2 DEF SentOn, TxOk

\* Everything is to be sent again: nothing is lost, and nothing counts as sent anew.
AgainOn(p, q, Q) == IsPcb(q) /\ TxHas(q, Q) /\ q.snd_lbb = p.snd_lbb /\ q.snd_nxt = p.snd_nxt

LEMMA tcp_rexmit_rto_prepareTx ==
    ASSUME NEW p, IsPcb(p), NEW Q, TxHas(p, Q)
    PROVE  AgainOn(p, tcp_rexmit_rto_prepare(p), Q)
<1>1. PICK q : q = tcp_rexmit_rto_prepare(p)
  OBVIOUS
<1>2. PICK a : a = p.unacked \o p.unsent
  OBVIOUS
<1>3. q = [p EXCEPT !.unsent = a, !.unacked = << >>]
  BY <1>1, <1>2 DEF tcp_rexmit_rto_prepare
<1>4. /\ IsPcb(q) /\ q.unsent = a /\ q.unacked = << >> /\ q.lastack = p.lastack /\ q.snd_lbb = p.snd_lbb
      /\ q.snd_nxt = p.snd_nxt
  BY <1>3 DEF IsPcb
<1>5. Holds(<< >>, a, Q)
  BY <1>2, HoldsAgain DEF TxHas
<1>6. QED
  BY <1>1, <1>4, <1>5 DEF AgainOn, TxHas

LEMMA tcp_rexmit_fastTx ==
    ASSUME NEW p, IsPcb(p), TxOk(p)
    PROVE  TxOk(tcp_rexmit_fast(p))
<1>1. PICK Q : TxHas(p, Q)
  BY DEF TxOk
<1>2. CASE p.unacked # << >> /\ ~p.infr
  <2>1. PICK r : r = tcp_rexmit(p)
    OBVIOUS
  <2>2. PICK a, b, c : /\ a = Tail(p.unacked) /\ b = Sorted(ToSet(p.unsent) \cup {Head(p.unacked)})
                       /\ c = p.nrtx + 1
    OBVIOUS
  <2>3. r = [p EXCEPT !.unacked = a, !.unsent = b, !.nrtx = c]
    BY <2>1, <2>2 DEF tcp_rexmit
  <2>4. /\ IsPcb(r) /\ r.unacked = a /\ r.unsent = b /\ r.lastack = p.lastack /\ r.snd_lbb = p.snd_lbb
        /\ r.snd_nxt = p.snd_nxt
    BY <2>3 DEF IsPcb
  <2>5. Holds(p.unacked, p.unsent, Q) /\ Numbered(Q, p.lastack, p.snd_nxt, p.snd_lbb) /\ Uniq(Q)
    BY <1>1 DEF TxHas, Numbered
  <2>6. Holds(a, b, Q)
    BY <1>2, <2>2, <2>5, HoldsRexmit
  <2>7. TxHas(r, Q)
    BY <2>4, <2>5, <2>6 DEF TxHas
  <2>8. PICK q : q = tcp_rexmit_fast(p)
    OBVIOUS
  <2>9. q = [r EXCEPT !.cwnd = 2 * TCP_MSS, !.infr = TRUE]
    BY <1>2, <2>1, <2>8 DEF tcp_rexmit_fast
  <2>10. SameTx(r, q)
    BY <2>4, <2>9 DEF SameTx, IsPcb
  <2>11. QED
    BY <2>7, <2>8, <2>10, SameTxHas DEF TxOk
<1>3. CASE ~(p.unacked # << >> /\ ~p.infr)
  BY <1>3 DEF tcp_rexmit_fast
<1>4. QED
  BY <1>2, <1>3

\* An acknowledgement: only what it acknowledges goes.
LEMMA AckReceivedTx ==
    ASSUME NEW p, IsPcb(p), TxOk(p), NEW s, s.ack \in Nat
    PROVE  IsPcb(AckReceived(p, s)) /\ TxOk(AckReceived(p, s))
<1>1. PICK q : q = WithWindow(p, s)
  OBVIOUS
<1>2. IsPcb(q) /\ SameTx(p, q) /\ q.lastack = p.lastack
  BY <1>1 DEF WithWindow, SameTx, IsPcb
<1>3. PICK Q : TxHas(q, Q)
  BY <1>2, SameTxOk DEF TxOk
<1>4. PICK r : r = AckReceived(p, s)
  OBVIOUS
<1>5. IsPcb(r)
  BY <1>4, AckReceivedRx DEF SameRx
<1>6. PICK d : d = Duplicated(q)
  OBVIOUS
<1>7. SameTx(q, d)
  BY <1>2, <1>6 DEF Duplicated, SameTx, IsPcb
<1>8. IsPcb(d) /\ TxOk(d)
  BY <1>3, <1>7, SameTxOk DEF SameTx, TxOk
<1>9. CASE r = Unmoved(q)
  <2>1. SameTx(q, r)
    BY <1>2, <1>9 DEF Unmoved, SameTx, IsPcb
  <2>2. QED
    BY <1>3, <1>4, <1>5, <2>1, SameTxOk DEF TxOk
<1>10. CASE r = d
  BY <1>4, <1>8, <1>10
<1>11. CASE r = tcp_rexmit_fast(d)
  BY <1>4, <1>5, <1>8, <1>11, tcp_rexmit_fastTx
<1>12. CASE ~(s.ack <= p.lastack) /\ \E c, t : r = Advanced(q, s.ack, c, t)
  <2>1. PICK c, t : r = Advanced(q, s.ack, c, t)
    BY <1>12
  <2>2. PICK a \in Nat : a = s.ack
    OBVIOUS
  <2>3. PICK u, v : u = tcp_free_acked_segments(q.unacked, a) /\ v = tcp_free_acked_segments(q.unsent, a)
    OBVIOUS
  <2>4. r = [q EXCEPT !.infr = FALSE, !.nrtx = 0, !.dupacks = 0, !.lastack = a, !.cwnd = c,
                      !.unacked = u, !.unsent = v, !.rtime = t]
    BY <2>1, <2>2, <2>3 DEF Advanced
  <2>5. r.lastack = a /\ r.unacked = u /\ r.unsent = v /\ r.snd_nxt = q.snd_nxt /\ r.snd_lbb = q.snd_lbb
    BY <1>2, <2>4 DEF IsPcb
  <2>6. Holds(q.unacked, q.unsent, Q) /\ Numbered(Q, q.lastack, q.snd_nxt, q.snd_lbb)
    BY <1>3 DEF TxHas
  <2>7. PICK R : R \subseteq Q /\ (\A x \in Q \ R : After(x) <= a) /\ Holds(u, v, R)
    BY <2>3, <2>6, HoldsAcked
  <2>8. q.lastack <= a
    BY <1>2, <1>12, <2>2, <2>6 DEF Numbered
  <2>9. Numbered(R, a, q.snd_nxt, q.snd_lbb)
    BY <2>6, <2>7, <2>8, NumberedAcked
  <2>10. TxHas(r, R)
    BY <2>5, <2>7, <2>9 DEF TxHas
  <2>11. QED
    BY <1>4, <1>5, <2>10 DEF TxOk
<1>13. QED
  BY <1>1, <1>4, <1>6, <1>9, <1>10, <1>11, <1>12, AckCases

\* A SYN or a FIN takes the next number.
LEMMA tcp_enqueue_flagsTx ==
    ASSUME NEW p, IsPcb(p), NEW Q, TxHas(p, Q), NEW syn \in BOOLEAN, NEW fin \in BOOLEAN, syn \/ fin
    PROVE  LET q == tcp_enqueue_flags(p, syn, fin)
           IN  /\ IsPcb(q) /\ TxHas(q, Q \cup {Segment(p.snd_lbb, 0, syn, fin)})
               /\ q.snd_nxt = p.snd_nxt /\ q.snd_lbb = p.snd_lbb + 1
<1>1. PICK q : q = tcp_enqueue_flags(p, syn, fin)
  OBVIOUS
<1>2. PICK b, s : b = p.snd_lbb /\ s = Segment(b, 0, syn, fin)
  OBVIOUS
<1>3. PICK a, c, d : a = Append(p.unsent, s) /\ c = b + 1 /\ d = (p.finq \/ fin)
  BY Zenon
<1>4. q = [p EXCEPT !.unsent = a, !.snd_lbb = c, !.finq = d]
  BY <1>1, <1>2, <1>3 DEF tcp_enqueue_flags
<1>5. /\ IsPcb(q) /\ q.unsent = a /\ q.snd_lbb = c /\ q.unacked = p.unacked /\ q.lastack = p.lastack
      /\ q.snd_nxt = p.snd_nxt
  BY <1>4 DEF IsPcb
<1>6. Holds(p.unacked, p.unsent, Q) /\ Numbered(Q, p.lastack, p.snd_nxt, b) /\ b \in Nat
  BY <1>2 DEF TxHas, Numbered
<1>7. s \in Segments /\ s.seq = b /\ After(s) > b /\ s.len = 0
  <2>1. s \in Segments /\ s.seq = b /\ s.len = 0 /\ s.syn = syn /\ s.fin = fin
    BY <1>2, <1>6 DEF Segment, Segments
  <2>2. QED
    BY <2>1, <1>6 DEF After, TCP_TCPLEN
<1>8. ListOf(<<s>>, {s}) /\ Uniq({s})
  BY <1>7, ListSingle DEF Uniq
<1>9. c \in Nat /\ b <= c /\ \A x \in {s} : b <= x.seq /\ x.seq < c
  BY <1>3, <1>6, <1>7
<1>10. \A n \in Nat : b <= n /\ n < c => Held({s}, n)
  <2>1. \A n \in Nat : b <= n /\ n < c => n = b
    BY <1>3, <1>6
  <2>2. QED
    BY <2>1, <1>6, <1>7 DEF Held
<1>11. Q \cap {s} = {} /\ Numbered(Q \cup {s}, p.lastack, p.snd_nxt, c)
  <2>1. EndOf(s) = b
    BY <1>6, <1>7 DEF EndOf
  <2>2. Placed({s}, c)
    BY <1>3, <1>6, <1>7, <2>1 DEF Placed
  <2>3. QED
    BY <1>6, <1>8, <1>9, <1>10, <2>2, NumberedQueued
<1>12. Holds(p.unacked, p.unsent \o <<s>>, Q \cup {s})
  BY <1>6, <1>8, <1>11, HoldsQueued
<1>13. a = p.unsent \o <<s>>
  BY <1>3, <1>6, <1>7, HoldsUnsent, AppendIsConcat
<1>14. TxHas(q, Q \cup {s})
  BY <1>5, <1>11, <1>12, <1>13 DEF TxHas
<1>15. QED
  BY <1>1, <1>2, <1>3, <1>5, <1>14

LEMMA tcp_send_finTx ==
    ASSUME NEW p, IsPcb(p), TxOk(p)
    PROVE  IsPcb(tcp_send_fin(p)) /\ TxOk(tcp_send_fin(p))
<1>1. PICK Q : TxHas(p, Q)
  BY DEF TxOk
<1>2. PICK q : q = tcp_send_fin(p)
  OBVIOUS
<1>3. IsPcb(q)
  BY <1>2, tcp_send_finRx DEF SameRx
<1>4. CASE p.unsent # << >> /\ ~Last(p.unsent).syn /\ ~Last(p.unsent).fin
  <2>1. q = [p EXCEPT !.unsent[Len(p.unsent)].fin = TRUE, !.finq = TRUE]
    BY <1>2, <1>4 DEF tcp_send_fin
  <2>2. PICK w : w = [p.unsent EXCEPT ![Len(p.unsent)].fin = TRUE]
    OBVIOUS
  <2>3. q = [p EXCEPT !.unsent = w, !.finq = TRUE]
    BY <2>1, <2>2
  <2>4. q.unsent = w /\ q.unacked = p.unacked /\ q.lastack = p.lastack /\ q.snd_nxt = p.snd_nxt /\ q.snd_lbb = p.snd_lbb
    BY <2>3 DEF IsPcb
  <2>5. Holds(p.unacked, p.unsent, Q) /\ Numbered(Q, p.lastack, p.snd_nxt, p.snd_lbb) /\ Uniq(Q)
    BY <1>1 DEF TxHas, Numbered
  <2>6. PICK s \in Q : Holds(p.unacked, w, (Q \ {s}) \cup {WithFin(s)})
    BY <1>4, <2>2, <2>5, HoldsFin
  <2>7. Numbered((Q \ {s}) \cup {WithFin(s)}, p.lastack, p.snd_nxt, p.snd_lbb)
    BY <2>5, NumberedFin
  <2>8. TxHas(q, (Q \ {s}) \cup {WithFin(s)})
    BY <2>4, <2>6, <2>7 DEF TxHas
  <2>9. QED
    BY <1>2, <1>3, <2>8 DEF TxOk
<1>5. CASE ~(p.unsent # << >> /\ ~Last(p.unsent).syn /\ ~Last(p.unsent).fin)
  <2>1. q = tcp_enqueue_flags(p, FALSE, TRUE)
    BY <1>2, <1>5 DEF tcp_send_fin
  <2>2. FALSE \in BOOLEAN /\ TRUE \in BOOLEAN /\ (FALSE \/ TRUE)
    OBVIOUS
  <2>3. TxHas(tcp_enqueue_flags(p, FALSE, TRUE), Q \cup {Segment(p.snd_lbb, 0, FALSE, TRUE)})
    BY <1>1, <2>2, tcp_enqueue_flagsTx
  <2>4. QED
    BY <1>2, <1>3, <2>1, <2>3 DEF TxOk
<1>6. QED
  BY <1>4, <1>5

\* Where the segments of a request begin that is written at number b, and the segments.
StartOf(rq, b, k) == b + (IF k = 1 THEN 0 ELSE rq[k - 1])
SegmentsOf(rq, b) ==
    [k \in DOMAIN rq |-> Segment(StartOf(rq, b, k), StartOf(rq, b, k + 1) - StartOf(rq, b, k), FALSE, FALSE)]
Rising(rq) == rq \in Seq(Nat) /\ \A k \in DOMAIN rq : rq[k] > 0 /\ \A j \in 1 .. k - 1 : rq[j] < rq[k]

LEMMA Starts ==
    ASSUME NEW rq, Rising(rq), NEW b \in Nat
    PROVE  /\ Len(rq) \in Nat /\ StartOf(rq, b, 1) = b
           /\ \A k \in 1 .. Len(rq) + 1 : StartOf(rq, b, k) \in Nat /\ b <= StartOf(rq, b, k)
           /\ \A j, k \in 1 .. Len(rq) + 1 : j < k => StartOf(rq, b, j) < StartOf(rq, b, k)
<1>1. PICK N \in Nat : N = Len(rq) /\ DOMAIN rq = 1 .. N
  BY DEF Rising
<1>2. \A k \in 1 .. N : rq[k] \in Nat /\ rq[k] > 0 /\ \A j \in 1 .. k - 1 : rq[j] < rq[k]
  BY <1>1 DEF Rising
<1>3. StartOf(rq, b, 1) = b
  BY DEF StartOf
<1>4. \A k \in 1 .. N + 1 : k # 1 => k - 1 \in 1 .. N /\ StartOf(rq, b, k) = b + rq[k - 1]
  BY DEF StartOf
<1>5. \A k \in 1 .. N + 1 : StartOf(rq, b, k) \in Nat /\ b <= StartOf(rq, b, k)
  BY <1>2, <1>3, <1>4
<1>6. ASSUME NEW j \in 1 .. N + 1, NEW k \in 1 .. N + 1, j < k PROVE StartOf(rq, b, j) < StartOf(rq, b, k)
  <2>1. k # 1 /\ k - 1 \in 1 .. N /\ StartOf(rq, b, k) = b + rq[k - 1] /\ rq[k - 1] \in Nat /\ rq[k - 1] > 0
    BY <1>2, <1>4, <1>6
  <2>2. CASE j = 1
    BY <2>1, <2>2, <1>3
  <2>3. CASE j # 1
    <3>1. j - 1 \in 1 .. N /\ j - 1 \in 1 .. (k - 1) - 1 /\ StartOf(rq, b, j) = b + rq[j - 1] /\ rq[j - 1] \in Nat
      BY <2>3, <1>2, <1>4, <1>6
    <3>2. rq[j - 1] < rq[k - 1]
      BY <2>1, <3>1, <1>2
    <3>3. QED
      BY <2>1, <3>1, <3>2
  <2>4. QED
    BY <2>2, <2>3
<1>7. QED
  BY <1>1, <1>3, <1>5, <1>6

LEMMA RequestSegments ==
    ASSUME NEW rq, Rising(rq), NEW b \in Nat
    PROVE  \E W : /\ ListOf(SegmentsOf(rq, b), W) /\ Uniq(W)
                  /\ Placed(W, StartOf(rq, b, Len(rq) + 1))
                  /\ \A s \in W : b <= s.seq /\ s.seq < StartOf(rq, b, Len(rq) + 1)
                  /\ \A n \in Nat : b <= n /\ n < StartOf(rq, b, Len(rq) + 1) => Held(W, n)
<1>1. PICK N \in Nat : N = Len(rq) /\ DOMAIN rq = 1 .. N
  BY DEF Rising
<1> DEFINE St(k) == StartOf(rq, b, k)
           sg == SegmentsOf(rq, b)
           W == {sg[k] : k \in 1 .. N}
<1>2. /\ St(1) = b
      /\ \A k \in 1 .. N + 1 : St(k) \in Nat /\ b <= St(k)
      /\ \A j, k \in 1 .. N + 1 : j < k => St(j) < St(k)
  BY <1>1, Starts
<1>3. sg = [k \in 1 .. N |-> Segment(St(k), St(k + 1) - St(k), FALSE, FALSE)]
  BY <1>1 DEF SegmentsOf
<1> HIDE DEF St, sg
<1>4. ASSUME NEW k \in 1 .. N
      PROVE  /\ sg[k] \in Segments /\ sg[k].seq = St(k) /\ After(sg[k]) = St(k + 1)
             /\ EndOf(sg[k]) = St(k + 1) /\ ~sg[k].syn
  <2>1. k \in 1 .. N + 1 /\ k + 1 \in 1 .. N + 1 /\ k < k + 1
    OBVIOUS
  <2>2. St(k) \in Nat /\ St(k + 1) \in Nat /\ St(k) < St(k + 1)
    BY <2>1, <1>2
  <2>3. sg[k] = Segment(St(k), St(k + 1) - St(k), FALSE, FALSE)
    BY <1>3
  <2>4. PICK x \in Nat, y \in Nat : x = St(k) /\ y = St(k + 1) - St(k) /\ x + y = St(k + 1)
    BY <2>2
  <2>5. PICK s : s = sg[k]
    OBVIOUS
  <2>6. s = [seq |-> x, len |-> y, syn |-> FALSE, fin |-> FALSE]
    BY <2>3, <2>4, <2>5 DEF Segment
  <2>7. s \in Segments /\ s.seq = x /\ After(s) = x + y /\ EndOf(s) = x + y /\ ~s.syn
    BY <2>6 DEF Segments, After, TCP_TCPLEN, EndOf
  <2>8. QED
    BY <2>4, <2>5, <2>7
<1>5. sg \in Seq(Segments) /\ Len(sg) = N
  <2>1. sg \in [1 .. N -> Segments]
    <3> DEFINE At(k) == Segment(St(k), St(k + 1) - St(k), FALSE, FALSE)
    <3>1. sg = [k \in 1 .. N |-> At(k)]
      BY <1>3
    <3> HIDE DEF At
    <3>2. \A k \in 1 .. N : At(k) = sg[k]
      BY <3>1
    <3>3. QED
      BY <3>1, <3>2, <1>4
  <2>2. QED
    BY <2>1, AsSequence
<1>6. ASSUME NEW i \in 1 .. N, NEW j \in 1 .. N, sg[i].seq = sg[j].seq PROVE i = j
  <2>1. i \in 1 .. N + 1 /\ j \in 1 .. N + 1 /\ St(i) = St(j) /\ St(i) \in Nat /\ St(j) \in Nat
    BY <1>2, <1>4, <1>6
  <2>2. ~(i < j) /\ ~(j < i)
    BY <2>1, <1>2
  <2>3. QED
    BY <2>2
<1>7. ListOf(sg, W)
  BY <1>5, <1>6 DEF ListOf
<1>8. Uniq(W)
  BY <1>4, <1>6 DEF Uniq
<1>9. \A s \in W : b <= s.seq /\ s.seq < St(N + 1)
  <2>1. \A k \in 1 .. N : k \in 1 .. N + 1 /\ N + 1 \in 1 .. N + 1 /\ k < N + 1
    OBVIOUS
  <2>2. QED
    BY <2>1, <1>2, <1>4
<1>10. ASSUME NEW n \in Nat, b <= n, n < St(N + 1) PROVE Held(W, n)
  <2> DEFINE K == {k \in 1 .. N + 1 : n < St(k)}
  <2>1. K \subseteq Nat /\ N + 1 \in K
    BY <1>10
  <2>2. PICK k \in K : \A y \in K : k <= y
    BY <2>1, LeastOf
  <2>3. k # 1
    BY <1>2, <1>10
  <2>4. k - 1 \in 1 .. N /\ k - 1 \in 1 .. N + 1 /\ (k - 1) + 1 = k
    BY <2>3
  <2>5. ~(n < St(k - 1))
    BY <2>2, <2>4
  <2>6. sg[k - 1] \in W /\ sg[k - 1].seq <= n /\ n < After(sg[k - 1])
    <3>1. St(k - 1) \in Nat /\ St(k - 1) <= n
      BY <2>4, <2>5, <1>2
    <3>2. sg[k - 1].seq = St(k - 1) /\ After(sg[k - 1]) = St(k)
      BY <2>4, <1>4
    <3>3. QED
      BY <2>4, <3>1, <3>2
  <2>7. QED
    BY <2>6 DEF Held
<1>11. Placed(W, St(N + 1))
  <2>1. ASSUME NEW j \in 1 .. N + 1, NEW k \in 1 .. N + 1, j <= k PROVE St(j) <= St(k)
    BY <2>1, <1>2
  <2>2. \A k \in 1 .. N : k + 1 \in 1 .. N + 1 /\ k \in 1 .. N + 1 /\ N + 1 \in 1 .. N + 1 /\ k + 1 <= N + 1
    OBVIOUS
  <2>3. \A k \in 1 .. N : EndOf(sg[k]) <= St(N + 1) /\ ~sg[k].syn
    BY <2>1, <2>2, <1>4
  <2>4. ASSUME NEW j \in 1 .. N, NEW k \in 1 .. N, sg[j].seq < sg[k].seq PROVE EndOf(sg[j]) <= sg[k].seq
    <3>1. St(j) < St(k) /\ St(j) \in Nat /\ St(k) \in Nat
      BY <2>2, <2>4, <1>2, <1>4
    <3>2. ~(k <= j)
      BY <2>1, <2>2, <3>1
    <3>3. j + 1 <= k
      BY <3>2
    <3>4. St(j + 1) <= St(k)
      BY <2>1, <2>2, <3>3
    <3>5. QED
      BY <3>4, <1>4
  <2>5. QED
    BY <2>3, <2>4 DEF Placed
<1>12. QED
  BY <1>1, <1>7, <1>8, <1>9, <1>10, <1>11 DEF St, sg

LEMMA RequestRising ==
    ASSUME TalkOk(talk)
    PROVE  Rising(talk.request)
<1>1. PICK e \in Exchanges : talk.request = e.request
  BY DEF TalkOk
<1>2. e.request \in Seq(Nat) /\ \A k \in DOMAIN e.request : e.request[k] > 0 /\ \A j \in 1 .. k - 1 : e.request[j] < e.request[k]
  BY TcpAssumption
<1>3. QED
  BY <1>1, <1>2 DEF Rising

\* The request is queued without a gap.
LEMMA tcp_writeTx ==
    ASSUME TalkOk(talk), NEW p, IsPcb(p), TxOk(p)
    PROVE  IsPcb(tcp_write(p)) /\ TxOk(tcp_write(p))
<1>1. PICK Q : TxHas(p, Q)
  BY DEF TxOk
<1>2. PICK rq : rq = talk.request
  OBVIOUS
<1>3. Rising(rq)
  BY <1>2, RequestRising
<1>4. PICK b : b = p.snd_lbb
  OBVIOUS
<1>5. Holds(p.unacked, p.unsent, Q) /\ Numbered(Q, p.lastack, p.snd_nxt, b) /\ b \in Nat
  BY <1>1, <1>4 DEF TxHas, Numbered
<1>6. PICK w, c : w = SegmentsOf(rq, b) /\ c = StartOf(rq, b, Len(rq) + 1)
  OBVIOUS
<1>7. PICK W : /\ ListOf(w, W) /\ Uniq(W) /\ Placed(W, c) /\ \A s \in W : b <= s.seq /\ s.seq < c
               /\ \A n \in Nat : b <= n /\ n < c => Held(W, n)
  BY <1>3, <1>5, <1>6, RequestSegments
<1>8. c \in Nat /\ b <= c
  <2>1. Len(rq) \in Nat
    BY <1>3, <1>5, Starts
  <2>2. Len(rq) + 1 \in 1 .. Len(rq) + 1
    BY <2>1
  <2>3. QED
    BY <2>2, <1>3, <1>5, <1>6, Starts
<1>9. Q \cap W = {} /\ Numbered(Q \cup W, p.lastack, p.snd_nxt, c)
  BY <1>5, <1>7, <1>8, NumberedQueued
<1>10. Holds(p.unacked, p.unsent \o w, Q \cup W)
  BY <1>5, <1>7, <1>9, HoldsQueued
<1>11. PICK q, v : q = tcp_write(p) /\ v = p.unsent \o w
  OBVIOUS
<1>12. Len(w) = Len(rq)
  <2>1. w \in Seq(Segments) /\ DOMAIN w = 1 .. Len(w) /\ Len(w) \in Nat
    BY <1>7 DEF ListOf
  <2>2. DOMAIN w = DOMAIN rq
    BY <1>6 DEF SegmentsOf
  <2>3. w \in [1 .. Len(rq) -> Segments] /\ Len(rq) \in Nat
    <3>1. DOMAIN rq = 1 .. Len(rq) /\ Len(rq) \in Nat
      BY <1>3 DEF Rising
    <3>2. w \in [1 .. Len(w) -> Segments] /\ 1 .. Len(w) = 1 .. Len(rq)
      BY <2>1, <2>2, <3>1, LenProperties
    <3>3. QED
      BY <3>1, <3>2
  <2>4. QED
    BY <2>3, AsSequence
<1>13. q = [p EXCEPT !.unsent = v, !.snd_lbb = c]
  BY <1>2, <1>4, <1>6, <1>11, <1>12 DEF tcp_write, SegmentsOf, StartOf
<1>14. /\ IsPcb(q) /\ q.unsent = v /\ q.snd_lbb = c /\ q.unacked = p.unacked /\ q.lastack = p.lastack
       /\ q.snd_nxt = p.snd_nxt
  BY <1>13 DEF IsPcb
<1>15. TxHas(q, Q \cup W)
  BY <1>9, <1>10, <1>11, <1>14 DEF TxHas
<1>16. QED
  BY <1>11, <1>14, <1>15 DEF TxOk

-----------------------------------------------------------------------------
(* The send queues: the invariant.                                         *)

SynSegment == Segment(0, 0, TRUE, FALSE)

\* A connection that the peer knows of, or one that is gone: the queues matter in
\* the first case only.
TxFine(p) == IsPcb(p) /\ p.state \notin {"CLOSED", "SYN_SENT"} /\ (p.state \in Synchronized => TxOk(p))

TxSyn(p) == IsPcb(p) /\ p.state = "SYN_SENT" /\ TxHas(p, {SynSegment}) /\ p.snd_nxt = 1 /\ p.snd_lbb = 1

TxInv(p) == p = NewPcb \/ TxSyn(p) \/ TxFine(p)

LEMMA TxGone == TxFine(Free) /\ TxFine(Halted)
<1>1. PICK f, h : f = Free /\ h = Halted
  OBVIOUS
<1>2. IsPcb(f) /\ IsPcb(h) /\ f.state = "FREE" /\ h.state = "HALTED"
  BY <1>1, FreeFields
<1>3. QED
  BY <1>1, <1>2 DEF TxFine, Synchronized, Active

LEMMA TxFineSame ==
    ASSUME NEW p, NEW q, TxFine(p), SameTx(p, q), q.state = p.state
    PROVE  TxFine(q)
BY SameTxOk DEF TxFine, SameTx

LEMMA TxFineSent ==
    ASSUME NEW p, TxFine(p)
    PROVE  TxFine(tcp_output(p))
<1>1. PICK q : q = tcp_output(p)
  OBVIOUS
<1>2. IsPcb(p)
  BY DEF TxFine
<1>3. IsPcb(q) /\ q.state = p.state
  BY <1>1, <1>2, tcp_outputRx DEF SameRx
<1>4. p.state \in Synchronized => TxOk(q)
  BY <1>1, <1>2, tcp_outputOk DEF TxFine
<1>5. QED
  BY <1>1, <1>3, <1>4 DEF TxFine

LEMMA TxFineShut ==
    ASSUME NEW p, TxFine(p), NEW mem
    PROVE  TxFine(tcp_close_shutdown_fin(p, mem))
<1>1. PICK q : q = tcp_close_shutdown_fin(p, mem)
  OBVIOUS
<1>2. IsPcb(p)
  BY DEF TxFine
<1>3. CASE q = p
  BY <1>1, <1>3
<1>4. CASE p.state \in {"ESTABLISHED", "CLOSE_WAIT"} /\ q = [p EXCEPT !.closepend = TRUE]
  <2>1. SameTx(p, q) /\ q.state = p.state
    BY <1>2, <1>4 DEF SameTx, IsPcb
  <2>2. QED
    BY <1>1, <2>1, TxFineSame
<1>5. CASE /\ p.state \in {"ESTABLISHED", "CLOSE_WAIT"}
           /\ q = [tcp_send_fin(p) EXCEPT !.state = IF p.state = "ESTABLISHED" THEN "FIN_WAIT_1" ELSE "LAST_ACK"]
  <2>1. PICK w : w = tcp_send_fin(p)
    OBVIOUS
  <2>2. PICK st : st = (IF p.state = "ESTABLISHED" THEN "FIN_WAIT_1" ELSE "LAST_ACK")
    OBVIOUS
  <2>3. p.state \in Synchronized /\ st \notin {"CLOSED", "SYN_SENT"}
    BY <1>5, <2>2 DEF Synchronized, Active
  <2>4. IsPcb(w) /\ TxOk(w)
    BY <1>2, <2>1, <2>3, tcp_send_finTx DEF TxFine
  <2>5. q = [w EXCEPT !.state = st]
    BY <1>5, <2>1, <2>2
  <2>6. SameTx(w, q) /\ q.state = st
    BY <2>4, <2>5 DEF SameTx, IsPcb
  <2>7. TxOk(q) /\ IsPcb(q)
    BY <2>4, <2>6, SameTxOk DEF SameTx
  <2>8. QED
    BY <1>1, <2>3, <2>6, <2>7 DEF TxFine
<1>6. QED
  BY <1>1, <1>3, <1>4, <1>5, Zenon DEF tcp_close_shutdown_fin

LEMMA TxFineClose ==
    ASSUME NEW p, TxFine(p), NEW mem
    PROVE  TxFine(tcp_close(p, mem).p)
<1>1. PICK q : q = [p EXCEPT !.rxclosed = TRUE]
  OBVIOUS
<1>2. IsPcb(p)
  BY DEF TxFine
<1>3. SameTx(p, q) /\ q.state = p.state
  BY <1>1, <1>2 DEF SameTx, IsPcb
<1>4. TxFine(q)
  BY <1>3, TxFineSame
<1>5. TxFine(tcp_close_shutdown_fin(q, mem))
  BY <1>4, TxFineShut
<1>6. \E l : \/ tcp_close(p, mem) = Result(Free, l)
             \/ tcp_close(p, mem) = Result(tcp_close_shutdown_fin(q, mem), l)
  BY <1>1, Zenon DEF tcp_close
<1>7. tcp_close(p, mem).p = Free \/ tcp_close(p, mem).p = tcp_close_shutdown_fin(q, mem)
  BY <1>6, ResultFields
<1>8. QED
  BY <1>5, <1>7, TxGone

LEMMA TxFineEof ==
    ASSUME NEW p, TxFine(p), NEW mem
    PROVE  TxFine(Eof(p, mem).p)
<1>1. PICK q : q = [p EXCEPT !.rcv_wnd = IF @ # TCP_WND THEN @ + 1 ELSE @]
  OBVIOUS
<1>2. IsPcb(p)
  BY DEF TxFine
<1>3. SameTx(p, q) /\ q.state = p.state
  BY <1>1, <1>2 DEF SameTx, IsPcb
<1>4. TxFine(tcp_close(q, mem).p)
  BY <1>3, TxFineSame, TxFineClose
<1>5. \E l : Eof(p, mem) = Result(tcp_close(q, mem).p, l)
  BY <1>1, Zenon DEF Eof
<1>6. Eof(p, mem).p = tcp_close(q, mem).p
  BY <1>5, ResultFields
<1>7. QED
  BY <1>4, <1>6

LEMMA TxFineDeliver ==
    ASSUME NEW r, TxFine(r.p), NEW mem
    PROVE  TxFine(Deliver(r, mem).p)
<1>1. PICK p : p = tcp_recved(r.p, Cardinality(r.data))
  OBVIOUS
<1>2. PICK q : q = r.p
  OBVIOUS
<1>3. IsPcb(q)
  BY <1>2 DEF TxFine
<1>4. SameTx(q, p) /\ p.state = q.state
  BY <1>1, <1>2, <1>3 DEF tcp_recved, SameTx, IsPcb
<1>5. TxFine(p)
  BY <1>2, <1>4, TxFineSame
<1>6. PICK c : c = (IF r.fin THEN Eof(p, mem) ELSE Result(p, << >>))
  OBVIOUS
<1>7. TxFine(c.p)
  <2>1. CASE r.fin
    BY <2>1, <1>5, <1>6, TxFineEof
  <2>2. CASE ~r.fin
    BY <2>2, <1>5, <1>6, ResultFields
  <2>3. QED
    BY <2>1, <2>2
<1>8. TxFine(tcp_output(c.p))
  BY <1>7, TxFineSent
<1>9. PICK x : x = Deliver(r, mem)
  OBVIOUS
<1>10. \/ \E l : x = Result(Halted, l)
       \/ \E l : x = Result(Free, l)
       \/ \E l : x = Result(tcp_output(c.p), l)
  <2>1. CASE ~r.assert
    <3>1. x = Result(Halted, << >>)
      BY <2>1, <1>9 DEF Deliver
    <3>2. QED
      BY <3>1
  <2>2. CASE r.assert /\ p.state = "FREE"
    <3>1. x = Result(Free, IF p.rxclosed THEN << >> ELSE <<Event("err")>>)
      BY <2>2, <1>1, <1>9 DEF Deliver
    <3>2. QED
      BY <3>1
  <2>3. CASE r.assert /\ p.state # "FREE" /\ r.data # {} /\ p.rxclosed
    <3>1. x = tcp_abort(p)
      BY <2>3, <1>1, <1>9 DEF Deliver
    <3>2. QED
      BY <3>1, Zenon DEF tcp_abort, Died
  <2>4. CASE r.assert /\ p.state # "FREE" /\ ~(r.data # {} /\ p.rxclosed)
    <3>1. x = Result(tcp_output(c.p), Received(r.data) \o c.log)
      BY <2>4, <1>1, <1>6, <1>9 DEF Deliver
    <3>2. QED
      BY <3>1
  <2>5. QED
    BY <2>1, <2>2, <2>3, <2>4
<1>11. x.p = Halted \/ x.p = Free \/ x.p = tcp_output(c.p)
  BY <1>10, ResultFields
<1>12. QED
  BY <1>8, <1>9, <1>11, TxGone

\* What tcp_receive returns: the block after the acknowledgement, with data taken
\* or queued.
TxReceived(a, r) ==
    /\ DOMAIN r = {"p", "data", "fin", "assert"} /\ r.fin \in BOOLEAN
    /\ SameTx(a, r.p) /\ r.p.state \in {a.state, "CLOSE_WAIT"}

LEMMA TxNoData ==
    ASSUME NEW a, NEW q, SameTx(a, q), q.state = a.state
    PROVE  TxReceived(a, NoData(q))
BY DEF TxReceived, NoData

LEMMA TxInSequence ==
    ASSUME NEW a, IsPcb(a), NEW t
    PROVE  TxReceived(a, InSequence(a, t))
<1>1. PICK r : r = InSequence(a, t)
  OBVIOUS
<1>2. \E q, d, c, l, f, g : /\ r = [p |-> q, data |-> d, fin |-> FinWithin(c, l), assert |-> f]
                            /\ q = [a EXCEPT !.rcv_nxt = g[1], !.rcv_wnd = g[2], !.ooseq = g[3],
                                             !.state = IF @ = "ESTABLISHED" /\ FinWithin(c, l) THEN "CLOSE_WAIT" ELSE @]
  <2>1. PICK c : c = Chain(a.ooseq, TrimToWindow(a, t))
    OBVIOUS
  <2>2. PICK l : l = LastInSequence(c)
    OBVIOUS
  <2>3. PICK n : n = After(c[l])
    OBVIOUS
  <2>4. PICK w, o, g : w = a.rcv_wnd - (n - a.rcv_nxt) /\ o = SubSeq(c, l + 1, Len(c)) /\ g = <<n, w, o>>
    OBVIOUS
  <2>5. g[1] = n /\ g[2] = w /\ g[3] = o
    BY <2>4
  <2>6. PICK q : q = [a EXCEPT !.rcv_nxt = n, !.rcv_wnd = w, !.ooseq = o,
                               !.state = IF @ = "ESTABLISHED" /\ FinWithin(c, l) THEN "CLOSE_WAIT" ELSE @]
    OBVIOUS
  <2>7. PICK d, f : d = UNION {Data(c[k]) : k \in 1 .. l} /\ f = (n - a.rcv_nxt <= a.rcv_wnd)
    BY Zenon
  <2>8. r = [p |-> q, data |-> d, fin |-> FinWithin(c, l), assert |-> f]
    BY <1>1, <2>1, <2>2, <2>3, <2>4, <2>6, <2>7 DEF InSequence
  <2>9. QED
    BY <2>5, <2>6, <2>8
<1>3. PICK q, d, c, l, f, g : /\ r = [p |-> q, data |-> d, fin |-> FinWithin(c, l), assert |-> f]
                              /\ q = [a EXCEPT !.rcv_nxt = g[1], !.rcv_wnd = g[2], !.ooseq = g[3],
                                               !.state = IF @ = "ESTABLISHED" /\ FinWithin(c, l) THEN "CLOSE_WAIT" ELSE @]
  BY <1>2
<1>4. SameTx(a, q) /\ q.state \in {a.state, "CLOSE_WAIT"}
  BY <1>3 DEF SameTx, IsPcb
<1>5. PICK b \in BOOLEAN : b = FinWithin(c, l)
  BY DEF FinWithin
<1>6. r = [p |-> q, data |-> d, fin |-> b, assert |-> f]
  BY <1>3, <1>5
<1>7. DOMAIN r = {"p", "data", "fin", "assert"} /\ r.fin = b /\ r.p = q
  BY <1>6
<1>8. QED
  BY <1>1, <1>4, <1>5, <1>7 DEF TxReceived

LEMMA tcp_receiveTx ==
    ASSUME NEW p, NEW s, NEW a, a = AckReceived(p, s), IsPcb(a)
    PROVE  TxReceived(a, tcp_receive(p, s))
<1>1. PICK t : t = TrimFront(a, Segment(s.seq, s.len, FALSE, s.fin))
  OBVIOUS
<1>2. PICK w : w = [a EXCEPT !.ooseq = QueueOoseq(a, t)]
  OBVIOUS
<1>3. SameTx(a, w) /\ w.state = a.state /\ SameTx(a, a)
  BY <1>2 DEF SameTx, IsPcb
<1>4. tcp_receive(p, s) \in {InSequence(a, t), NoData(w), NoData(a)}
  BY <1>1, <1>2, Zenon DEF tcp_receive
<1>5. TxReceived(a, NoData(w)) /\ TxReceived(a, NoData(a)) /\ TxReceived(a, InSequence(a, t))
  BY <1>3, TxNoData, TxInSequence
<1>6. QED
  BY <1>4, <1>5

LEMMA StateAfterKnown ==
    ASSUME NEW p, NEW s, NEW st \in Synchronized, NEW fin, p.state \in Synchronized
    PROVE  StateAfter(st, p, s, fin) \in Synchronized \cup {"TIME_WAIT", "FREE"}
<1>1. st \in {"ESTABLISHED", "CLOSE_WAIT", "FIN_WAIT_1", "FIN_WAIT_2", "CLOSING", "LAST_ACK"}
  BY DEF Synchronized, Active
<1>2. {"ESTABLISHED", "CLOSE_WAIT", "FIN_WAIT_1", "FIN_WAIT_2", "CLOSING", "LAST_ACK"} \subseteq Synchronized
  BY DEF Synchronized, Active
<1>3. CASE st \in {"ESTABLISHED", "CLOSE_WAIT"}
  BY <1>2, <1>3 DEF StateAfter
<1>4. CASE st = "FIN_WAIT_1"
  BY <1>2, <1>4 DEF StateAfter
<1>5. CASE st = "FIN_WAIT_2"
  BY <1>2, <1>5 DEF StateAfter
<1>6. CASE st = "CLOSING"
  BY <1>2, <1>6 DEF StateAfter
<1>7. CASE st = "LAST_ACK"
  BY <1>2, <1>7 DEF StateAfter
<1>8. QED
  BY <1>1, <1>3, <1>4, <1>5, <1>6, <1>7

LEMMA TxFineProcess ==
    ASSUME NEW p, TxFine(p), p.state \in Synchronized, NEW s, s.ack \in Nat
    PROVE  TxFine(tcp_process(p, s).p)
<1>1. PICK q : q = Unprobed(p)
  OBVIOUS
<1>2. IsPcb(p) /\ TxOk(p)
  BY DEF TxFine
<1>3. SameTx(p, q) /\ q.state = p.state
  BY <1>1, <1>2 DEF Unprobed, SameTx, IsPcb
<1>4. IsPcb(q) /\ TxOk(q)
  BY <1>2, <1>3, SameTxOk DEF SameTx
<1>5. PICK a : a = AckReceived(q, s)
  OBVIOUS
<1>6. IsPcb(a) /\ TxOk(a)
  BY <1>4, <1>5, AckReceivedTx
<1>7. a.state = p.state
  BY <1>3, <1>4, <1>5, AckReceivedRx DEF SameRx
<1>8. PICK r0 : r0 = tcp_receive(q, s)
  OBVIOUS
<1>9. TxReceived(a, r0)
  BY <1>5, <1>6, <1>8, tcp_receiveTx
<1>10. PICK w : w = r0.p
  OBVIOUS
<1>11. SameTx(a, w) /\ IsPcb(w) /\ w.state \in {p.state, "CLOSE_WAIT"}
  BY <1>7, <1>9, <1>10 DEF TxReceived, SameTx
<1>12. TxOk(w)
  BY <1>6, <1>11, SameTxOk
<1>13. w.state \in Synchronized
  BY <1>11 DEF Synchronized, Active
<1>14. PICK st : st = StateAfter(p.state, w, s, r0.fin)
  OBVIOUS
<1>15. st \in Synchronized \cup {"TIME_WAIT", "FREE"}
  BY <1>13, <1>14, StateAfterKnown
<1>16. PICK x : x = InState(w, st)
  OBVIOUS
<1>17. tcp_process(p, s).p = x
  <2>1. DOMAIN r0 = {"p", "data", "fin", "assert"}
    BY <1>9 DEF TxReceived
  <2>2. tcp_process(p, s).p = InState(r0.p, StateAfter(p.state, r0.p, s, r0.fin))
    BY <2>1, <1>1, <1>8, ProcessForm
  <2>3. QED
    BY <2>2, <1>10, <1>14, <1>16
<1>18. IsPcb(x) /\ x.state = st
  BY <1>11, <1>16, InStateFields
<1>19. st \notin {"CLOSED", "SYN_SENT"}
  BY <1>15 DEF Synchronized, Active
<1>20. ASSUME st \in Synchronized PROVE TxOk(x)
  <2>1. st # "TIME_WAIT"
    BY <1>20 DEF Synchronized, Active
  <2>2. x = [w EXCEPT !.state = st]
    BY <2>1, <1>16 DEF InState
  <2>3. SameTx(w, x)
    BY <2>2, <1>11 DEF SameTx, IsPcb
  <2>4. QED
    BY <2>3, <1>12, SameTxOk
<1>21. TxFine(x)
  BY <1>18, <1>19, <1>20 DEF TxFine
<1>22. QED
  BY <1>17, <1>21

\* The answer to the SYN takes the SYN off the queues.
LEMMA SynTaken ==
    ASSUME NEW p, TxSyn(p), NEW wnd, NEW q, q = Opened(p, wnd)
    PROVE  TxFine(q)
<1>1. PICK u, v : u = p.unacked /\ v = p.unsent
  OBVIOUS
<1>2. IsPcb(p) /\ Holds(u, v, {SynSegment}) /\ p.snd_nxt = 1 /\ p.snd_lbb = 1
  BY <1>1 DEF TxSyn, TxHas
<1>3. PICK S, T : ListOf(u, S) /\ ListOf(v, T) /\ S \cap T = {} /\ {SynSegment} = S \cup T
  BY <1>2 DEF Holds
<1>4. PICK a, b : a = (IF u # << >> THEN Tail(u) ELSE u) /\ b = (IF u # << >> THEN v ELSE Tail(v))
  OBVIOUS
<1>5. q = [p EXCEPT !.state = "ESTABLISHED", !.rcv_nxt = 1, !.lastack = 1, !.snd_wnd = wnd,
                    !.wl1 = -1, !.cwnd = 2 * TCP_MSS, !.probes = 0, !.unacked = a, !.unsent = b, !.rtime = FALSE]
  BY <1>1, <1>4 DEF Opened
<1>6. /\ IsPcb(q) /\ q.state = "ESTABLISHED" /\ q.unacked = a /\ q.unsent = b /\ q.lastack = 1
      /\ q.snd_nxt = p.snd_nxt /\ q.snd_lbb = p.snd_lbb
  BY <1>2, <1>5 DEF IsPcb
<1>7. ListOf(a, {}) /\ ListOf(b, {})
  <2>1. CASE u # << >>
    <3>1. Head(u) \in S /\ ListOf(Tail(u), S \ {Head(u)})
      BY <1>3, <2>1, ListTail
    <3>2. S \ {Head(u)} = {} /\ T = {}
      BY <1>3, <3>1
    <3>3. QED
      BY <1>3, <1>4, <2>1, <3>1, <3>2
  <2>2. CASE u = << >>
    <3>1. S = {}
      BY <1>3, <2>2, ListToSet, ListEmpty
    <3>2. v # << >>
      <4>1. ASSUME v = << >> PROVE FALSE
        BY <1>3, <3>1, <4>1, ListToSet, ListEmpty
      <4>2. QED
        BY <4>1
    <3>3. Head(v) \in T /\ ListOf(Tail(v), T \ {Head(v)})
      BY <1>3, <3>2, ListTail
    <3>4. T \ {Head(v)} = {}
      BY <1>3, <3>3
    <3>5. QED
      BY <1>4, <2>2, <3>3, <3>4, ListEmpty
  <2>3. QED
    BY <2>1, <2>2
<1>8. Holds(a, b, {})
  <2>1. {} \cap {} = {} /\ {} = {} \cup {}
    OBVIOUS
  <2>2. QED
    BY <1>7, <2>1 DEF Holds
<1>9. Numbered({}, 1, 1, 1)
  BY DEF Numbered, Uniq, Placed, Larger
<1>10. TxHas(q, {})
  BY <1>2, <1>6, <1>8, <1>9 DEF TxHas
<1>11. QED
  BY <1>6, <1>10 DEF TxFine, TxOk

LEMMA TxSynAck ==
    ASSUME TalkOk(talk), NEW p, TxSyn(p), NEW wnd, NEW written \in BOOLEAN, NEW mem
    PROVE  TxFine(SynAckArrives(p, wnd, written, mem).p)
<1>1. PICK q : q = Opened(p, wnd)
  OBVIOUS
<1>2. TxFine(q)
  BY <1>1, SynTaken
<1>3. IsPcb(q) /\ q.state = "ESTABLISHED"
  <2>1. IsPcb(p)
    BY DEF TxSyn
  <2>2. QED
    BY <1>1, <2>1 DEF Opened, IsPcb
<1>4. PICK c : c = ollama_connected_cb(q, written, mem)
  OBVIOUS
<1>5. TxFine(c.p)
  <2>1. CASE written
    <3>1. PICK w : w = tcp_write(q)
      OBVIOUS
    <3>2. q.state \in Synchronized
      BY <1>3 DEF Synchronized, Active
    <3>3. IsPcb(w) /\ TxOk(w)
      BY <1>2, <1>3, <3>1, <3>2, tcp_writeTx DEF TxFine
    <3>4. w.state = q.state
      BY <1>3, <3>1, tcp_writeRx DEF SameRx
    <3>5. TxFine(w)
      BY <1>3, <3>3, <3>4 DEF TxFine
    <3>6. c = Result(w, <<Event("connected")>>)
      BY <1>4, <2>1, <3>1 DEF ollama_connected_cb
    <3>7. c.p = w
      BY <3>6, ResultFields
    <3>8. QED
      BY <3>5, <3>7
  <2>2. CASE ~written
    <3>1. \E l : c = Result(tcp_close(q, mem).p, l)
      BY <1>4, <2>2, Zenon DEF ollama_connected_cb
    <3>2. c.p = tcp_close(q, mem).p
      BY <3>1, ResultFields
    <3>3. QED
      BY <1>2, <3>2, TxFineClose
  <2>3. QED
    BY <2>1, <2>2
<1>6. PICK x : x = SynAckArrives(p, wnd, written, mem)
  OBVIOUS
<1>7. x = Result(tcp_output(c.p), c.log)
  BY <1>1, <1>4, <1>6, Zenon DEF SynAckArrives, Opened
<1>8. x.p = tcp_output(c.p)
  BY <1>7, ResultFields
<1>9. QED
  BY <1>5, <1>6, <1>8, TxFineSent

\* The SYN is sent, or sent again.
LEMMA SynSent ==
    ASSUME NEW p, TxSyn(p)
    PROVE  TxSyn(tcp_output(p))
<1>1. PICK q : q = tcp_output(p)
  OBVIOUS
<1>2. IsPcb(p) /\ p.state = "SYN_SENT" /\ TxHas(p, {SynSegment}) /\ p.snd_nxt = 1 /\ p.snd_lbb = 1
  BY DEF TxSyn
<1>3. SentOn(p, q, {SynSegment})
  BY <1>1, <1>2, tcp_outputTx
<1>4. q.state = "SYN_SENT"
  BY <1>1, <1>2, tcp_outputRx DEF SameRx
<1>5. After(SynSegment) = 1
  BY DEF SynSegment, Segment, After, TCP_TCPLEN
<1>6. Larger(1, 1) = 1
  BY DEF Larger
<1>7. q.snd_nxt = 1
  BY <1>2, <1>3, <1>5, <1>6 DEF SentOn
<1>8. QED
  BY <1>1, <1>2, <1>3, <1>4, <1>7 DEF SentOn, TxSyn

LEMMA SynAgain ==
    ASSUME NEW p, TxSyn(p), NEW q, SameTx(p, q), q.state = p.state
    PROVE  TxSyn(q)
BY SameTxHas DEF TxSyn, SameTx

LEMMA SynPrepared ==
    ASSUME NEW p, TxSyn(p)
    PROVE  TxSyn(tcp_rexmit_rto_prepare(p))
<1>1. PICK q : q = tcp_rexmit_rto_prepare(p)
  OBVIOUS
<1>2. IsPcb(p) /\ p.state = "SYN_SENT" /\ TxHas(p, {SynSegment}) /\ p.snd_nxt = 1 /\ p.snd_lbb = 1
  BY DEF TxSyn
<1>3. AgainOn(p, q, {SynSegment})
  BY <1>1, <1>2, tcp_rexmit_rto_prepareTx
<1>4. q.state = "SYN_SENT"
  BY <1>1, <1>2, tcp_rexmit_rto_prepareRx DEF SameRx
<1>5. QED
  BY <1>1, <1>2, <1>3, <1>4 DEF AgainOn, TxSyn

LEMMA TxPrepared ==
    ASSUME NEW p, TxFine(p)
    PROVE  TxFine(tcp_rexmit_rto_prepare(p))
<1>1. PICK q : q = tcp_rexmit_rto_prepare(p)
  OBVIOUS
<1>2. IsPcb(p)
  BY DEF TxFine
<1>3. IsPcb(q) /\ q.state = p.state
  BY <1>1, <1>2, tcp_rexmit_rto_prepareRx DEF SameRx
<1>4. ASSUME p.state \in Synchronized PROVE TxOk(q)
  <2>1. PICK Q : TxHas(p, Q)
    BY <1>4 DEF TxFine, TxOk
  <2>2. AgainOn(p, q, Q)
    BY <1>1, <1>2, <2>1, tcp_rexmit_rto_prepareTx
  <2>3. QED
    BY <2>2 DEF AgainOn, TxOk
<1>5. QED
  BY <1>1, <1>3, <1>4 DEF TxFine

LEMMA TxStaleAck ==
    ASSUME NEW p, TxSyn(p)
    PROVE  TxSyn(StaleAckArrives(p))
<1>1. PICK q : q = [p EXCEPT !.probes = 0]
  OBVIOUS
<1>2. IsPcb(p)
  BY DEF TxSyn
<1>3. SameTx(p, q) /\ q.state = p.state
  BY <1>1, <1>2 DEF SameTx, IsPcb
<1>4. TxSyn(q)
  BY <1>3, SynAgain
<1>5. PICK r : r = tcp_rexmit_rto_prepare(q)
  OBVIOUS
<1>6. TxSyn(r) /\ IsPcb(r)
  BY <1>4, <1>5, SynPrepared DEF TxSyn
<1>7. PICK n : n = [r EXCEPT !.nrtx = @ + 1]
  OBVIOUS
<1>8. SameTx(r, n) /\ n.state = r.state
  BY <1>6, <1>7 DEF SameTx, IsPcb
<1>9. TxSyn(n)
  BY <1>6, <1>8, SynAgain
<1>10. StaleAckArrives(p) = tcp_output(q) \/ StaleAckArrives(p) = tcp_output(n)
  BY <1>1, <1>5, <1>7, Zenon DEF StaleAckArrives
<1>11. QED
  BY <1>4, <1>9, <1>10, SynSent

\* A block in use: what the timers do to it.
TxLive(p) == TxSyn(p) \/ TxFine(p)

LEMMA TxLiveKept ==
    ASSUME NEW p, TxLive(p)
    PROVE  /\ IsPcb(p) /\ TxLive(tcp_output(p)) /\ TxLive(tcp_rexmit_rto_prepare(p))
           /\ \A q : SameTx(p, q) /\ q.state = p.state => TxLive(q)
<1>1. IsPcb(p)
  BY DEF TxLive, TxSyn, TxFine
<1>2. TxLive(tcp_output(p)) /\ TxLive(tcp_rexmit_rto_prepare(p))
  BY SynSent, TxFineSent, SynPrepared, TxPrepared DEF TxLive
<1>3. ASSUME NEW q, SameTx(p, q), q.state = p.state PROVE TxLive(q)
  BY <1>3, SynAgain, TxFineSame DEF TxLive
<1>4. QED
  BY <1>1, <1>2, <1>3

\* A probe sends a number that was given out already.
LEMMA TxProbe ==
    ASSUME NEW p, TxLive(p), p.unsent # << >>
    PROVE  TxLive(tcp_zero_window_probe(p))
<1>1. PICK q, h, x, y : q = tcp_zero_window_probe(p) /\ h = Head(p.unsent) /\ x = Larger(p.snd_nxt, h.seq + 1) /\ y = p.probes + 1
  OBVIOUS
<1>2. q = [p EXCEPT !.probes = y, !.snd_nxt = x]
  BY <1>1 DEF tcp_zero_window_probe
<1>3. IsPcb(p)
  BY TxLiveKept
<1>4. /\ IsPcb(q) /\ q.state = p.state /\ q.unacked = p.unacked /\ q.unsent = p.unsent /\ q.lastack = p.lastack
      /\ q.snd_lbb = p.snd_lbb /\ q.snd_nxt = x
  BY <1>2, <1>3 DEF IsPcb
<1>5. ASSUME NEW Q, TxHas(p, Q) PROVE h \in Q /\ TxHas(q, Q)
  <2>1. Holds(p.unacked, p.unsent, Q) /\ Numbered(Q, p.lastack, p.snd_nxt, p.snd_lbb)
    BY <1>5 DEF TxHas
  <2>2. h \in Q
    BY <1>1, <2>1, HoldsUnsent
  <2>3. Numbered(Q, p.lastack, x, p.snd_lbb)
    BY <1>1, <2>1, <2>2, NumberedSent
  <2>4. QED
    BY <1>4, <2>1, <2>2, <2>3 DEF TxHas
<1>6. CASE TxSyn(p)
  <2>1. p.state = "SYN_SENT" /\ TxHas(p, {SynSegment}) /\ p.snd_nxt = 1 /\ p.snd_lbb = 1
    BY <1>6 DEF TxSyn
  <2>2. h = SynSegment /\ TxHas(q, {SynSegment})
    BY <1>5, <2>1
  <2>3. h.seq + 1 = 1
    BY <2>2 DEF SynSegment, Segment
  <2>4. x = 1
    BY <1>1, <2>1, <2>3 DEF Larger
  <2>5. TxSyn(q)
    BY <1>4, <2>1, <2>2, <2>4 DEF TxSyn
  <2>6. QED
    BY <1>1, <2>5 DEF TxLive
<1>7. CASE TxFine(p)
  <2>1. p.state \in Synchronized => TxOk(q)
    BY <1>5, <1>7 DEF TxFine, TxOk
  <2>2. TxFine(q)
    BY <1>4, <1>7, <2>1 DEF TxFine
  <2>3. QED
    BY <1>1, <2>2 DEF TxLive
<1>8. QED
  BY <1>6, <1>7 DEF TxLive

\* A segment cut in two, as it is held and numbered.
Cuts(h, s, t) ==
    /\ {h, s, t} \subseteq Segments /\ ~t.syn /\ h.len > 0 /\ s.syn = h.syn /\ s.fin = h.fin /\ t.fin = h.fin
    /\ s.seq = h.seq /\ s.len \in 1 .. h.len - 1 /\ t.seq = h.seq + s.len /\ t.len = h.len - s.len

LEMMA CutNumbered ==
    ASSUME NEW Q, NEW a, NEW x, NEW b, Numbered(Q, a, x, b), NEW h \in Q, NEW s, NEW t, Cuts(h, s, t)
    PROVE  /\ \A o \in Q \ {h} : o # s /\ o # t
           /\ Numbered((Q \ {h}) \cup {s, t}, a, x, b)
<1>1. /\ a \in Nat /\ x \in Nat /\ b \in Nat /\ Uniq(Q) /\ Placed(Q, b) /\ \A o \in Q : o.seq < b
      /\ \A n \in Nat : a <= n /\ (n < x \/ n < b) => Held(Q, n)
  BY NumberedHeld
<1>2. \A o \in Q \cup {s, t} : o \in Segments /\ o.seq \in Nat /\ o.len \in Nat /\ EndOf(o) = o.seq + o.len
  BY <1>1 DEF Cuts, Uniq, Segments, EndOf
<1>3. /\ s.seq = h.seq /\ t.seq = h.seq + s.len /\ EndOf(s) = t.seq /\ EndOf(t) = EndOf(h)
      /\ h.seq < t.seq /\ t.seq < EndOf(h) /\ EndOf(h) <= b
  BY <1>1, <1>2 DEF Cuts, Placed
<1>4. ~h.syn /\ ~s.syn /\ ~t.syn
  BY <1>1 DEF Cuts, Placed
<1>5. ASSUME NEW o \in Q, o # h
      PROVE  /\ o.seq # s.seq /\ o.seq # t.seq
             /\ o.seq < h.seq => EndOf(o) <= h.seq
             /\ h.seq < o.seq => EndOf(h) <= o.seq
  <2>1. o.seq # h.seq
    BY <1>1, <1>5 DEF Uniq
  <2>2. o.seq < h.seq => EndOf(o) <= h.seq
    BY <1>1, <1>5 DEF Placed
  <2>3. h.seq < o.seq => EndOf(h) <= o.seq
    BY <1>1, <1>5 DEF Placed
  <2>4. o.seq # t.seq
    BY <1>2, <1>3, <1>5, <2>3
  <2>5. QED
    BY <1>3, <2>1, <2>2, <2>3, <2>4
<1>6. PICK R : R = (Q \ {h}) \cup {s, t}
  OBVIOUS
<1>7. Uniq(R)
  <2>1. R \subseteq Segments
    BY <1>2, <1>6
  <2>2. s.seq # t.seq
    BY <1>2, <1>3
  <2>3. ASSUME NEW o \in R, NEW r \in R, o.seq = r.seq PROVE o = r
    <3>1. CASE o \in Q \ {h} /\ r \in Q \ {h}
      BY <3>1, <2>3, <1>1 DEF Uniq
    <3>2. CASE o \in Q \ {h} /\ r \in {s, t}
      BY <3>2, <2>3, <1>5
    <3>3. CASE o \in {s, t} /\ r \in Q \ {h}
      BY <3>3, <2>3, <1>5
    <3>4. CASE o \in {s, t} /\ r \in {s, t}
      BY <3>4, <2>2, <2>3
    <3>5. QED
      BY <1>6, <3>1, <3>2, <3>3, <3>4
  <2>4. QED
    BY <2>1, <2>3 DEF Uniq
<1>8. Placed(R, b) /\ \A o \in R : o.seq < b
  <2>1. \A o \in Q \ {h} : EndOf(o) <= b /\ (o.syn => o.len = 0) /\ o.seq < b
    BY <1>1 DEF Placed
  <2>2. EndOf(s) <= b /\ EndOf(t) <= b /\ s.seq < b /\ t.seq < b
    BY <1>1, <1>2, <1>3
  <2>3. \A o \in R : EndOf(o) <= b /\ (o.syn => o.len = 0) /\ o.seq < b
    BY <1>4, <1>6, <2>1, <2>2
  <2>4. ASSUME NEW o \in R, NEW r \in R, o.seq < r.seq PROVE EndOf(o) <= r.seq
    <3>1. CASE o \in Q \ {h} /\ r \in Q \ {h}
      BY <3>1, <2>4, <1>1 DEF Placed
    <3>2. CASE o \in Q \ {h} /\ r \in {s, t}
      <4>1. o.seq < h.seq \/ h.seq < o.seq
        BY <3>2, <1>2, <1>3, <1>5
      <4>2. CASE o.seq < h.seq
        BY <3>2, <4>2, <1>2, <1>3, <1>5
      <4>3. CASE h.seq < o.seq
        BY <3>2, <4>3, <2>4, <1>2, <1>3, <1>5
      <4>4. QED
        BY <4>1, <4>2, <4>3
    <3>3. CASE o \in {s, t} /\ r \in Q \ {h}
      <4>1. h.seq < r.seq
        BY <3>3, <2>4, <1>2, <1>3
      <4>2. EndOf(h) <= r.seq
        BY <3>3, <4>1, <1>5
      <4>3. QED
        BY <3>3, <4>2, <1>2, <1>3
    <3>4. CASE o \in {s, t} /\ r \in {s, t}
      BY <3>4, <2>4, <1>2, <1>3
    <3>5. QED
      BY <1>6, <3>1, <3>2, <3>3, <3>4
  <2>5. QED
    BY <2>3, <2>4 DEF Placed
<1>9. ASSUME NEW n \in Nat, a <= n, n < x \/ n < b PROVE Held(R, n)
  <2>1. PICK o \in Q : o.seq <= n /\ n < After(o)
    BY <1>1, <1>9 DEF Held
  <2>2. CASE o # h
    BY <2>1, <2>2, <1>6 DEF Held
  <2>3. CASE o = h
    <3>1. After(t) = After(h) /\ t.seq <= After(s) /\ After(s) \in Nat /\ After(t) \in Nat
      <4>1. After(t) \in Nat /\ After(s) \in Nat
        BY <1>2, NumbersOf
      <4>2. PICK f \in Nat : f = IF h.fin THEN 1 ELSE 0
        OBVIOUS
      <4>3. s.fin = h.fin /\ t.fin = h.fin
        BY DEF Cuts
      <4>4. After(h) = EndOf(h) + f /\ After(s) = EndOf(s) + f /\ After(t) = EndOf(t) + f
        BY <1>2, <1>4, <4>2, <4>3 DEF After, TCP_TCPLEN
      <4>5. QED
        BY <1>2, <1>3, <4>1, <4>4
    <3>2. (s.seq <= n /\ n < After(s)) \/ (t.seq <= n /\ n < After(t))
      BY <2>1, <2>3, <3>1, <1>2, <1>3
    <3>3. QED
      BY <3>2, <1>6 DEF Held
  <2>4. QED
    BY <2>2, <2>3
<1>10. Numbered(R, a, x, b)
  BY <1>1, <1>7, <1>8, <1>9, NumberedHeld
<1>11. QED
  BY <1>5, <1>6, <1>10

LEMMA CutHeld ==
    ASSUME NEW u, NEW v, NEW Q, Holds(u, v, Q), v # << >>, NEW s, NEW t, Cuts(Head(v), s, t),
           \A o \in Q \ {Head(v)} : o # s /\ o # t
    PROVE  Head(v) \in Q /\ Holds(u, <<s, t>> \o Tail(v), (Q \ {Head(v)}) \cup {s, t})
<1>1. PICK S, T : ListOf(u, S) /\ ListOf(v, T) /\ S \cap T = {} /\ Q = S \cup T
  BY DEF Holds
<1>2. PICK h : h = Head(v)
  OBVIOUS
<1>3. h \in T /\ ListOf(Tail(v), T \ {h})
  BY <1>1, <1>2, ListTail
<1>4. s \in Segments /\ t \in Segments /\ s # t
  <2>1. s \in Segments /\ t \in Segments /\ h \in Segments /\ s.seq = h.seq /\ t.seq = h.seq + s.len /\ s.len \in 1 .. h.len - 1
    BY <1>2 DEF Cuts
  <2>2. s.seq # t.seq
    BY <2>1 DEF Segments
  <2>3. QED
    BY <2>1, <2>2
<1>5. ListOf(<<s, t>>, {s, t})
  <2>1. <<s, t>> \in Seq(Segments) /\ Len(<<s, t>>) = 2 /\ <<s, t>>[1] = s /\ <<s, t>>[2] = t
    BY <1>4
  <2>2. 1 .. Len(<<s, t>>) = {1, 2}
    BY <2>1
  <2>3. QED
    BY <1>4, <2>1, <2>2 DEF ListOf
<1>6. {s, t} \cap (T \ {h}) = {}
  BY <1>1, <1>2
<1>7. ListOf(<<s, t>> \o Tail(v), {s, t} \cup (T \ {h}))
  BY <1>3, <1>5, <1>6, ListConcat
<1>8. S \cap ({s, t} \cup (T \ {h})) = {} /\ (Q \ {h}) \cup {s, t} = S \cup ({s, t} \cup (T \ {h}))
  BY <1>1, <1>2, <1>3
<1>9. QED
  BY <1>1, <1>2, <1>3, <1>7, <1>8 DEF Holds

\* The first unsent segment is split for a window that is too small for it.
LEMMA TxSplit ==
    ASSUME NEW p, TxLive(p), p.unsent # << >>
    PROVE  TxLive(tcp_split_unsent_seg(p))
<1>1. PICK q, h, w, v : q = tcp_split_unsent_seg(p) /\ h = Head(p.unsent) /\ w = p.snd_wnd /\ v = p.unsent
  OBVIOUS
<1>2. CASE w \notin 1 .. h.len - 1
  BY <1>1, <1>2 DEF tcp_split_unsent_seg
<1>3. CASE w \in 1 .. h.len - 1
  <2>1. PICK s, t, z : /\ s = Segment(h.seq, w, h.syn, h.fin) /\ t = Segment(h.seq + w, h.len - w, FALSE, h.fin)
                       /\ z = <<s, t>> \o Tail(v)
    OBVIOUS
  <2>2. q = [p EXCEPT !.unsent = z]
    BY <1>1, <1>3, <2>1 DEF tcp_split_unsent_seg
  <2>3. IsPcb(p)
    BY TxLiveKept
  <2>4. /\ IsPcb(q) /\ q.state = p.state /\ q.unacked = p.unacked /\ q.unsent = z /\ q.lastack = p.lastack
        /\ q.snd_lbb = p.snd_lbb /\ q.snd_nxt = p.snd_nxt
    BY <2>2, <2>3 DEF IsPcb
  <2>5. ASSUME NEW Q, TxHas(p, Q) PROVE h \in Q /\ TxOk(q)
    <3>1. Holds(p.unacked, v, Q) /\ Numbered(Q, p.lastack, p.snd_nxt, p.snd_lbb) /\ Uniq(Q)
      BY <1>1, <2>5 DEF TxHas, Numbered
    <3>2. h \in Q /\ h \in Segments
      BY <1>1, <3>1, HoldsUnsent DEF Uniq
    <3>3. Cuts(h, s, t)
      <4>1. h.seq \in Nat /\ h.len \in Nat /\ h.syn \in BOOLEAN /\ h.fin \in BOOLEAN
        BY <3>2 DEF Segments
      <4>2. w \in Nat /\ h.seq + w \in Nat /\ h.len - w \in Nat /\ h.len > 0
        BY <1>3, <4>1
      <4>3. /\ s.seq = h.seq /\ s.len = w /\ s.syn = h.syn /\ s.fin = h.fin /\ s \in Segments
            /\ t.seq = h.seq + w /\ t.len = h.len - w /\ t.syn = FALSE /\ t.fin = h.fin /\ t \in Segments
        BY <2>1, <4>1, <4>2 DEF Segment, Segments
      <4>4. QED
        BY <1>3, <3>2, <4>2, <4>3 DEF Cuts
    <3>4. PICK R : R = (Q \ {h}) \cup {s, t}
      OBVIOUS
    <3>5. (\A o \in Q \ {h} : o # s /\ o # t) /\ Numbered(R, p.lastack, p.snd_nxt, p.snd_lbb)
      BY <3>1, <3>2, <3>3, <3>4, CutNumbered
    <3>6. Holds(p.unacked, z, R)
      <4>1. v # << >> /\ h = Head(v)
        BY <1>1
      <4>2. PICK c : c = <<s, t>> \o Tail(v)
        OBVIOUS
      <4>3. Holds(p.unacked, c, R)
        BY <3>1, <3>3, <3>4, <3>5, <4>1, <4>2, CutHeld
      <4>4. QED
        BY <2>1, <4>2, <4>3
    <3>7. TxHas(q, R)
      BY <2>4, <3>5, <3>6 DEF TxHas
    <3>8. QED
      BY <3>2, <3>7 DEF TxOk
  <2>6. ~TxSyn(p)
    <3>1. SUFFICES ASSUME TxSyn(p) PROVE FALSE
      OBVIOUS
    <3>2. h = SynSegment
      BY <2>5, <3>1 DEF TxSyn
    <3>3. h.len = 0
      BY <3>2 DEF SynSegment, Segment
    <3>4. QED
      BY <1>3, <3>3
  <2>7. TxFine(p)
    BY <2>6 DEF TxLive
  <2>8. TxFine(q)
    BY <2>4, <2>5, <2>7 DEF TxFine, TxOk
  <2>9. QED
    BY <1>1, <2>8 DEF TxLive
<1>4. QED
  BY <1>2, <1>3

LEMMA TxRetransmit ==
    ASSUME NEW p, TxLive(p)
    PROVE  TxLive(Retransmit(p))
<1>1. PICK r : r = tcp_rexmit_rto_prepare(p)
  OBVIOUS
<1>2. TxLive(r) /\ IsPcb(r)
  BY <1>1, TxLiveKept
<1>3. PICK n : n = [r EXCEPT !.cwnd = TCP_MSS, !.nrtx = @ + 1]
  OBVIOUS
<1>4. SameTx(r, n) /\ n.state = r.state
  BY <1>2, <1>3 DEF SameTx, IsPcb
<1>5. TxLive(n)
  BY <1>2, <1>4, TxLiveKept
<1>6. Retransmit(p) = p \/ Retransmit(p) = tcp_output(n)
  BY <1>1, <1>3, Zenon DEF Retransmit
<1>7. QED
  BY <1>5, <1>6, TxLiveKept

LEMMA TxSlowTick ==
    ASSUME NEW p, TxLive(p), NEW due \in BOOLEAN, NEW aged \in BOOLEAN
    PROVE  TxLive(SlowTick(p, due, aged).p)
<1>1. PICK x : x = SlowTick(p, due, aged)
  OBVIOUS
<1>2. PICK q : q = TickSends(p, due)
  OBVIOUS
<1>3. TxLive(Halted) /\ TxLive(Free)
  BY TxGone DEF TxLive
<1>4. CASE ~TooManyTries(p) /\ p.persist /\ (p.unacked # << >> \/ p.unsent = << >>)
  <2>1. x = Result(Halted, << >>)
    BY <1>1, <1>4 DEF SlowTick
  <2>2. x.p = Halted
    BY <2>1, ResultFields
  <2>3. QED
    BY <1>1, <1>3, <2>2
<1>5. CASE ~(~TooManyTries(p) /\ p.persist /\ (p.unacked # << >> \/ p.unsent = << >>))
  <2>1. TxLive(q)
    <3>1. CASE TooManyTries(p) \/ ~due
      BY <1>2, <3>1 DEF TickSends
    <3>2. CASE ~TooManyTries(p) /\ due /\ p.persist
      <4>1. p.unsent # << >>
        BY <1>5, <3>2
      <4>2. q = Persist(p)
        BY <1>2, <3>2 DEF TickSends
      <4>3. q \in {p, tcp_zero_window_probe(p), tcp_output(tcp_split_unsent_seg(p))}
        BY <4>2 DEF Persist
      <4>4. TxLive(tcp_output(tcp_split_unsent_seg(p)))
        BY <4>1, TxSplit, TxLiveKept
      <4>5. QED
        BY <4>1, <4>3, <4>4, TxProbe
    <3>3. CASE ~(TooManyTries(p) \/ ~due) /\ ~(~TooManyTries(p) /\ due /\ p.persist)
      <4>1. q = IF p.rtime THEN Retransmit(p) ELSE p
        BY <1>2, <3>3 DEF TickSends
      <4>2. QED
        BY <4>1, TxRetransmit
    <3>4. QED
      BY <3>1, <3>2, <3>3
  <2>2. PICK w : w = [q EXCEPT !.ooseq = << >>]
    OBVIOUS
  <2>3. IsPcb(q)
    BY <2>1, TxLiveKept
  <2>4. SameTx(q, w) /\ w.state = q.state
    BY <2>2, <2>3 DEF SameTx, IsPcb
  <2>5. TxLive(w)
    BY <2>1, <2>4, TxLiveKept
  <2>6. TxLive(tcp_output(q)) /\ TxLive(tcp_output(w))
    BY <2>1, <2>5, TxLiveKept
  <2>7. \/ x = Result(Halted, << >>) \/ x = Died
        \/ x = Result(tcp_output(w), << >>) \/ x = Result(tcp_output(q), << >>)
    BY <1>1, <1>2, <2>2, SlowTickCases
  <2>8. x.p = Halted \/ x.p = Free \/ x.p = tcp_output(w) \/ x.p = tcp_output(q)
    BY <2>7, ResultFields DEF Died
  <2>9. QED
    BY <1>1, <1>3, <2>6, <2>8
<1>6. QED
  BY <1>4, <1>5

\* The SYN is queued.
LEMMA TxConnect ==
    ASSUME NEW w, w = [NewPcb EXCEPT !.state = "SYN_SENT", !.snd_nxt = 1, !.snd_wnd = TCP_WND]
    PROVE  TxSyn(tcp_output(tcp_enqueue_flags(w, TRUE, FALSE)))
<1>1. PICK n : n = NewPcb
  OBVIOUS
<1>2. IsPcb(n) /\ n.unsent = << >> /\ n.unacked = << >> /\ n.lastack = 0 /\ n.snd_lbb = 0
  BY <1>1, NewPcbFields
<1>3. /\ IsPcb(w) /\ w.state = "SYN_SENT" /\ w.snd_nxt = 1 /\ w.unsent = << >> /\ w.unacked = << >>
      /\ w.lastack = 0 /\ w.snd_lbb = 0
  BY <1>1, <1>2 DEF IsPcb
<1>4. PICK q, s : q = tcp_enqueue_flags(w, TRUE, FALSE) /\ s = SynSegment
  OBVIOUS
<1>5. PICK a, b, c : a = Append(w.unsent, Segment(w.snd_lbb, 0, TRUE, FALSE)) /\ b = w.snd_lbb + 1 /\ c = (w.finq \/ FALSE)
  BY Zenon
<1>6. q = [w EXCEPT !.unsent = a, !.snd_lbb = b, !.finq = c]
  BY <1>4, <1>5 DEF tcp_enqueue_flags
<1>7. /\ IsPcb(q) /\ q.state = "SYN_SENT" /\ q.unsent = a /\ q.snd_lbb = b /\ q.unacked = << >>
      /\ q.lastack = 0 /\ q.snd_nxt = 1
  BY <1>3, <1>6 DEF IsPcb
<1>8. Segment(w.snd_lbb, 0, TRUE, FALSE) = s
  BY <1>3, <1>4 DEF SynSegment
<1>9. s \in Segments /\ s.seq = 0 /\ After(s) = 1 /\ s.len = 0 /\ EndOf(s) = 0
  BY <1>4 DEF SynSegment, Segment, Segments, After, TCP_TCPLEN, EndOf
<1>10. a = <<s>> /\ b = 1
  <2>1. a = Append(<< >>, s) /\ b = 1
    <3>1. a = Append(<< >>, s)
      BY <1>3, <1>5, <1>8, Zenon
    <3>2. b = 1
      BY <1>3, <1>5
    <3>3. QED
      BY <3>1, <3>2
  <2>2. << >> \in Seq(Segments) /\ <<s>> \in Seq(Segments)
    BY <1>9, EmptySeq
  <2>3. Append(<< >>, s) = << >> \o <<s>>
    BY <2>2, <1>9, AppendIsConcat
  <2>4. << >> \o <<s>> = <<s>>
    BY <2>2, ConcatEmptySeq
  <2>5. QED
    BY <2>1, <2>3, <2>4
<1>11. ListOf(a, {s})
  BY <1>9, <1>10, ListSingle
<1>12. Holds(<< >>, a, {s})
  <2>1. {} \cap {s} = {} /\ {s} = {} \cup {s}
    OBVIOUS
  <2>2. QED
    BY <1>11, <2>1, ListEmpty DEF Holds
<1>13. Numbered({s}, 0, 1, 1)
  <2>1. Uniq({s}) /\ Placed({s}, 1) /\ \A t \in {s} : t.seq < 1
    BY <1>9 DEF Uniq, Placed
  <2>2. ASSUME NEW n2 \in Nat, 0 <= n2, n2 < 1 \/ n2 < 1 PROVE Held({s}, n2)
    BY <2>2, <1>9 DEF Held
  <2>3. 0 \in Nat /\ 1 \in Nat
    OBVIOUS
  <2>4. QED
    BY <2>1, <2>2, <2>3, NumberedHeld
<1>14. TxSyn(q)
  BY <1>4, <1>7, <1>10, <1>12, <1>13 DEF TxSyn, TxHas
<1>15. QED
  BY <1>4, <1>14, SynSent

-----------------------------------------------------------------------------
(* The send queues: the theorem.                                           *)

TxIInv == TalkOk(talk) /\ TxInv(pcb)

LEMMA TxInit == Init => TxIInv
BY RxInit DEF Init, TxIInv, TxInv, RxIInv

\* What a step makes of the block.
LEMMA TxBecomes ==
    ASSUME NEW x, Becomes({x}), UNCHANGED talk, TalkOk(talk), TxLive(x.p)
    PROVE  TxIInv'
<1>1. pcb' = x.p
  BY DEF Becomes
<1>2. TxInv(pcb')
  BY <1>1 DEF TxInv, TxLive
<1>3. QED
  BY <1>2 DEF TxIInv, TxInv, TxSyn, TxFine, TxHas, TxOk, TalkOk

\* Which part of the invariant holds in which state.
LEMMA TxInvIn ==
    ASSUME NEW p, TxInv(p)
    PROVE  /\ p.state = "CLOSED" => p = NewPcb
           /\ p.state # "CLOSED" => TxLive(p)
           /\ p.state = "SYN_SENT" => TxSyn(p)
           /\ p.state \in Synchronized => TxFine(p)
<1>1. CASE p = NewPcb
  <2>1. p.state = "CLOSED"
    BY <1>1, NewPcbFields
  <2>2. QED
    BY <1>1, <2>1 DEF Synchronized, Active
<1>2. CASE TxSyn(p)
  BY <1>2 DEF TxSyn, TxLive, Synchronized, Active
<1>3. CASE TxFine(p)
  BY <1>3 DEF TxFine, TxLive
<1>4. QED
  BY <1>1, <1>2, <1>3 DEF TxInv

LEMMA TxNext == TxIInv /\ [Next]_vars => TxIInv'
<1>1. SUFFICES ASSUME TxIInv, [Next]_vars PROVE TxIInv'
  OBVIOUS
<1>2. TalkOk(talk) /\ TxInv(pcb)
  BY <1>1 DEF TxIInv
<1>3. TxLive(Free) /\ TxLive(Halted)
  BY TxGone DEF TxLive
<1>4. ASSUME NEW mem \in BOOLEAN, tcp_connect(mem) PROVE TxIInv'
  <2>1. pcb.state = "CLOSED" /\ UNCHANGED talk
    BY <1>4 DEF tcp_connect
  <2>2. pcb = NewPcb
    BY <1>2, <2>1, TxInvIn
  <2>3. CASE mem
    <3>1. PICK w : w = [pcb EXCEPT !.state = "SYN_SENT", !.snd_nxt = 1, !.snd_wnd = TCP_WND]
      OBVIOUS
    <3>2. PICK x : x = Result(tcp_output(tcp_enqueue_flags(w, TRUE, FALSE)), << >>)
      OBVIOUS
    <3>3. Becomes({x})
      BY <1>4, <2>3, <3>1, <3>2 DEF tcp_connect
    <3>4. x.p = tcp_output(tcp_enqueue_flags(w, TRUE, FALSE))
      BY <3>2, ResultFields
    <3>5. TxLive(x.p)
      BY <2>2, <3>1, <3>4, TxConnect DEF TxLive
    <3>6. QED
      BY <1>2, <2>1, <3>3, <3>5, TxBecomes
  <2>4. CASE ~mem
    <3>1. Becomes({tcp_close(pcb, FALSE)})
      BY <1>4, <2>4 DEF tcp_connect
    <3>2. tcp_close(pcb, FALSE) = Result(Free, <<Event("close")>>)
      BY <2>1 DEF tcp_close
    <3>3. tcp_close(pcb, FALSE).p = Free
      BY <3>2, ResultFields
    <3>4. QED
      BY <1>2, <1>3, <2>1, <3>1, <3>3, TxBecomes
  <2>5. QED
    BY <2>3, <2>4
<1>5. CASE tcp_input
  <2>1. UNCHANGED talk
    BY <1>5 DEF tcp_input
  <2>2. CASE pcb.state = "SYN_SENT" /\ Becomes({Result(StaleAckArrives(pcb), << >>)})
    <3>1. PICK x : x = Result(StaleAckArrives(pcb), << >>)
      OBVIOUS
    <3>2. x.p = StaleAckArrives(pcb)
      BY <3>1, ResultFields
    <3>3. TxLive(x.p)
      BY <1>2, <2>2, <3>2, TxInvIn, TxStaleAck DEF TxLive
    <3>4. QED
      BY <1>2, <2>1, <2>2, <3>1, <3>3, TxBecomes
  <2>3. ASSUME pcb.state = "SYN_SENT",
               Becomes({SynAckArrives(pcb, wnd, written, mem) :
                          wnd \in 0 .. PeerWnd, written \in BOOLEAN, mem \in BOOLEAN})
        PROVE  TxIInv'
    <3> DEFINE R == {SynAckArrives(pcb, wnd, written, mem) :
                       wnd \in 0 .. PeerWnd, written \in BOOLEAN, mem \in BOOLEAN}
    <3>0. Becomes(R)
      BY <2>3
    <3> HIDE DEF R
    <3>1. PICK x \in R : Becomes({x})
      BY <3>0, BecomesSome
    <3>2. PICK wnd \in 0 .. PeerWnd, written \in BOOLEAN, mem \in BOOLEAN :
             x = SynAckArrives(pcb, wnd, written, mem)
      BY <3>1 DEF R
    <3>3. TxSyn(pcb)
      BY <1>2, <2>3, TxInvIn
    <3>4. TxLive(x.p)
      BY <1>2, <3>2, <3>3, TxSynAck DEF TxLive
    <3>5. QED
      BY <1>2, <2>1, <3>1, <3>4, TxBecomes
  <2>4. ASSUME pcb.state \in Synchronized,
               Becomes({Deliver(r, mem) : r \in {tcp_process(pcb, s) : s \in Sendable}, mem \in BOOLEAN})
        PROVE  TxIInv'
    <3>1. PICK x \in {Deliver(r, mem) : r \in {tcp_process(pcb, s) : s \in Sendable}, mem \in BOOLEAN} :
             Becomes({x})
      BY <2>4, BecomesSome
    <3>2. PICK s \in Sendable, mem \in BOOLEAN : x = Deliver(tcp_process(pcb, s), mem)
      BY <3>1
    <3>3. TxFine(pcb)
      BY <1>2, <2>4, TxInvIn
    <3>4. pcb.snd_nxt \in Nat
      BY <2>4, <3>3 DEF TxFine, TxOk, TxHas, Numbered
    <3>5. s.ack \in 1 .. pcb.snd_nxt
      BY <3>2 DEF Sendable
    <3>6. s.ack \in Nat
      BY <3>4, <3>5
    <3>7. TxFine(tcp_process(pcb, s).p)
      BY <2>4, <3>3, <3>6, TxFineProcess
    <3>8. TxLive(x.p)
      BY <3>2, <3>7, TxFineDeliver DEF TxLive
    <3>9. QED
      BY <1>2, <2>1, <3>1, <3>8, TxBecomes
  <2>5. CASE pcb.state \in Active /\ Becomes({Died})
    <3>1. Died.p = Free
      BY ResultFields DEF Died
    <3>2. QED
      BY <1>2, <1>3, <2>1, <2>5, <3>1, TxBecomes
  <2>6. QED
    BY <1>5, <2>2, <2>3, <2>4, <2>5 DEF tcp_input
<1>6. CASE FallsSilent
  <2>1. pcb' = pcb /\ talk' = [talk EXCEPT !.up = FALSE]
    BY <1>6 DEF FallsSilent
  <2>2. TalkOk(talk')
    BY <1>2, <2>1 DEF TalkOk
  <2>3. QED
    BY <1>2, <2>1, <2>2 DEF TxIInv, TxInv, TxSyn, TxFine, TxHas, TxOk, TalkOk
<1>7. ASSUME NEW due \in BOOLEAN, NEW aged \in BOOLEAN, tcp_slowtmr(due, aged) PROVE TxIInv'
  <2>1. UNCHANGED talk
    BY <1>7 DEF tcp_slowtmr
  <2>2. CASE pcb.state \in Active /\ Becomes({SlowTick(pcb, due, aged)})
    <3>1. pcb.state # "CLOSED"
      BY <2>2 DEF Active
    <3>2. TxLive(pcb)
      BY <1>2, <3>1, TxInvIn
    <3>3. QED
      BY <1>2, <2>1, <2>2, <3>2, TxSlowTick, TxBecomes
  <2>3. CASE pcb.state = "TIME_WAIT" /\ Becomes({Result(Free, << >>)})
    <3>1. PICK x : x = Result(Free, << >>)
      OBVIOUS
    <3>2. x.p = Free
      BY <3>1, ResultFields
    <3>3. QED
      BY <1>2, <1>3, <2>1, <2>3, <3>1, <3>2, TxBecomes
  <2>4. QED
    BY <1>7, <2>2, <2>3 DEF tcp_slowtmr
<1>8. ASSUME NEW mem \in BOOLEAN, tcp_fasttmr(mem) PROVE TxIInv'
  <2>1. UNCHANGED talk /\ pcb.state \in Active
    BY <1>8 DEF tcp_fasttmr
  <2>2. PICK q : q = [pcb EXCEPT !.closepend = FALSE]
    OBVIOUS
  <2>3. PICK w : w = tcp_close_shutdown_fin(q, mem)
    OBVIOUS
  <2>4. PICK x : x = Result(tcp_output(w), << >>)
    OBVIOUS
  <2>5. Becomes({x})
    BY <1>8, <2>2, <2>3, <2>4 DEF tcp_fasttmr
  <2>6. TxLive(pcb) /\ IsPcb(pcb)
    BY <1>2, <2>1, TxInvIn, TxLiveKept DEF Active
  <2>7. SameTx(pcb, q) /\ q.state = pcb.state
    BY <2>2, <2>6 DEF SameTx, IsPcb
  <2>8. TxLive(q)
    BY <2>6, <2>7, TxLiveKept
  <2>9. TxLive(w)
    <3>1. CASE TxFine(q)
      BY <2>3, <3>1, TxFineShut DEF TxLive
    <3>2. CASE TxSyn(q)
      <4>1. w = q
        BY <2>3, <3>2 DEF TxSyn, tcp_close_shutdown_fin
      <4>2. QED
        BY <2>8, <4>1
    <3>3. QED
      BY <2>8, <3>1, <3>2 DEF TxLive
  <2>10. TxLive(tcp_output(w)) /\ x.p = tcp_output(w)
    BY <2>4, <2>9, TxLiveKept, ResultFields
  <2>11. QED
    BY <1>2, <2>1, <2>5, <2>10, TxBecomes
<1>9. CASE tcp_netif_ip_addr_changed
  <2>1. UNCHANGED talk /\ pcb.state \in Active /\ Becomes({tcp_abort(pcb)})
    BY <1>9 DEF tcp_netif_ip_addr_changed
  <2>2. tcp_abort(pcb).p = Free
    BY ResultFields DEF tcp_abort, Died
  <2>3. QED
    BY <1>2, <1>3, <2>1, <2>2, TxBecomes
<1>10. CASE UNCHANGED vars
  BY <1>1, <1>10 DEF vars, TxIInv, TxInv, TxSyn, TxFine, TxHas, TxOk, TalkOk
<1>11. QED
  BY <1>1, <1>4, <1>5, <1>6, <1>7, <1>8, <1>9, <1>10 DEF Next

LEMMA ListIndices ==
    ASSUME NEW q, NEW Q, ListOf(q, Q), Uniq(Q)
    PROVE  /\ \A t \in Q : \E i \in DOMAIN q : q[i] = t
           /\ \A j, k \in DOMAIN q : j # k => q[j].seq # q[k].seq
<1>1. /\ DOMAIN q = 1 .. Len(q) /\ \A i \in 1 .. Len(q) : q[i] \in Q
      /\ \A t \in Q : \E i \in 1 .. Len(q) : q[i] = t
      /\ \A i, j \in 1 .. Len(q) : q[i] = q[j] => i = j
  BY DEF ListOf
<1>2. QED
  BY <1>1 DEF Uniq

\* What the invariant says of the queues, one after the other.
LEMMA TxQueues ==
    ASSUME NEW p, NEW Q, TxHas(p, Q), NEW q, q = p.unacked \o p.unsent
    PROVE  /\ \A n \in p.lastack .. Larger(p.snd_nxt, p.snd_lbb) - 1 : \E k \in DOMAIN q : n \in Numbers(q[k])
           /\ \A j, k \in DOMAIN q : j # k => q[j].seq # q[k].seq
<1>1. Holds(<< >>, q, Q) /\ Numbered(Q, p.lastack, p.snd_nxt, p.snd_lbb) /\ Uniq(Q)
  BY HoldsAgain DEF TxHas, Numbered
<1>2. PICK S, T : ListOf(<< >>, S) /\ ListOf(q, T) /\ Q = S \cup T
  BY <1>1 DEF Holds
<1>3. S = {}
  BY <1>2, ListToSet, ListEmpty
<1>4. ListOf(q, Q)
  BY <1>2, <1>3
<1>5. /\ \A t \in Q : \E i \in DOMAIN q : q[i] = t
      /\ \A j, k \in DOMAIN q : j # k => q[j].seq # q[k].seq
  BY <1>1, <1>4, ListIndices
<1>6. ASSUME NEW n \in p.lastack .. Larger(p.snd_nxt, p.snd_lbb) - 1 PROVE \E k \in DOMAIN q : n \in Numbers(q[k])
  <2>1. PICK s \in Q : n \in Numbers(s)
    BY <1>1 DEF Numbered
  <2>2. QED
    BY <2>1, <1>5
<1>7. QED
  BY <1>5, <1>6

\* The send queues lose nothing: what is numbered and not acknowledged is on unsent or
\* unacked, in one segment each, whatever is sent, sent again, probed, acknowledged late
\* or left by tcp_output for a better window, for every request, window and segment size.
THEOREM SendQueueWholeHolds == Spec => []SendQueueWhole
<1>1. Init => TxIInv
  BY TxInit
<1>2. TxIInv /\ [Next]_vars => TxIInv'
  BY TxNext
<1>3. TxIInv => SendQueueWhole
  <2>1. SUFFICES ASSUME TxIInv, pcb.state \in Active
                 PROVE  LET q == pcb.unacked \o pcb.unsent
                        IN  /\ \A n \in pcb.lastack .. Larger(pcb.snd_nxt, pcb.snd_lbb) - 1 :
                                  \E k \in DOMAIN q : n \in Numbers(q[k])
                            /\ \A j, k \in DOMAIN q : j # k => q[j].seq # q[k].seq
    BY DEF SendQueueWhole
  <2>2. TxInv(pcb)
    BY <2>1 DEF TxIInv
  <2>3. pcb.state = "SYN_SENT" \/ pcb.state \in Synchronized
    BY <2>1 DEF Synchronized
  <2>4. \E Q : TxHas(pcb, Q)
    BY <2>2, <2>3, TxInvIn DEF TxSyn, TxFine, TxOk
  <2>5. PICK Q : TxHas(pcb, Q)
    BY <2>4
  <2>6. QED
    BY <2>5, TxQueues
<1>4. QED
  BY <1>1, <1>2, <1>3, PTL DEF Spec

=============================================================================
