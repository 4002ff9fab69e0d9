-------------------------------- MODULE Tcp --------------------------------
(***************************************************************************)
(* One outgoing connection of lwIP (src/src/net/lwip/src/core/tcp.c,       *)
(* tcp_in.c and tcp_out.c) as the agent link uses it: the request is       *)
(* written in the connected callback, the answer is taken segment by       *)
(* segment in the receive callback, and the end of the answer is answered  *)
(* with tcp_close (src/src/drivers/net/net_stack.c).                       *)
(*                                                                         *)
(* The other end and the network are one adversary: any part of the talk's *)
(* stream that fits the window arrives at any time, in any packets, any    *)
(* number of times or never; any number sent so far may be acknowledged,   *)
(* late and twice.  It may reset the connection, and it may fall silent.   *)
(*                                                                         *)
(* Numbers count from 0, the SYN of either side; they stand for the bytes  *)
(* of a stream and do not wrap.  The timers of tcp_slowtmr are not         *)
(* counted: one that runs may be found expired at any tick.  The           *)
(* application takes what it is given, so refused_data is always empty;    *)
(* the driver takes every segment; whether acknowledgements of our own are *)
(* delayed is left out.                                                    *)
(***************************************************************************)
EXTENDS Integers, Sequences, FiniteSets, SequencesExt

CONSTANTS
    TCP_WND,         \* receive window
    TCP_MSS,
    TCP_MAXRTX, TCP_SYNMAXRTX,
    DupAcks,         \* duplicate acknowledgements for a fast retransmit, 3
    PeerWnd,         \* the talk's window when it is open
    Exchanges        \* requests, as the places where the segments that tcp_write
                     \* makes of them end, and the lengths of their answers

ASSUME TcpAssumption ==
    /\ TCP_WND \in Nat \ {0}
    /\ TCP_MSS \in Nat \ {0} /\ TCP_MAXRTX \in Nat \ {0} /\ TCP_SYNMAXRTX \in Nat \ {0}
    /\ DupAcks \in Nat \ {0} /\ PeerWnd \in Nat \ {0}
    /\ PeerWnd >= TCP_MSS
    /\ Exchanges \subseteq [request : Seq(Nat), answer : Nat]
    /\ \A e \in Exchanges : \A k \in DOMAIN e.request :
          /\ e.request[k] > 0 /\ \A j \in 1 .. k - 1 : e.request[j] < e.request[k]
          /\ e.request[k] - (IF k = 1 THEN 0 ELSE e.request[k - 1]) <= TCP_MSS

VARIABLES
    pcb,       \* the control block
    talk,      \* request and answer, and whether the peer is still heard of
    log        \* history: callbacks and closes, in order

vars == <<pcb, talk, log>>

Smaller(a, b) == IF a <= b THEN a ELSE b
Larger(a, b) == IF a >= b THEN a ELSE b

\* A segment on a queue, in or out.
Segment(seq, len, syn, fin) == [seq |-> seq, len |-> len, syn |-> syn, fin |-> fin]
TCP_TCPLEN(s) == s.len + (IF s.syn THEN 1 ELSE 0) + (IF s.fin THEN 1 ELSE 0)
After(s) == s.seq + TCP_TCPLEN(s)
EndOf(s) == s.seq + s.len

\* How many indices a walk along a list passes that stops at the first one not in S.
Leading(S) == Cardinality({k \in S : 1 .. k \subseteq S})

\* The list of the segments in S that is kept sorted.
Sorted(S) == [k \in 1 .. Cardinality(S) |-> CHOOSE t \in S : Cardinality({u \in S : u.seq <= t.seq}) = k]

\* "FREE" is a block given back to the pool, "CLOSED" one that tcp_new returned.
NewPcb ==
    [state |-> "CLOSED", rcv_nxt |-> 0, rcv_wnd |-> TCP_WND, ooseq |-> << >>,
     lastack |-> 0, snd_nxt |-> 0, snd_lbb |-> 0, snd_wnd |-> 0, wl1 |-> 0, wl2 |-> 0,
     cwnd |-> 1, unsent |-> << >>, unacked |-> << >>,
     rtime |-> FALSE, nrtx |-> 0, dupacks |-> 0, infr |-> FALSE,
     persist |-> FALSE, probes |-> 0,
     rxclosed |-> FALSE, closepend |-> FALSE, finq |-> FALSE]
Free == [NewPcb EXCEPT !.state = "FREE"]

\* What the log holds, and what a call returns: the block, and the log's growth.
Event(e) == <<e, {}>>
Received(data) == IF data = {} THEN << >> ELSE << <<"recv", data>> >>
Result(p, l) == [p |-> p, log |-> l]

Init == pcb = NewPcb /\ talk \in {[request |-> e.request, answer |-> e.answer, up |-> TRUE] : e \in Exchanges} /\ log = << >>

-----------------------------------------------------------------------------
(* Output.                                                                 *)

\* Nagle: a short segment, the last one, waits for what is under way, unless a FIN
\* follows.
tcp_do_output_nagle(p, k) ==
    \/ p.unacked = << >> /\ k = 1
    \/ p.infr \/ p.finq \/ k < Len(p.unsent) \/ p.unsent[k].len >= TCP_MSS

\* The difference is unsigned: a segment acknowledged long ago does not fit.
Fits(p, k) == EndOf(p.unsent[k]) - p.lastack \in 0 .. Smaller(p.snd_wnd, p.cwnd)

\* The segments at the head of the unsent queue that go out now: the last of them.
LastToSend(p) == Leading({k \in DOMAIN p.unsent : Fits(p, k) /\ tcp_do_output_nagle(p, k)})

\* What is sent joins the unacknowledged segments, in order.
tcp_output(p) ==
    IF p.unsent = << >> THEN p
    ELSE IF ~Fits(p, 1)
    THEN IF p.snd_wnd <= p.cwnd /\ p.unacked = << >> /\ ~p.persist
         THEN [p EXCEPT !.persist = TRUE, !.probes = 0] ELSE p
    ELSE LET n == LastToSend(p)
         IN  [p EXCEPT !.persist = FALSE,
                       !.unsent = SubSeq(@, n + 1, Len(@)),
                       !.unacked = Sorted(ToSet(@) \cup ToSet(SubSeq(p.unsent, 1, n))),
                       !.snd_nxt = IF n = 0 THEN @ ELSE Larger(@, After(p.unsent[n])),
                       !.rtime = @ \/ n > 0]

\* SYN or FIN in a segment of its own.
tcp_enqueue_flags(p, syn, fin) ==
    [p EXCEPT !.unsent = Append(@, Segment(p.snd_lbb, 0, syn, fin)),
              !.snd_lbb = @ + 1, !.finq = @ \/ fin]

\* The FIN rides on the last unsent segment if there is one.
tcp_send_fin(p) ==
    IF p.unsent # << >> /\ ~Last(p.unsent).syn /\ ~Last(p.unsent).fin
    THEN [p EXCEPT !.unsent[Len(p.unsent)].fin = TRUE, !.finq = TRUE]
    ELSE tcp_enqueue_flags(p, FALSE, TRUE)

\* The segments of the request are appended.
tcp_write(p) ==
    LET Start(k) == p.snd_lbb + (IF k = 1 THEN 0 ELSE talk.request[k - 1])
        segs == [k \in DOMAIN talk.request |-> Segment(Start(k), Start(k + 1) - Start(k), FALSE, FALSE)]
    IN  [p EXCEPT !.unsent = @ \o segs, !.snd_lbb = Start(Len(segs) + 1)]

\* Everything unacknowledged is to be sent again, before the rest.
tcp_rexmit_rto_prepare(p) == [p EXCEPT !.unsent = p.unacked \o @, !.unacked = << >>]

tcp_rexmit(p) ==
    [p EXCEPT !.unacked = Tail(@), !.unsent = Sorted(ToSet(@) \cup {Head(p.unacked)}), !.nrtx = @ + 1]

tcp_rexmit_fast(p) ==
    IF p.unacked # << >> /\ ~p.infr
    THEN [tcp_rexmit(p) EXCEPT !.cwnd = 2 * TCP_MSS, !.infr = TRUE]
    ELSE p

-----------------------------------------------------------------------------
(* Closing.                                                                *)

\* tcp_close_shutdown_fin: without memory for the FIN it is left to the timer.
tcp_close_shutdown_fin(p, mem) ==
    IF p.state \notin {"ESTABLISHED", "CLOSE_WAIT"} THEN p
    ELSE IF mem \/ (p.unsent # << >> /\ ~Last(p.unsent).syn /\ ~Last(p.unsent).fin)
    THEN [tcp_send_fin(p) EXCEPT !.state = IF p.state = "ESTABLISHED" THEN "FIN_WAIT_1" ELSE "LAST_ACK"]
    ELSE [p EXCEPT !.closepend = TRUE]

\* Data the application has not taken turns the close into a reset.
tcp_close(p, mem) ==
    IF p.state \in {"ESTABLISHED", "CLOSE_WAIT"} /\ p.rcv_wnd # TCP_WND
    THEN Result(Free, <<Event("close"), Event("reset")>>)
    ELSE IF p.state = "CLOSED"
    THEN Result(Free, <<Event("close")>>)
    ELSE Result(tcp_close_shutdown_fin([p EXCEPT !.rxclosed = TRUE], mem), <<Event("close")>>)

-----------------------------------------------------------------------------
(* Input: acknowledgements.                                                *)

\* Whether the window in segment s is newer than the one known.
NewerWindow(p, s) ==
    \/ p.wl1 < s.seq
    \/ p.wl1 = s.seq /\ p.wl2 < s.ack
    \/ p.wl2 = s.ack /\ s.wnd > p.snd_wnd

\* The segments at the head of a queue that are acknowledged go; the walk stops at
\* the first that is not.
tcp_free_acked_segments(q, ack) ==
    SubSeq(q, Leading({k \in DOMAIN q : After(q[k]) <= ack}) + 1, Len(q))

DuplicateAck(p, q, s) ==
    /\ TCP_TCPLEN(s) = 0 /\ p.rtime /\ s.ack = p.lastack
    /\ q.wl2 + q.snd_wnd = p.wl2 + p.snd_wnd

\* The part of tcp_receive that looks at the acknowledgement; q has the new window.
AckReceived(p, s) ==
    LET q == IF NewerWindow(p, s) THEN [p EXCEPT !.snd_wnd = s.wnd, !.wl1 = s.seq, !.wl2 = s.ack] ELSE p
        unacked == tcp_free_acked_segments(q.unacked, s.ack)
    IN  IF s.ack <= p.lastack
        THEN IF ~DuplicateAck(p, q, s) THEN [q EXCEPT !.dupacks = 0]
             ELSE LET r == [q EXCEPT !.dupacks = Smaller(@ + 1, DupAcks),
                                     !.cwnd = IF q.dupacks = DupAcks
                                              THEN Smaller(@ + TCP_MSS, 2 * TCP_MSS) ELSE @]
                  IN  IF r.dupacks = DupAcks THEN tcp_rexmit_fast(r) ELSE r
        ELSE [q EXCEPT !.infr = FALSE, !.nrtx = 0, !.dupacks = 0, !.lastack = s.ack,
                       !.cwnd = IF p.infr THEN 2 * TCP_MSS
                                ELSE Smaller(@ + s.ack - p.lastack, 2 * TCP_MSS),
                       !.unacked = unacked,
                       !.unsent = tcp_free_acked_segments(@, s.ack),
                       !.rtime = unacked # << >>]

-----------------------------------------------------------------------------
(* Input: data.  Queued segments are in order and do not overlap.          *)

Covers(c, t) == EndOf(c) >= EndOf(t)

\* One of the first n segments has a FIN.
FinWithin(q, n) == \E k \in 1 .. n : q[k].fin

\* Segment t without what it has from number n on.
CutAt(t, n) == Segment(t.seq, Smaller(t.len, n - t.seq), t.syn, t.fin)

\* Segment c, with a FIN or not, before the segments of list rest: it is cut where
\* they begin.
Before(c, fin, rest) ==
    LET d == Segment(c.seq, c.len, c.syn, fin)
    IN  <<IF rest = << >> THEN d ELSE CutAt(d, rest[1].seq)>> \o rest

\* Mutant: a FIN further on is taken over too.
tcp_oos_insert_segment_AnyFin(c, next) ==
    LET n == Leading({k \in DOMAIN next : Covers(c, next[k])})
    IN  IF c.fin THEN <<c>>
        ELSE Before(c, FinWithin(next, Len(next)), SubSeq(next, n + 1, Len(next)))

\* Segment c is queued before next: what it covers goes, a FIN there is kept, and
\* c is cut where the rest begins.
tcp_oos_insert_segment(c, next) ==
    LET n == Leading({k \in DOMAIN next : Covers(c, next[k])})
    IN  IF c.fin THEN <<c>>
        ELSE Before(c, FinWithin(next, n), SubSeq(next, n + 1, Len(next)))

\* The queue with its last segment cut at sequence number n.
CutLast(q, n) == [k \in DOMAIN q |-> IF k = Len(q) THEN CutAt(q[k], n) ELSE q[k]]

\* A segment that overruns the window is cut, and loses its FIN.
TrimToWindow(p, s) ==
    IF After(s) > p.rcv_nxt + p.rcv_wnd
    THEN Segment(s.seq, p.rcv_nxt + p.rcv_wnd - s.seq, s.syn, FALSE) ELSE s

\* Segment s, which is not the next one, is put on the queue.
QueueOoseq(p, s) ==
    LET n     == Leading({k \in DOMAIN p.ooseq : p.ooseq[k].seq < s.seq})
        below == SubSeq(p.ooseq, 1, n)
        above == SubSeq(p.ooseq, n + 1, Len(p.ooseq))
    IN  CASE p.ooseq = << >> -> <<s>>
          [] above # << >> /\ above[1].seq = s.seq ->
                IF s.len > above[1].len THEN below \o tcp_oos_insert_segment(s, above) ELSE p.ooseq
          [] above # << >> /\ above[1].seq # s.seq ->
                CutLast(below, s.seq) \o tcp_oos_insert_segment(s, above)
          [] above = << >> /\ p.ooseq # << >> ->
                IF Last(below).fin THEN p.ooseq
                ELSE Append(CutLast(below, s.seq), TrimToWindow(p, s))

\* The bytes of a segment, as their numbers.
Data(s) == s.seq .. EndOf(s) - 1

\* The next segment t, cut where queued segments begin and with the FIN of one it
\* covers, and the queued segments behind it.
Chain(q, t) ==
    LET n == Leading({k \in DOMAIN q : After(t) >= EndOf(q[k])})
    IN  IF t.fin THEN <<t>> ELSE Before(t, FinWithin(q, n), SubSeq(q, n + 1, Len(q)))

\* The segments of a chain that follow each other without a gap: the last of them.
LastInSequence(chain) ==
    1 + Leading({k \in 1 .. Len(chain) - 1 : After(chain[k]) = chain[k + 1].seq})

\* The next segment s in sequence, and the queued segments that are so now.  Result:
\* the block, the data for the application (in ascending order, since the segments
\* follow each other), a FIN or not, and whether the assertions on rcv_wnd hold.
InSequence(p, s) ==
    LET chain == Chain(p.ooseq, TrimToWindow(p, s))
        last  == LastInSequence(chain)
        nxt   == After(chain[last])
        fin   == FinWithin(chain, last)
    IN  [p    |-> [p EXCEPT !.rcv_nxt = nxt, !.rcv_wnd = @ - (nxt - p.rcv_nxt),
                            !.ooseq = SubSeq(chain, last + 1, Len(chain)),
                            !.state = IF @ = "ESTABLISHED" /\ fin THEN "CLOSE_WAIT" ELSE @],
         data |-> UNION {Data(chain[k]) : k \in 1 .. last},
         fin  |-> fin, assert |-> nxt - p.rcv_nxt <= p.rcv_wnd]

\* What arrives partly before rcv_nxt is cut there.
TrimFront(p, s) ==
    IF s.seq < p.rcv_nxt /\ p.rcv_nxt < After(s)
    THEN Segment(p.rcv_nxt, s.len - (p.rcv_nxt - s.seq), s.syn, s.fin) ELSE s

NoData(p) == [p |-> p, data |-> {}, fin |-> FALSE, assert |-> TRUE]

\* Data is taken in these states only.
Receiving == {"ESTABLISHED", "FIN_WAIT_1", "FIN_WAIT_2"}

tcp_receive(p, s) ==
    LET q == AckReceived(p, s)
        t == TrimFront(q, Segment(s.seq, s.len, FALSE, s.fin))
    IN  IF TCP_TCPLEN(s) > 0 /\ q.state \in Receiving
           /\ t.seq >= q.rcv_nxt /\ t.seq < q.rcv_nxt + q.rcv_wnd
        THEN IF t.seq = q.rcv_nxt THEN InSequence(q, t)
             ELSE NoData([q EXCEPT !.ooseq = QueueOoseq(q, t)])
        ELSE NoData(q)

-----------------------------------------------------------------------------
(* The application (net_stack.c).                                          *)

Died == Result(Free, <<Event("err")>>)

\* tcp_abort of a block that waits out TIME_WAIT tells nobody.
tcp_abort(p) == IF p.state = "TIME_WAIT" THEN Result(Free, << >>) ELSE Died

\* ollama_connected_cb: the request is written, or the connection is closed again.
ollama_connected_cb(p, written, mem) ==
    IF written THEN Result(tcp_write(p), <<Event("connected")>>)
    ELSE LET c == tcp_close(p, mem) IN Result(c.p, <<Event("connected")>> \o c.log)

\* The window grows by what was taken, up to the whole window.
tcp_recved(p, n) == [p EXCEPT !.rcv_wnd = Smaller(@ + n, TCP_WND)]

\* Mutant: the number of the FIN is not given back to the window.
Eof_NoWindow(p, mem) ==
    LET c == tcp_close(p, mem) IN Result(c.p, <<Event("eof")>> \o c.log)

\* The FIN's number is given back, and ollama_recv_cb closes the connection.
Eof(p, mem) ==
    LET c == tcp_close([p EXCEPT !.rcv_wnd = IF @ # TCP_WND THEN @ + 1 ELSE @], mem)
    IN  Result(c.p, <<Event("eof")>> \o c.log)

-----------------------------------------------------------------------------
(* Input: the states.                                                      *)

Purged(p, state) ==
    [p EXCEPT !.state = state, !.unsent = << >>, !.unacked = << >>, !.ooseq = << >>, !.rtime = FALSE]

\* Everything sent is acknowledged by segment s.
AllAcked(p, s) == s.ack = p.snd_nxt /\ p.unsent = << >>

\* The state after a segment s was received in state st; "FREE" is TF_CLOSED.
StateAfter(st, p, s, fin) ==
    CASE st \in {"ESTABLISHED", "CLOSE_WAIT"} -> IF fin THEN "CLOSE_WAIT" ELSE p.state
      [] st = "FIN_WAIT_1" -> IF fin THEN IF AllAcked(p, s) THEN "TIME_WAIT" ELSE "CLOSING"
                              ELSE IF AllAcked(p, s) THEN "FIN_WAIT_2" ELSE st
      [] st = "FIN_WAIT_2" -> IF fin THEN "TIME_WAIT" ELSE st
      [] st = "CLOSING"    -> IF AllAcked(p, s) THEN "TIME_WAIT" ELSE st
      [] st = "LAST_ACK"   -> IF AllAcked(p, s) THEN "FREE" ELSE st

\* An assertion that fails stops the kernel.
Halted == [NewPcb EXCEPT !.state = "HALTED"]

\* tcp_process for a connection that the peer knows of.
tcp_process(p, s) ==
    LET r  == tcp_receive([p EXCEPT !.probes = 0], s)
        st == StateAfter(p.state, r.p, s, r.fin)
    IN  [r EXCEPT !.p = IF st = "TIME_WAIT" THEN Purged(@, st) ELSE [@ EXCEPT !.state = st]]

\* What tcp_input does with its result r.
Deliver(r, mem) ==
    LET p == tcp_recved(r.p, Cardinality(r.data))
        c == IF r.fin THEN Eof(p, mem) ELSE Result(p, << >>)
    IN  CASE ~r.assert -> Result(Halted, << >>)
          [] r.assert /\ p.state = "FREE" -> Result(Free, IF p.rxclosed THEN << >> ELSE <<Event("err")>>)
          [] r.assert /\ p.state # "FREE" /\ r.data # {} /\ p.rxclosed -> tcp_abort(p)
          [] OTHER -> Result(tcp_output(c.p), Received(r.data) \o c.log)

\* The answer to the SYN.
SynAckArrives(p, wnd, written, mem) ==
    LET q == [p EXCEPT !.state = "ESTABLISHED", !.rcv_nxt = 1, !.lastack = 1, !.snd_wnd = wnd,
                       !.wl1 = -1, !.cwnd = 2 * TCP_MSS, !.probes = 0,
                       !.unacked = IF @ # << >> THEN Tail(@) ELSE @,
                       !.unsent = IF p.unacked # << >> THEN @ ELSE Tail(@),
                       !.rtime = FALSE]
        c == ollama_connected_cb(q, written, mem)
    IN  Result(tcp_output(c.p), c.log)

\* An acknowledgement of another connection: the SYN is sent again.
StaleAckArrives(p) ==
    LET q == [p EXCEPT !.probes = 0]
    IN  tcp_output(IF p.nrtx < TCP_SYNMAXRTX /\ p.unacked # << >>
                   THEN [tcp_rexmit_rto_prepare(q) EXCEPT !.nrtx = @ + 1] ELSE q)

-----------------------------------------------------------------------------
(* The timers.                                                             *)

\* One byte, or the FIN, into a closed window.
tcp_zero_window_probe(p) ==
    [p EXCEPT !.probes = @ + 1, !.snd_nxt = Larger(@, Head(p.unsent).seq + 1)]

\* Mutant: what does not fit into the window is cut off and forgotten.
tcp_split_unsent_seg_Cut(p) ==
    LET h == Head(p.unsent)
    IN  IF p.snd_wnd \notin 1 .. h.len - 1 THEN p
        ELSE [p EXCEPT !.unsent = <<Segment(h.seq, p.snd_wnd, h.syn, h.fin)>> \o Tail(@)]

\* The first unsent segment is cut to the window, and the rest of it queued behind.
\* Flags are only ever set in the old header, so a FIN is on both parts.
tcp_split_unsent_seg(p) ==
    LET h == Head(p.unsent)
    IN  IF p.snd_wnd \notin 1 .. h.len - 1 THEN p
        ELSE [p EXCEPT !.unsent = <<Segment(h.seq, p.snd_wnd, h.syn, h.fin),
                                    Segment(h.seq + p.snd_wnd, h.len - p.snd_wnd, FALSE, h.fin)>> \o Tail(@)]

\* The persist timer has expired.
Persist(p) ==
    IF p.probes >= TCP_MAXRTX THEN p
    ELSE IF p.snd_wnd = 0 THEN tcp_zero_window_probe(p)
    ELSE tcp_output(tcp_split_unsent_seg(p))

\* The retransmission timer has expired.
Retransmit(p) ==
    IF p.unacked = << >> /\ p.unsent = << >> THEN p
    ELSE tcp_output([tcp_rexmit_rto_prepare(p) EXCEPT !.cwnd = TCP_MSS, !.nrtx = @ + 1])

TooManyTries(p) ==
    p.nrtx >= TCP_MAXRTX \/ (p.state = "SYN_SENT" /\ p.nrtx >= TCP_SYNMAXRTX)

\* Mutant: a connection closed on this side waits for the talk's FIN for ever.
GivenUp_KeepsFinWait2(p, aged) ==
    \/ TooManyTries(p)
    \/ p.persist /\ p.probes >= TCP_MAXRTX
    \/ aged /\ p.state = "LAST_ACK"

\* The block is removed at this tick.
GivenUp(p, aged) ==
    \/ TooManyTries(p)
    \/ p.persist /\ p.probes >= TCP_MAXRTX
    \/ aged /\ (p.state = "LAST_ACK" \/ (p.state = "FIN_WAIT_2" /\ p.rxclosed))

\* One tick for an active block: due says that the timer for sending has expired,
\* aged that the block was quiet for long.  A probe or a split that finds no memory
\* is tried again at the timer's next expiry, as if it had not been due.
SlowTick(p, due, aged) ==
    LET q == CASE TooManyTries(p) \/ ~due -> p
               [] ~TooManyTries(p) /\ due /\ p.persist -> Persist(p)
               [] OTHER -> IF p.rtime THEN Retransmit(p) ELSE p
    IN  IF ~TooManyTries(p) /\ p.persist /\ (p.unacked # << >> \/ p.unsent = << >>)
        THEN Result(Halted, << >>)
        ELSE IF GivenUp(p, aged) THEN Died
        ELSE Result(tcp_output(IF aged THEN [q EXCEPT !.ooseq = << >>] ELSE q), << >>)

-----------------------------------------------------------------------------
(* Actions.                                                                *)

Active == {"SYN_SENT", "ESTABLISHED", "CLOSE_WAIT", "FIN_WAIT_1", "FIN_WAIT_2", "CLOSING", "LAST_ACK"}
Synchronized == Active \ {"SYN_SENT"}

Becomes(results) == \E r \in results : pcb' = r.p /\ log' = log \o r.log

\* Without memory for the SYN ollama_request closes the block again.
tcp_connect(mem) ==
    /\ pcb.state = "CLOSED"
    /\ IF mem
       THEN LET p == [pcb EXCEPT !.state = "SYN_SENT", !.snd_nxt = 1, !.snd_wnd = TCP_WND]
            IN  Becomes({Result(tcp_output(tcp_enqueue_flags(p, TRUE, FALSE)), << >>)})
       ELSE Becomes({tcp_close(pcb, FALSE)})
    /\ UNCHANGED talk

\* How far the peer has let us send.
PeerEdge == pcb.snd_wnd + (IF pcb.wl1 < 0 THEN 1 ELSE pcb.wl2)

\* What the peer may send: a part of its answer that our window allows, whose FIN
\* may lie one past the window as our own would, or an empty segment, with any
\* acknowledgement of what was sent.  A window once given is not taken back.
Sendable ==
    {s \in [seq : 1 .. talk.answer + 2, len : 0 .. TCP_MSS, syn : {FALSE}, fin : BOOLEAN,
            ack : 1 .. pcb.snd_nxt, wnd : 0 .. PeerWnd] :
        /\ \/ EndOf(s) <= Smaller(talk.answer + 1, pcb.rcv_nxt + pcb.rcv_wnd)
           \/ TCP_TCPLEN(s) = 0 /\ s.seq <= pcb.rcv_nxt
        /\ s.fin => EndOf(s) = talk.answer + 1
        /\ s.wnd = PeerWnd \/ s.ack + s.wnd = Larger(s.ack, PeerEdge)
        /\ NewerWindow(pcb, s) => s.ack + s.wnd >= PeerEdge}

tcp_input ==
    /\ talk.up
    /\ \/ pcb.state = "SYN_SENT" /\ Becomes({Result(StaleAckArrives(pcb), << >>)})
       \/ /\ pcb.state = "SYN_SENT"
          /\ Becomes({SynAckArrives(pcb, wnd, written, mem) :
                        wnd \in 0 .. PeerWnd, written \in BOOLEAN, mem \in BOOLEAN})
       \/ /\ pcb.state \in Synchronized
          /\ Becomes({Deliver(r, mem) : r \in {tcp_process(pcb, s) : s \in Sendable}, mem \in BOOLEAN})
       \/ pcb.state \in Active /\ Becomes({Died})           \* an acceptable reset
    /\ UNCHANGED talk

FallsSilent == talk.up /\ talk' = [talk EXCEPT !.up = FALSE] /\ UNCHANGED <<pcb, log>>

tcp_slowtmr(due, aged) ==
    /\ \/ pcb.state \in Active /\ Becomes({SlowTick(pcb, due, aged)})
       \/ pcb.state = "TIME_WAIT" /\ aged /\ Becomes({Result(Free, << >>)})
    /\ UNCHANGED talk

tcp_fasttmr(mem) ==
    /\ pcb.state \in Active /\ pcb.closepend
    /\ Becomes({Result(tcp_output(tcp_close_shutdown_fin([pcb EXCEPT !.closepend = FALSE], mem)), << >>)})
    /\ UNCHANGED talk

tcp_netif_ip_addr_changed ==
    /\ pcb.state \in Active
    /\ Becomes({tcp_abort(pcb)})
    /\ UNCHANGED talk

Next ==
    \/ \E mem \in BOOLEAN : tcp_connect(mem)
    \/ tcp_input
    \/ FallsSilent
    \/ \E due, aged \in BOOLEAN : tcp_slowtmr(due, aged)
    \/ \E mem \in BOOLEAN : tcp_fasttmr(mem)
    \/ tcp_netif_ip_addr_changed

\* tcp_tmr runs for ever: a timer that runs expires, and memory for a FIN is found
\* by some tick of the fast timer.  It is enough to assume that once the peer fell
\* silent, of the two timers together.
tcp_tmr == tcp_slowtmr(TRUE, TRUE) \/ tcp_fasttmr(TRUE)
Fairness == WF_vars(~talk.up /\ tcp_tmr)
Spec == Init /\ [][Next]_vars /\ Fairness

-----------------------------------------------------------------------------
(* Properties.                                                             *)

Index(l, e) == {k \in 1 .. Len(l) : l[k][1] = e}
Given(l) == UNION {l[k][2] : k \in Index(l, "recv")}

\* However the answer is cut, repeated and reordered on the way, the receive
\* callback is given each byte once, in order and without a gap, and none after the
\* application closed; the end is told once, after the whole answer; nothing
\* follows an error.  That the assertion on rcv_wnd (tcp_in.c) never stops the kernel
\* is not part of it.
Callbacks ==
    /\ \A j, k \in Index(log, "recv") : j < k => \A a \in log[j][2], b \in log[k][2] : a < b
    /\ \A b \in Given(log) : 1 .. b \subseteq Given(log)
    /\ \A k \in Index(log, "recv") : \A c \in Index(log, "close") \cup Index(log, "eof") : k < c
    /\ \A j, k \in Index(log, "eof") : j = k
    /\ Index(log, "eof") # {} => Given(log) = 1 .. talk.answer
    /\ Index(log, "err") \subseteq {Len(log)}

\* The close at the end of the answer is never turned into a reset: rcv_wnd is
\* whole again whatever was trimmed, queued and handed over before.
GracefulClose == Index(log, "reset") = {}

\* The numbers that a segment takes, its SYN and FIN included.
Numbers(t) == t.seq .. After(t) - 1

\* Between them the two send queues hold every number that was given out and is not
\* acknowledged, and no segment twice: both survive every retransmission, probe and
\* late acknowledgement.
SendQueueWhole ==
    LET q == pcb.unacked \o pcb.unsent
    IN  pcb.state \in Active =>
          /\ \A n \in pcb.lastack .. Larger(pcb.snd_nxt, pcb.snd_lbb) - 1 :
                \E k \in DOMAIN q : n \in Numbers(q[k])
          /\ \A j, k \in DOMAIN q : j # k => q[j].seq # q[k].seq

\* A peer that falls silent costs no block, as long as no assertion stops the
\* kernel: one with something to send, to close or to wait for is freed by the
\* timers, and what is left is an established connection with nothing to do.
FreedWhenSilent ==
    [](pcb.state # "HALTED") =>
        (~talk.up /\ pcb.state \in Active \cup {"TIME_WAIT"}
            ~> \/ pcb.state = "FREE"
               \/ pcb.state = "ESTABLISHED" /\ pcb.unsent = << >> /\ pcb.unacked = << >> /\ ~pcb.closepend)

\* The assertions of tcp_slowtmr (tcp.c): "persist ticking with in-flight data" and
\* "persist ticking with empty send buffer" are never met.
PersistTicksWithUnsentOnly ==
    pcb.state \in Active /\ pcb.persist /\ ~TooManyTries(pcb) => pcb.unacked = << >> /\ pcb.unsent # << >>

=============================================================================
