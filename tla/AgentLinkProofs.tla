-------------------------- MODULE AgentLinkProofs --------------------------
(***************************************************************************)
(* The client of the language model, for every number of connections,      *)
(* every size of the buffers and every way answers are cut into segments:  *)
(* a conversation nobody else disturbed asks what it should and is parsed  *)
(* whole.                                                                  *)
(***************************************************************************)
EXTENDS AgentLink, TLAPS

\* What of sequence s fits the buffer.
Fitting(s) == SubSeq(s, 1, IF Len(s) < RxSize THEN Len(s) ELSE RxSize)

\* The buffer after a segment, the first n tokens of r.
Joining(rx, r, n) ==
    LET space == RxSize - Len(rx) IN rx \o SubSeq(r, 1, IF n < space THEN n ELSE space)

\* A connection's record.
IsConn(p) ==
    /\ p = [st |-> p.st, rest |-> p.rest, asked |-> p.asked, sent |-> p.sent, got |-> p.got,
            disturbed |-> p.disturbed]
    /\ p.rest \in Seq(STRING) /\ p.got \in Seq(STRING)

\* Nothing that happens to the shared buffers matters to p.
Quiet(p) == Silent(p) \/ p.disturbed \/ p.st = "last_ack"

\* p's conversation agrees with the shared buffers.
Agrees(p, rx, prompt) ==
    Quiet(p) \/ /\ p.asked = prompt
                /\ p.st = "connecting" => rx = <<>> /\ p.got = <<>>
                /\ p.st = "sent" => p.sent = p.asked /\ rx = Fitting(p.got)

\* The connections are a table of such records.
IsTable(table) == table = [c \in Pcbs |-> table[c]] /\ \A c \in Pcbs : IsConn(table[c])

\* A request r in the making has put every conversation off, and agrees with the
\* shared buffers unless a callback used them since.
CallAgrees(r, table, rx, prompt) ==
    r.step = "idle" \/ /\ \A c \in Pcbs : Quiet(table[c])
                       /\ r.refused \in {"closed", "lost"}
                       /\ ~r.disturbed => rx = <<>>
                       /\ ~r.disturbed /\ r.step = "connect" => r.asked = prompt

\* A request in the making, as a record.
IsCall(r) == r = [step |-> r.step, cmd |-> r.cmd, refused |-> r.refused, asked |-> r.asked,
                  disturbed |-> r.disturbed]

\* Every conversation that nobody disturbed agrees with the shared buffers.
TableInv == IsTable(conn) /\ \A c \in Pcbs : Agrees(conn[c], rx_accum, global_prompt)

\* ... and so does the request that the mainline is making.
LinkInv ==
    /\ TableInv
    /\ IsCall(call) /\ CallAgrees(call, conn, rx_accum, global_prompt)

-----------------------------------------------------------------------------
\* The elements of two sequences in a row.
LEMMA Joined ==
    ASSUME NEW a \in Seq(STRING), NEW b \in Seq(STRING)
    PROVE  /\ a \o b \in Seq(STRING) /\ Len(a \o b) = Len(a) + Len(b)
           /\ \A i \in 1 .. Len(a) : (a \o b)[i] = a[i]
           /\ \A i \in 1 .. Len(b) : (a \o b)[Len(a) + i] = b[i]
OBVIOUS

\* A segment that joins the buffer as far as it fits leaves what fits of both.
LEMMA FittingMore ==
    ASSUME NEW g \in Seq(STRING), NEW r \in Seq(STRING), NEW n \in 1 .. Len(r),
           NEW rx, rx = Fitting(g)
    PROVE  Joining(rx, r, n) = Fitting(g \o SubSeq(r, 1, n))
<1> DEFINE s == SubSeq(r, 1, n)
           m == IF Len(g) < RxSize THEN Len(g) ELSE RxSize
           space == RxSize - m
           k == IF n < space THEN n ELSE space
           t == SubSeq(r, 1, k)
<1>0. RxSize \in Nat /\ Len(g) \in Nat /\ Len(r) \in Nat
  BY AgentLinkAssumption
<1>1. m \in 0 .. Len(g) /\ m <= RxSize /\ n \in Nat /\ n <= Len(r)
  BY <1>0
<1>2. rx \in Seq(STRING) /\ Len(rx) = m /\ \A i \in 1 .. m : rx[i] = g[i]
  <2> HIDE DEF m
  <2>1. rx = SubSeq(g, 1, m)
    BY DEF Fitting, m
  <2>2. QED
    BY <2>1, <1>0, <1>1
<1>3. k \in 0 .. n
  BY <1>0, <1>1
<1>4. s \in Seq(STRING) /\ Len(s) = n /\ \A i \in 1 .. n : s[i] = r[i]
  BY <1>0, <1>1
<1> HIDE DEF k
<1>5. t \in Seq(STRING) /\ Len(t) = k /\ \A i \in 1 .. k : t[i] = r[i]
  BY <1>0, <1>1, <1>3
<1> HIDE DEF s, t, m
<1> DEFINE gs == g \o s
           M == IF Len(gs) < RxSize THEN Len(gs) ELSE RxSize
<1>6. gs \in Seq(STRING) /\ Len(gs) = Len(g) + n
      /\ (\A i \in 1 .. Len(g) : gs[i] = g[i])
      /\ (\A i \in 1 .. n : gs[Len(g) + i] = s[i])
  BY <1>0, <1>4
<1> HIDE DEF gs
<1>7. M = m + k /\ M \in 0 .. Len(gs)
  <2>1. CASE Len(g) < RxSize
    <3>1. m = Len(g) /\ k = IF n < RxSize - Len(g) THEN n ELSE RxSize - Len(g)
      BY <2>1 DEF m, k
    <3>2. QED
      BY <3>1, <2>1, <1>0, <1>1, <1>6
  <2>2. CASE ~(Len(g) < RxSize)
    <3>1. m = RxSize /\ RxSize - m = 0
      BY <2>2, <1>0 DEF m
    <3>2. k = 0
      BY <3>1, <1>1 DEF k
    <3>3. QED
      BY <3>1, <3>2, <2>2, <1>0, <1>1, <1>6
  <2>3. QED
    BY <2>1, <2>2
<1>8. k > 0 => m = Len(g)
  BY <1>0, <1>1, <1>3 DEF m, k
<1> DEFINE f == SubSeq(gs, 1, M)
<1>9. f \in Seq(STRING) /\ Len(f) = M /\ \A i \in 1 .. M : f[i] = gs[i]
  BY <1>6, <1>7
<1>10. f = Fitting(gs)
  BY DEF Fitting
<1> HIDE DEF M, f
<1> DEFINE x == rx \o t
<1>11. x \in Seq(STRING) /\ Len(x) = m + k
       /\ (\A i \in 1 .. m : x[i] = rx[i]) /\ (\A i \in 1 .. k : x[m + i] = t[i])
  <2>1. x \in Seq(STRING) /\ Len(x) = Len(rx) + Len(t)
        /\ (\A i \in 1 .. Len(rx) : x[i] = rx[i]) /\ (\A i \in 1 .. Len(t) : x[Len(rx) + i] = t[i])
    BY <1>2, <1>5, Joined
  <2> HIDE DEF x
  <2>2. QED
    BY <2>1, <1>2, <1>5
<1> HIDE DEF x
<1>12. ASSUME NEW i \in 1 .. M PROVE x[i] = f[i]
  <2>1. CASE i <= m
    <3>1. i \in 1 .. m /\ i \in 1 .. Len(g)
      BY <2>1, <1>1, <1>0, <1>7
    <3>2. QED
      BY <3>1, <1>2, <1>6, <1>9, <1>11
  <2>2. CASE i > m
    <3> DEFINE j == i - m
    <3>1. j \in 1 .. k /\ j \in 1 .. n /\ i = m + j /\ m = Len(g)
      BY <2>2, <1>0, <1>1, <1>3, <1>7, <1>8
    <3> HIDE DEF j
    <3>2. x[m + j] = r[j]
      BY <3>1, <1>5, <1>11
    <3>3. gs[Len(g) + j] = r[j]
      BY <3>1, <1>4, <1>6
    <3>4. QED
      BY <3>1, <3>2, <3>3, <1>9
  <2>3. QED
    BY <2>1, <2>2, <1>0, <1>1, <1>7
<1>13. x = f
  BY <1>7, <1>9, <1>11, <1>12
<1>14. x = Joining(rx, r, n)
  BY <1>2 DEF x, t, k, Joining
<1>15. QED
  BY <1>10, <1>13, <1>14 DEF gs, s

\* The others are told that somebody used the buffers.
LEMMA DisturbedQuiet ==
    ASSUME NEW table, IsTable(table), NEW c
    PROVE  /\ IsTable(Disturbed(table, c))
           /\ \A d \in Pcbs : d # c => Quiet(Disturbed(table, c)[d])
           /\ c \in Pcbs => Disturbed(table, c)[c] = table[c]
<1>1. \A d \in Pcbs : Disturbed(table, c)[d] =
         IF d = c \/ Silent(table[d]) THEN table[d] ELSE [table[d] EXCEPT !.disturbed = TRUE]
  BY DEF Disturbed
<1>2. ASSUME NEW d \in Pcbs
      PROVE  IsConn(Disturbed(table, c)[d]) /\ (d # c => Quiet(Disturbed(table, c)[d]))
  <2>1. IsConn(table[d])
    BY DEF IsTable
  <2>2. CASE d = c \/ Silent(table[d])
    BY <1>1, <2>1, <2>2 DEF Quiet
  <2>3. CASE ~(d = c \/ Silent(table[d]))
    <3> DEFINE p == table[d]
               q == Disturbed(table, c)[d]
    <3>1. q = [p EXCEPT !.disturbed = TRUE]
      BY <1>1, <2>3
    <3>2. p = [st |-> p.st, rest |-> p.rest, asked |-> p.asked, sent |-> p.sent, got |-> p.got,
               disturbed |-> p.disturbed]
      BY <2>1 DEF IsConn
    <3> HIDE DEF p, q
    <3>3. q = [st |-> p.st, rest |-> p.rest, asked |-> p.asked, sent |-> p.sent, got |-> p.got,
               disturbed |-> TRUE]
      BY <3>1, <3>2
    <3>4. IsConn(q) /\ q.disturbed
      BY <3>3, <2>1 DEF IsConn, p
    <3>5. Quiet(q) /\ d # c
      BY <3>4, <2>3 DEF Quiet
    <3>6. QED
      BY <3>4, <3>5 DEF q
  <2>4. QED
    BY <2>2, <2>3
<1>3. Disturbed(table, c) = [d \in Pcbs |-> Disturbed(table, c)[d]]
  BY DEF Disturbed
<1>4. QED
  BY <1>1, <1>2, <1>3 DEF IsTable

\* Quiet connections agree with whatever the buffers hold.
LEMMA QuietAgrees ==
    ASSUME NEW p, Quiet(p), NEW rx, NEW prompt
    PROVE  Agrees(p, rx, prompt)
BY DEF Agrees

\* What tcp_connect leaves of a new connection.
Opened(st, asked, d) == [Closed EXCEPT !.st = st, !.asked = asked, !.disturbed = d]

\* A connection without history.
LEMMA FreshConn ==
    /\ IsConn(Closed) /\ Closed.st = "closed"
    /\ \A st : IsConn([Closed EXCEPT !.st = st]) /\ [Closed EXCEPT !.st = st].st = st
    /\ \A st, asked, d : LET p == Opened(st, asked, d)
                         IN  IsConn(p) /\ p.st = st /\ p.asked = asked /\ p.got = <<>> /\ p.disturbed = d
<1>1. Closed.rest \in Seq(STRING) /\ Closed.got = <<>> /\ Closed.got \in Seq(STRING) /\ Closed.st = "closed"
  BY DEF Closed
<1>2. Closed = [st |-> Closed.st, rest |-> Closed.rest, asked |-> Closed.asked, sent |-> Closed.sent,
                got |-> Closed.got, disturbed |-> Closed.disturbed]
  BY DEF Closed
<1>3. IsConn(Closed)
  BY <1>1, <1>2 DEF IsConn
<1>4. ASSUME NEW st PROVE IsConn([Closed EXCEPT !.st = st]) /\ [Closed EXCEPT !.st = st].st = st
  <2> DEFINE p == [Closed EXCEPT !.st = st]
  <2>1. p = [st |-> st, rest |-> Closed.rest, asked |-> Closed.asked, sent |-> Closed.sent,
             got |-> Closed.got, disturbed |-> Closed.disturbed]
    BY <1>2
  <2> HIDE DEF p
  <2>2. IsConn(p) /\ p.st = st
    BY <2>1, <1>1 DEF IsConn
  <2>3. QED
    BY <2>2 DEF p
<1>5. ASSUME NEW st, NEW asked, NEW d
      PROVE  LET p == Opened(st, asked, d)
             IN  IsConn(p) /\ p.st = st /\ p.asked = asked /\ p.got = <<>> /\ p.disturbed = d
  <2> DEFINE p == Opened(st, asked, d)
  <2>0. p = [Closed EXCEPT !.st = st, !.asked = asked, !.disturbed = d]
    BY DEF Opened
  <2> HIDE DEF p
  <2>1. p = [st |-> st, rest |-> Closed.rest, asked |-> asked, sent |-> Closed.sent,
             got |-> Closed.got, disturbed |-> d]
    BY <2>0, <1>2
  <2>2. IsConn(p) /\ p.st = st /\ p.asked = asked /\ p.got = <<>> /\ p.disturbed = d
    BY <2>1, <1>1 DEF IsConn
  <2>3. QED
    BY <2>2 DEF p
<1>6. QED
  BY <1>1, <1>3, <1>4, <1>5

\* A new connection is opened for the prompt as it is.
LEMMA ConnectAgrees ==
    ASSUME NEW table, IsTable(table), \A d \in Pcbs : Quiet(table[d]),
           NEW asked, NEW rx, NEW prompt, NEW disturbed,
           disturbed \/ (asked = prompt /\ rx = <<>>),
           NEW refused \in {"closed", "lost"}, Connect(table, asked, disturbed, refused)
    PROVE  /\ IsTable(conn') /\ \A d \in Pcbs : Agrees(conn'[d], rx, prompt)
           /\ disturbed => \A d \in Pcbs : Quiet(conn'[d])
<1>1. CASE conn' = table
  BY <1>1, QuietAgrees
<1>2. ASSUME NEW c \in Pcbs, NEW p, conn' = [table EXCEPT ![c] = p], IsConn(p), Agrees(p, rx, prompt),
             disturbed => Quiet(p)
      PROVE  /\ IsTable(conn') /\ \A d \in Pcbs : Agrees(conn'[d], rx, prompt)
             /\ disturbed => \A d \in Pcbs : Quiet(conn'[d])
  <2>1. conn' = [d \in Pcbs |-> IF d = c THEN p ELSE table[d]]
    BY <1>2 DEF IsTable
  <2>2. \A d \in Pcbs : conn'[d] = IF d = c THEN p ELSE table[d]
    BY <2>1
  <2>3. conn' = [d \in Pcbs |-> conn'[d]]
    BY <2>1
  <2>4. ASSUME NEW d \in Pcbs PROVE IsConn(conn'[d]) /\ Agrees(conn'[d], rx, prompt) /\ (disturbed => Quiet(conn'[d]))
    BY <2>2, <1>2, QuietAgrees DEF IsTable
  <2>5. QED
    BY <2>3, <2>4 DEF IsTable
<1>3. CASE \E c \in Available(table), st \in (IF known THEN {"connecting", refused} ELSE {"closed"}) :
          conn' = [table EXCEPT ![c] =
                     IF st = "connecting"
                     THEN [Closed EXCEPT !.st = st, !.asked = asked, !.disturbed = disturbed]
                     ELSE [Closed EXCEPT !.st = st]]
  <2>1. PICK c \in Available(table), st \in (IF known THEN {"connecting", refused} ELSE {"closed"}) :
          conn' = [table EXCEPT ![c] =
                     IF st = "connecting"
                     THEN [Closed EXCEPT !.st = st, !.asked = asked, !.disturbed = disturbed]
                     ELSE [Closed EXCEPT !.st = st]]
    BY <1>3
  <2>2. c \in Pcbs
    BY DEF Available
  <2>3. CASE st = "connecting"
    <3> DEFINE p == Opened(st, asked, disturbed)
    <3>1. conn' = [table EXCEPT ![c] = p]
      BY <2>1, <2>3 DEF Opened
    <3>2. IsConn(p) /\ p.st = st /\ p.asked = asked /\ p.got = <<>> /\ p.disturbed = disturbed
      BY FreshConn
    <3> HIDE DEF p
    <3>3. Agrees(p, rx, prompt) /\ (disturbed => Quiet(p))
      BY <3>2, <2>3 DEF Agrees, Quiet
    <3>4. QED
      BY <3>1, <3>2, <3>3, <2>2, <1>2
  <2>4. CASE st # "connecting"
    <3> DEFINE p == [Closed EXCEPT !.st = st]
    <3>1. conn' = [table EXCEPT ![c] = p]
      BY <2>1, <2>4
    <3>2. IsConn(p) /\ p.st = st
      BY FreshConn
    <3> HIDE DEF p
    <3>3. Agrees(p, rx, prompt) /\ Quiet(p)
      BY <3>2, <2>4 DEF Agrees, Quiet, Silent
    <3>4. QED
      BY <3>1, <3>2, <3>3, <2>2, <1>2
  <2>5. QED
    BY <2>3, <2>4
<1>4. QED
  BY <1>1, <1>3 DEF Connect

\* A result joins both the prompt and what the conversation has asked.
LEMMA FeedbackAgrees ==
    ASSUME NEW table, IsTable(table), \A d \in Pcbs : Quiet(table[d]),
           NEW asked, NEW disturbed, disturbed \/ asked = global_prompt,
           NEW cmd, Feedback(table, asked, disturbed, cmd)
    PROVE  TableInv' /\ (disturbed => \A d \in Pcbs : Quiet(conn'[d]))
<1>1. rx_accum' = <<>>
  BY DEF Feedback
<1>2. CASE conn' = table
  BY <1>2, QuietAgrees DEF TableInv
<1>3. CASE /\ global_prompt' = Append(global_prompt, cmd)
           /\ Connect(table, Append(asked, cmd), disturbed, "lost")
  <2>1. disturbed \/ (Append(asked, cmd) = global_prompt' /\ rx_accum' = <<>>)
    BY <1>1, <1>3
  <2>2. /\ IsTable(conn') /\ \A d \in Pcbs : Agrees(conn'[d], rx_accum', global_prompt')
        /\ disturbed => \A d \in Pcbs : Quiet(conn'[d])
    BY <2>1, <1>3, ConnectAgrees
  <2>3. QED
    BY <2>2 DEF TableInv
<1>4. QED
  BY <1>2, <1>3 DEF Feedback

\* A request in the making knows of the callback that interrupted it.
LEMMA InterruptedAgrees ==
    ASSUME LinkInv, call' = Interrupted, call.step # "idle" => \A d \in Pcbs : Quiet(conn'[d])
    PROVE  IsCall(call') /\ CallAgrees(call', conn', rx_accum', global_prompt')
<1>1. IsCall(call) /\ CallAgrees(call, conn, rx_accum, global_prompt)
  BY DEF LinkInv
<1>2. CASE call.step = "idle"
  BY <1>1, <1>2 DEF Interrupted, CallAgrees
<1>3. CASE call.step # "idle"
  <2>1. call' = [call EXCEPT !.disturbed = TRUE]
    BY <1>3 DEF Interrupted
  <2>2. call = [step |-> call.step, cmd |-> call.cmd, refused |-> call.refused, asked |-> call.asked,
                disturbed |-> call.disturbed]
    BY <1>1 DEF IsCall
  <2>3. call' = [step |-> call.step, cmd |-> call.cmd, refused |-> call.refused, asked |-> call.asked,
                 disturbed |-> TRUE]
    BY <2>1, <2>2
  <2>4. IsCall(call') /\ call'.disturbed /\ call'.refused = call.refused
    BY <2>3 DEF IsCall
  <2>5. call'.refused \in {"closed", "lost"} /\ \A d \in Pcbs : Quiet(conn'[d])
    BY <2>4, <1>1, <1>3 DEF CallAgrees
  <2>6. QED
    BY <2>4, <2>5 DEF CallAgrees
<1>4. QED
  BY <1>2, <1>3

-----------------------------------------------------------------------------
(* One lemma per action.                                                   *)

\* No request in the making.
LEMMA NoCallAgrees ==
    ASSUME NEW table, NEW rx, NEW prompt
    PROVE  IsCall(NoCall) /\ CallAgrees(NoCall, table, rx, prompt)
<1>1. NoCall.step = "idle" /\ IsCall(NoCall)
  BY DEF NoCall, IsCall
<1>2. QED
  BY <1>1 DEF CallAgrees

LEMMA InitAgrees == Init => LinkInv
<1> SUFFICES ASSUME Init PROVE LinkInv
  OBVIOUS
<1>1. conn = [c \in Pcbs |-> Closed] /\ call = NoCall
  BY DEF Init
<1>2. \A c \in Pcbs : conn[c] = Closed
  BY <1>1
<1>3. conn = [c \in Pcbs |-> conn[c]]
  BY <1>1
<1>4. Quiet(Closed)
  BY FreshConn DEF Quiet, Silent
<1>5. TableInv
  BY <1>2, <1>3, <1>4, FreshConn, QuietAgrees DEF TableInv, IsTable
<1>6. QED
  BY <1>1, <1>5, NoCallAgrees DEF LinkInv

\* The mainline puts every conversation off.
LEMMA PutOff ==
    ASSUME LinkInv, conn' = Disturbed(conn, Nobody)
    PROVE  TableInv' /\ \A d \in Pcbs : Quiet(conn'[d])
<1>1. IsTable(conn') /\ \A d \in Pcbs : Quiet(conn'[d])
  BY DisturbedQuiet, AgentLinkAssumption DEF LinkInv, TableInv
<1>2. QED
  BY <1>1, QuietAgrees DEF TableInv

LEMMA BeginAgrees ==
    ASSUME LinkInv, NEW step \in {"task", "result"}, NEW cmd, Begin(step, cmd)
    PROVE  LinkInv'
<1>1. TableInv' /\ \A d \in Pcbs : Quiet(conn'[d])
  BY PutOff DEF Begin
<1>2. rx_accum' = <<>> /\ call' = [NoCall EXCEPT !.step = step, !.cmd = cmd]
  BY DEF Begin
<1>3. call' = [step |-> step, cmd |-> cmd, refused |-> "closed", asked |-> <<>>, disturbed |-> FALSE]
  BY <1>2 DEF NoCall
<1>4. IsCall(call') /\ call'.step = step /\ call'.refused = "closed"
  BY <1>3 DEF IsCall
<1>5. QED
  BY <1>1, <1>2, <1>4 DEF LinkInv, CallAgrees

LEMMA RequestAgrees ==
    ASSUME LinkInv, ollama_request
    PROVE  LinkInv'
BY BeginAgrees DEF ollama_request

LEMMA MockAgrees ==
    ASSUME LinkInv, ai_mock
    PROVE  LinkInv'
<1>1. \/ \E cmd : Begin("result", cmd)
      \/ UNCHANGED <<rx_accum, conn, call>>
  BY DEF ai_mock
<1>2. CASE \E cmd : Begin("result", cmd)
  BY <1>2, BeginAgrees
<1>3. CASE UNCHANGED <<rx_accum, conn, call>>
  <2>1. UNCHANGED global_prompt
    BY DEF ai_mock
  <2>2. QED
    BY <1>3, <2>1 DEF LinkInv, TableInv
<1>4. QED
  BY <1>1, <1>2, <1>3

LEMMA WriteTaskAgrees ==
    ASSUME LinkInv, WriteTask
    PROVE  LinkInv'
<1>1. TableInv' /\ \A d \in Pcbs : Quiet(conn'[d])
  BY PutOff DEF WriteTask
<1>2. /\ call.step = "task" /\ rx_accum' = rx_accum
      /\ call' = [call EXCEPT !.step = "connect", !.asked = global_prompt']
  BY DEF WriteTask
<1>3. IsCall(call) /\ CallAgrees(call, conn, rx_accum, global_prompt)
  BY DEF LinkInv
<1>4. call' = [step |-> "connect", cmd |-> call.cmd, refused |-> call.refused, asked |-> global_prompt',
               disturbed |-> call.disturbed]
  BY <1>2, <1>3 DEF IsCall
<1>5. /\ IsCall(call') /\ call'.refused = call.refused /\ call'.asked = global_prompt'
      /\ call'.disturbed = call.disturbed
  BY <1>4 DEF IsCall
<1>6. QED
  BY <1>1, <1>2, <1>3, <1>5 DEF LinkInv, CallAgrees

LEMMA WriteResultAgrees ==
    ASSUME LinkInv, WriteResult
    PROVE  LinkInv'
<1>1. TableInv' /\ \A d \in Pcbs : Quiet(conn'[d])
  BY PutOff DEF WriteResult
<1>2. call.step = "result" /\ rx_accum' = rx_accum
  BY DEF WriteResult
<1>3. IsCall(call) /\ CallAgrees(call, conn, rx_accum, global_prompt)
  BY DEF LinkInv
<1>4. CASE call' = [call EXCEPT !.step = "connect", !.refused = "lost", !.asked = global_prompt']
  <2>1. call' = [step |-> "connect", cmd |-> call.cmd, refused |-> "lost", asked |-> global_prompt',
                 disturbed |-> call.disturbed]
    BY <1>3, <1>4 DEF IsCall
  <2>2. /\ IsCall(call') /\ call'.refused = "lost" /\ call'.asked = global_prompt'
        /\ call'.disturbed = call.disturbed
    BY <2>1 DEF IsCall
  <2>3. QED
    BY <2>2, <1>1, <1>2, <1>3 DEF LinkInv, CallAgrees
<1>5. CASE call' = NoCall
  BY <1>1, <1>5, NoCallAgrees DEF LinkInv
<1>6. QED
  BY <1>4, <1>5 DEF WriteResult

LEMMA OpenAgrees ==
    ASSUME LinkInv, Open
    PROVE  LinkInv'
<1>1. /\ call.step = "connect" /\ call' = NoCall /\ global_prompt' = global_prompt
      /\ rx_accum' \in {<<>>, rx_accum}
      /\ Connect(conn, call.asked, call.disturbed, call.refused)
  BY DEF Open
<1>2. /\ IsTable(conn) /\ \A d \in Pcbs : Quiet(conn[d])
      /\ call.refused \in {"closed", "lost"}
      /\ call.disturbed \/ (call.asked = global_prompt' /\ rx_accum' = <<>>)
  BY <1>1 DEF LinkInv, TableInv, CallAgrees
<1>3. IsTable(conn') /\ \A d \in Pcbs : Agrees(conn'[d], rx_accum', global_prompt')
  BY <1>1, <1>2, ConnectAgrees
<1>4. QED
  BY <1>1, <1>3, NoCallAgrees DEF LinkInv, TableInv

\* One connection changes and the shared buffers do not.
LEMMA OneChanges ==
    ASSUME LinkInv, NEW c \in Pcbs, NEW p, conn' = [conn EXCEPT ![c] = p], IsConn(p),
           UNCHANGED <<rx_accum, global_prompt, call>>, Agrees(p, rx_accum, global_prompt),
           Quiet(conn[c]) => Quiet(p)
    PROVE  LinkInv'
<1>1. conn' = [d \in Pcbs |-> IF d = c THEN p ELSE conn[d]]
  BY DEF LinkInv, TableInv, IsTable
<1>2. \A d \in Pcbs : conn'[d] = IF d = c THEN p ELSE conn[d]
  BY <1>1
<1>3. conn' = [d \in Pcbs |-> conn'[d]]
  BY <1>1
<1>4. ASSUME NEW d \in Pcbs PROVE IsConn(conn'[d]) /\ Agrees(conn'[d], rx_accum, global_prompt)
  BY <1>2 DEF LinkInv, TableInv, IsTable
<1>5. TableInv'
  BY <1>3, <1>4 DEF TableInv, IsTable
<1>6. IsCall(call') /\ CallAgrees(call', conn', rx_accum', global_prompt')
  BY <1>2 DEF LinkInv, CallAgrees
<1>7. QED
  BY <1>5, <1>6 DEF LinkInv

LEMMA ConnectedAgrees ==
    ASSUME LinkInv, NEW c \in Pcbs, ollama_connected_cb(c)
    PROVE  LinkInv'
<1> DEFINE o == conn[c]
<1>1. /\ IsConn(o) /\ Agrees(o, rx_accum, global_prompt) /\ o.st = "connecting"
      /\ UNCHANGED <<rx_accum, global_prompt, call>>
      /\ o = [st |-> o.st, rest |-> o.rest, asked |-> o.asked, sent |-> o.sent, got |-> o.got,
              disturbed |-> o.disturbed]
  BY DEF ollama_connected_cb, LinkInv, TableInv, IsTable, IsConn
<1>2. conn = [d \in Pcbs |-> conn[d]]
  BY DEF LinkInv, TableInv, IsTable
<1>3. CASE conn' = [conn EXCEPT ![c].st = "fin_wait"]
  <2>1. PICK p : p = [o EXCEPT !.st = "fin_wait"]
    OBVIOUS
  <2>2. conn' = [conn EXCEPT ![c] = p]
    BY <1>2, <1>3, <2>1
  <2>3. p = [st |-> "fin_wait", rest |-> o.rest, asked |-> o.asked, sent |-> o.sent, got |-> o.got,
             disturbed |-> o.disturbed]
    BY <2>1, <1>1
  <2>4. IsConn(p) /\ Agrees(p, rx_accum, global_prompt) /\ (Quiet(o) => Quiet(p))
    BY <2>3, <1>1 DEF IsConn, Agrees, Quiet, Silent
  <2>5. QED
    BY <2>2, <2>4, <1>1, OneChanges
<1>4. CASE \E answer \in Answers :
              conn' = [conn EXCEPT ![c].st = "sent", ![c].sent = global_prompt, ![c].rest = answer]
  <2>1. PICK answer \in Answers :
              conn' = [conn EXCEPT ![c].st = "sent", ![c].sent = global_prompt, ![c].rest = answer]
    BY <1>4
  <2>2. PICK p : p = [o EXCEPT !.st = "sent", !.sent = global_prompt, !.rest = answer]
    OBVIOUS
  <2>3. conn' = [conn EXCEPT ![c] = p]
    BY <1>2, <2>1, <2>2
  <2>4. p = [st |-> "sent", rest |-> answer, asked |-> o.asked, sent |-> global_prompt, got |-> o.got,
             disturbed |-> o.disturbed]
    BY <2>2, <1>1
  <2>5. IsConn(p)
    BY <2>4, <1>1, AgentLinkAssumption DEF IsConn
  <2>6. Fitting(<<>>) = <<>>
    <3>1. Len(<<>>) = 0 /\ RxSize \in Nat
      BY AgentLinkAssumption
    <3>2. (IF Len(<<>>) < RxSize THEN Len(<<>>) ELSE RxSize) = 0
      BY <3>1
    <3>3. QED
      BY <3>2 DEF Fitting
  <2>7. Agrees(p, rx_accum, global_prompt) /\ (Quiet(o) => Quiet(p))
    BY <2>4, <2>6, <1>1 DEF Agrees, Quiet, Silent
  <2>8. QED
    BY <2>3, <2>5, <2>7, <1>1, OneChanges
<1>5. QED
  BY <1>3, <1>4 DEF ollama_connected_cb

\* One connection uses the shared buffers, and the others know of it.
LEMMA OneTalks ==
    ASSUME LinkInv, NEW c \in Pcbs, NEW p, IsConn(p), NEW table, table = [conn EXCEPT ![c] = p],
           conn' = Disturbed(table, c), call' = Interrupted,
           Agrees(p, rx_accum', global_prompt'), Quiet(conn[c]) => Quiet(p)
    PROVE  LinkInv'
<1>1. table = [d \in Pcbs |-> IF d = c THEN p ELSE conn[d]]
  BY DEF LinkInv, TableInv, IsTable
<1>2. IsTable(table) /\ table[c] = p
  <2>1. \A d \in Pcbs : table[d] = IF d = c THEN p ELSE conn[d]
    BY <1>1
  <2>2. table = [d \in Pcbs |-> table[d]]
    BY <1>1
  <2>3. QED
    BY <2>1, <2>2 DEF LinkInv, TableInv, IsTable
<1>3. IsTable(conn') /\ conn'[c] = p /\ \A d \in Pcbs : d # c => Quiet(conn'[d])
  BY <1>2, DisturbedQuiet
<1>4. TableInv'
  BY <1>3, QuietAgrees DEF TableInv
<1>5. call.step # "idle" => \A d \in Pcbs : Quiet(conn'[d])
  BY <1>3 DEF LinkInv, CallAgrees
<1>6. QED
  BY <1>4, <1>5, InterruptedAgrees DEF LinkInv

LEMMA SegmentAgrees ==
    ASSUME LinkInv, NEW c \in Pcbs, Segment(c)
    PROVE  LinkInv'
<1> DEFINE o == conn[c]
<1>1. /\ IsConn(o) /\ Agrees(o, rx_accum, global_prompt) /\ o.st = "sent" /\ UNCHANGED global_prompt
      /\ call' = Interrupted
      /\ o = [st |-> o.st, rest |-> o.rest, asked |-> o.asked, sent |-> o.sent, got |-> o.got,
              disturbed |-> o.disturbed]
      /\ o.rest \in Seq(STRING) /\ o.got \in Seq(STRING)
  BY DEF Segment, LinkInv, TableInv, IsTable, IsConn
<1>2. PICK n \in 1 .. Len(o.rest) :
         LET space == RxSize - Len(rx_accum)
         IN  /\ rx_accum' = rx_accum \o SubSeq(o.rest, 1, IF n < space THEN n ELSE space)
             /\ conn' = Arrived(c, n)
  BY DEF Segment
<1> DEFINE rest == SubSeq(o.rest, n + 1, Len(o.rest))
           got == o.got \o SubSeq(o.rest, 1, n)
<1>3. rest \in Seq(STRING) /\ got \in Seq(STRING)
  BY <1>1
<1>4. PICK p : p = [o EXCEPT !.rest = rest, !.got = got]
  OBVIOUS
<1>5. PICK table : table = [conn EXCEPT ![c].rest = SubSeq(@, n + 1, Len(@)),
                                        ![c].got = @ \o SubSeq(conn[c].rest, 1, n)]
  OBVIOUS
<1>6. table = [conn EXCEPT ![c] = p] /\ conn' = Disturbed(table, c)
  <2>1. conn = [d \in Pcbs |-> conn[d]]
    BY DEF LinkInv, TableInv, IsTable
  <2>2. conn' = Disturbed(table, c)
    BY <1>2, <1>5 DEF Arrived
  <2>3. table[c] = [o EXCEPT !.rest = rest, !.got = got] /\ \A d \in Pcbs : d # c => table[d] = conn[d]
    BY <2>1, <1>5
  <2>4. table = [d \in Pcbs |-> table[d]]
    BY <2>1, <1>5
  <2>5. table = [d \in Pcbs |-> IF d = c THEN p ELSE conn[d]]
    BY <2>3, <2>4, <1>4
  <2>6. QED
    BY <2>1, <2>2, <2>5
<1> HIDE DEF rest, got
<1>7. p = [st |-> o.st, rest |-> rest, asked |-> o.asked, sent |-> o.sent, got |-> got,
           disturbed |-> o.disturbed]
  BY <1>1, <1>4
<1>8. IsConn(p)
  BY <1>3, <1>7 DEF IsConn
<1>9. Quiet(o) => Quiet(p)
  BY <1>7 DEF Quiet, Silent
<1>10. ~Quiet(o) => rx_accum' = Fitting(got)
  <2>1. SUFFICES ASSUME ~Quiet(o) PROVE rx_accum' = Fitting(got)
    OBVIOUS
  <2>2. rx_accum = Fitting(o.got)
    BY <2>1, <1>1 DEF Agrees
  <2>3. rx_accum' = Joining(rx_accum, o.rest, n)
    BY <1>2 DEF Joining
  <2> HIDE DEF o
  <2>4. Joining(rx_accum, o.rest, n) = Fitting(o.got \o SubSeq(o.rest, 1, n))
    BY <2>2, <1>1, <1>2, FittingMore
  <2>5. QED
    BY <2>3, <2>4 DEF got
<1>11. Agrees(p, rx_accum', global_prompt')
  <2>1. CASE Quiet(o)
    BY <2>1, <1>9, QuietAgrees
  <2>2. CASE ~Quiet(o)
    BY <2>2, <1>1, <1>7, <1>10 DEF Agrees
  <2>3. QED
    BY <2>1, <2>2
<1>12. QED
  BY <1>1, <1>6, <1>8, <1>9, <1>11, OneTalks

LEMMA ClosesAgrees ==
    ASSUME LinkInv, NEW c \in Pcbs, ServerCloses(c)
    PROVE  LinkInv'
<1> DEFINE p == [Closed EXCEPT !.st = "last_ack"]
           base == [conn EXCEPT ![c] = p]
           table == Disturbed(base, c)
<1>1. IsConn(p) /\ Quiet(p)
  BY FreshConn DEF Quiet
<1>2. /\ conn[c].st \in {"sent", "fin_wait"} /\ Agrees(conn[c], rx_accum, global_prompt)
      /\ call' = Interrupted
  BY DEF ServerCloses, LinkInv, TableInv
<1>3. conn[c].disturbed \/ conn[c].asked = global_prompt
  BY <1>2 DEF Agrees, Quiet, Silent
<1>4. \/ \E cmd : Feedback(table, conn[c].asked, conn[c].disturbed, cmd)
      \/ rx_accum' = <<>> /\ conn' = table /\ UNCHANGED global_prompt
  BY DEF ServerCloses
<1> HIDE DEF p
<1>5. IsTable(base) /\ base[c] = p
  <2>1. base = [d \in Pcbs |-> IF d = c THEN p ELSE conn[d]]
    BY DEF LinkInv, TableInv, IsTable
  <2>2. \A d \in Pcbs : base[d] = IF d = c THEN p ELSE conn[d]
    BY <2>1
  <2>3. base = [d \in Pcbs |-> base[d]]
    BY <2>1
  <2> HIDE DEF base
  <2>4. QED
    BY <2>2, <2>3, <1>1 DEF LinkInv, TableInv, IsTable
<1> HIDE DEF base
<1>6. IsTable(table) /\ \A d \in Pcbs : Quiet(table[d])
  BY <1>1, <1>5, DisturbedQuiet
<1> HIDE DEF table
<1>7. TableInv' /\ (conn[c].disturbed => \A d \in Pcbs : Quiet(conn'[d]))
  <2>1. CASE \E cmd : Feedback(table, conn[c].asked, conn[c].disturbed, cmd)
    BY <1>3, <1>6, <2>1, FeedbackAgrees
  <2>2. CASE rx_accum' = <<>> /\ conn' = table /\ UNCHANGED global_prompt
    BY <1>6, <2>2, QuietAgrees DEF TableInv
  <2>3. QED
    BY <1>4, <2>1, <2>2
<1>8. call.step # "idle" => conn[c].disturbed
  BY <1>2 DEF LinkInv, CallAgrees, Quiet, Silent
<1>9. QED
  BY <1>2, <1>7, <1>8, InterruptedAgrees DEF LinkInv

LEMMA ErrorAgrees ==
    ASSUME LinkInv, NEW c \in Pcbs, ollama_err_cb(c)
    PROVE  LinkInv'
<1>1. IsConn(Closed) /\ Quiet(Closed)
  BY FreshConn DEF Quiet, Silent
<1>2. PICK table : /\ table = [conn EXCEPT ![c] = Closed]
                   /\ conn' = Disturbed(table, c) /\ call' = Interrupted
  BY DEF ollama_err_cb
<1>3. QED
  BY <1>1, <1>2, OneTalks, QuietAgrees

LEMMA LastAckAgrees ==
    ASSUME LinkInv, NEW c \in Pcbs, LastAck(c)
    PROVE  LinkInv'
<1>1. IsConn(Closed) /\ Quiet(Closed)
  BY FreshConn DEF Quiet, Silent
<1>2. conn' = [conn EXCEPT ![c] = Closed] /\ UNCHANGED <<rx_accum, global_prompt, call>>
  BY DEF LastAck
<1>3. QED
  BY <1>1, <1>2, OneChanges, QuietAgrees

-----------------------------------------------------------------------------

\* In every state, every conversation that nobody disturbed and the request that the
\* mainline is making agree with the shared buffers of net_stack.c.
THEOREM LinkInvariant == Spec => []LinkInv
<1>1. Init => LinkInv
  BY InitAgrees
<1>2. LinkInv /\ [Next]_vars => LinkInv'
  <2> SUFFICES ASSUME LinkInv, [Next]_vars PROVE LinkInv'
    OBVIOUS
  <2>1. CASE ollama_request \/ ai_mock
    BY <2>1, RequestAgrees, MockAgrees
  <2>2. CASE WriteTask \/ WriteResult \/ Open
    BY <2>2, WriteTaskAgrees, WriteResultAgrees, OpenAgrees
  <2>3. ASSUME NEW c \in Pcbs, Callback(c) PROVE LinkInv'
    BY <2>3, ConnectedAgrees, SegmentAgrees, ClosesAgrees, ErrorAgrees, LastAckAgrees
       DEF Callback, ollama_recv_cb
  <2>4. CASE UNCHANGED vars
    BY <2>4 DEF vars, LinkInv, TableInv
  <2>5. QED
    BY <2>1, <2>2, <2>3, <2>4 DEF Next, Mainline
<1>3. QED
  BY <1>1, <1>2, PTL DEF Spec

\* ollama_recv_cb gathers the answer whole, as far as rx_accum has room, however it
\* is cut, unless another request or callback used the buffer meanwhile.
THEOREM AnswersGatheredWhole == Spec => []WholeAnswer
<1>1. LinkInv => WholeAnswer
  BY DEF LinkInv, TableInv, Agrees, Quiet, Silent, WholeAnswer, Fitting
<1>2. QED
  BY <1>1, LinkInvariant, PTL

\* ollama_connected_cb sends the task and every result reported for it since, unless
\* another request used the prompt meanwhile.
THEOREM RequestsAskRight == Spec => []RequestIsAsked
<1>1. LinkInv => RequestIsAsked
  BY DEF LinkInv, TableInv, Agrees, Quiet, Silent, RequestIsAsked
<1>2. QED
  BY <1>1, LinkInvariant, PTL

=============================================================================
