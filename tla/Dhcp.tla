-------------------------------- MODULE Dhcp --------------------------------
(***************************************************************************)
(* How the interface gets its address: the DHCP client and AutoIP of lwIP  *)
(* (src/src/net/lwip/src/core/ipv4/dhcp.c and autoip.c), both switched on  *)
(* by include/lwip_port/lwipopts.h, started by rtl8169_init and driven by  *)
(* the timers that the timer interrupt polls.                              *)
(*                                                                         *)
(* Servers and network are an adversary: a request is answered late, often *)
(* or never, with an offer, an acknowledgement or a refusal, and any host  *)
(* may claim any address by ARP.  A datagram lives less than a minute.     *)
(* Time is counted in ticks of the coarse timer, one a minute; every other *)
(* timer runs for a minute at most and may expire at any moment before     *)
(* that.                                                                   *)
(*                                                                         *)
(* Transaction numbers grow with every new request, so answers to an older *)
(* one never match again: only what belongs to the newest number is kept,  *)
(* and the client's copy of the number is that one or the 0 of a new       *)
(* block.  Link-local addresses are one value, "LL": which one is tried is *)
(* left out.  The interface's link never changes after boot, so INIT and   *)
(* REBOOTING are never entered.  Every lease ends, within 19 years, and    *)
(* every ACK names its term; the client always has its block and its port. *)
(***************************************************************************)
EXTENDS Integers, FiniteSets

CONSTANTS
    Addrs,            \* the addresses that servers hand out
    Leases,           \* their terms: t0 and, or -1, T1 and T2, in seconds
    LWIP_DHCP_AUTOIP_COOP_TRIES,
    SelectTries,      \* requests for an offer before starting again, 6
    PROBE_NUM, ANNOUNCE_NUM,
    MaxAnswers,       \* bound: answers under way at a time
    Endings           \* what servers may turn to in the end: "good", "silent"

ASSUME DhcpAssumption ==
    /\ Leases \subseteq [t0 : Nat \ {0}, t1 : Nat \cup {-1}, t2 : Nat \cup {-1}]
    /\ LWIP_DHCP_AUTOIP_COOP_TRIES \in Nat \ {0} /\ SelectTries \in Nat \ {0, 1}
    /\ PROBE_NUM \in Nat \ {0} /\ ANNOUNCE_NUM \in Nat \ {0, 1}
    /\ MaxAnswers \in Nat \ {0}
    /\ Endings \subseteq {"good", "silent"}
    /\ {"none", "LL", "discover"} \cap Addrs = {}

VARIABLES
    dhcp,       \* the client's block
    autoip,     \* AutoIP's block, "NULL" before its allocation
    ip,         \* the interface's address
    asked,      \* what was sent in the newest transaction: "discover", addresses
    answers,    \* answers to it that are under way
    lease,      \* the servers' view: ticks until an address may be given away
    server      \* "any", or from some time on "good" or "silent"

vars == <<dhcp, autoip, ip, asked, answers, lease, server>>

Smaller(a, b) == IF a <= b THEN a ELSE b
Larger(a, b) == IF a >= b THEN a ELSE b

\* More tries than this make no difference.
MaxTries == Larger(SelectTries, LWIP_DHCP_AUTOIP_COOP_TRIES)

\* An answer takes one tick at most, and so does either of the two ARP checks.
Slack == 3

\* timer is "off", "fresh", or "ticked": it runs since before the last coarse tick.
\* same: the block's transaction number is the newest.
NewDhcp ==
    [state |-> "OFF", tries |-> 0, timer |-> "off", same |-> FALSE, offered |-> "none",
     terms |-> [t0 |-> 0, t1 |-> 0, t2 |-> 0], used |-> 0, t0 |-> 0, t2 |-> 0,
     renew |-> 0, rebind |-> 0, coop |-> FALSE]

Init ==
    /\ dhcp = NewDhcp /\ autoip = [state |-> "NULL", sent |-> 0, defended |-> FALSE]
    /\ ip = "none" /\ asked = {} /\ answers = {}
    /\ lease = [a \in Addrs |-> 0]
    /\ server = "any"

\* What the calls below work on.
World == [dhcp |-> dhcp, autoip |-> autoip, ip |-> ip, asked |-> asked, answers |-> answers, lease |-> lease]
Becomes(w) ==
    /\ dhcp' = w.dhcp /\ autoip' = w.autoip /\ ip' = w.ip
    /\ asked' = w.asked /\ answers' = w.answers /\ lease' = w.lease

\* What a call finds memory for, any of its needs or not; in the end there is enough.
AllMemory == {"message", "release", "autoip"}
Memory(needs) == IF server = "any" THEN {AllMemory \ x : x \in SUBSET needs} ELSE {AllMemory}

-----------------------------------------------------------------------------
(* AutoIP.                                                                 *)

autoip_start(w, mem) ==
    IF w.autoip.state = "NULL" /\ "autoip" \notin mem
    THEN [w EXCEPT !.ip = "none"]
    ELSE [w EXCEPT !.ip = "none", !.autoip = [state |-> "PROBING", sent |-> 0, defended |-> FALSE]]

\* Mutant: AutoIP goes on probing.
autoip_stop_GoesOn(w) ==
    IF w.autoip.state = "NULL" THEN w
    ELSE [w EXCEPT !.ip = IF @ = "LL" THEN "none" ELSE @]

autoip_stop(w) ==
    IF w.autoip.state = "NULL" THEN w
    ELSE [w EXCEPT !.autoip.state = "OFF", !.ip = IF @ = "LL" THEN "none" ELSE @]

\* Wherever DHCP takes over from AutoIP.
StopCoop(w) == IF w.dhcp.coop THEN [autoip_stop(w) EXCEPT !.dhcp.coop = FALSE] ELSE w

\* The wait before the next step is over.
AutoipStep(w) ==
    LET a == w.autoip
    IN  CASE a.state = "PROBING" /\ a.sent >= PROBE_NUM ->
               [w EXCEPT !.autoip.state = "ANNOUNCING", !.autoip.sent = 1, !.ip = "LL"]
          [] a.state = "PROBING" /\ a.sent < PROBE_NUM -> [w EXCEPT !.autoip.sent = @ + 1]
          [] a.state = "ANNOUNCING" ->
               IF a.sent + 1 >= ANNOUNCE_NUM
               THEN [w EXCEPT !.autoip.state = "BOUND", !.autoip.sent = 0]
               ELSE [w EXCEPT !.autoip.sent = @ + 1]

\* Somebody else uses our link-local address.
autoip_arp_reply(w, mem) ==
    CASE w.autoip.state \in {"NULL", "OFF"} -> w
      [] w.autoip.state = "PROBING" -> autoip_start(w, mem)
      [] OTHER -> IF w.autoip.defended THEN autoip_start(w, mem)
                  ELSE [w EXCEPT !.autoip.defended = TRUE]

-----------------------------------------------------------------------------
(* Requests.                                                               *)

dhcp_set_state(w, state) ==
    IF w.dhcp.state = state THEN w
    ELSE [w EXCEPT !.dhcp.state = state, !.dhcp.tries = 0, !.dhcp.timer = "off"]

\* A message other than a request takes the newest transaction number, and the
\* first of its kind a new one.
dhcp_create_msg(w, request) ==
    IF request THEN w
    ELSE IF w.dhcp.tries = 0
    THEN [w EXCEPT !.dhcp.same = TRUE, !.asked = {}, !.answers = {}]
    ELSE [w EXCEPT !.dhcp.same = TRUE]

\* The message, if there is memory for it, and what it asks for.
Send(w, request, what, memory) ==
    IF memory THEN [dhcp_create_msg(w, request) EXCEPT !.asked = @ \cup what] ELSE w

Tried(w) == [w EXCEPT !.dhcp.tries = Smaller(@ + 1, MaxTries), !.dhcp.timer = "fresh"]

dhcp_discover(w, mem) ==
    LET s == dhcp_set_state([w EXCEPT !.dhcp.offered = "none"], "SELECTING")
        t == Tried(Send(s, FALSE, {"discover"}, "message" \in mem))
    IN  IF t.dhcp.tries >= LWIP_DHCP_AUTOIP_COOP_TRIES /\ ~t.dhcp.coop
        THEN autoip_start([t EXCEPT !.dhcp.coop = TRUE], mem) ELSE t

dhcp_select(w, mem) ==
    Tried(Send(dhcp_set_state(w, "REQUESTING"), TRUE, {w.dhcp.offered}, "message" \in mem))

dhcp_check(w) == Tried(dhcp_set_state(w, "CHECKING"))

dhcp_decline(w, mem) == Tried(Send(dhcp_set_state(w, "BACKING_OFF"), FALSE, {}, "message" \in mem))

\* Both ask for the interface's own address, and go to the server or to all.
dhcp_renew(w, mem) ==
    Tried(Send(dhcp_set_state(w, "RENEWING"), TRUE, {w.ip} \cap Addrs, "message" \in mem))
dhcp_rebind(w, mem) ==
    Tried(Send(dhcp_set_state(w, "REBINDING"), TRUE, {w.ip} \cap Addrs, "message" \in mem))

dhcp_supplied_address(w) == w.dhcp.state \in {"BOUND", "RENEWING", "REBINDING"}

\* The release ends the lease for the server, too.
dhcp_release_and_stop(w, mem) ==
    LET c == [w EXCEPT !.dhcp.offered = "none", !.dhcp.renew = 0, !.dhcp.rebind = 0,
                       !.dhcp.used = 0, !.dhcp.t0 = 0]
        s == dhcp_set_state(c, "OFF")
        r == IF "release" \in mem
             THEN [Send(s, FALSE, {}, TRUE) EXCEPT !.lease = [a \in Addrs |-> IF a = w.ip THEN 0 ELSE @[a]]]
             ELSE s
    IN  StopCoop(IF dhcp_supplied_address(w) THEN [r EXCEPT !.ip = "none"] ELSE s)

dhcp_start(w, mem) == dhcp_discover([w EXCEPT !.dhcp = NewDhcp], mem)

\* The lease ended, or no offer was confirmed: all over again.
Restart(w, mem) == dhcp_start(dhcp_release_and_stop(w, mem), mem)

-----------------------------------------------------------------------------
(* Answers.                                                                *)

\* Seconds to ticks, at least one.
Ticks(secs) == Larger(1, Smaller((secs + 30) \div 60, 65535))

dhcp_handle_ack(w, m) ==
    [w EXCEPT !.dhcp.offered = m.addr,
              !.dhcp.terms = [t0 |-> m.terms.t0,
                              t1 |-> IF m.terms.t1 >= 0 THEN m.terms.t1 ELSE m.terms.t0 \div 2,
                              t2 |-> IF m.terms.t2 >= 0 THEN m.terms.t2 ELSE (7 * m.terms.t0) \div 8]]

dhcp_bind(w) ==
    LET terms == w.dhcp.terms
        b == StopCoop([w EXCEPT !.dhcp.used = 0, !.dhcp.t0 = Ticks(terms.t0), !.dhcp.t2 = Ticks(terms.t2),
                                !.dhcp.renew = Ticks(terms.t1), !.dhcp.rebind = Ticks(terms.t2)])
    IN  [dhcp_set_state(b, "BOUND") EXCEPT !.ip = w.dhcp.offered]

dhcp_handle_nak(w, mem) ==
    dhcp_discover([dhcp_set_state(w, "BACKING_OFF") EXCEPT !.ip = "none"], mem)

dhcp_handle_offer(w, m, mem) ==
    dhcp_select([w EXCEPT !.dhcp.timer = "off", !.dhcp.offered = m.addr], mem)

\* Message m has the block's transaction number.
Handle(w, m, mem) ==
    LET st == w.dhcp.state
    IN  CASE m.type = "ACK" /\ st = "REQUESTING" -> dhcp_check(dhcp_handle_ack(w, m))
          [] m.type = "ACK" /\ st \in {"REBINDING", "RENEWING"} -> dhcp_bind(dhcp_handle_ack(w, m))
          [] m.type = "NAK" /\ st \in {"REQUESTING", "REBINDING", "RENEWING"} -> dhcp_handle_nak(w, mem)
          [] m.type = "OFFER" /\ st = "SELECTING" -> dhcp_handle_offer(w, m, mem)
          [] OTHER -> w

\* In CHECKING: another host has the offered address.
dhcp_arp_reply(w, addr, mem) ==
    IF w.dhcp.state = "CHECKING" /\ addr = w.dhcp.offered THEN dhcp_decline(w, mem) ELSE w

-----------------------------------------------------------------------------
(* Timers.                                                                 *)

\* Mutant: an offer that nobody confirms is never given up.
dhcp_timeout_NoRestart(w, mem) ==
    LET d == w.dhcp
    IN  CASE d.state \in {"BACKING_OFF", "SELECTING"} -> dhcp_discover(w, mem)
          [] d.state = "REQUESTING" -> IF d.tries < SelectTries THEN dhcp_select(w, mem) ELSE w
          [] d.state = "CHECKING" -> IF d.tries <= 1 THEN dhcp_check(w) ELSE dhcp_bind(w)
          [] OTHER -> w

dhcp_timeout(w, mem) ==
    LET d == w.dhcp
    IN  CASE d.state \in {"BACKING_OFF", "SELECTING"} -> dhcp_discover(w, mem)
          [] d.state = "REQUESTING" -> IF d.tries < SelectTries THEN dhcp_select(w, mem) ELSE Restart(w, mem)
          [] d.state = "CHECKING" -> IF d.tries <= 1 THEN dhcp_check(w) ELSE dhcp_bind(w)
          [] OTHER -> w

dhcp_t1_timeout(w, mem) ==
    LET r == dhcp_renew(w, mem)
        half == (w.dhcp.t2 - w.dhcp.used) \div 2
    IN  IF w.dhcp.state \in {"REQUESTING", "BOUND", "RENEWING"}
        THEN IF half >= 1 THEN [r EXCEPT !.dhcp.renew = half] ELSE r
        ELSE w

dhcp_t2_timeout(w, mem) ==
    LET r == dhcp_rebind(w, mem)
        half == (w.dhcp.t0 - w.dhcp.used) \div 2
    IN  IF w.dhcp.state \in {"REQUESTING", "BOUND", "RENEWING", "REBINDING"}
        THEN IF half >= 1 THEN [r EXCEPT !.dhcp.rebind = half] ELSE r
        ELSE w

\* Mutant: the ticks are compared before this one is counted.
LeaseEnds_Late(d) == d.t0 # 0 /\ d.used = d.t0

LeaseEnds(d) == d.t0 # 0 /\ d.used + 1 = d.t0

\* The lease is over, or the time to rebind or to renew has come.
CoarseTick(w, mem) ==
    LET d == w.dhcp
        u == [w EXCEPT !.dhcp.used = IF d.t0 # 0 THEN @ + 1 ELSE @]
        r == [u EXCEPT !.dhcp.rebind = Larger(@ - 1, 0)]
        n == [r EXCEPT !.dhcp.renew = Larger(@ - 1, 0)]
    IN  CASE LeaseEnds(d) -> Restart(u, mem)
          [] ~LeaseEnds(d) /\ d.rebind = 1 -> dhcp_t2_timeout(r, mem)
          [] ~LeaseEnds(d) /\ d.rebind # 1 /\ d.renew = 1 -> dhcp_t1_timeout(n, mem)
          [] OTHER -> n

-----------------------------------------------------------------------------
(* Actions.                                                                *)

\* rtl8169_init.
Boot(mem) == dhcp.state = "OFF" /\ Becomes(dhcp_start(World, mem)) /\ UNCHANGED server

dhcp_fine_tmr(mem) ==
    /\ dhcp.timer # "off"
    /\ Becomes(dhcp_timeout([World EXCEPT !.dhcp.timer = "off"], mem))
    /\ UNCHANGED server

\* A minute has passed: a timer that ran already at the last tick has expired, and
\* answers sent before it are gone.
dhcp_coarse_tmr(mem) ==
    /\ dhcp.state # "OFF" /\ dhcp.timer # "ticked"
    /\ LET w == [World EXCEPT !.dhcp.timer = IF @ = "off" THEN @ ELSE "ticked",
                              !.answers = {[m EXCEPT !.old = TRUE] : m \in {x \in @ : ~x.old}},
                              !.lease = [a \in Addrs |-> Larger(@[a] - 1, -Slack)]]
       IN  Becomes(CoarseTick(w, mem))
    /\ UNCHANGED server

\* ttw has run down to 0 (step), or lastconflict has (calm).
autoip_tmr(step, calm) ==
    /\ step \/ calm
    /\ step => autoip.state \in {"PROBING", "ANNOUNCING"}
    /\ calm => autoip.defended
    /\ LET w == IF calm THEN [World EXCEPT !.autoip.defended = FALSE] ELSE World
       IN  Becomes(IF step THEN AutoipStep(w) ELSE w)
    /\ UNCHANGED server

dhcp_recv(m, mem) ==
    /\ m \in answers /\ dhcp.same
    /\ Becomes([Handle(World, m, mem) EXCEPT !.answers = @ \ {m}])
    /\ UNCHANGED server

\* An ARP packet of a host that has this address, to AutoIP first.
etharp_input(addr, mem) ==
    /\ server = "any"
    /\ Becomes(IF addr = "LL" THEN autoip_arp_reply(World, mem) ELSE dhcp_arp_reply(World, addr, mem))
    /\ UNCHANGED server

Answer(type, addr, terms) == [type |-> type, addr |-> addr, terms |-> terms, old |-> FALSE]
NoTerms == [t0 |-> 1, t1 |-> -1, t2 |-> -1]

\* What a server may answer to what was asked in the newest transaction.
Answerable(m) ==
    CASE m.type = "OFFER" -> "discover" \in asked
      [] m.type = "ACK" -> m.addr \in asked
      [] m.type = "NAK" -> asked # {}

Granted(m) == IF m.type = "ACK" THEN [lease EXCEPT ![m.addr] = Larger(@, Ticks(m.terms.t0))] ELSE lease

Offers == {Answer("OFFER", a, NoTerms) : a \in Addrs}
Acks == {Answer("ACK", a, t) : a \in Addrs, t \in Leases}
Naks == {Answer("NAK", "none", NoTerms)}

ServerAnswers ==
    /\ server = "any" /\ Cardinality(answers) < MaxAnswers
    /\ \E m \in Offers \cup Acks \cup Naks :
          Answerable(m) /\ answers' = answers \cup {m} /\ lease' = Granted(m)
    /\ UNCHANGED <<dhcp, autoip, ip, asked, server>>

\* The answer of a good server takes no time.
GoodAnswer(messages) ==
    /\ server = "good" /\ dhcp.same
    /\ \E m \in messages :
          /\ Answerable(m)
          /\ LET w == [World EXCEPT !.lease = Granted(m)]
             IN  Handle(w, m, AllMemory) # w /\ Becomes(Handle(w, m, AllMemory))
    /\ UNCHANGED server

\* From now on servers answer, refuse nothing and no other host has their
\* addresses; or nobody answers.  What is still under way has arrived before.
ServerTurns ==
    /\ server = "any" /\ answers = {} /\ server' \in Endings
    /\ UNCHANGED <<dhcp, autoip, ip, asked, answers, lease>>

Timers ==
    \/ \E mem \in Memory({"message", "autoip"}) : dhcp_fine_tmr(mem)
    \/ \E mem \in Memory(AllMemory) : dhcp_coarse_tmr(mem)
    \/ \E step, calm \in BOOLEAN : autoip_tmr(step, calm)

Next ==
    \/ \E mem \in Memory({"message", "autoip"}) : Boot(mem)
    \/ Timers
    \/ \E m \in answers, mem \in Memory({"message", "autoip"}) : dhcp_recv(m, mem)
    \/ \E addr \in Addrs \cup {"LL"}, mem \in Memory({"message"}) : etharp_input(addr, mem)
    \/ ServerAnswers
    \/ GoodAnswer(Offers)
    \/ GoodAnswer(Acks)
    \/ ServerTurns

-----------------------------------------------------------------------------
\* The timers run for ever, which need be assumed only once the server has turned.
\* A good server's answers arrive again and again while the client waits for them.
Fairness ==
    /\ WF_vars(server # "any" /\ (Boot(AllMemory) \/ dhcp_fine_tmr(AllMemory)))
    /\ WF_vars(server # "any" /\ dhcp_coarse_tmr(AllMemory))
    /\ WF_vars(server # "any" /\ autoip_tmr(TRUE, FALSE))
    /\ SF_vars(GoodAnswer(Offers))
    /\ SF_vars(GoodAnswer(Acks))
Spec == Init /\ [][Next]_vars /\ Fairness

-----------------------------------------------------------------------------
(* Properties.                                                             *)

\* The interface's address has one owner who still stands by it: a server's address
\* belongs to a bound client while AutoIP is off, a link-local one to AutoIP, which
\* the client has called in.
OneOwner ==
    /\ ip \in Addrs => dhcp.state \in {"BOUND", "RENEWING", "REBINDING"} /\ autoip.state \in {"NULL", "OFF"}
    /\ ip = "LL" => autoip.state \in {"ANNOUNCING", "BOUND"} /\ dhcp.coop

\* An address is not used three minutes or more after its lease: whatever was renewed,
\* refused, repeated or late, the interface has a server's address only while that
\* server keeps it, give or take the minutes that a late answer and two ARP checks take.
LeaseHonoured == ip \in Addrs => lease[ip] > -Slack

\* From any state, with a good server the client gets an address of the server.
GetsLease == server = "good" ~> ip \in Addrs

\* Without a server the interface gets a link-local address, if there was memory for
\* AutoIP.
FallsBack == server = "silent" ~> ip # "none" \/ autoip.state = "NULL"

=============================================================================
