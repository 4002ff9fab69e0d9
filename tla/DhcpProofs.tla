----------------------------- MODULE DhcpProofs -----------------------------
(***************************************************************************)
(* The safety properties of Dhcp, for any number of addresses, any leases  *)
(* and any number of answers under way.                                    *)
(*                                                                         *)
(* Every call of the model maps a world (what World gathers) to a world,   *)
(* so the inductive invariant is a predicate on worlds, and each call has  *)
(* a lemma that says it maps a sound world to a sound one.  It says more   *)
(* than the two properties: AutoIP works only while the client has called  *)
(* it in, every acknowledgement under way is backed by a lease less the    *)
(* minute it may have travelled, an address that is being checked is       *)
(* backed by its lease less one minute for the answer and one for every    *)
(* check, and a bound client has counted all but three of the minutes that *)
(* its lease has run.                                                      *)
(***************************************************************************)
EXTENDS Dhcp, TLAPS

(* Worlds.                                                                 *)

\* The block has its fields, and the world too.
IsBlock(d) ==
    d = [state |-> d.state, tries |-> d.tries, timer |-> d.timer, same |-> d.same, offered |-> d.offered,
         terms |-> d.terms, used |-> d.used, t0 |-> d.t0, t2 |-> d.t2, renew |-> d.renew,
         rebind |-> d.rebind, coop |-> d.coop]

IsWorld(w) ==
    /\ w = [dhcp |-> w.dhcp, autoip |-> w.autoip, ip |-> w.ip, asked |-> w.asked,
            answers |-> w.answers, lease |-> w.lease]
    /\ IsBlock(w.dhcp)
    /\ w.autoip = [state |-> w.autoip.state, sent |-> w.autoip.sent, defended |-> w.autoip.defended]

\* AutoIP holds no address and works on none.
Inactive(w) == w.autoip.state \in {"NULL", "OFF"}

\* The numbers that the calls compare are numbers.
Typed(w) ==
    /\ w.dhcp.used \in Nat /\ w.dhcp.t0 \in Nat /\ w.autoip.sent \in Nat
    /\ w.lease \in [Addrs -> Int]

\* AutoIP works only while the client has called it in, and a link-local address is its own.
AutoipCalled(w) ==
    /\ Inactive(w) \/ w.dhcp.coop
    /\ w.ip = "LL" => w.autoip.state \in {"ANNOUNCING", "BOUND"}

\* A server's address belongs to a bound client that has sent AutoIP away.
Owned(w) ==
    /\ w.ip \in Addrs => dhcp_supplied_address(w) /\ ~w.dhcp.coop
    /\ w.dhcp.state = "OFF" => ~w.dhcp.coop

\* Message m is what a server may have sent, and the server stands by an acknowledgement.
StoodBy(w, m) ==
    /\ m = [type |-> m.type, addr |-> m.addr, terms |-> m.terms, old |-> m.old]
    /\ m.old \in BOOLEAN
    /\ m.type = "ACK" => /\ m.addr \in Addrs /\ m.terms.t0 \in Nat
                         /\ w.lease[m.addr] >= Ticks(m.terms.t0) - (IF m.old THEN 1 ELSE 0)

\* Servers stand by all that is under way.
Promised(w) == \A m \in w.answers : StoodBy(w, m)

\* The lease is not over, for the client first and for the server Slack ticks later.
Kept(w) == w.ip \in Addrs => w.dhcp.used < w.dhcp.t0 /\ w.lease[w.ip] >= w.dhcp.t0 - Slack - w.dhcp.used

\* The address that is checked stays granted for the rest of the checks.
Checked(w) ==
    w.dhcp.state = "CHECKING" =>
        /\ w.dhcp.offered \in Addrs /\ w.dhcp.terms.t0 \in Nat
        /\ w.dhcp.tries \in {1, 2} /\ w.dhcp.timer \in {"fresh", "ticked"}
        /\ w.lease[w.dhcp.offered] >= Ticks(w.dhcp.terms.t0) - w.dhcp.tries
                                       - (IF w.dhcp.timer = "ticked" THEN 1 ELSE 0)

\* What every call keeps, and with the rest the invariant.
Base(w) == IsWorld(w) /\ Typed(w) /\ AutoipCalled(w) /\ Promised(w)
Sound(w) == Base(w) /\ Owned(w) /\ Kept(w) /\ Checked(w)

\* The calls that leave the address, its owners and the lease alone.
Carried(w, r) ==
    /\ IsWorld(r) /\ r.ip = w.ip /\ r.autoip = w.autoip /\ r.lease = w.lease
    /\ r.answers \subseteq w.answers
    /\ r.dhcp.offered = w.dhcp.offered /\ r.dhcp.terms = w.dhcp.terms
    /\ r.dhcp.used = w.dhcp.used /\ r.dhcp.t0 = w.dhcp.t0 /\ r.dhcp.coop = w.dhcp.coop

\* dhcp_set_state takes the new state, and the count of tries starts again if it is new.
LEMMA SetState ==
    ASSUME NEW w, IsWorld(w), NEW st
    PROVE  LET r == dhcp_set_state(w, st)
           IN  /\ Carried(w, r) /\ r.answers = w.answers /\ r.dhcp.state = st
               /\ r.dhcp.tries = IF w.dhcp.state = st THEN w.dhcp.tries ELSE 0
<1> DEFINE r == dhcp_set_state(w, st)
           d == w.dhcp
<1>1. CASE w.dhcp.state = st
  BY <1>1 DEF dhcp_set_state, Carried
<1>2. CASE w.dhcp.state # st
  <2>1. r = [w EXCEPT !.dhcp.state = st, !.dhcp.tries = 0, !.dhcp.timer = "off"]
    BY <1>2 DEF dhcp_set_state
  <2> HIDE DEF r
  <2>2. r = [dhcp |-> r.dhcp, autoip |-> w.autoip, ip |-> w.ip, asked |-> w.asked,
             answers |-> w.answers, lease |-> w.lease]
    BY <2>1 DEF IsWorld
  <2>3. r.dhcp = [w.dhcp EXCEPT !.state = st, !.tries = 0, !.timer = "off"]
    BY <2>1 DEF IsWorld
  <2>4. r.dhcp = [state |-> st, tries |-> 0, timer |-> "off", same |-> d.same, offered |-> d.offered,
                  terms |-> d.terms, used |-> d.used, t0 |-> d.t0, t2 |-> d.t2, renew |-> d.renew,
                  rebind |-> d.rebind, coop |-> d.coop]
    BY <2>3 DEF IsWorld, IsBlock
  <2>5. IsWorld(r)
    BY <2>2, <2>4 DEF IsWorld, IsBlock
  <2>6. QED
    BY <2>2, <2>4, <2>5, <1>2 DEF r, Carried
<1>3. QED
  BY <1>1, <1>2

\* Send forgets older answers and touches nothing else; the first message of a kind forgets all.
LEMMA Sends ==
    ASSUME NEW w, IsWorld(w), NEW request, NEW what, NEW memory
    PROVE  LET r == Send(w, request, what, memory)
           IN  /\ Carried(w, r) /\ r.dhcp.state = w.dhcp.state /\ r.dhcp.tries = w.dhcp.tries
               /\ memory /\ ~request /\ w.dhcp.tries = 0 => r.answers = {}
<1> DEFINE c == dhcp_create_msg(w, request)
           r == Send(w, request, what, memory)
           d == w.dhcp
<1>1. Carried(w, w)
  BY DEF Carried
<1>2. ASSUME NEW q, q = [w EXCEPT !.dhcp.same = TRUE] PROVE Carried(w, q) /\ q.dhcp.state = d.state /\ q.dhcp.tries = d.tries
  <2>1. q = [dhcp |-> q.dhcp, autoip |-> w.autoip, ip |-> w.ip, asked |-> w.asked,
             answers |-> w.answers, lease |-> w.lease]
    BY <1>2 DEF IsWorld
  <2>2. q.dhcp = [w.dhcp EXCEPT !.same = TRUE]
    BY <1>2 DEF IsWorld
  <2>3. q.dhcp = [state |-> d.state, tries |-> d.tries, timer |-> d.timer, same |-> TRUE, offered |-> d.offered,
                  terms |-> d.terms, used |-> d.used, t0 |-> d.t0, t2 |-> d.t2, renew |-> d.renew,
                  rebind |-> d.rebind, coop |-> d.coop]
    BY <2>2 DEF IsWorld, IsBlock
  <2>4. IsWorld(q)
    BY <2>1, <2>3 DEF IsWorld, IsBlock
  <2>5. QED
    BY <2>1, <2>3, <2>4 DEF Carried
<1>3. ASSUME NEW q, q = [w EXCEPT !.dhcp.same = TRUE, !.asked = {}, !.answers = {}]
      PROVE  Carried(w, q) /\ q.dhcp.state = d.state /\ q.dhcp.tries = d.tries /\ q.answers = {}
  <2>1. q = [dhcp |-> q.dhcp, autoip |-> w.autoip, ip |-> w.ip, asked |-> {},
             answers |-> {}, lease |-> w.lease]
    BY <1>3 DEF IsWorld
  <2>2. q.dhcp = [w.dhcp EXCEPT !.same = TRUE]
    BY <1>3 DEF IsWorld
  <2>3. q.dhcp = [state |-> d.state, tries |-> d.tries, timer |-> d.timer, same |-> TRUE, offered |-> d.offered,
                  terms |-> d.terms, used |-> d.used, t0 |-> d.t0, t2 |-> d.t2, renew |-> d.renew,
                  rebind |-> d.rebind, coop |-> d.coop]
    BY <2>2 DEF IsWorld, IsBlock
  <2>4. IsWorld(q)
    BY <2>1, <2>3 DEF IsWorld, IsBlock
  <2>5. QED
    BY <2>1, <2>3, <2>4 DEF Carried
<1>4. /\ Carried(w, c) /\ c.dhcp.state = d.state /\ c.dhcp.tries = d.tries
      /\ ~request /\ d.tries = 0 => c.answers = {}
  BY <1>1, <1>2, <1>3 DEF dhcp_create_msg
<1> HIDE DEF c
<1>5. ASSUME NEW q, q = [c EXCEPT !.asked = @ \cup what]
      PROVE  Carried(w, q) /\ q.dhcp = c.dhcp /\ q.answers = c.answers
  <2>1. q = [dhcp |-> c.dhcp, autoip |-> c.autoip, ip |-> c.ip, asked |-> q.asked,
             answers |-> c.answers, lease |-> c.lease]
    BY <1>4, <1>5 DEF Carried, IsWorld
  <2>2. IsWorld(q)
    BY <2>1, <1>4 DEF IsWorld, Carried
  <2>3. QED
    BY <2>1, <2>2, <1>4 DEF Carried
<1>6. r = IF memory THEN [c EXCEPT !.asked = @ \cup what] ELSE w
  BY DEF Send, c
<1> HIDE DEF r
<1>7. QED
  BY <1>1, <1>4, <1>5, <1>6 DEF r

\* Tried counts and starts the timer.
LEMMA Tries ==
    ASSUME NEW w, IsWorld(w)
    PROVE  LET r == Tried(w)
           IN  /\ Carried(w, r) /\ r.dhcp.state = w.dhcp.state
               /\ r.dhcp.tries = Smaller(w.dhcp.tries + 1, MaxTries) /\ r.dhcp.timer = "fresh"
<1> DEFINE r == Tried(w)
           d == w.dhcp
<1>1. r = [w EXCEPT !.dhcp.tries = Smaller(@ + 1, MaxTries), !.dhcp.timer = "fresh"]
  BY DEF Tried
<1> HIDE DEF r
<1>2. r = [dhcp |-> r.dhcp, autoip |-> w.autoip, ip |-> w.ip, asked |-> w.asked,
           answers |-> w.answers, lease |-> w.lease]
  BY <1>1 DEF IsWorld
<1>3. r.dhcp = [w.dhcp EXCEPT !.tries = Smaller(@ + 1, MaxTries), !.timer = "fresh"]
  BY <1>1 DEF IsWorld
<1>4. r.dhcp = [state |-> d.state, tries |-> Smaller(d.tries + 1, MaxTries), timer |-> "fresh", same |-> d.same,
                offered |-> d.offered, terms |-> d.terms, used |-> d.used, t0 |-> d.t0, t2 |-> d.t2,
                renew |-> d.renew, rebind |-> d.rebind, coop |-> d.coop]
  BY <1>3 DEF IsWorld, IsBlock
<1>5. IsWorld(r)
  BY <1>2, <1>4 DEF IsWorld, IsBlock
<1>6. QED
  BY <1>2, <1>4, <1>5 DEF r, Carried

\* Every request: a new state, a message and a timer.
LEMMA Requests ==
    ASSUME NEW w, IsWorld(w), NEW st, NEW request, NEW what, NEW memory
    PROVE  LET r == Tried(Send(dhcp_set_state(w, st), request, what, memory))
           IN  Carried(w, r) /\ r.dhcp.state = st /\ r.dhcp.timer = "fresh"
<1> DEFINE a == dhcp_set_state(w, st)
           b == Send(a, request, what, memory)
           r == Tried(b)
<1>1. Carried(w, a) /\ a.dhcp.state = st
  BY SetState
<1> HIDE DEF a
<1>2. Carried(a, b) /\ b.dhcp.state = st
  BY <1>1, Sends DEF Carried
<1> HIDE DEF b
<1>3. Carried(b, r) /\ r.dhcp.state = st /\ r.dhcp.timer = "fresh"
  BY <1>2, Tries DEF Carried
<1> HIDE DEF r
<1>4. Carried(w, r)
  BY <1>1, <1>2, <1>3 DEF Carried
<1>5. QED
  BY <1>3, <1>4 DEF r, b, a

\* A request, and a message of any other kind.
Asks(w, st, what, mem) == Tried(Send(dhcp_set_state(w, st), TRUE, what, "message" \in mem))
Tells(w, st, what, mem) == Tried(Send(dhcp_set_state(w, st), FALSE, what, "message" \in mem))

\* The same for the two kinds of message, with memory for it or not.
LEMMA Messages ==
    ASSUME NEW w, IsWorld(w), NEW st, NEW what, NEW mem
    PROVE  /\ LET r == Asks(w, st, what, mem)
              IN  Carried(w, r) /\ r.dhcp.state = st /\ r.dhcp.timer = "fresh"
           /\ LET r == Tells(w, st, what, mem)
              IN  Carried(w, r) /\ r.dhcp.state = st /\ r.dhcp.timer = "fresh"
<1>1. PICK m, no, yes : m = ("message" \in mem) /\ no = FALSE /\ yes = TRUE
  OBVIOUS
<1> DEFINE u(q) == Tried(Send(dhcp_set_state(w, st), q, what, m))
<1>2. \A q : Carried(w, u(q)) /\ u(q).dhcp.state = st /\ u(q).dhcp.timer = "fresh"
  BY Requests
<1>3. u(no) = Tells(w, st, what, mem) /\ u(yes) = Asks(w, st, what, mem)
  BY <1>1 DEF Asks, Tells
<1> HIDE DEF u
<1>4. QED
  BY <1>2, <1>3

\* A call that carries everything along keeps what every call keeps.
LEMMA Carries ==
    ASSUME NEW w, Base(w), NEW r, Carried(w, r)
    PROVE  Base(r) /\ (Kept(w) => Kept(r))
<1>1. Typed(r) /\ AutoipCalled(r) /\ IsWorld(r)
  BY DEF Base, Carried, Typed, AutoipCalled, Inactive
<1>2. Promised(r)
  BY DEF Base, Carried, Promised, StoodBy
<1>3. Kept(w) => Kept(r)
  BY DEF Carried, Kept
<1>4. QED
  BY <1>1, <1>2, <1>3 DEF Base

\* A world without a server's address is sound once the client asks for one.
LEMMA Free ==
    ASSUME NEW w, Base(w), w.ip \notin Addrs, w.dhcp.state \notin {"OFF", "CHECKING"}
    PROVE  Sound(w)
  BY DEF Sound, Owned, Kept, Checked

\* autoip_start leaves the interface without an address, whether it finds memory or not.
LEMMA AutoipStarts ==
    ASSUME NEW w, IsWorld(w), Typed(w), Promised(w), w.dhcp.coop, NEW mem
    PROVE  LET r == autoip_start(w, mem) IN Base(r) /\ r.ip = "none" /\ r.dhcp = w.dhcp
<1> DEFINE r == autoip_start(w, mem)
<1>1. \/ r = [w EXCEPT !.ip = "none"] /\ w.autoip.state = "NULL"
      \/ r = [w EXCEPT !.ip = "none", !.autoip = [state |-> "PROBING", sent |-> 0, defended |-> FALSE]]
  BY DEF autoip_start
<1> HIDE DEF r
<1>2. /\ r = [dhcp |-> w.dhcp, autoip |-> r.autoip, ip |-> "none", asked |-> w.asked,
             answers |-> w.answers, lease |-> w.lease]
      /\ r.autoip \in {w.autoip, [state |-> "PROBING", sent |-> 0, defended |-> FALSE]}
  BY <1>1 DEF IsWorld
<1>3. IsWorld(r) /\ Typed(r)
  BY <1>2 DEF IsWorld, Typed
<1>4. AutoipCalled(r)
  BY <1>2 DEF AutoipCalled
<1>5. Promised(r)
  BY <1>2 DEF Promised, StoodBy
<1>6. QED
  BY <1>2, <1>3, <1>4, <1>5 DEF r, Base

\* dhcp_discover, from a world without a server's address.
LEMMA Discovers ==
    ASSUME NEW w, Base(w), w.ip \notin Addrs, NEW mem
    PROVE  Sound(dhcp_discover(w, mem))
<1> DEFINE q == [w EXCEPT !.dhcp.offered = "none"]
           t == Tells(q, "SELECTING", {"discover"}, mem)
           r == dhcp_discover(w, mem)
           d == w.dhcp
<1>1. /\ IsWorld(q) /\ q.ip = w.ip /\ q.autoip = w.autoip /\ q.lease = w.lease /\ q.answers = w.answers
      /\ q.dhcp.used = w.dhcp.used /\ q.dhcp.t0 = w.dhcp.t0 /\ q.dhcp.coop = w.dhcp.coop
  <2>1. PICK p : p = q
    OBVIOUS
  <2> HIDE DEF q
  <2>2. p = [w EXCEPT !.dhcp.offered = "none"]
    BY <2>1 DEF q
  <2>3. p = [dhcp |-> p.dhcp, autoip |-> w.autoip, ip |-> w.ip, asked |-> w.asked,
             answers |-> w.answers, lease |-> w.lease]
    BY <2>2 DEF IsWorld, Base
  <2>4. p.dhcp = [w.dhcp EXCEPT !.offered = "none"]
    BY <2>2 DEF IsWorld, Base
  <2>5. p.dhcp = [state |-> d.state, tries |-> d.tries, timer |-> d.timer, same |-> d.same, offered |-> "none",
                  terms |-> d.terms, used |-> d.used, t0 |-> d.t0, t2 |-> d.t2, renew |-> d.renew,
                  rebind |-> d.rebind, coop |-> d.coop]
    BY <2>4 DEF IsWorld, IsBlock, Base
  <2>6. IsWorld(p)
    BY <2>3, <2>5 DEF IsWorld, IsBlock, Base
  <2>7. QED
    BY <2>1, <2>3, <2>5, <2>6
<1> HIDE DEF q
<1>2. Base(q)
  BY <1>1 DEF Base, Typed, AutoipCalled, Inactive, Promised, StoodBy
<1>3. Carried(q, t) /\ t.dhcp.state = "SELECTING"
  BY <1>1, Messages
<1>4. r = IF t.dhcp.tries >= LWIP_DHCP_AUTOIP_COOP_TRIES /\ ~t.dhcp.coop
          THEN autoip_start([t EXCEPT !.dhcp.coop = TRUE], mem) ELSE t
  BY DEF dhcp_discover, q, Tells
<1> SUFFICES Sound(r)
  BY DEF r
<1> HIDE DEF t, r
<1>5. Base(t) /\ t.ip \notin Addrs
  BY <1>1, <1>2, <1>3, Carries DEF Carried
<1>6. CASE r = t
  BY <1>3, <1>5, <1>6, Free
<1>7. CASE r = autoip_start([t EXCEPT !.dhcp.coop = TRUE], mem)
  <2>1. PICK p : p = [t EXCEPT !.dhcp.coop = TRUE]
    OBVIOUS
  <2>2. p = [dhcp |-> p.dhcp, autoip |-> t.autoip, ip |-> t.ip, asked |-> t.asked,
             answers |-> t.answers, lease |-> t.lease]
    BY <2>1, <1>5 DEF IsWorld, Base
  <2>3. p.dhcp = [t.dhcp EXCEPT !.coop = TRUE]
    BY <2>1, <1>5 DEF IsWorld, Base
  <2> DEFINE e == t.dhcp
  <2>4. p.dhcp = [state |-> e.state, tries |-> e.tries, timer |-> e.timer, same |-> e.same, offered |-> e.offered,
                  terms |-> e.terms, used |-> e.used, t0 |-> e.t0, t2 |-> e.t2, renew |-> e.renew,
                  rebind |-> e.rebind, coop |-> TRUE]
    BY <2>3, <1>5 DEF IsWorld, IsBlock, Base
  <2>5. IsWorld(p)
    BY <2>2, <2>4, <1>5 DEF IsWorld, IsBlock, Base
  <2>6. Typed(p) /\ Promised(p)
    BY <2>2, <2>4, <1>5 DEF Typed, Promised, StoodBy, Base
  <2>7. Base(r) /\ r.ip = "none" /\ r.dhcp = p.dhcp
    <3>1. r = autoip_start(p, mem)
      BY <1>7, <2>1
    <3>2. p.dhcp.coop
      BY <2>4
    <3>3. QED
      BY <3>1, <3>2, <2>5, <2>6, AutoipStarts, Zenon
  <2>8. r.ip \notin Addrs /\ r.dhcp.state = "SELECTING"
    BY <2>7, <2>4, <1>3, DhcpAssumption DEF DhcpAssumption
  <2>9. QED
    BY <2>7, <2>8, Free
<1>8. QED
  BY <1>4, <1>6, <1>7

\* StopCoop leaves AutoIP off and no link-local address.
LEMMA StopsCoop ==
    ASSUME NEW w, Base(w)
    PROVE  LET r == StopCoop(w)
           IN  /\ Base(r) /\ Inactive(r) /\ ~r.dhcp.coop
               /\ r.ip \in {w.ip, "none"} /\ r.ip # "LL"
               /\ r.lease = w.lease /\ r.answers = w.answers
               /\ r.dhcp.state = w.dhcp.state /\ r.dhcp.offered = w.dhcp.offered
               /\ r.dhcp.terms = w.dhcp.terms
               /\ r.dhcp.used = w.dhcp.used /\ r.dhcp.t0 = w.dhcp.t0
<1> DEFINE r == StopCoop(w)
           a == autoip_stop(w)
<1>1. CASE ~w.dhcp.coop
  <2>1. r = w
    BY <1>1 DEF StopCoop
  <2>2. Inactive(w) /\ w.ip # "LL"
    BY <1>1 DEF Base, AutoipCalled, Inactive
  <2>3. QED
    BY <1>1, <2>1, <2>2
<1>2. CASE w.dhcp.coop
  <2>1. \/ a = w /\ w.autoip.state = "NULL"
        \/ a = [w EXCEPT !.autoip.state = "OFF", !.ip = IF @ = "LL" THEN "none" ELSE @]
    BY DEF autoip_stop
  <2>2. r = [a EXCEPT !.dhcp.coop = FALSE]
    BY <1>2 DEF StopCoop
  <2> HIDE DEF a, r
  <2>3. /\ a = [dhcp |-> w.dhcp, autoip |-> a.autoip, ip |-> a.ip, asked |-> w.asked,
                answers |-> w.answers, lease |-> w.lease]
        /\ a.autoip = [state |-> a.autoip.state, sent |-> w.autoip.sent, defended |-> w.autoip.defended]
        /\ Inactive(a) /\ a.ip # "LL" /\ a.ip \in {w.ip, "none"}
    <3>1. CASE a = w /\ w.autoip.state = "NULL"
      BY <3>1 DEF Base, IsWorld, Inactive, AutoipCalled
    <3>2. CASE a = [w EXCEPT !.autoip.state = "OFF", !.ip = IF @ = "LL" THEN "none" ELSE @]
      BY <3>2 DEF Base, IsWorld, Inactive
    <3>3. QED
      BY <2>1, <3>1, <3>2
  <2>4. IsWorld(a)
    BY <2>3 DEF Base, IsWorld
  <2>w1. r = [dhcp |-> r.dhcp, autoip |-> a.autoip, ip |-> a.ip, asked |-> a.asked,
         answers |-> a.answers, lease |-> a.lease]
    BY <2>2, <2>4 DEF IsWorld, Base
  <2>w2. r.dhcp = [a.dhcp EXCEPT !.coop = FALSE]
    BY <2>2, <2>4 DEF IsWorld, Base
  <2>w3. r.dhcp =
       [state |-> a.dhcp.state, tries |-> a.dhcp.tries, timer |-> a.dhcp.timer, same |-> a.dhcp.same,
        offered |-> a.dhcp.offered, terms |-> a.dhcp.terms, used |-> a.dhcp.used, t0 |-> a.dhcp.t0,
        t2 |-> a.dhcp.t2, renew |-> a.dhcp.renew, rebind |-> a.dhcp.rebind, coop |-> FALSE]
    BY <2>w2, <2>4 DEF IsWorld, IsBlock, Base
  <2>w4. IsWorld(r)
    BY <2>w1, <2>w3, <2>4 DEF IsWorld, IsBlock, Base

  <2>5. Typed(r)
    BY <2>3, <2>w1, <2>w3 DEF Base, Typed
  <2>6. Promised(r)
    BY <2>3, <2>w1 DEF Base, Promised, StoodBy
  <2>7. AutoipCalled(r) /\ Inactive(r)
    BY <2>3, <2>w1 DEF AutoipCalled, Inactive
  <2>8. QED
    BY <2>3, <2>5, <2>6, <2>7, <2>w1, <2>w3, <2>w4 DEF Base, r
<1>3. QED
  BY <1>1, <1>2

\* dhcp_start, with AutoIP off.
LEMMA Starts ==
    ASSUME NEW w, Base(w), Inactive(w), w.ip \notin Addrs, NEW mem
    PROVE  Sound(dhcp_start(w, mem))
<1>1. PICK p : p = [w EXCEPT !.dhcp = NewDhcp]
  OBVIOUS
<1>2. p = [dhcp |-> NewDhcp, autoip |-> w.autoip, ip |-> w.ip, asked |-> w.asked,
           answers |-> w.answers, lease |-> w.lease]
  BY <1>1 DEF Base, IsWorld
<1>3. IsWorld(p) /\ Typed(p)
  BY <1>2 DEF Base, IsWorld, IsBlock, Typed, NewDhcp
<1>4. AutoipCalled(p) /\ Promised(p) /\ p.ip \notin Addrs
  BY <1>2 DEF Base, AutoipCalled, Inactive, Promised, StoodBy
<1>5. Sound(dhcp_discover(p, mem))
  BY <1>3, <1>4, Discovers DEF Base
<1>6. QED
  BY <1>5, <1>1 DEF dhcp_start

\* dhcp_release_and_stop gives the address up before the lease, and no answer outlives the release.
LEMMA ReleasesAndStops ==
    ASSUME NEW w, Base(w), w.ip \in Addrs => dhcp_supplied_address(w), NEW mem
    PROVE  LET r == dhcp_release_and_stop(w, mem)
           IN  Base(r) /\ Inactive(r) /\ r.ip \notin Addrs
<1> DEFINE c == [w EXCEPT !.dhcp.offered = "none", !.dhcp.renew = 0, !.dhcp.rebind = 0,
                          !.dhcp.used = 0, !.dhcp.t0 = 0]
           s == dhcp_set_state(c, "OFF")
           e == Send(s, FALSE, {}, TRUE)
           l == [e EXCEPT !.lease = [a \in Addrs |-> IF a = w.ip THEN 0 ELSE @[a]]]
           x == [(IF "release" \in mem THEN l ELSE s) EXCEPT !.ip = "none"]
           y == IF dhcp_supplied_address(w) THEN x ELSE s
           r == dhcp_release_and_stop(w, mem)
<1>1. r = StopCoop(y)
  BY DEF dhcp_release_and_stop
<1> HIDE DEF r
<1>2. /\ Base(c) /\ c.ip = w.ip /\ c.dhcp.state = w.dhcp.state
  <2>1. PICK p : p = c
    OBVIOUS
  <2>2. p = [w EXCEPT !.dhcp.offered = "none", !.dhcp.renew = 0, !.dhcp.rebind = 0,
                      !.dhcp.used = 0, !.dhcp.t0 = 0]
    BY <2>1
  <2> HIDE DEF c
  <2>w1. p = [dhcp |-> p.dhcp, autoip |-> w.autoip, ip |-> w.ip, asked |-> w.asked,
         answers |-> w.answers, lease |-> w.lease]
    BY <2>2 DEF IsWorld, Base
  <2>w2. p.dhcp = [w.dhcp EXCEPT !.offered = "none", !.renew = 0, !.rebind = 0, !.used = 0, !.t0 = 0]
    BY <2>2 DEF IsWorld, Base
  <2>w3. p.dhcp =
       [state |-> w.dhcp.state, tries |-> w.dhcp.tries, timer |-> w.dhcp.timer, same |-> w.dhcp.same,
        offered |-> "none", terms |-> w.dhcp.terms, used |-> 0, t0 |-> 0, t2 |-> w.dhcp.t2,
        renew |-> 0, rebind |-> 0, coop |-> w.dhcp.coop]
    BY <2>w2 DEF IsWorld, IsBlock, Base
  <2>w4. IsWorld(p)
    BY <2>w1, <2>w3 DEF IsWorld, IsBlock, Base
  <2>3. Typed(p)
    BY <2>w1, <2>w3 DEF Base, Typed
  <2>4. AutoipCalled(p)
    BY <2>w1, <2>w3 DEF Base, AutoipCalled, Inactive
  <2>5. Promised(p)
    BY <2>w1 DEF Base, Promised, StoodBy
  <2>6. QED
    BY <2>1, <2>3, <2>4, <2>5, <2>w1, <2>w3, <2>w4 DEF Base
<1> HIDE DEF c
<1>3. Carried(c, s) /\ s.dhcp.state = "OFF" /\ (w.dhcp.state # "OFF" => s.dhcp.tries = 0)
  BY <1>2, SetState DEF Base
<1> HIDE DEF s
<1>4. Base(s) /\ s.ip = w.ip
  BY <1>2, <1>3, Carries DEF Carried
<1>5. CASE ~dhcp_supplied_address(w)
  <2>1. r = StopCoop(s)
    BY <1>1, <1>5
  <2>2. Base(r) /\ Inactive(r) /\ r.ip \in {s.ip, "none"}
    BY <2>1, <1>4, StopsCoop
  <2>3. QED
    BY <2>2, <1>4, <1>5, DhcpAssumption DEF r, DhcpAssumption
<1>6. CASE dhcp_supplied_address(w)
  <2>1. s.dhcp.tries = 0
    BY <1>3, <1>6 DEF dhcp_supplied_address
  <2>2. Carried(s, e) /\ e.answers = {}
    BY <2>1, <1>4, Sends DEF Base
  <2> HIDE DEF e
  <2>3. Base(e)
    BY <2>2, <1>4, Carries
  <2>4. Base(l)
    <3>1. PICK p : p = l
      OBVIOUS
    <3>2. p = [e EXCEPT !.lease = [a \in Addrs |-> IF a = w.ip THEN 0 ELSE @[a]]]
      BY <3>1
    <3> HIDE DEF l
    <3>3. p = [dhcp |-> e.dhcp, autoip |-> e.autoip, ip |-> e.ip, asked |-> e.asked, answers |-> e.answers,
               lease |-> p.lease]
      BY <3>2, <2>3 DEF Base, IsWorld
    <3>4. p.lease = [a \in Addrs |-> IF a = w.ip THEN 0 ELSE e.lease[a]]
      BY <3>2, <2>3 DEF Base, IsWorld
    <3>5. IsWorld(p) /\ Typed(p)
      BY <3>3, <3>4, <2>3 DEF Base, IsWorld, Typed
    <3>6. AutoipCalled(p) /\ Promised(p)
      BY <3>3, <2>2, <2>3 DEF Base, AutoipCalled, Inactive, Promised
    <3>7. QED
      BY <3>1, <3>5, <3>6 DEF Base
  <2> HIDE DEF l
  <2>5. PICK z : z = (IF "release" \in mem THEN l ELSE s)
    OBVIOUS
  <2>6. Base(z)
    BY <2>4, <2>5, <1>4
  <2>7. PICK p : p = [z EXCEPT !.ip = "none"]
    OBVIOUS
  <2>8. p = [dhcp |-> z.dhcp, autoip |-> z.autoip, ip |-> "none", asked |-> z.asked, answers |-> z.answers,
             lease |-> z.lease]
    BY <2>7, <2>6 DEF Base, IsWorld
  <2>9. Base(p)
    BY <2>8, <2>6 DEF Base, IsWorld, Typed, AutoipCalled, Inactive, Promised, StoodBy
  <2>10. y = p
    BY <2>5, <2>7, <1>6
  <2> HIDE DEF y
  <2>11. "none" \notin Addrs
    BY DhcpAssumption DEF DhcpAssumption
  <2>12. Base(r) /\ Inactive(r) /\ r.ip \in {p.ip, "none"}
    BY <1>1, <2>9, <2>10, StopsCoop
  <2>13. QED
    BY <2>8, <2>11, <2>12 DEF r
<1>7. QED
  BY <1>5, <1>6 DEF r

\* Restart, also from a world whose lease has just ended.
LEMMA Restarts ==
    ASSUME NEW w, Base(w), w.ip \in Addrs => dhcp_supplied_address(w), NEW mem
    PROVE  Sound(Restart(w, mem))
<1> DEFINE r == dhcp_release_and_stop(w, mem)
<1>1. Base(r) /\ Inactive(r) /\ r.ip \notin Addrs
  BY ReleasesAndStops
<1> HIDE DEF r
<1>2. Sound(dhcp_start(r, mem))
  BY <1>1, Starts
<1>3. QED
  BY <1>2 DEF Restart, r

\* Two tries always count, and a term is at least one tick.
LEMMA Numbers ==
    /\ MaxTries \in Nat /\ MaxTries >= 2
    /\ \A secs \in Nat : Ticks(secs) \in Nat /\ Ticks(secs) >= 1
<1>1. MaxTries \in Nat /\ MaxTries >= 2
  BY DhcpAssumption DEF DhcpAssumption, MaxTries, Larger
<1>2. ASSUME NEW secs \in Nat PROVE Ticks(secs) \in Nat /\ Ticks(secs) >= 1
  <2>1. PICK q \in Nat : q = (secs + 30) \div 60
    OBVIOUS
  <2>2. Ticks(secs) = Larger(1, Smaller(q, 65535))
    BY <2>1 DEF Ticks
  <2>3. QED
    BY <2>2 DEF Larger, Smaller
<1>3. QED
  BY <1>1, <1>2

\* A bound client that keeps its address.
LEMMA Lasts ==
    ASSUME NEW w, Base(w), Kept(w), dhcp_supplied_address(w), w.ip \in Addrs => ~w.dhcp.coop
    PROVE  Sound(w)
  BY DEF Sound, Owned, Checked, dhcp_supplied_address

\* dhcp_select and dhcp_decline, without a server's address.
LEMMA Selects ==
    ASSUME NEW w, Base(w), w.ip \notin Addrs, NEW mem
    PROVE  Sound(dhcp_select(w, mem)) /\ Sound(dhcp_decline(w, mem))
<1> DEFINE a == Asks(w, "REQUESTING", {w.dhcp.offered}, mem)
           b == Tells(w, "BACKING_OFF", {}, mem)
<1>1. Carried(w, a) /\ a.dhcp.state = "REQUESTING" /\ Carried(w, b) /\ b.dhcp.state = "BACKING_OFF"
  BY Messages DEF Base
<1>2. a = dhcp_select(w, mem) /\ b = dhcp_decline(w, mem)
  BY DEF dhcp_select, dhcp_decline, Asks, Tells
<1> HIDE DEF a, b
<1>3. Base(a) /\ Base(b) /\ a.ip \notin Addrs /\ b.ip \notin Addrs
  BY <1>1, Carries DEF Carried
<1>4. Sound(a) /\ Sound(b)
  BY <1>1, <1>3, Free
<1>5. QED
  BY <1>2, <1>4

\* dhcp_renew and dhcp_rebind keep the address.
LEMMA Renews ==
    ASSUME NEW w, Base(w), Kept(w), w.ip \in Addrs => ~w.dhcp.coop, NEW mem
    PROVE  /\ Sound(dhcp_renew(w, mem)) /\ dhcp_renew(w, mem).dhcp.state = "RENEWING"
           /\ Sound(dhcp_rebind(w, mem)) /\ dhcp_rebind(w, mem).dhcp.state = "REBINDING"
<1> DEFINE a == Asks(w, "RENEWING", {w.ip} \cap Addrs, mem)
           b == Asks(w, "REBINDING", {w.ip} \cap Addrs, mem)
<1>1. Carried(w, a) /\ a.dhcp.state = "RENEWING" /\ Carried(w, b) /\ b.dhcp.state = "REBINDING"
  BY Messages DEF Base
<1>2. a = dhcp_renew(w, mem) /\ b = dhcp_rebind(w, mem)
  BY DEF dhcp_renew, dhcp_rebind, Asks
<1> HIDE DEF a, b
<1>3. Base(a) /\ Base(b) /\ Kept(a) /\ Kept(b)
  BY <1>1, Carries
<1>4. /\ dhcp_supplied_address(a) /\ dhcp_supplied_address(b)
      /\ a.ip \in Addrs => ~a.dhcp.coop
      /\ b.ip \in Addrs => ~b.dhcp.coop
  BY <1>1 DEF dhcp_supplied_address, Carried
<1>5. Sound(a) /\ Sound(b)
  BY <1>3, <1>4, Lasts
<1>6. QED
  BY <1>1, <1>2, <1>5

\* What an acknowledgement has granted, less the time it may have taken, is in the block.
Grants(w, late) ==
    /\ w.dhcp.offered \in Addrs /\ w.dhcp.terms.t0 \in Nat
    /\ w.lease[w.dhcp.offered] >= Ticks(w.dhcp.terms.t0) - late

\* dhcp_check: one more minute may pass before the address is used.
LEMMA Checks ==
    ASSUME NEW w, Base(w), w.ip \notin Addrs, NEW late \in {1, 2}, Grants(w, late),
           late = IF w.dhcp.state = "CHECKING" THEN w.dhcp.tries + 1 ELSE 1,
           w.dhcp.state = "CHECKING" => w.dhcp.tries = 1
    PROVE  Sound(dhcp_check(w))
<1> DEFINE a == dhcp_set_state(w, "CHECKING")
           r == dhcp_check(w)
<1>1. /\ Carried(w, a) /\ a.dhcp.state = "CHECKING"
      /\ a.dhcp.tries = IF w.dhcp.state = "CHECKING" THEN w.dhcp.tries ELSE 0
  BY SetState DEF Base
<1>2. r = Tried(a)
  BY DEF dhcp_check
<1> HIDE DEF a, r
<1>3. /\ Carried(a, r) /\ r.dhcp.state = "CHECKING" /\ r.dhcp.timer = "fresh"
      /\ r.dhcp.tries = Smaller(a.dhcp.tries + 1, MaxTries)
  BY <1>1, <1>2, Tries DEF Carried
<1>4. r.dhcp.tries = late
  BY <1>1, <1>3, Numbers DEF Smaller
<1>5. Carried(w, r)
  BY <1>1, <1>3 DEF Carried
<1>6. Base(r) /\ r.ip \notin Addrs
  BY <1>5, Carries DEF Carried
<1>7. Checked(r)
  BY <1>3, <1>4, <1>5, Numbers DEF Carried, Checked, Grants, Base, Typed
<1>8. Sound(r)
  BY <1>3, <1>6, <1>7 DEF Sound, Owned, Kept
<1>9. QED
  BY <1>8 DEF r

\* dhcp_bind: of the minutes that the lease has run at most Slack are not counted.
LEMMA Binds ==
    ASSUME NEW w, Base(w), NEW late \in 0..Slack, Grants(w, late)
    PROVE  Sound(dhcp_bind(w))
<1> DEFINE n == Ticks(w.dhcp.terms.t0)
           n1 == Ticks(w.dhcp.terms.t1)
           n2 == Ticks(w.dhcp.terms.t2)
           x == [w EXCEPT !.dhcp.used = 0, !.dhcp.t0 = n, !.dhcp.t2 = n2, !.dhcp.renew = n1, !.dhcp.rebind = n2]
           b == StopCoop(x)
           c == dhcp_set_state(b, "BOUND")
           r == dhcp_bind(w)
<1>1. r = [c EXCEPT !.ip = w.dhcp.offered]
  BY DEF dhcp_bind
<1> HIDE DEF r
<1>2. n \in Nat /\ n >= 1
  BY Numbers DEF Grants
<1> HIDE DEF n, n1, n2
<1>3. /\ Base(x) /\ x.dhcp.used = 0 /\ x.dhcp.t0 = n /\ x.lease = w.lease
  <2>1. PICK p : p = x
    OBVIOUS
  <2>2. p = [w EXCEPT !.dhcp.used = 0, !.dhcp.t0 = n, !.dhcp.t2 = n2, !.dhcp.renew = n1, !.dhcp.rebind = n2]
    BY <2>1
  <2> HIDE DEF x
  <2>w1. p = [dhcp |-> p.dhcp, autoip |-> w.autoip, ip |-> w.ip, asked |-> w.asked,
         answers |-> w.answers, lease |-> w.lease]
    BY <2>2 DEF IsWorld, Base
  <2>w2. p.dhcp = [w.dhcp EXCEPT !.used = 0, !.t0 = n, !.t2 = n2, !.renew = n1, !.rebind = n2]
    BY <2>2 DEF IsWorld, Base
  <2>w3. p.dhcp =
       [state |-> w.dhcp.state, tries |-> w.dhcp.tries, timer |-> w.dhcp.timer, same |-> w.dhcp.same,
        offered |-> w.dhcp.offered, terms |-> w.dhcp.terms, used |-> 0, t0 |-> n, t2 |-> n2,
        renew |-> n1, rebind |-> n2, coop |-> w.dhcp.coop]
    BY <2>w2 DEF IsWorld, IsBlock, Base
  <2>w4. IsWorld(p)
    BY <2>w1, <2>w3 DEF IsWorld, IsBlock, Base
  <2>3. Typed(p)
    BY <2>w1, <2>w3, <1>2 DEF Base, Typed
  <2>4. AutoipCalled(p)
    BY <2>w1, <2>w3 DEF Base, AutoipCalled, Inactive
  <2>5. Promised(p)
    BY <2>w1 DEF Base, Promised, StoodBy
  <2>6. QED
    BY <2>1, <2>3, <2>4, <2>5, <2>w1, <2>w3, <2>w4 DEF Base
<1> HIDE DEF x
<1>4. /\ Base(b) /\ Inactive(b) /\ ~b.dhcp.coop /\ b.lease = w.lease
      /\ b.dhcp.used = 0 /\ b.dhcp.t0 = n
  BY <1>3, StopsCoop
<1> HIDE DEF b
<1>5. Carried(b, c) /\ c.dhcp.state = "BOUND"
  BY <1>4, SetState DEF Base
<1> HIDE DEF c
<1>6. Base(c)
  BY <1>4, <1>5, Carries
<1>7. r = [dhcp |-> c.dhcp, autoip |-> c.autoip, ip |-> w.dhcp.offered, asked |-> c.asked, answers |-> c.answers,
           lease |-> c.lease]
  BY <1>1, <1>6 DEF Base, IsWorld
<1>8. IsWorld(r) /\ Typed(r) /\ Promised(r)
  BY <1>6, <1>7 DEF Base, IsWorld, Typed, Promised, StoodBy
<1>9. w.dhcp.offered \in Addrs /\ w.dhcp.offered # "LL"
  BY DhcpAssumption DEF DhcpAssumption, Grants
<1>10. AutoipCalled(r)
  BY <1>4, <1>5, <1>7, <1>9 DEF Carried, AutoipCalled, Inactive
<1>11. r.dhcp.used = 0 /\ r.dhcp.t0 = n /\ r.ip = w.dhcp.offered /\ r.lease = w.lease
  BY <1>4, <1>5, <1>7 DEF Carried
<1>12. Kept(r)
  <2>1. w.lease[w.dhcp.offered] \in Int /\ w.lease[w.dhcp.offered] >= n - late
    BY <1>9 DEF Grants, Base, Typed, n
  <2>2. 0 < n /\ w.lease[w.dhcp.offered] >= n - Slack - 0
    BY <2>1, <1>2 DEF Slack
  <2>3. QED
    BY <2>2, <1>11 DEF Kept
<1>13. dhcp_supplied_address(r) /\ ~r.dhcp.coop
  BY <1>4, <1>5, <1>7 DEF Carried, dhcp_supplied_address
<1>14. Sound(r)
  BY <1>8, <1>10, <1>12, <1>13, Lasts DEF Base
<1>15. QED
  BY <1>14 DEF r

\* dhcp_handle_ack takes the terms from an answer that is a minute old at most.
LEMMA HandlesAck ==
    ASSUME NEW w, Base(w), NEW m, StoodBy(w, m), m.type = "ACK"
    PROVE  LET r == dhcp_handle_ack(w, m)
           IN  Base(r) /\ Grants(r, 1) /\ r.ip = w.ip /\ r.dhcp.state = w.dhcp.state
<1> DEFINE r == dhcp_handle_ack(w, m)
           terms == [t0 |-> m.terms.t0,
                     t1 |-> IF m.terms.t1 >= 0 THEN m.terms.t1 ELSE m.terms.t0 \div 2,
                     t2 |-> IF m.terms.t2 >= 0 THEN m.terms.t2 ELSE (7 * m.terms.t0) \div 8]
<1>1. r = [w EXCEPT !.dhcp.offered = m.addr, !.dhcp.terms = terms]
  BY DEF dhcp_handle_ack
<1>2. terms.t0 = m.terms.t0
  OBVIOUS
<1> HIDE DEF r, terms
<1>w1. r = [dhcp |-> r.dhcp, autoip |-> w.autoip, ip |-> w.ip, asked |-> w.asked,
       answers |-> w.answers, lease |-> w.lease]
  BY <1>1 DEF IsWorld, Base
<1>w2. r.dhcp = [w.dhcp EXCEPT !.offered = m.addr, !.terms = terms]
  BY <1>1 DEF IsWorld, Base
<1>w3. r.dhcp =
     [state |-> w.dhcp.state, tries |-> w.dhcp.tries, timer |-> w.dhcp.timer, same |-> w.dhcp.same,
      offered |-> m.addr, terms |-> terms, used |-> w.dhcp.used, t0 |-> w.dhcp.t0,
      t2 |-> w.dhcp.t2, renew |-> w.dhcp.renew, rebind |-> w.dhcp.rebind, coop |-> w.dhcp.coop]
  BY <1>w2 DEF IsWorld, IsBlock, Base
<1>w4. IsWorld(r)
  BY <1>w1, <1>w3 DEF IsWorld, IsBlock, Base
<1>3. Typed(r) /\ AutoipCalled(r)
  BY <1>w1, <1>w3 DEF Base, Typed, AutoipCalled, Inactive
<1>4. Promised(r)
  BY <1>w1 DEF Base, Promised, StoodBy
<1>5. Grants(r, 1)
  <2>1. m.addr \in Addrs /\ m.terms.t0 \in Nat /\ w.lease[m.addr] \in Int /\ Ticks(m.terms.t0) \in Nat
    BY Numbers DEF StoodBy, Base, Typed
  <2>2. w.lease[m.addr] >= Ticks(m.terms.t0) - (IF m.old THEN 1 ELSE 0)
    BY DEF StoodBy
  <2>3. w.lease[m.addr] >= Ticks(m.terms.t0) - 1
    BY <2>1, <2>2
  <2>4. QED
    BY <2>1, <2>3, <1>2, <1>w1, <1>w3 DEF Grants
<1>6. QED
  BY <1>3, <1>4, <1>5, <1>w1, <1>w3, <1>w4 DEF r, Base

\* dhcp_handle_nak gives the address up.
LEMMA HandlesNak ==
    ASSUME NEW w, Base(w), NEW mem
    PROVE  Sound(dhcp_handle_nak(w, mem))
<1> DEFINE a == dhcp_set_state(w, "BACKING_OFF")
<1>1. Carried(w, a)
  BY SetState DEF Base
<1> HIDE DEF a
<1>2. Base(a)
  BY <1>1, Carries
<1>3. PICK p : p = [a EXCEPT !.ip = "none"]
  OBVIOUS
<1>4. p = [dhcp |-> a.dhcp, autoip |-> a.autoip, ip |-> "none", asked |-> a.asked, answers |-> a.answers,
           lease |-> a.lease]
  BY <1>2, <1>3 DEF Base, IsWorld
<1>5. Base(p)
  BY <1>2, <1>4 DEF Base, IsWorld, Typed, AutoipCalled, Inactive, Promised, StoodBy
<1>6. p.ip \notin Addrs
  BY <1>4, DhcpAssumption DEF DhcpAssumption
<1>7. Sound(dhcp_discover(p, mem))
  BY <1>5, <1>6, Discovers
<1>8. dhcp_handle_nak(w, mem) = dhcp_discover(p, mem)
  BY <1>3 DEF dhcp_handle_nak, a
<1>9. QED
  BY <1>7, <1>8

\* dhcp_handle_offer asks for the address and does not use it.
LEMMA HandlesOffer ==
    ASSUME NEW w, Base(w), w.ip \notin Addrs, NEW m, NEW mem
    PROVE  Sound(dhcp_handle_offer(w, m, mem))
<1>1. PICK p : p = [w EXCEPT !.dhcp.timer = "off", !.dhcp.offered = m.addr]
  OBVIOUS
<1>w1. p = [dhcp |-> p.dhcp, autoip |-> w.autoip, ip |-> w.ip, asked |-> w.asked,
       answers |-> w.answers, lease |-> w.lease]
  BY <1>1 DEF IsWorld, Base
<1>w2. p.dhcp = [w.dhcp EXCEPT !.timer = "off", !.offered = m.addr]
  BY <1>1 DEF IsWorld, Base
<1>w3. p.dhcp =
     [state |-> w.dhcp.state, tries |-> w.dhcp.tries, timer |-> "off", same |-> w.dhcp.same,
      offered |-> m.addr, terms |-> w.dhcp.terms, used |-> w.dhcp.used, t0 |-> w.dhcp.t0,
      t2 |-> w.dhcp.t2, renew |-> w.dhcp.renew, rebind |-> w.dhcp.rebind, coop |-> w.dhcp.coop]
  BY <1>w2 DEF IsWorld, IsBlock, Base
<1>w4. IsWorld(p)
  BY <1>w1, <1>w3 DEF IsWorld, IsBlock, Base
<1>2. Base(p) /\ p.ip \notin Addrs
  BY <1>w1, <1>w3, <1>w4 DEF Base, Typed, AutoipCalled, Inactive, Promised, StoodBy
<1>3. Sound(dhcp_select(p, mem))
  BY <1>2, Selects
<1>4. QED
  BY <1>1, <1>3 DEF dhcp_handle_offer

\* Any answer, in any state.
LEMMA Handles ==
    ASSUME NEW w, Sound(w), NEW m, StoodBy(w, m), NEW mem
    PROVE  Sound(Handle(w, m, mem))
<1> DEFINE st == w.dhcp.state
           r == Handle(w, m, mem)
           a == dhcp_handle_ack(w, m)
<1>1. \/ m.type = "ACK" /\ st = "REQUESTING" /\ r = dhcp_check(a)
      \/ m.type = "ACK" /\ r = dhcp_bind(a)
      \/ m.type = "NAK" /\ r = dhcp_handle_nak(w, mem)
      \/ m.type = "OFFER" /\ st = "SELECTING" /\ r = dhcp_handle_offer(w, m, mem)
      \/ r = w
  BY DEF Handle
<1> SUFFICES Sound(r)
  BY DEF r
<1>2. Base(w)
  BY DEF Sound
<1>3. st \in {"REQUESTING", "SELECTING"} => w.ip \notin Addrs
  BY DEF Sound, Owned, dhcp_supplied_address
<1>4. m.type = "ACK" => Base(a) /\ Grants(a, 1) /\ a.ip = w.ip /\ a.dhcp.state = st
  BY <1>2, HandlesAck
<1> HIDE DEF r, a
<1>5. CASE m.type = "ACK" /\ st = "REQUESTING" /\ r = dhcp_check(a)
  <2>1. Base(a) /\ a.ip \notin Addrs /\ Grants(a, 1) /\ a.dhcp.state # "CHECKING"
    BY <1>3, <1>4, <1>5
  <2>2. Sound(dhcp_check(a))
    BY <2>1, Checks
  <2>3. QED
    BY <1>5, <2>2
<1>6. CASE m.type = "ACK" /\ r = dhcp_bind(a)
  <2>1. 1 \in 0..Slack
    BY DEF Slack
  <2>2. Sound(dhcp_bind(a))
    BY <2>1, <1>4, <1>6, Binds
  <2>3. QED
    BY <1>6, <2>2
<1>7. CASE m.type = "NAK" /\ r = dhcp_handle_nak(w, mem)
  BY <1>2, <1>7, HandlesNak
<1>8. CASE m.type = "OFFER" /\ st = "SELECTING" /\ r = dhcp_handle_offer(w, m, mem)
  BY <1>2, <1>3, <1>8, HandlesOffer
<1>9. QED
  BY <1>1, <1>5, <1>6, <1>7, <1>8

\* dhcp_arp_reply declines only an address that is not used yet.
LEMMA ArpReplies ==
    ASSUME NEW w, Sound(w), NEW addr, NEW mem
    PROVE  Sound(dhcp_arp_reply(w, addr, mem))
<1>1. CASE w.dhcp.state = "CHECKING" /\ addr = w.dhcp.offered
  <2>1. Base(w) /\ w.ip \notin Addrs
    BY <1>1 DEF Sound, Owned, dhcp_supplied_address
  <2>2. QED
    BY <1>1, <2>1, Selects DEF dhcp_arp_reply
<1>2. CASE ~(w.dhcp.state = "CHECKING" /\ addr = w.dhcp.offered)
  BY <1>2 DEF dhcp_arp_reply
<1>3. QED
  BY <1>1, <1>2

\* The fine timer has expired: the time of one more check is over.
Expired(w) ==
    /\ Base(w) /\ Owned(w) /\ Kept(w)
    /\ w.dhcp.state = "CHECKING" => w.dhcp.tries \in {1, 2} /\ Grants(w, w.dhcp.tries + 1)

\* dhcp_timeout, in any state.
LEMMA TimesOut ==
    ASSUME NEW w, Expired(w), NEW mem
    PROVE  Sound(dhcp_timeout(w, mem))
<1> DEFINE d == w.dhcp
           r == dhcp_timeout(w, mem)
<1>1. \/ d.state \in {"BACKING_OFF", "SELECTING"} /\ r = dhcp_discover(w, mem)
      \/ d.state = "REQUESTING" /\ r = dhcp_select(w, mem)
      \/ d.state = "REQUESTING" /\ r = Restart(w, mem)
      \/ d.state = "CHECKING" /\ d.tries <= 1 /\ r = dhcp_check(w)
      \/ d.state = "CHECKING" /\ ~(d.tries <= 1) /\ r = dhcp_bind(w)
      \/ d.state # "CHECKING" /\ r = w
  BY DEF dhcp_timeout
<1> SUFFICES Sound(r)
  BY DEF r
<1> HIDE DEF r
<1>2. Base(w)
  BY DEF Expired
<1>3. d.state \in {"BACKING_OFF", "SELECTING", "REQUESTING", "CHECKING"} => w.ip \notin Addrs
  BY DEF Expired, Owned, dhcp_supplied_address
<1>4. CASE d.state \in {"BACKING_OFF", "SELECTING"} /\ r = dhcp_discover(w, mem)
  BY <1>2, <1>3, <1>4, Discovers
<1>5. CASE d.state = "REQUESTING" /\ r = dhcp_select(w, mem)
  BY <1>2, <1>3, <1>5, Selects
<1>6. CASE d.state = "REQUESTING" /\ r = Restart(w, mem)
  BY <1>2, <1>3, <1>6, Restarts
<1>7. CASE d.state = "CHECKING" /\ d.tries <= 1 /\ r = dhcp_check(w)
  <2>1. d.tries = 1 /\ Grants(w, 2)
    BY <1>7 DEF Expired
  <2>2. w.ip \notin Addrs /\ w.dhcp.state = "CHECKING"
    BY <1>3, <1>7
  <2>3. Sound(dhcp_check(w))
    BY <1>2, <2>1, <2>2, Checks
  <2>4. QED
    BY <1>7, <2>3
<1>8. CASE d.state = "CHECKING" /\ ~(d.tries <= 1) /\ r = dhcp_bind(w)
  <2>1. d.tries = 2 /\ Grants(w, 3) /\ 3 \in 0..Slack
    BY <1>8 DEF Expired, Slack
  <2>2. Sound(dhcp_bind(w))
    BY <1>2, <2>1, Binds
  <2>3. QED
    BY <1>8, <2>2
<1>9. CASE d.state # "CHECKING" /\ r = w
  BY <1>9 DEF Sound, Expired, Checked
<1>10. QED
  BY <1>1, <1>4, <1>5, <1>6, <1>7, <1>8, <1>9

\* A new value for either of the two countdowns.
LEMMA Counts ==
    ASSUME NEW w, IsWorld(w), NEW x, NEW r,
           r = [w EXCEPT !.dhcp.renew = x] \/ r = [w EXCEPT !.dhcp.rebind = x]
    PROVE  /\ Carried(w, r) /\ r.dhcp.state = w.dhcp.state /\ r.dhcp.tries = w.dhcp.tries
           /\ r.dhcp.timer = w.dhcp.timer
<1>1. CASE r = [w EXCEPT !.dhcp.renew = x]
  <2>w1. r = [dhcp |-> r.dhcp, autoip |-> w.autoip, ip |-> w.ip, asked |-> w.asked,
         answers |-> w.answers, lease |-> w.lease]
    BY <1>1 DEF IsWorld, Base
  <2>w2. r.dhcp = [w.dhcp EXCEPT !.renew = x]
    BY <1>1 DEF IsWorld, Base
  <2>w3. r.dhcp =
       [state |-> w.dhcp.state, tries |-> w.dhcp.tries, timer |-> w.dhcp.timer, same |-> w.dhcp.same,
        offered |-> w.dhcp.offered, terms |-> w.dhcp.terms, used |-> w.dhcp.used, t0 |-> w.dhcp.t0,
        t2 |-> w.dhcp.t2, renew |-> x, rebind |-> w.dhcp.rebind, coop |-> w.dhcp.coop]
    BY <2>w2 DEF IsWorld, IsBlock, Base
  <2>w4. IsWorld(r)
    BY <2>w1, <2>w3 DEF IsWorld, IsBlock, Base
  <2>1. QED
    BY <2>w1, <2>w3, <2>w4 DEF Carried
<1>2. CASE r = [w EXCEPT !.dhcp.rebind = x]
  <2>w1. r = [dhcp |-> r.dhcp, autoip |-> w.autoip, ip |-> w.ip, asked |-> w.asked,
         answers |-> w.answers, lease |-> w.lease]
    BY <1>2 DEF IsWorld, Base
  <2>w2. r.dhcp = [w.dhcp EXCEPT !.rebind = x]
    BY <1>2 DEF IsWorld, Base
  <2>w3. r.dhcp =
       [state |-> w.dhcp.state, tries |-> w.dhcp.tries, timer |-> w.dhcp.timer, same |-> w.dhcp.same,
        offered |-> w.dhcp.offered, terms |-> w.dhcp.terms, used |-> w.dhcp.used, t0 |-> w.dhcp.t0,
        t2 |-> w.dhcp.t2, renew |-> w.dhcp.renew, rebind |-> x, coop |-> w.dhcp.coop]
    BY <2>w2 DEF IsWorld, IsBlock, Base
  <2>w4. IsWorld(r)
    BY <2>w1, <2>w3 DEF IsWorld, IsBlock, Base
  <2>1. QED
    BY <2>w1, <2>w3, <2>w4 DEF Carried
<1>3. QED
  BY <1>1, <1>2

\* ... which the invariant does not depend on.
LEMMA CountsSoundly ==
    ASSUME NEW w, Sound(w), NEW x, NEW r,
           r = [w EXCEPT !.dhcp.renew = x] \/ r = [w EXCEPT !.dhcp.rebind = x]
    PROVE  Sound(r)
<1>1. /\ Carried(w, r) /\ r.dhcp.state = w.dhcp.state /\ r.dhcp.tries = w.dhcp.tries
      /\ r.dhcp.timer = w.dhcp.timer
  BY Counts DEF Sound, Base
<1>2. Base(r) /\ Kept(r)
  BY <1>1, Carries DEF Sound
<1>3. Owned(r) /\ Checked(r)
  BY <1>1 DEF Sound, Carried, Owned, Checked, dhcp_supplied_address
<1>4. QED
  BY <1>2, <1>3 DEF Sound

\* dhcp_t1_timeout and dhcp_t2_timeout.
LEMMA RenewalTimesOut ==
    ASSUME NEW w, Sound(w), NEW mem
    PROVE  Sound(dhcp_t1_timeout(w, mem)) /\ Sound(dhcp_t2_timeout(w, mem))
<1> DEFINE a == dhcp_renew(w, mem)
           b == dhcp_rebind(w, mem)
           h == (w.dhcp.t2 - w.dhcp.used) \div 2
           k == (w.dhcp.t0 - w.dhcp.used) \div 2
           r == dhcp_t1_timeout(w, mem)
           s == dhcp_t2_timeout(w, mem)
<1>1. Sound(a) /\ Sound(b)
  BY Renews DEF Sound, Owned
<1>2. r = w \/ r = a \/ r = [a EXCEPT !.dhcp.renew = h]
  BY DEF dhcp_t1_timeout
<1>3. s = w \/ s = b \/ s = [b EXCEPT !.dhcp.rebind = k]
  BY DEF dhcp_t2_timeout
<1> HIDE DEF a, b, h, k, r, s
<1>4. Sound(r)
  BY <1>1, <1>2, CountsSoundly
<1>5. Sound(s)
  BY <1>1, <1>3, CountsSoundly
<1>6. QED
  BY <1>4, <1>5 DEF r, s

\* A minute has passed in the world but not yet in the block.
Older(w) ==
    /\ Base(w) /\ Owned(w) /\ Checked(w)
    /\ w.ip \in Addrs => /\ w.dhcp.used < w.dhcp.t0
                         /\ w.lease[w.ip] >= w.dhcp.t0 - Slack - (w.dhcp.used + 1)

\* CoarseTick counts the minute, and ends the lease before the server does.
LEMMA Ticking ==
    ASSUME NEW w, Older(w), NEW mem
    PROVE  Sound(CoarseTick(w, mem))
<1> DEFINE d == w.dhcp
           now == IF d.t0 # 0 THEN d.used + 1 ELSE d.used
           u == [w EXCEPT !.dhcp.used = IF d.t0 # 0 THEN @ + 1 ELSE @]
           v == [u EXCEPT !.dhcp.rebind = Larger(@ - 1, 0)]
           n == [v EXCEPT !.dhcp.renew = Larger(@ - 1, 0)]
           r == CoarseTick(w, mem)
<1>1. \/ LeaseEnds(d) /\ r = Restart(u, mem)
      \/ ~LeaseEnds(d) /\ (r = dhcp_t2_timeout(v, mem) \/ r = dhcp_t1_timeout(n, mem) \/ r = n)
  BY DEF CoarseTick
<1> SUFFICES Sound(r)
  BY DEF r
<1>2. /\ IsWorld(u) /\ u.dhcp.used = now /\ u.dhcp.t0 = d.t0 /\ u.dhcp.state = d.state
      /\ u.dhcp.coop = d.coop /\ u.dhcp.tries = d.tries /\ u.dhcp.timer = d.timer
      /\ u.dhcp.offered = d.offered /\ u.dhcp.terms = d.terms
      /\ u.ip = w.ip /\ u.autoip = w.autoip /\ u.lease = w.lease /\ u.answers = w.answers
  <2>1. PICK p : p = u
    OBVIOUS
  <2>2. IsWorld(w)
    BY DEF Older, Base
  <2>3. p = [w EXCEPT !.dhcp.used = now]
    BY <2>1, <2>2 DEF IsWorld
  <2> HIDE DEF u, now
  <2>w1. p = [dhcp |-> p.dhcp, autoip |-> w.autoip, ip |-> w.ip, asked |-> w.asked,
         answers |-> w.answers, lease |-> w.lease]
    BY <2>3, <2>2 DEF IsWorld, Base
  <2>w2. p.dhcp = [w.dhcp EXCEPT !.used = now]
    BY <2>3, <2>2 DEF IsWorld, Base
  <2>w3. p.dhcp =
       [state |-> w.dhcp.state, tries |-> w.dhcp.tries, timer |-> w.dhcp.timer, same |-> w.dhcp.same,
        offered |-> w.dhcp.offered, terms |-> w.dhcp.terms, used |-> now, t0 |-> w.dhcp.t0,
        t2 |-> w.dhcp.t2, renew |-> w.dhcp.renew, rebind |-> w.dhcp.rebind, coop |-> w.dhcp.coop]
    BY <2>w2, <2>2 DEF IsWorld, IsBlock, Base
  <2>w4. IsWorld(p)
    BY <2>w1, <2>w3, <2>2 DEF IsWorld, IsBlock, Base
  <2>4. QED
    BY <2>1, <2>w1, <2>w3, <2>w4
<1>3. now \in Nat
  BY DEF Older, Base, Typed
<1> HIDE DEF r, u
<1>5. Base(u) /\ Owned(u) /\ Checked(u)
  <2>1. Typed(u)
    BY <1>2, <1>3 DEF Older, Base, Typed
  <2>2. AutoipCalled(u) /\ Owned(u)
    BY <1>2 DEF Older, Base, AutoipCalled, Inactive, Owned, dhcp_supplied_address
  <2>3. Promised(u)
    BY <1>2 DEF Older, Base, Promised, StoodBy
  <2>4. Checked(u)
    BY <1>2 DEF Older, Checked
  <2>5. QED
    BY <1>2, <2>1, <2>2, <2>3, <2>4 DEF Base
<1>6. CASE LeaseEnds(d) /\ r = Restart(u, mem)
  BY <1>5, <1>6, Restarts DEF Owned
<1>7. CASE ~LeaseEnds(d)
  <2>1. Kept(u)
    <3>1. SUFFICES ASSUME w.ip \in Addrs
                   PROVE  u.dhcp.used < u.dhcp.t0 /\ u.lease[u.ip] >= u.dhcp.t0 - Slack - u.dhcp.used
      BY <1>2 DEF Kept
    <3>2. d.used < d.t0 /\ d.used \in Nat /\ d.t0 \in Nat
      BY <3>1 DEF Older, Base, Typed
    <3>3. now = d.used + 1 /\ now < d.t0
      BY <3>2, <1>7 DEF LeaseEnds
    <3>4. w.lease[w.ip] >= d.t0 - Slack - now
      BY <3>1, <3>3 DEF Older
    <3>5. QED
      BY <1>2, <3>3, <3>4
  <2>2. Sound(u)
    BY <1>5, <2>1 DEF Sound
  <2>3. Sound(v)
    <3>1. PICK x : x = Larger(u.dhcp.rebind - 1, 0)
      OBVIOUS
    <3>2. v = [u EXCEPT !.dhcp.rebind = x]
      BY <3>1, <1>2 DEF IsWorld
    <3>3. QED
      BY <2>2, <3>2, CountsSoundly
  <2>4. IsWorld(v)
    BY <2>3 DEF Sound, Base
  <2> HIDE DEF v
  <2>5. Sound(n)
    <3>1. PICK x : x = Larger(v.dhcp.renew - 1, 0)
      OBVIOUS
    <3>2. n = [v EXCEPT !.dhcp.renew = x]
      BY <3>1, <2>4 DEF IsWorld
    <3>3. QED
      BY <2>3, <3>2, CountsSoundly
  <2> HIDE DEF n
  <2>6. QED
    BY <1>1, <1>7, <2>3, <2>5, RenewalTimesOut
<1>8. QED
  BY <1>1, <1>6, <1>7

\* What a minute does to the world.
Aged(w) ==
    [w EXCEPT !.dhcp.timer = IF @ = "off" THEN @ ELSE "ticked",
              !.answers = {[m EXCEPT !.old = TRUE] : m \in {x \in @ : ~x.old}},
              !.lease = [a \in Addrs |-> Larger(@[a] - 1, -Slack)]]

\* In that minute the answers under way grow old, and the leases shorter.
LEMMA Ages ==
    ASSUME NEW w, Sound(w), w.dhcp.timer # "ticked"
    PROVE  Older(Aged(w))
<1> DEFINE tm == IF w.dhcp.timer = "off" THEN "off" ELSE "ticked"
           r == Aged(w)
<1>1. r = [w EXCEPT !.dhcp.timer = IF @ = "off" THEN @ ELSE "ticked",
              !.answers = {[m EXCEPT !.old = TRUE] : m \in {x \in @ : ~x.old}},
              !.lease = [a \in Addrs |-> Larger(@[a] - 1, -Slack)]]
  BY DEF Aged
<1> HIDE DEF r
<1>2. IsWorld(w) /\ Base(w) /\ Typed(w)
  BY DEF Sound, Base
<1>3. /\ r = [dhcp |-> r.dhcp, autoip |-> w.autoip, ip |-> w.ip, asked |-> w.asked,
              answers |-> r.answers, lease |-> r.lease]
      /\ r.answers = {[m EXCEPT !.old = TRUE] : m \in {x \in w.answers : ~x.old}}
      /\ r.lease = [a \in Addrs |-> Larger(w.lease[a] - 1, -Slack)]
      /\ r.dhcp = [w.dhcp EXCEPT !.timer = tm]
  BY <1>1, <1>2 DEF IsWorld
<1> HIDE DEF tm
<1>4. r.dhcp =
     [state |-> w.dhcp.state, tries |-> w.dhcp.tries, timer |-> tm, same |-> w.dhcp.same,
      offered |-> w.dhcp.offered, terms |-> w.dhcp.terms, used |-> w.dhcp.used, t0 |-> w.dhcp.t0,
      t2 |-> w.dhcp.t2, renew |-> w.dhcp.renew, rebind |-> w.dhcp.rebind, coop |-> w.dhcp.coop]
  BY <1>2, <1>3 DEF IsWorld, IsBlock
<1>5. IsWorld(r)
  <2>1. IsBlock(r.dhcp)
    BY <1>4 DEF IsBlock
  <2>2. /\ r = [dhcp |-> r.dhcp, autoip |-> w.autoip, ip |-> w.ip, asked |-> w.asked,
                answers |-> r.answers, lease |-> r.lease]
        /\ r.autoip = w.autoip /\ r.ip = w.ip /\ r.asked = w.asked
    BY <1>3
  <2>3. QED
    BY <1>2, <2>1, <2>2 DEF IsWorld
<1>6. \A a \in Addrs : w.lease[a] \in Int /\ r.lease[a] \in Int /\ r.lease[a] >= w.lease[a] - 1
  BY <1>2, <1>3 DEF Typed, Larger, Slack
<1>7. Typed(r)
  <2>1. r.lease \in [Addrs -> Int]
    BY <1>3, <1>6
  <2>2. QED
    BY <1>2, <1>3, <1>4, <2>1 DEF Typed
<1>8. AutoipCalled(r) /\ Owned(r)
  BY <1>3, <1>4 DEF Sound, Base, AutoipCalled, Inactive, Owned, dhcp_supplied_address
<1>9. Promised(r)
  <2>1. SUFFICES ASSUME NEW m \in w.answers, ~m.old, NEW x, x = [m EXCEPT !.old = TRUE]
                 PROVE  StoodBy(r, x)
    BY <1>3 DEF Promised
  <2>2. StoodBy(w, m)
    BY <1>2 DEF Base, Promised
  <2>3. x = [type |-> m.type, addr |-> m.addr, terms |-> m.terms, old |-> TRUE]
    BY <2>1, <2>2 DEF StoodBy
  <2>4. ASSUME m.type = "ACK"
        PROVE  m.addr \in Addrs /\ m.terms.t0 \in Nat /\ r.lease[m.addr] >= Ticks(m.terms.t0) - 1
    <3>1. m.addr \in Addrs /\ m.terms.t0 \in Nat /\ w.lease[m.addr] >= Ticks(m.terms.t0) - 0
      BY <2>1, <2>2, <2>4 DEF StoodBy
    <3>2. QED
      BY <3>1, <1>6, Numbers
  <2>5. QED
    BY <2>3, <2>4 DEF StoodBy
<1>10. Checked(r)
  <2>1. SUFFICES ASSUME w.dhcp.state = "CHECKING" PROVE Checked(r)
    BY <1>4 DEF Checked
  <2>2. /\ w.dhcp.offered \in Addrs /\ w.dhcp.terms.t0 \in Nat /\ w.dhcp.tries \in {1, 2}
        /\ w.dhcp.timer = "fresh"
        /\ w.lease[w.dhcp.offered] >= Ticks(w.dhcp.terms.t0) - w.dhcp.tries - 0
    BY <2>1 DEF Sound, Checked
  <2>3. tm = "ticked"
    BY <2>2 DEF tm
  <2>4. r.lease[w.dhcp.offered] >= Ticks(w.dhcp.terms.t0) - w.dhcp.tries - 1
    BY <2>2, <1>6, Numbers
  <2>5. QED
    BY <1>4, <2>2, <2>3, <2>4 DEF Checked
<1>11. r.ip \in Addrs => /\ r.dhcp.used < r.dhcp.t0
                         /\ r.lease[r.ip] >= r.dhcp.t0 - Slack - (r.dhcp.used + 1)
  <2>1. SUFFICES ASSUME w.ip \in Addrs
                 PROVE  w.dhcp.used < w.dhcp.t0 /\ r.lease[w.ip] >= w.dhcp.t0 - Slack - (w.dhcp.used + 1)
    BY <1>3, <1>4
  <2>2. w.dhcp.used < w.dhcp.t0 /\ w.lease[w.ip] >= w.dhcp.t0 - Slack - w.dhcp.used
    BY <2>1 DEF Sound, Kept
  <2>3. QED
    BY <2>1, <2>2, <1>2, <1>6 DEF Typed, Slack
<1>12. QED
  BY <1>5, <1>7, <1>8, <1>9, <1>10, <1>11 DEF Older, Base, r

\* A call that changes AutoIP's block, and the address to a link-local one or to none.
LEMMA AutoipActs ==
    ASSUME NEW w, Sound(w), w.dhcp.coop, NEW a, NEW new,
           a = [state |-> a.state, sent |-> a.sent, defended |-> a.defended], a.sent \in Nat,
           \/ new = "LL" /\ a.state \in {"ANNOUNCING", "BOUND"}
           \/ new = "none"
           \/ new = w.ip /\ (w.autoip.state \in {"ANNOUNCING", "BOUND"} => a.state \in {"ANNOUNCING", "BOUND"}),
           NEW r, r = [dhcp |-> w.dhcp, autoip |-> a, ip |-> new, asked |-> w.asked, answers |-> w.answers,
                       lease |-> w.lease]
    PROVE  Sound(r)
<1>1. Base(w) /\ w.ip \notin Addrs /\ w.dhcp.state # "OFF"
  BY DEF Sound, Owned
<1>2. r.ip \notin Addrs
  BY <1>1, DhcpAssumption DEF DhcpAssumption
<1>3. IsWorld(r) /\ Typed(r)
  BY <1>1 DEF Base, IsWorld, Typed
<1>4. AutoipCalled(r)
  BY <1>1 DEF Base, AutoipCalled
<1>5. Promised(r)
  BY <1>1 DEF Base, Promised, StoodBy
<1>6. Owned(r) /\ Kept(r)
  BY <1>1, <1>2 DEF Owned, Kept
<1>7. Checked(r)
  BY DEF Sound, Checked
<1>8. QED
  BY <1>3, <1>4, <1>5, <1>6, <1>7 DEF Sound, Base

\* AutoipStep sets a link-local address only as AutoIP announces it.
LEMMA AutoipStepsSoundly ==
    ASSUME NEW w, Sound(w), w.autoip.state \in {"PROBING", "ANNOUNCING"}
    PROVE  Sound(AutoipStep(w))
<1> DEFINE r == AutoipStep(w)
           b == w.autoip
<1>1. IsWorld(w) /\ w.dhcp.coop /\ b.sent \in Nat
  BY DEF Sound, Base, AutoipCalled, Inactive, Typed
<1>2. \/ b.state = "PROBING" /\ r = [w EXCEPT !.autoip.state = "ANNOUNCING", !.autoip.sent = 1, !.ip = "LL"]
      \/ r = [w EXCEPT !.autoip.sent = @ + 1]
      \/ b.state = "ANNOUNCING" /\ r = [w EXCEPT !.autoip.state = "BOUND", !.autoip.sent = 0]
  <2>1. CASE b.state = "PROBING"
    BY <2>1, <1>1, DhcpAssumption DEF AutoipStep, DhcpAssumption
  <2>2. CASE b.state = "ANNOUNCING"
    BY <2>2 DEF AutoipStep
  <2>3. QED
    BY <2>1, <2>2
<1> SUFFICES Sound(r)
  BY DEF r
<1> HIDE DEF r
<1>3. r = [dhcp |-> w.dhcp, autoip |-> r.autoip, ip |-> r.ip, asked |-> w.asked, answers |-> w.answers,
           lease |-> w.lease]
  BY <1>1, <1>2 DEF IsWorld
<1>4. /\ r.autoip = [state |-> r.autoip.state, sent |-> r.autoip.sent, defended |-> r.autoip.defended]
      /\ r.autoip.sent \in Nat
      /\ \/ r.ip = "LL" /\ r.autoip.state \in {"ANNOUNCING", "BOUND"}
         \/ r.ip = w.ip /\ (b.state \in {"ANNOUNCING", "BOUND"} => r.autoip.state \in {"ANNOUNCING", "BOUND"})
  <2>1. CASE b.state = "PROBING" /\ r = [w EXCEPT !.autoip.state = "ANNOUNCING", !.autoip.sent = 1, !.ip = "LL"]
    BY <2>1, <1>1 DEF IsWorld
  <2>2. CASE r = [w EXCEPT !.autoip.sent = @ + 1]
    BY <2>2, <1>1 DEF IsWorld
  <2>3. CASE b.state = "ANNOUNCING" /\ r = [w EXCEPT !.autoip.state = "BOUND", !.autoip.sent = 0]
    BY <2>3, <1>1 DEF IsWorld
  <2>4. QED
    BY <1>2, <2>1, <2>2, <2>3
<1>5. QED
  BY <1>1, <1>3, <1>4, AutoipActs

\* Whether the address was defended matters to nobody else.
LEMMA AutoipDefends ==
    ASSUME NEW w, Sound(w), NEW value, NEW r, r = [w EXCEPT !.autoip.defended = value]
    PROVE  Sound(r) /\ r.autoip.state = w.autoip.state
<1>1. IsWorld(w) /\ Base(w)
  BY DEF Sound, Base
<1>2. r = [dhcp |-> w.dhcp, autoip |-> r.autoip, ip |-> w.ip, asked |-> w.asked, answers |-> w.answers,
           lease |-> w.lease]
  BY <1>1 DEF IsWorld
<1>3. r.autoip = [state |-> w.autoip.state, sent |-> w.autoip.sent, defended |-> value]
  BY <1>1 DEF IsWorld
<1>4. IsWorld(r) /\ Typed(r)
  BY <1>1, <1>2, <1>3 DEF Base, IsWorld, Typed
<1>5. AutoipCalled(r) /\ Owned(r)
  BY <1>1, <1>2, <1>3 DEF Sound, Base, AutoipCalled, Inactive, Owned, dhcp_supplied_address
<1>6. Promised(r)
  BY <1>1, <1>2 DEF Base, Promised, StoodBy
<1>7. Kept(r) /\ Checked(r)
  BY <1>2 DEF Sound, Kept, Checked
<1>8. QED
  BY <1>3, <1>4, <1>5, <1>6, <1>7 DEF Sound, Base

\* autoip_arp_reply gives up a link-local address only.
LEMMA AutoipReplies ==
    ASSUME NEW w, Sound(w), NEW mem
    PROVE  Sound(autoip_arp_reply(w, mem))
<1> DEFINE r == autoip_arp_reply(w, mem)
           s == autoip_start(w, mem)
           t == [w EXCEPT !.autoip.defended = TRUE]
<1>1. r = w \/ (~Inactive(w) /\ r \in {s, t})
  BY DEF autoip_arp_reply, Inactive
<1> SUFFICES Sound(r)
  BY DEF r
<1> HIDE DEF r
<1>2. CASE ~Inactive(w) /\ r = s
  <2>1. w.dhcp.coop /\ Base(w)
    BY <1>2 DEF Sound, Base, AutoipCalled
  <2>2. Base(s) /\ s.ip = "none" /\ s.dhcp = w.dhcp /\ s.lease = w.lease
    <3>1. s.lease = w.lease
      BY <2>1 DEF autoip_start, Base, IsWorld
    <3>2. QED
      BY <3>1, <2>1, AutoipStarts DEF Base
  <2> HIDE DEF s
  <2>3. Owned(s) /\ Kept(s) /\ Checked(s)
    BY <2>2, DhcpAssumption DEF Sound, Owned, Kept, Checked, DhcpAssumption
  <2>4. QED
    BY <1>2, <2>2, <2>3 DEF Sound
<1>3. CASE ~Inactive(w) /\ r = t
  BY <1>3, AutoipDefends DEF Inactive
<1>4. QED
  BY <1>1, <1>2, <1>3

-----------------------------------------------------------------------------
\* The inductive invariant.
DhcpInv == Sound(World)

\* An action that ends in a sound world keeps it.
LEMMA Becoming ==
    ASSUME NEW w, Sound(w), Becomes(w)
    PROVE  DhcpInv'
<1>1. w = [dhcp |-> dhcp', autoip |-> autoip', ip |-> ip', asked |-> asked', answers |-> answers', lease |-> lease']
  BY DEF Becomes, Sound, Base, IsWorld
<1>2. QED
  BY <1>1 DEF DhcpInv, World

\* At boot there is no address, no answer and no lease.
LEMMA InitInv == Init => DhcpInv
<1> SUFFICES ASSUME Init PROVE DhcpInv
  OBVIOUS
<1>1. PICK w : w = World
  OBVIOUS
<1>2. w = [dhcp |-> NewDhcp, autoip |-> [state |-> "NULL", sent |-> 0, defended |-> FALSE], ip |-> "none",
           asked |-> {}, answers |-> {}, lease |-> [a \in Addrs |-> 0]]
  BY <1>1 DEF World, Init
<1>3. IsWorld(w) /\ Typed(w)
  BY <1>2 DEF IsWorld, IsBlock, NewDhcp, Typed
<1>4. AutoipCalled(w) /\ Promised(w)
  BY <1>2 DEF AutoipCalled, Inactive, Promised
<1>5. Owned(w) /\ Kept(w) /\ Checked(w)
  BY <1>2, DhcpAssumption DEF Owned, Kept, Checked, NewDhcp, DhcpAssumption
<1>6. QED
  BY <1>1, <1>3, <1>4, <1>5 DEF DhcpInv, Sound, Base

\* An answer that has arrived is gone.
LEMMA Drops ==
    ASSUME NEW w, Sound(w), NEW m, NEW r, r = [w EXCEPT !.answers = @ \ {m}]
    PROVE  Sound(r)
<1>1. IsWorld(w) /\ Base(w)
  BY DEF Sound, Base
<1>2. r = [dhcp |-> w.dhcp, autoip |-> w.autoip, ip |-> w.ip, asked |-> w.asked, answers |-> w.answers \ {m},
           lease |-> w.lease]
  BY <1>1 DEF IsWorld
<1>3. IsWorld(r) /\ Typed(r)
  BY <1>1, <1>2 DEF Base, IsWorld, Typed
<1>4. AutoipCalled(r) /\ Owned(r)
  BY <1>1, <1>2 DEF Sound, Base, AutoipCalled, Inactive, Owned, dhcp_supplied_address
<1>5. Promised(r)
  BY <1>1, <1>2 DEF Base, Promised, StoodBy
<1>6. Kept(r) /\ Checked(r)
  BY <1>2 DEF Sound, Kept, Checked
<1>7. QED
  BY <1>3, <1>4, <1>5, <1>6 DEF Sound, Base

\* A server grants what it acknowledges, and takes nothing back.
LEMMA ServerGrants ==
    ASSUME DhcpInv, NEW m \in Offers \cup Acks \cup Naks, NEW more,
           more = answers \/ more = answers \cup {m},
           NEW r, r = [dhcp |-> dhcp, autoip |-> autoip, ip |-> ip, asked |-> asked, answers |-> more,
                       lease |-> Granted(m)]
    PROVE  Sound(r) /\ StoodBy(r, m)
<1>1. /\ m = [type |-> m.type, addr |-> m.addr, terms |-> m.terms, old |-> FALSE] /\ m.old = FALSE
      /\ m.type = "ACK" => m.addr \in Addrs /\ m.terms.t0 \in Nat
  <2>1. CASE m \in Acks
    <3>1. PICK a \in Addrs, t \in Leases : m = Answer("ACK", a, t)
      BY <2>1 DEF Acks
    <3>2. QED
      BY <3>1, DhcpAssumption DEF Answer, DhcpAssumption
  <2>2. CASE m \in Offers
    <3>1. PICK a \in Addrs : m = Answer("OFFER", a, NoTerms)
      BY <2>2 DEF Offers
    <3>2. QED
      BY <3>1 DEF Answer
  <2>3. CASE m \in Naks
    BY <2>3 DEF Naks, Answer
  <2>4. QED
    BY <2>1, <2>2, <2>3
<1>2. Sound(World) /\ Base(World) /\ lease \in [Addrs -> Int]
  BY DEF DhcpInv, Sound, Base, Typed, World
<1>3. /\ Granted(m) \in [Addrs -> Int]
      /\ \A a \in Addrs : Granted(m)[a] >= lease[a]
      /\ m.type = "ACK" => Granted(m)[m.addr] >= Ticks(m.terms.t0)
  <2>1. CASE m.type # "ACK"
    BY <1>2, <2>1 DEF Granted
  <2>2. CASE m.type = "ACK"
    <3>1. Granted(m) = [lease EXCEPT ![m.addr] = Larger(@, Ticks(m.terms.t0))]
      BY <2>2 DEF Granted
    <3>2. m.addr \in Addrs /\ Ticks(m.terms.t0) \in Nat
      BY <1>1, <2>2, Numbers
    <3>3. /\ Larger(lease[m.addr], Ticks(m.terms.t0)) \in Int
          /\ Larger(lease[m.addr], Ticks(m.terms.t0)) >= lease[m.addr]
          /\ Larger(lease[m.addr], Ticks(m.terms.t0)) >= Ticks(m.terms.t0)
      BY <3>2, <1>2 DEF Larger
    <3>4. QED
      BY <3>1, <3>2, <3>3, <1>2
  <2>3. QED
    BY <2>1, <2>2
<1>4. PICK g : g = Granted(m)
  OBVIOUS
<1>5. /\ r = [dhcp |-> dhcp, autoip |-> autoip, ip |-> ip, asked |-> asked, answers |-> more, lease |-> g]
      /\ g \in [Addrs -> Int]
      /\ \A a \in Addrs : g[a] >= lease[a] /\ g[a] \in Int /\ lease[a] \in Int
      /\ m.type = "ACK" => g[m.addr] >= Ticks(m.terms.t0)
  BY <1>2, <1>3, <1>4
<1>6. IsWorld(r) /\ Typed(r)
  BY <1>2, <1>5 DEF Base, IsWorld, Typed, World
<1>7. AutoipCalled(r) /\ Owned(r)
  BY <1>2, <1>5 DEF Sound, Base, AutoipCalled, Inactive, Owned, dhcp_supplied_address, World
<1>8. StoodBy(r, m)
  <2>1. m = [type |-> m.type, addr |-> m.addr, terms |-> m.terms, old |-> m.old] /\ m.old \in BOOLEAN
    BY <1>1
  <2>2. ASSUME m.type = "ACK"
        PROVE  /\ m.addr \in Addrs /\ m.terms.t0 \in Nat
               /\ r.lease[m.addr] >= Ticks(m.terms.t0) - (IF m.old THEN 1 ELSE 0)
    <3>1. m.addr \in Addrs /\ m.terms.t0 \in Nat /\ Ticks(m.terms.t0) \in Nat
      BY <1>1, <2>2, Numbers
    <3>2. r.lease[m.addr] = g[m.addr] /\ g[m.addr] >= Ticks(m.terms.t0) /\ g[m.addr] \in Int
      BY <1>5, <2>2, <3>1
    <3>3. QED
      BY <3>1, <3>2, <1>1
  <2>3. QED
    BY <2>1, <2>2 DEF StoodBy
<1>9. Promised(r)
  <2>1. ASSUME NEW x \in answers PROVE StoodBy(r, x)
    <3>1. StoodBy(World, x)
      BY <1>2 DEF Base, Promised, World
    <3>2. /\ x = [type |-> x.type, addr |-> x.addr, terms |-> x.terms, old |-> x.old]
          /\ x.old \in BOOLEAN
      BY <3>1 DEF StoodBy
    <3>3. ASSUME x.type = "ACK"
          PROVE  /\ x.addr \in Addrs /\ x.terms.t0 \in Nat
                 /\ g[x.addr] >= Ticks(x.terms.t0) - (IF x.old THEN 1 ELSE 0)
      <4>1. /\ x.addr \in Addrs /\ x.terms.t0 \in Nat
            /\ lease[x.addr] >= Ticks(x.terms.t0) - (IF x.old THEN 1 ELSE 0)
        BY <3>1, <3>3 DEF StoodBy, World
      <4>2. Ticks(x.terms.t0) \in Nat /\ g[x.addr] >= lease[x.addr] /\ g[x.addr] \in Int /\ lease[x.addr] \in Int
        BY <4>1, <1>5, Numbers
      <4>3. QED
        BY <4>1, <4>2
    <3>4. QED
      BY <3>2, <3>3, <1>5 DEF StoodBy
  <2>2. QED
    BY <2>1, <1>5, <1>8 DEF Promised
<1>10. Kept(r)
  <2>1. SUFFICES ASSUME ip \in Addrs PROVE dhcp.used < dhcp.t0 /\ g[ip] >= dhcp.t0 - Slack - dhcp.used
    BY <1>5 DEF Kept
  <2>2. dhcp.used < dhcp.t0 /\ lease[ip] >= dhcp.t0 - Slack - dhcp.used
    BY <2>1, <1>2 DEF Sound, Kept, World
  <2>3. dhcp.used \in Nat /\ dhcp.t0 \in Nat
    BY <1>2 DEF Base, Typed, World
  <2>4. QED
    BY <2>1, <2>2, <2>3, <1>5 DEF Slack
<1>11. Checked(r)
  <2>1. SUFFICES ASSUME dhcp.state = "CHECKING" PROVE Checked(r)
    BY <1>5 DEF Checked
  <2> DEFINE k == IF dhcp.timer = "ticked" THEN 1 ELSE 0
  <2>2. /\ dhcp.offered \in Addrs /\ dhcp.terms.t0 \in Nat
        /\ dhcp.tries \in {1, 2} /\ dhcp.timer \in {"fresh", "ticked"}
        /\ lease[dhcp.offered] >= Ticks(dhcp.terms.t0) - dhcp.tries - k
    BY <2>1, <1>2 DEF Sound, Checked, World
  <2>3. k \in Nat /\ Ticks(dhcp.terms.t0) \in Nat
    BY <2>2, Numbers
  <2> HIDE DEF k
  <2>4. g[dhcp.offered] >= Ticks(dhcp.terms.t0) - dhcp.tries - k
    BY <2>2, <2>3, <1>5
  <2>5. QED
    BY <1>5, <2>2, <2>4 DEF Checked, k
<1>12. QED
  BY <1>6, <1>7, <1>8, <1>9, <1>10, <1>11 DEF Sound, Base

\* Every action keeps the invariant.
LEMMA NextInv ==
    ASSUME DhcpInv, [Next]_vars
    PROVE  DhcpInv'
<1>1. Sound(World)
  BY DEF DhcpInv
<1>2. IsWorld(World)
  BY <1>1 DEF Sound, Base
<1>3. ASSUME NEW mem, Boot(mem) PROVE DhcpInv'
  <2>1. Base(World) /\ Inactive(World) /\ World.ip \notin Addrs
    BY <1>1, <1>3 DEF Boot, Sound, Owned, Base, AutoipCalled, Inactive, dhcp_supplied_address, World
  <2>2. Sound(dhcp_start(World, mem))
    BY <2>1, Starts
  <2>3. QED
    BY <1>3, <2>2, Becoming DEF Boot
<1>4. ASSUME NEW mem, dhcp_fine_tmr(mem) PROVE DhcpInv'
  <2>1. PICK w : w = World
    OBVIOUS
  <2>2. PICK p : p = [w EXCEPT !.dhcp.timer = "off"]
    OBVIOUS
  <2>3. Sound(w) /\ IsWorld(w)
    BY <1>1, <1>2, <2>1
  <2>w1. p = [dhcp |-> p.dhcp, autoip |-> w.autoip, ip |-> w.ip, asked |-> w.asked,
         answers |-> w.answers, lease |-> w.lease]
    BY <2>2, <2>3 DEF IsWorld, Base
  <2>w2. p.dhcp = [w.dhcp EXCEPT !.timer = "off"]
    BY <2>2, <2>3 DEF IsWorld, Base
  <2>w3. p.dhcp =
       [state |-> w.dhcp.state, tries |-> w.dhcp.tries, timer |-> "off", same |-> w.dhcp.same,
        offered |-> w.dhcp.offered, terms |-> w.dhcp.terms, used |-> w.dhcp.used, t0 |-> w.dhcp.t0,
        t2 |-> w.dhcp.t2, renew |-> w.dhcp.renew, rebind |-> w.dhcp.rebind, coop |-> w.dhcp.coop]
    BY <2>w2, <2>3 DEF IsWorld, IsBlock, Base
  <2>w4. IsWorld(p)
    BY <2>w1, <2>w3, <2>3 DEF IsWorld, IsBlock, Base
  <2>4. Base(p) /\ Owned(p) /\ Kept(p)
    <3>1. Typed(p) /\ AutoipCalled(p)
      BY <2>3, <2>w1, <2>w3 DEF Sound, Base, Typed, AutoipCalled, Inactive
    <3>2. Promised(p)
      BY <2>3, <2>w1 DEF Sound, Base, Promised, StoodBy
    <3>3. Owned(p) /\ Kept(p)
      BY <2>3, <2>w1, <2>w3 DEF Sound, Owned, Kept, dhcp_supplied_address
    <3>4. QED
      BY <3>1, <3>2, <3>3, <2>w4 DEF Base
  <2>5. ASSUME p.dhcp.state = "CHECKING"
        PROVE  p.dhcp.tries \in {1, 2} /\ Grants(p, p.dhcp.tries + 1)
    <3>1. /\ w.dhcp.offered \in Addrs /\ w.dhcp.terms.t0 \in Nat /\ w.dhcp.tries \in {1, 2}
          /\ w.lease[w.dhcp.offered] >= Ticks(w.dhcp.terms.t0) - w.dhcp.tries
                                         - (IF w.dhcp.timer = "ticked" THEN 1 ELSE 0)
      BY <2>3, <2>5, <2>w3 DEF Sound, Checked
    <3>2. w.lease[w.dhcp.offered] \in Int /\ Ticks(w.dhcp.terms.t0) \in Nat
      BY <2>3, <3>1, Numbers DEF Sound, Base, Typed
    <3>3. w.lease[w.dhcp.offered] >= Ticks(w.dhcp.terms.t0) - (w.dhcp.tries + 1)
      BY <3>1, <3>2
    <3>4. QED
      BY <3>1, <3>3, <2>w1, <2>w3 DEF Grants
  <2>6. Sound(dhcp_timeout(p, mem))
    BY <2>4, <2>5, TimesOut DEF Expired
  <2>7. Becomes(dhcp_timeout(p, mem))
    BY <1>4, <2>1, <2>2 DEF dhcp_fine_tmr
  <2>8. QED
    BY <2>6, <2>7, Becoming
<1>5. ASSUME NEW mem, dhcp_coarse_tmr(mem) PROVE DhcpInv'
  <2>1. Becomes(CoarseTick(Aged(World), mem)) /\ World.dhcp.timer # "ticked"
    BY <1>5 DEF dhcp_coarse_tmr, Aged, World
  <2>2. Sound(CoarseTick(Aged(World), mem))
    BY <1>1, <2>1, Ages, Ticking
  <2>3. QED
    BY <2>1, <2>2, Becoming
<1>6. ASSUME NEW step \in BOOLEAN, NEW calm \in BOOLEAN, autoip_tmr(step, calm) PROVE DhcpInv'
  <2>1. PICK w : w = IF calm THEN [World EXCEPT !.autoip.defended = FALSE] ELSE World
    OBVIOUS
  <2>2. /\ step => autoip.state \in {"PROBING", "ANNOUNCING"}
        /\ Becomes(IF step THEN AutoipStep(w) ELSE w)
    BY <1>6, <2>1 DEF autoip_tmr
  <2>3. Sound(w) /\ w.autoip.state = autoip.state
    <3>1. World.autoip.state = autoip.state
      BY DEF World
    <3>2. QED
      BY <3>1, <1>1, <2>1, AutoipDefends
  <2>4. Sound(IF step THEN AutoipStep(w) ELSE w)
    BY <2>2, <2>3, AutoipStepsSoundly
  <2>5. QED
    BY <2>2, <2>4, Becoming
<1>7. ASSUME NEW m \in answers, NEW mem, dhcp_recv(m, mem) PROVE DhcpInv'
  <2>1. StoodBy(World, m)
    BY <1>1 DEF Sound, Base, Promised, World
  <2>2. Sound(Handle(World, m, mem))
    BY <1>1, <2>1, Handles
  <2>3. PICK r : r = [Handle(World, m, mem) EXCEPT !.answers = @ \ {m}]
    OBVIOUS
  <2>4. Sound(r)
    BY <2>2, <2>3, Drops
  <2>5. Becomes(r)
    BY <1>7, <2>3 DEF dhcp_recv
  <2>6. QED
    BY <2>4, <2>5, Becoming
<1>8. ASSUME NEW addr, NEW mem, etharp_input(addr, mem) PROVE DhcpInv'
  <2>1. Sound(autoip_arp_reply(World, mem)) /\ Sound(dhcp_arp_reply(World, addr, mem))
    BY <1>1, AutoipReplies, ArpReplies
  <2>2. Becomes(autoip_arp_reply(World, mem)) \/ Becomes(dhcp_arp_reply(World, addr, mem))
    BY <1>8 DEF etharp_input
  <2>3. QED
    BY <2>1, <2>2, Becoming
<1>9. ASSUME ServerAnswers PROVE DhcpInv'
  <2>1. PICK m \in Offers \cup Acks \cup Naks : answers' = answers \cup {m} /\ lease' = Granted(m)
    BY <1>9 DEF ServerAnswers
  <2>2. PICK r : r = [dhcp |-> dhcp, autoip |-> autoip, ip |-> ip, asked |-> asked, answers |-> answers \cup {m},
                      lease |-> Granted(m)]
    OBVIOUS
  <2>3. Sound(r)
    BY <2>2, ServerGrants
  <2>4. Becomes(r)
    BY <1>9, <2>1, <2>2 DEF ServerAnswers, Becomes
  <2>5. QED
    BY <2>3, <2>4, Becoming
<1>10. ASSUME NEW messages \in SUBSET (Offers \cup Acks \cup Naks), GoodAnswer(messages) PROVE DhcpInv'
  <2>1. PICK m \in messages : Becomes(Handle([World EXCEPT !.lease = Granted(m)], m, AllMemory))
    BY <1>10 DEF GoodAnswer
  <2>2. PICK r : r = [World EXCEPT !.lease = Granted(m)]
    OBVIOUS
  <2>3. r = [dhcp |-> dhcp, autoip |-> autoip, ip |-> ip, asked |-> asked, answers |-> answers,
             lease |-> Granted(m)]
    BY <2>2 DEF World
  <2>4. Sound(r) /\ StoodBy(r, m)
    BY <2>3, ServerGrants
  <2>5. Sound(Handle(r, m, AllMemory))
    BY <2>4, Handles
  <2>6. Becomes(Handle(r, m, AllMemory))
    BY <2>1, <2>2
  <2>7. QED
    BY <2>5, <2>6, Becoming
<1>11. CASE ServerTurns \/ UNCHANGED vars
  <2>1. World' = World
    BY <1>11 DEF ServerTurns, vars, World
  <2>2. Becomes(World)
    BY <1>11 DEF ServerTurns, vars, World, Becomes
  <2>3. QED
    BY <1>1, <2>2, Becoming
<1>12. QED
  <2>1. Offers \in SUBSET (Offers \cup Acks \cup Naks) /\ Acks \in SUBSET (Offers \cup Acks \cup Naks)
    OBVIOUS
  <2>2. QED
    BY <2>1, <1>3, <1>4, <1>5, <1>6, <1>7, <1>8, <1>9, <1>10, <1>11 DEF Next, Timers

\* The invariant holds in every behaviour of the client, AutoIP and the servers.
THEOREM DhcpInvariant == Spec => []DhcpInv
<1>1. QED
  BY InitInv, NextInv, PTL DEF Spec

\* dhcp.c and autoip.c never both stand by the interface's address, and neither leaves
\* one behind that it has given up: whatever answers, conflicts and timeouts come in
\* whatever order.
THEOREM AddressHasOneOwner == Spec => []OneOwner
<1>1. DhcpInv => OneOwner
  BY DEF DhcpInv, Sound, Base, Owned, AutoipCalled, Inactive, dhcp_supplied_address, World, OneOwner
<1>2. QED
  BY <1>1, DhcpInvariant, PTL

\* The minutes that dhcp_coarse_tmr counts end a lease in time: however late answers are,
\* and however the lease was renewed, the address is not used past the server's lease and
\* the three minutes that two checks and an answer may take.
THEOREM LeaseIsHonoured == Spec => []LeaseHonoured
<1>1. ASSUME DhcpInv, ip \in Addrs PROVE lease[ip] > -Slack
  <2>1. /\ lease[ip] >= dhcp.t0 - Slack - dhcp.used /\ dhcp.used < dhcp.t0
        /\ dhcp.t0 \in Nat /\ dhcp.used \in Nat /\ lease[ip] \in Int
    BY <1>1 DEF DhcpInv, Sound, Base, Typed, Kept, World
  <2>2. QED
    BY <2>1 DEF Slack
<1>2. DhcpInv => LeaseHonoured
  BY <1>1 DEF LeaseHonoured
<1>3. QED
  BY <1>2, DhcpInvariant, PTL
=============================================================================
