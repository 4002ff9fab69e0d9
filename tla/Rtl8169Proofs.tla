--------------------------- MODULE Rtl8169Proofs ----------------------------
(***************************************************************************)
(* The descriptor rings of the network driver, for every size of the rings *)
(* and any number of frames: received frames reach lwIP in order and whole, *)
(* sent frames leave in order and are damaged only by a full ring, wherever *)
(* the timer interrupt and the card cut in.                                *)
(***************************************************************************)
EXTENDS Rtl8169, TLAPS

\* The slot after slot i, and the slots from one to another, going round.
Succ(i) == IF i + 1 = NUM_DESCS THEN 0 ELSE i + 1
Ahead(from, i) == IF i >= from THEN i - from ELSE i - from + NUM_DESCS

RxType ==
    /\ init \in {"no", "failed", "rings", "ready"}
    /\ irq \in {"off", "check", "input", "give", "timeouts"}
    /\ rx_ring \in [Slots -> [own : BOOLEAN, eor : BOOLEAN, ok : BOOLEAN]]
    /\ rx_buffers \in [Slots -> Nat] /\ rx_idx \in Slots
    /\ rxCount \in Nat /\ handed \in Seq(Nat)
    /\ nic \in [tx : Nat, rx : Slots, sending : BOOLEAN]

\* Frames that the poll is done with, and those stored and not yet done with.
Given == IF irq \in {"input", "give"} THEN Len(handed) - 1 ELSE Len(handed)
Waiting == rxCount - Given

\* Before the rings are set up nothing has happened.
RxOff ==
    init \in {"no", "failed"} =>
       irq = "off" /\ rxCount = 0 /\ rx_idx = 0 /\ handed = <<>> /\ nic.rx = 0

\* The slots from rx_idx to the card's slot hold, in order, the frames waiting;
\* the card owns the others.
RxSlots ==
    init \in {"rings", "ready"} =>
       \A i \in Slots :
          /\ rx_ring[i].own <=> Ahead(rx_idx, i) >= Waiting
          /\ rx_ring[i].eor <=> i = NUM_DESCS - 1
          /\ ~rx_ring[i].own => rx_buffers[i] = Given + 1 + Ahead(rx_idx, i)

RxPlace ==
    /\ Waiting \in 0 .. NUM_DESCS
    /\ Waiting = NUM_DESCS => nic.rx = rx_idx
    /\ Waiting < NUM_DESCS => Ahead(rx_idx, nic.rx) = Waiting
    /\ irq \in {"input", "give"} => Waiting > 0

RxInv == RxType /\ RxOff /\ RxSlots /\ RxPlace /\ RxInOrder

-----------------------------------------------------------------------------
(* Going round a ring.                                                     *)

LEMMA SuccIs ==
    ASSUME NEW i \in Slots
    PROVE  Succ(i) \in Slots /\ (i + 1) % NUM_DESCS = Succ(i)
<1>1. NUM_DESCS \in Nat /\ NUM_DESCS > 0 /\ i \in 0 .. NUM_DESCS - 1
  BY Rtl8169Assumption DEF Slots
<1>2. CASE i + 1 = NUM_DESCS
  BY <1>1, <1>2 DEF Succ, Slots
<1>3. CASE i + 1 # NUM_DESCS
  BY <1>1, <1>3 DEF Succ, Slots
<1>4. QED
  BY <1>2, <1>3

\* The slots from a slot on are numbered from zero, each once.
LEMMA AheadRange ==
    ASSUME NEW i \in Slots, NEW j \in Slots
    PROVE  /\ Ahead(i, j) \in 0 .. NUM_DESCS - 1
           /\ Ahead(i, j) = 0 <=> i = j
           /\ \A k \in Slots : Ahead(i, j) = Ahead(i, k) => j = k
BY Rtl8169Assumption DEF Ahead, Slots

\* The numbering when its first slot moves on.
LEMMA AheadFrom ==
    ASSUME NEW i \in Slots, NEW j \in Slots
    PROVE  Ahead(Succ(i), j) = IF i = j THEN NUM_DESCS - 1 ELSE Ahead(i, j) - 1
BY Rtl8169Assumption DEF Ahead, Succ, Slots

\* The number of the slot after slot j.
LEMMA AheadSucc ==
    ASSUME NEW i \in Slots, NEW j \in Slots
    PROVE  /\ Succ(j) = i <=> Ahead(i, j) = NUM_DESCS - 1
           /\ Succ(j) # i => Ahead(i, Succ(j)) = Ahead(i, j) + 1
BY Rtl8169Assumption DEF Ahead, Succ, Slots

-----------------------------------------------------------------------------
(* Receiving.                                                              *)

LEMMA RxInit == Init => RxInv
<1> SUFFICES ASSUME Init PROVE RxInv
  OBVIOUS
<1>1. NUM_DESCS \in Nat /\ NUM_DESCS > 0 /\ 0 \in Slots
  BY Rtl8169Assumption DEF Slots
<1>2. /\ handed = <<>> /\ rxCount = 0 /\ irq = "off" /\ init = "no"
      /\ Len(handed) = 0 /\ Given = 0 /\ Waiting = 0
  <2>1. handed = <<>> /\ rxCount = 0 /\ irq = "off" /\ init = "no"
    BY DEF Init
  <2>2. Len(handed) = 0
    BY <2>1
  <2>3. Given = 0
    BY <2>1, <2>2 DEF Given
  <2>4. QED
    BY <2>1, <2>2, <2>3 DEF Waiting
<1>3. RxType
  <2>1. rx_ring \in [Slots -> [own : BOOLEAN, eor : BOOLEAN, ok : BOOLEAN]]
    BY DEF Init
  <2>2. rx_buffers \in [Slots -> Nat] /\ rx_idx \in Slots
    BY <1>1 DEF Init, Dropped
  <2>3. nic \in [tx : Nat, rx : Slots, sending : BOOLEAN]
    BY <1>1 DEF Init
  <2>4. QED
    BY <1>2, <2>1, <2>2, <2>3 DEF Init, RxType
<1>4. RxOff /\ RxSlots
  BY DEF Init, RxOff, RxSlots
<1>5. RxPlace
  BY <1>1, <1>2 DEF Init, RxPlace, Ahead
<1>6. RxInOrder
  BY <1>2 DEF Init, RxInOrder
<1>7. QED
  BY <1>3, <1>4, <1>5, <1>6 DEF RxInv

\* A step that leaves the receiving side alone.
LEMMA RxSame ==
    ASSUME RxInv, UNCHANGED <<rxVars, init>>, nic' \in [tx : Nat, rx : Slots, sending : BOOLEAN],
           nic'.rx = nic.rx, irq' \in {"off", "check", "input", "give", "timeouts"},
           irq \in {"input", "give"} <=> irq' \in {"input", "give"},
           init \in {"no", "failed"} => irq' = "off"
    PROVE  RxInv'
<1>1. UNCHANGED <<Given, Waiting>>
  BY DEF Given, Waiting, rxVars
<1>2. QED
  BY <1>1 DEF RxInv, RxType, RxOff, RxSlots, RxPlace, RxInOrder, rxVars

LEMMA RxRings == ASSUME RxInv, InitRings PROVE RxInv'
<1>1. /\ NUM_DESCS \in Nat /\ NUM_DESCS > 0
      /\ init = "no" /\ init' = "rings" /\ irq = "off" /\ irq' = "off"
      /\ UNCHANGED <<rx_buffers, rx_idx, rxCount, handed, nic>>
      /\ rxCount = 0 /\ Len(handed) = 0
  BY Rtl8169Assumption DEF InitRings, RxInv, RxOff
<1>2. UNCHANGED <<Given, Waiting>> /\ Waiting = 0
  <2>1. UNCHANGED <<Given, Waiting>>
    BY <1>1 DEF Given, Waiting
  <2>2. Given = 0
    BY <1>1 DEF Given
  <2>3. QED
    BY <1>1, <2>1, <2>2 DEF Waiting
<1>20. rx_ring' = [i \in Slots |-> [own |-> TRUE, eor |-> i = NUM_DESCS - 1, ok |-> TRUE]]
  BY DEF InitRings
<1>21. \A i \in Slots : rx_ring'[i] = [own |-> TRUE, eor |-> i = NUM_DESCS - 1, ok |-> TRUE]
  BY <1>20
<1>22. rx_ring' \in [Slots -> [own : BOOLEAN, eor : BOOLEAN, ok : BOOLEAN]]
  BY <1>20, Zenon
<1>3. RxType' /\ RxOff'
  BY <1>1, <1>22 DEF RxInv, RxType, RxOff
<1>4. RxSlots'
  <2>0. \A i \in Slots : rx_ring'[i].own /\ (rx_ring'[i].eor <=> i = NUM_DESCS - 1)
    <3>1. TAKE i \in Slots
    <3>2. rx_ring'[i] = [own |-> TRUE, eor |-> i = NUM_DESCS - 1, ok |-> TRUE]
      BY <1>21
    <3>3. rx_ring'[i].own /\ rx_ring'[i].eor = (i = NUM_DESCS - 1)
      BY <3>2
    <3>4. QED
      BY <3>3
  <2>1. ASSUME NEW i \in Slots
        PROVE  rx_ring'[i].own /\ (rx_ring'[i].eor <=> i = NUM_DESCS - 1) /\ Ahead(rx_idx, i) >= 0
    BY <2>0, AheadRange DEF RxInv, RxType
  <2>2. QED
    BY <1>1, <1>2, <2>1 DEF RxSlots
<1>5. RxPlace' /\ RxInOrder'
  BY <1>1, <1>2 DEF RxInv, RxPlace, RxInOrder
<1>6. QED
  BY <1>3, <1>4, <1>5 DEF RxInv

\* A frame that the poll takes is the oldest one waiting.
LEMMA RxTake ==
    ASSUME RxInv, irq = "check", ~rx_ring[rx_idx].own, irq' \in {"input", "give"},
           NEW f \in {rx_buffers[rx_idx], Dropped}, handed' = Append(handed, f),
           UNCHANGED <<init, rx_ring, rx_buffers, rx_idx, rxCount, nic>>
    PROVE  RxInv'
<1>1. /\ NUM_DESCS \in Nat /\ rx_idx \in Slots /\ handed \in Seq(Nat) /\ Len(handed) \in Nat
      /\ rxCount \in Nat /\ init \in {"rings", "ready"} /\ Ahead(rx_idx, rx_idx) = 0
  BY Rtl8169Assumption, AheadRange DEF RxInv, RxType, RxOff
<1>2. Given = Len(handed) /\ Waiting = rxCount - Len(handed)
  BY DEF Given, Waiting
<1>3. Waiting > 0 /\ rx_buffers[rx_idx] = Len(handed) + 1
  BY <1>1, <1>2 DEF RxInv, RxSlots
<1>4. /\ Len(handed') = Len(handed) + 1 /\ handed' \in Seq(Nat)
      /\ handed'[Len(handed) + 1] \in {Len(handed) + 1, Dropped}
      /\ \A k \in 1 .. Len(handed) : handed'[k] = handed[k]
  BY <1>1, <1>3 DEF Dropped
<1>5. UNCHANGED <<Given, Waiting>>
  BY <1>1, <1>2, <1>4 DEF Given, Waiting
<1>6. RxType' /\ RxOff' /\ RxSlots' /\ RxPlace'
  BY <1>1, <1>3, <1>4, <1>5 DEF RxInv, RxType, RxOff, RxSlots, RxPlace
<1>7. RxInOrder'
  BY <1>1, <1>2, <1>3, <1>4 DEF RxInv, RxInOrder
<1>8. QED
  BY <1>6, <1>7 DEF RxInv

\* The slot handed back lies behind all the frames waiting.
LEMMA RxGive == ASSUME RxInv, PollGive PROVE RxInv'
<1>1. /\ NUM_DESCS \in Nat /\ NUM_DESCS > 0 /\ rx_idx \in Slots /\ Len(handed) \in Nat /\ rxCount \in Nat
      /\ Succ(rx_idx) \in Slots /\ rx_idx' = Succ(rx_idx) /\ irq = "give" /\ irq' = "check"
      /\ UNCHANGED <<init, rx_buffers, rxCount, handed, nic>> /\ init \in {"rings", "ready"}
      /\ nic.rx \in Slots
  BY Rtl8169Assumption, SuccIs DEF PollGive, RxInv, RxType, RxOff
<1>2. Given' = Given + 1 /\ Waiting' = Waiting - 1 /\ Waiting \in 1 .. NUM_DESCS
  BY <1>1 DEF RxInv, RxPlace, Given, Waiting
<1>3. /\ rx_ring'[rx_idx] = [own |-> TRUE, eor |-> rx_idx = NUM_DESCS - 1, ok |-> TRUE]
      /\ \A i \in Slots : i # rx_idx => rx_ring'[i] = rx_ring[i]
      /\ rx_ring' \in [Slots -> [own : BOOLEAN, eor : BOOLEAN, ok : BOOLEAN]]
  BY <1>1 DEF PollGive, RxInv, RxType
<1>4. RxType' /\ RxOff'
  BY <1>1, <1>3 DEF RxInv, RxType, RxOff
<1>5. RxSlots'
  <2>1. ASSUME NEW i \in Slots, i # rx_idx
        PROVE  /\ rx_ring'[i].own <=> Ahead(rx_idx', i) >= Waiting'
               /\ ~rx_ring'[i].own => rx_buffers[i] = Given' + 1 + Ahead(rx_idx', i)
    <3>1. Ahead(rx_idx', i) = Ahead(rx_idx, i) - 1 /\ Ahead(rx_idx, i) \in Int
      BY <1>1, <2>1, AheadFrom, AheadRange
    <3>2. Given \in Int /\ Waiting \in Int
      BY <1>1 DEF Given, Waiting
    <3>3. QED
      BY <1>1, <1>2, <1>3, <2>1, <3>1, <3>2 DEF RxInv, RxSlots
  <2>2. Ahead(rx_idx', rx_idx) = NUM_DESCS - 1
    BY <1>1, AheadFrom
  <2>3. rx_ring'[rx_idx].own /\ Ahead(rx_idx', rx_idx) >= Waiting'
    BY <1>1, <1>2, <1>3, <2>2
  <2>4. \A i \in Slots : rx_ring'[i].eor <=> i = NUM_DESCS - 1
    BY <1>1, <1>3 DEF RxInv, RxSlots
  <2>5. QED
    BY <1>1, <2>1, <2>3, <2>4 DEF RxSlots
<1>6. RxPlace'
  <2>1. CASE nic.rx = rx_idx
    <3>1. Waiting = NUM_DESCS
      BY <1>1, <1>2, <2>1, AheadRange DEF RxInv, RxPlace
    <3>2. Ahead(rx_idx', nic.rx) = NUM_DESCS - 1
      BY <1>1, <2>1, AheadFrom
    <3>3. QED
      BY <1>1, <1>2, <3>1, <3>2 DEF RxPlace
  <2>2. CASE nic.rx # rx_idx
    <3>1. Waiting < NUM_DESCS /\ Ahead(rx_idx, nic.rx) = Waiting
      BY <1>1, <1>2, <2>2 DEF RxInv, RxPlace
    <3>2. Ahead(rx_idx', nic.rx) = Waiting'
      BY <1>1, <1>2, <2>2, <3>1, AheadFrom
    <3>3. QED
      BY <1>1, <1>2, <3>1, <3>2 DEF RxPlace
  <2>3. QED
    BY <2>1, <2>2
<1>7. RxInOrder'
  BY <1>1 DEF RxInv, RxInOrder
<1>8. QED
  BY <1>4, <1>5, <1>6, <1>7 DEF RxInv

\* The card stores a frame behind the ones waiting, and never over one of them.
LEMMA RxStore == ASSUME RxInv, NicReceive PROVE RxInv'
<1> DEFINE n == nic.rx
<1>1. /\ NUM_DESCS \in Nat /\ NUM_DESCS > 0 /\ n \in Slots /\ rx_idx \in Slots /\ Len(handed) \in Nat
      /\ rxCount \in Nat /\ init \in {"rings", "ready"} /\ rx_ring[n].own /\ rxCount' = rxCount + 1
      /\ rx_buffers' = [rx_buffers EXCEPT ![n] = rxCount + 1]
      /\ nic' = [nic EXCEPT !.rx = After(rx_ring, n)]
      /\ UNCHANGED <<init, rx_idx, handed, irq>>
      /\ Succ(n) \in Slots
  BY Rtl8169Assumption, SuccIs DEF NicReceive, RxInv, RxType
<1>2. PICK ok \in BOOLEAN : rx_ring' = [rx_ring EXCEPT ![n].own = FALSE, ![n].ok = ok]
  BY DEF NicReceive
<1>3. Given' = Given /\ Waiting' = Waiting + 1 /\ Waiting = rxCount - Given /\ Given \in Int /\ Waiting \in Int
  BY <1>1 DEF Given, Waiting
<1>4. nic'.rx = Succ(n) /\ nic' \in [tx : Nat, rx : Slots, sending : BOOLEAN]
  <2>1. After(rx_ring, n) = Succ(n)
    BY <1>1 DEF RxInv, RxSlots, After, Succ, Slots
  <2>2. QED
    BY <1>1, <2>1 DEF RxInv, RxType
<1> HIDE DEF n
<1>5. Waiting < NUM_DESCS /\ Ahead(rx_idx, n) = Waiting /\ Waiting >= 0
  <2>1. Ahead(rx_idx, n) >= Waiting
    BY <1>1 DEF RxInv, RxSlots
  <2>2. Ahead(rx_idx, n) \in 0 .. NUM_DESCS - 1
    BY <1>1, AheadRange
  <2>3. QED
    BY <1>1, <1>3, <2>1, <2>2 DEF RxInv, RxPlace, n
<1>6. /\ rx_ring' \in [Slots -> [own : BOOLEAN, eor : BOOLEAN, ok : BOOLEAN]]
      /\ ~rx_ring'[n].own /\ rx_ring'[n].eor = rx_ring[n].eor
      /\ \A i \in Slots : i # n => rx_ring'[i] = rx_ring[i]
      /\ rx_buffers' \in [Slots -> Nat] /\ rx_buffers'[n] = rxCount + 1
      /\ \A i \in Slots : i # n => rx_buffers'[i] = rx_buffers[i]
  <2>1. rx_ring \in [Slots -> [own : BOOLEAN, eor : BOOLEAN, ok : BOOLEAN]] /\ rx_buffers \in [Slots -> Nat]
    BY DEF RxInv, RxType
  <2>2. rx_ring' \in [Slots -> [own : BOOLEAN, eor : BOOLEAN, ok : BOOLEAN]]
    BY <1>1, <1>2, <2>1
  <2>3. ~rx_ring'[n].own /\ rx_ring'[n].eor = rx_ring[n].eor
    BY <1>1, <1>2, <2>1
  <2>4. \A i \in Slots : i # n => rx_ring'[i] = rx_ring[i]
    BY <1>1, <1>2, <2>1
  <2>5. /\ rx_buffers' \in [Slots -> Nat] /\ rx_buffers'[n] = rxCount + 1
        /\ \A i \in Slots : i # n => rx_buffers'[i] = rx_buffers[i]
    BY <1>1, <2>1
  <2>6. QED
    BY <2>2, <2>3, <2>4, <2>5
<1>7. RxType' /\ RxOff'
  BY <1>1, <1>4, <1>6 DEF RxInv, RxType, RxOff
<1>8. RxSlots'
  <2>1. ASSUME NEW i \in Slots, i # n
        PROVE  /\ rx_ring'[i].own <=> Ahead(rx_idx, i) >= Waiting'
               /\ ~rx_ring'[i].own => rx_buffers'[i] = Given' + 1 + Ahead(rx_idx, i)
    <3>1. Ahead(rx_idx, i) # Waiting /\ Ahead(rx_idx, i) \in Int
      BY <1>1, <1>5, <2>1, AheadRange
    <3>2. QED
      BY <1>1, <1>3, <1>6, <2>1, <3>1 DEF RxInv, RxSlots
  <2>2. rx_buffers'[n] = Given' + 1 + Ahead(rx_idx, n) /\ ~(Ahead(rx_idx, n) >= Waiting')
    BY <1>1, <1>3, <1>5, <1>6
  <2>3. \A i \in Slots : rx_ring'[i].eor <=> i = NUM_DESCS - 1
    BY <1>1, <1>6 DEF RxInv, RxSlots
  <2>4. QED
    BY <1>1, <1>6, <2>1, <2>2, <2>3 DEF RxSlots
<1>9. RxPlace'
  <2>1. /\ Succ(n) = rx_idx <=> Waiting + 1 = NUM_DESCS
        /\ Succ(n) # rx_idx => Ahead(rx_idx, Succ(n)) = Waiting + 1
    BY <1>1, <1>3, <1>5, AheadSucc
  <2>2. QED
    BY <1>1, <1>3, <1>4, <1>5, <2>1 DEF RxPlace
<1>10. RxInOrder'
  BY <1>1 DEF RxInv, RxInOrder
<1>11. QED
  BY <1>7, <1>8, <1>9, <1>10 DEF RxInv

LEMMA RxNext == RxInv /\ [Next]_vars => RxInv'
<1> SUFFICES ASSUME RxInv, [Next]_vars PROVE RxInv'
  OBVIOUS
<1>0. nic \in [tx : Nat, rx : Slots, sending : BOOLEAN]
  BY DEF RxInv, RxType
<1>00. irq \in {"off", "check", "input", "give", "timeouts"}
  BY DEF RxInv, RxType
<1>1. CASE InitFails \/ InitReady
  <2>1. /\ UNCHANGED <<rxVars, nic, irq>> /\ init' \in {"failed", "ready"}
        /\ (init = "no" /\ init' = "failed") \/ (init = "rings" /\ init' = "ready")
    BY <1>1 DEF InitFails, InitReady
  <2>2. UNCHANGED <<Given, Waiting>>
    BY <2>1 DEF Given, Waiting, rxVars
  <2>3. QED
    BY <2>1, <2>2 DEF RxInv, RxType, RxOff, RxSlots, RxPlace, RxInOrder, rxVars
<1>2. CASE InitRings
  BY <1>2, RxRings
<1>3. ASSUME NEW c \in Contexts, Send(c) PROVE RxInv'
  <2>1. UNCHANGED <<rxVars, init, irq>>
    BY <1>3 DEF Send, rtl8169_linkoutput, SendCopy, SendCheck, SendPoint, SendCommand, SendDoorbell
  <2>2. nic' = nic \/ nic' = [nic EXCEPT !.sending = TRUE]
    BY <1>3 DEF Send, rtl8169_linkoutput, SendCopy, SendCheck, SendPoint, SendCommand, SendDoorbell
  <2>3. nic' \in [tx : Nat, rx : Slots, sending : BOOLEAN] /\ nic'.rx = nic.rx
    BY <1>0, <2>2
  <2>4. QED
    BY <1>00, <2>1, <2>3, RxSame DEF RxInv, RxOff
<1>4. CASE TimerIrq \/ PollEmpty \/ TimerEnd
  <2>1. /\ UNCHANGED <<rxVars, init, nic>> /\ irq \notin {"input", "give"}
        /\ irq' \in {"off", "check", "timeouts"} /\ (init = "ready" \/ irq # "off")
    BY <1>4 DEF TimerIrq, PollEmpty, TimerEnd
  <2>2. QED
    BY <1>0, <1>00, <2>1, RxSame DEF RxInv, RxOff
<1>5. CASE PollBadLength
  BY <1>5, RxTake DEF PollBadLength
<1>6. CASE PollTake
  BY <1>6, RxTake DEF PollTake
<1>7. CASE InputReturns
  BY <1>0, <1>7, RxSame DEF InputReturns, RxInv, RxOff
<1>8. CASE PollGive
  BY <1>8, RxGive
<1>9. CASE NicReceive
  BY <1>9, RxStore
<1>10. CASE NicTransmit
  <2>1. nic.tx \in Slots /\ nic' = [nic EXCEPT !.tx = After(tx_ring, nic.tx)] /\ UNCHANGED <<rxVars, init, irq>>
    BY <1>10 DEF NicTransmit
  <2>2. After(tx_ring, nic.tx) \in Nat
    BY <2>1, Rtl8169Assumption DEF After, Slots
  <2>3. nic' \in [tx : Nat, rx : Slots, sending : BOOLEAN] /\ nic'.rx = nic.rx
    BY <1>0, <2>1, <2>2
  <2>4. QED
    BY <1>00, <2>1, <2>3, RxSame DEF RxInv, RxOff
<1>11. CASE NicIdle
  <2>1. nic' = [nic EXCEPT !.sending = FALSE] /\ UNCHANGED <<rxVars, init, irq>>
    BY <1>11 DEF NicIdle
  <2>2. nic' \in [tx : Nat, rx : Slots, sending : BOOLEAN] /\ nic'.rx = nic.rx
    BY <1>0, <2>1
  <2>3. QED
    BY <1>00, <2>1, <2>2, RxSame DEF RxInv, RxOff
<1>12. CASE UNCHANGED vars
  BY <1>0, <1>00, <1>12, RxSame DEF vars, RxInv, RxOff
<1>13. QED
  BY <1>1, <1>2, <1>3, <1>4, <1>5, <1>6, <1>7, <1>8, <1>9, <1>10, <1>11, <1>12
  DEF Next, rtl8169_poll

\* The ring is well formed in every reachable state.
THEOREM RxInvariant == Spec => []RxInv
<1>1. QED
  BY RxInit, RxNext, PTL DEF Spec

\* rtl8169_poll gives lwIP the frames in the order in which the card stored
\* them, each once and whole, for every size of the receive ring.
THEOREM FramesReceivedInOrder == Spec => []RxInOrder
<1>1. RxInv => RxInOrder
  BY DEF RxInv
<1>2. QED
  BY <1>1, RxInvariant, PTL

-----------------------------------------------------------------------------
(* Sending.                                                                *)

TxSlot == [own : BOOLEAN, eor : BOOLEAN, buf : Slots \cup {None}]
SendState ==
    [pc : {"idle", "copied", "free", "pointed", "owned"}, frame : Nat, flat_buf : Slots \cup {None}]

TxType ==
    /\ tx_ring \in [Slots -> TxSlot] /\ tx_buffers \in [Slots -> Nat] /\ tx_idx \in Slots
    /\ send \in [Contexts -> SendState] /\ txCount \in Nat
    /\ accepted \in Seq(Nat) /\ wire \in Seq(Nat) /\ late \subseteq Nat /\ nested \in BOOLEAN

\* The handler sends from lwIP only, and nothing is sent before the rings are up.
TxWhen ==
    /\ send["irq"] # Idle => irq \in {"input", "timeouts"}
    /\ init \in {"no", "failed"} =>
          /\ accepted = <<>> /\ wire = <<>> /\ send["main"] = Idle
          /\ \A i \in Slots : ~tx_ring[i].own

\* Frames the card owns, and the slot after the last of them: a sender that has
\* given its slot away has yet to move tx_idx.
Flight == Len(accepted) - Len(wire)
Owned == send["main"].pc = "owned" \/ send["irq"].pc = "owned"
Front == IF Owned THEN Succ(tx_idx) ELSE tx_idx

\* The card owns the slots from its own to the front, and there is one sender.
TxPlace ==
    /\ send["main"] = Idle \/ send["irq"] = Idle
    /\ nic.tx \in Slots /\ Flight \in 0 .. NUM_DESCS
    /\ Flight = NUM_DESCS => Front = nic.tx
    /\ Flight < NUM_DESCS => Ahead(nic.tx, Front) = Flight
    /\ \A i \in Slots : tx_ring[i].own <=> Ahead(nic.tx, i) < Flight

\* Those slots hold the accepted frames in order, unless copied over.
TxData ==
    \A i \in Slots : tx_ring[i].own =>
       /\ tx_ring[i].buf = i /\ (tx_ring[i].eor <=> i = NUM_DESCS - 1)
       /\ \/ tx_buffers[i] = accepted[Len(wire) + 1 + Ahead(nic.tx, i)]
          \/ tx_buffers[i] \in late

\* The sender works on the slot tx_idx, and once it has checked, on a free one.
TxSender ==
    \A c \in Contexts :
       /\ send[c].pc \in {"copied", "free", "pointed"} =>
             send[c].flat_buf = tx_idx /\ tx_buffers[tx_idx] = send[c].frame
       /\ send[c].pc \in {"free", "pointed"} => ~tx_ring[tx_idx].own
       /\ send[c].pc = "pointed" => tx_ring[tx_idx].buf = tx_idx

TxOrdered == TxPlace /\ TxData /\ TxSender

TxInv == TxType /\ TxWhen /\ (~nested => TxOrdered) /\ TxDamageOnlyWhenFull

-----------------------------------------------------------------------------

LEMMA TxInit == Init => TxInv
<1> SUFFICES ASSUME Init PROVE TxInv
  OBVIOUS
<1>1. NUM_DESCS \in Nat /\ NUM_DESCS > 0 /\ 0 \in Slots
  BY Rtl8169Assumption DEF Slots
<1>2. /\ accepted = <<>> /\ wire = <<>> /\ tx_idx = 0 /\ nic.tx = 0 /\ late = {} /\ txCount = 0
      /\ nested = FALSE /\ init = "no"
      /\ send = [c \in Contexts |-> Idle]
      /\ tx_buffers = [i \in Slots |-> Dropped]
      /\ tx_ring = [i \in Slots |-> [own |-> FALSE, eor |-> FALSE, buf |-> None]]
  BY DEF Init
<1>3. /\ send["main"] = Idle /\ send["irq"] = Idle /\ send["main"].pc = "idle" /\ send["irq"].pc = "idle"
      /\ \A c \in Contexts : send[c].pc = "idle"
  BY <1>2 DEF Contexts, Idle
<1>4. \A i \in Slots : ~tx_ring[i].own
  BY <1>2
<1>5. TxType
  <2>1. tx_ring \in [Slots -> TxSlot]
    BY <1>2 DEF TxSlot
  <2>2. Idle \in SendState
    BY DEF Idle, SendState, Dropped
  <2>3. send \in [Contexts -> SendState]
    BY <1>2, <2>2
  <2>4. tx_buffers \in [Slots -> Nat]
    BY <1>2 DEF Dropped
  <2>5. accepted \in Seq(Nat) /\ wire \in Seq(Nat)
    BY <1>2
  <2>6. QED
    BY <1>1, <1>2, <2>1, <2>3, <2>4, <2>5 DEF TxType
<1>6. TxWhen
  BY <1>2, <1>3, <1>4 DEF TxWhen
<1>7. Len(accepted) = 0 /\ Len(wire) = 0
  BY <1>2
<1>8. Flight = 0 /\ Front = 0
  BY <1>2, <1>3, <1>7 DEF Flight, Front, Owned
<1>9. TxPlace
  <2>1. Ahead(0, 0) = 0 /\ \A i \in Slots : ~(Ahead(0, i) < 0)
    BY <1>1, AheadRange
  <2>2. QED
    BY <1>1, <1>2, <1>3, <1>4, <1>8, <2>1 DEF TxPlace
<1>10. TxData /\ TxSender
  BY <1>3, <1>4 DEF TxData, TxSender
<1>11. TxDamageOnlyWhenFull
  BY <1>7 DEF TxDamageOnlyWhenFull
<1>12. QED
  BY <1>5, <1>6, <1>9, <1>10, <1>11 DEF TxInv, TxOrdered

\* A step that leaves the sending side alone.
LEMMA TxSame ==
    ASSUME TxInv, UNCHANGED <<txVars, wire>>, nic'.tx = nic.tx,
           send["irq"] # Idle => irq' \in {"input", "timeouts"},
           init' \in {"no", "failed"} => init \in {"no", "failed"}
    PROVE  TxInv'
<1>1. UNCHANGED <<Flight, Owned, Front>>
  BY DEF Flight, Owned, Front, txVars
<1>2. QED
  BY <1>1 DEF TxInv, TxType, TxWhen, TxOrdered, TxPlace, TxData, TxSender, TxDamageOnlyWhenFull, txVars

\* The rings are set up while nothing is under way.
LEMMA TxRings == ASSUME RxInv, TxInv, InitRings PROVE TxInv'
<1>1. /\ tx_ring' = [i \in Slots |-> [own |-> FALSE, eor |-> FALSE, buf |-> None]]
      /\ UNCHANGED <<tx_buffers, tx_idx, send, txCount, accepted, late, nested, nic, wire, irq>>
      /\ init = "no" /\ init' = "rings" /\ irq = "off"
  BY DEF InitRings, RxInv, RxOff
<1>2. \A i \in Slots : ~tx_ring'[i].own /\ ~tx_ring[i].own
  BY <1>1 DEF TxInv, TxWhen
<1>3. /\ send["main"] = Idle /\ send["irq"] = Idle
      /\ \A c \in Contexts : send[c].pc = "idle"
  BY <1>1 DEF TxInv, TxWhen, Idle, Contexts
<1>4. TxType'
  <2>1. tx_ring' \in [Slots -> TxSlot]
    BY <1>1 DEF TxSlot
  <2>2. QED
    BY <1>1, <2>1 DEF TxInv, TxType
<1>5. UNCHANGED <<Flight, Owned, Front>>
  BY <1>1 DEF Flight, Owned, Front
<1>6. TxWhen' /\ TxDamageOnlyWhenFull'
  BY <1>1 DEF TxInv, TxWhen, TxDamageOnlyWhenFull
<1>7. ASSUME ~nested PROVE TxPlace' /\ TxData' /\ TxSender'
  BY <1>1, <1>2, <1>3, <1>5, <1>7 DEF TxInv, TxOrdered, TxPlace, TxData, TxSender
<1>8. QED
  BY <1>1, <1>4, <1>6, <1>7 DEF TxInv, TxOrdered

\* While one context is inside linkoutput the other is not, unless nested.
LEMMA OtherIdle ==
    ASSUME TxInv, ~nested, NEW c \in Contexts, send[c].pc # "idle"
    PROVE  /\ \A d \in Contexts : d # c => send[d] = Idle /\ send[d].pc = "idle"
           /\ Owned <=> send[c].pc = "owned"
<1>1. send["main"] = Idle \/ send["irq"] = Idle
  BY DEF TxInv, TxOrdered, TxPlace
<1>2. Idle.pc = "idle"
  BY DEF Idle
<1>3. c = "main" \/ c = "irq"
  BY DEF Contexts
<1>4. QED
  BY <1>1, <1>2, <1>3 DEF Contexts, Owned

\* A sender's context runs: the handler is off, or inside lwIP.
LEMMA SenderRuns ==
    ASSUME RxInv, TxInv, NEW c \in Contexts, Running(c)
    PROVE  /\ c = "main" => irq = "off" /\ send["irq"] = Idle
           /\ c = "irq" => irq \in {"input", "timeouts"} /\ init \notin {"no", "failed"}
BY DEF Running, RxInv, RxOff, TxInv, TxWhen, Contexts

\* A context inside linkoutput: the card is on, and a send step of it leaves
\* TxWhen alone.
LEMMA SenderOn ==
    ASSUME RxInv, TxInv, NEW c \in Contexts, send[c].pc # "idle"
    PROVE  init \in {"rings", "ready"}
<1>1. SUFFICES ASSUME init \in {"no", "failed"} PROVE FALSE
  BY DEF RxInv, RxType
<1>2. send["main"] = Idle /\ send["irq"] = Idle
  BY <1>1 DEF RxInv, RxOff, TxInv, TxWhen
<1>3. QED
  BY <1>2 DEF Contexts, Idle

LEMMA SendWhen ==
    ASSUME RxInv, TxInv, NEW c \in Contexts, Running(c), init \in {"rings", "ready"},
           UNCHANGED <<init, irq>>, \A d \in Contexts : d # c => send'[d] = send[d]
    PROVE  TxWhen'
BY DEF TxInv, TxWhen, Running, Contexts

LEMMA TxCopy == ASSUME RxInv, TxInv, NEW c \in Contexts, SendCopy(c) PROVE TxInv'
<1> DEFINE f == txCount + 1
<1>1. /\ init \in {"rings", "ready"} /\ Running(c) /\ send[c].pc = "idle"
      /\ txCount' = f /\ tx_buffers' = [tx_buffers EXCEPT ![tx_idx] = f]
      /\ late' = IF tx_ring[tx_idx].own THEN late \cup {f} ELSE late
      /\ nested' = (nested \/ (c = "irq" /\ send["main"] # Idle))
      /\ send' = [send EXCEPT ![c] = [pc |-> "copied", frame |-> f, flat_buf |-> tx_idx]]
      /\ UNCHANGED <<init, tx_ring, tx_idx, accepted, irq, nic, wire>>
  BY DEF SendCopy, At
<1>2. /\ tx_ring \in [Slots -> TxSlot] /\ tx_buffers \in [Slots -> Nat] /\ tx_idx \in Slots
      /\ send \in [Contexts -> SendState] /\ txCount \in Nat /\ f \in Nat /\ late \subseteq Nat
      /\ nested \in BOOLEAN
  BY DEF TxInv, TxType
<1> HIDE DEF f
<1>3. /\ send' \in [Contexts -> SendState]
      /\ send'[c] = [pc |-> "copied", frame |-> f, flat_buf |-> tx_idx]
      /\ \A d \in Contexts : d # c => send'[d] = send[d]
  BY <1>1, <1>2 DEF SendState
<1>4. /\ tx_buffers' \in [Slots -> Nat] /\ tx_buffers'[tx_idx] = f
      /\ \A i \in Slots : i # tx_idx => tx_buffers'[i] = tx_buffers[i]
  BY <1>1, <1>2
<1>5. late \subseteq late' /\ late' \subseteq Nat /\ (tx_ring[tx_idx].own => f \in late')
  BY <1>1, <1>2
<1>6. TxType'
  <2>1. nested' \in BOOLEAN
    BY <1>1, <1>2
  <2>2. QED
    BY <1>1, <1>2, <1>3, <1>4, <1>5, <2>1 DEF TxInv, TxType
<1>7. TxWhen'
  BY <1>1, <1>3, SendWhen
<1>8. ASSUME ~nested' PROVE ~nested /\ TxPlace' /\ TxData' /\ TxSender'
  <2>1. ~nested /\ (c = "irq" => send["main"] = Idle)
    BY <1>1, <1>8
  <2>2. \A d \in Contexts : d # c => send[d] = Idle /\ send'[d] = Idle /\ send[d].pc = "idle"
    BY <1>1, <1>3, <2>1, SenderRuns DEF Contexts, Idle
  <2>3. ~Owned /\ ~Owned' /\ (send'["main"] = Idle \/ send'["irq"] = Idle)
    BY <1>1, <1>3, <2>2 DEF Owned, Contexts
  <2>4. Front' = Front /\ Flight' = Flight
    BY <1>1, <2>3 DEF Front, Flight
  <2>5. TxPlace'
    BY <1>1, <2>1, <2>3, <2>4 DEF TxInv, TxOrdered, TxPlace
  <2>6. TxData'
    <3>1. ASSUME NEW i \in Slots, tx_ring[i].own
          PROVE  tx_buffers'[i] = accepted[Len(wire) + 1 + Ahead(nic.tx, i)] \/ tx_buffers'[i] \in late'
      BY <1>4, <1>5, <2>1, <3>1 DEF TxInv, TxOrdered, TxData
    <3>2. QED
      BY <1>1, <2>1, <3>1 DEF TxInv, TxOrdered, TxData
  <2>7. TxSender'
    BY <1>1, <1>3, <1>4, <2>2 DEF TxSender
  <2>8. QED
    BY <2>1, <2>5, <2>6, <2>7
<1>9. TxDamageOnlyWhenFull'
  BY <1>1, <1>5, <1>8 DEF TxInv, TxDamageOnlyWhenFull
<1>10. QED
  BY <1>6, <1>7, <1>8, <1>9 DEF TxInv, TxOrdered

LEMMA TxCheck == ASSUME RxInv, TxInv, NEW c \in Contexts, SendCheck(c) PROVE TxInv'
<1>1. /\ Running(c) /\ send[c].pc = "copied"
      /\ send' = [send EXCEPT ![c] = IF tx_ring[tx_idx].own THEN Idle ELSE [send[c] EXCEPT !.pc = "free"]]
      /\ UNCHANGED <<init, tx_ring, tx_buffers, tx_idx, txCount, accepted, late, nested, irq, nic, wire>>
  BY DEF SendCheck, At
<1>2. send \in [Contexts -> SendState] /\ send[c] \in SendState /\ init \in {"rings", "ready"}
  BY <1>1, SenderOn DEF TxInv, TxType
<1>3. /\ send' \in [Contexts -> SendState] /\ send'[c].pc \in {"idle", "free"}
      /\ send'[c].pc = "free" => /\ send'[c].flat_buf = send[c].flat_buf /\ send'[c].frame = send[c].frame
                                 /\ ~tx_ring[tx_idx].own
      /\ \A d \in Contexts : d # c => send'[d] = send[d]
  <2>1. CASE tx_ring[tx_idx].own
    <3>1. Idle \in SendState /\ Idle.pc = "idle"
      BY DEF Idle, SendState, Dropped
    <3>2. send' = [send EXCEPT ![c] = Idle]
      BY <1>1, <2>1
    <3>3. QED
      BY <1>2, <3>1, <3>2
  <2>2. CASE ~tx_ring[tx_idx].own
    <3>1. send' = [send EXCEPT ![c] = [send[c] EXCEPT !.pc = "free"]]
      BY <1>1, <2>2
    <3>2. QED
      BY <1>2, <2>2, <3>1 DEF SendState
  <2>3. QED
    BY <2>1, <2>2
<1>4. TxType' /\ TxWhen'
  BY <1>1, <1>2, <1>3, SendWhen DEF TxInv, TxType
<1>5. ASSUME ~nested PROVE TxOrdered'
  <2>1. \A d \in Contexts : d # c => send[d] = Idle /\ send'[d] = Idle /\ send'[d].pc = "idle"
    BY <1>1, <1>3, <1>5, OtherIdle
  <2>2. ~Owned
    BY <1>1, <1>5, OtherIdle
  <2>3. ~Owned' /\ (send'["main"] = Idle \/ send'["irq"] = Idle)
    BY <1>3, <2>1 DEF Owned, Contexts
  <2>4. Front' = Front /\ Flight' = Flight
    BY <1>1, <2>2, <2>3 DEF Front, Flight
  <2>5. TxPlace' /\ TxData'
    BY <1>1, <1>5, <2>3, <2>4 DEF TxInv, TxOrdered, TxPlace, TxData
  <2>6. TxSender'
    BY <1>1, <1>3, <1>5, <2>1 DEF TxInv, TxOrdered, TxSender
  <2>7. QED
    BY <2>5, <2>6 DEF TxOrdered
<1>6. TxDamageOnlyWhenFull'
  BY <1>1 DEF TxInv, TxDamageOnlyWhenFull
<1>7. QED
  BY <1>1, <1>4, <1>5, <1>6 DEF TxInv

LEMMA TxPoint == ASSUME RxInv, TxInv, NEW c \in Contexts, SendPoint(c) PROVE TxInv'
<1>1. /\ Running(c) /\ send[c].pc = "free"
      /\ tx_ring' = [tx_ring EXCEPT ![tx_idx].buf = send[c].flat_buf]
      /\ send' = [send EXCEPT ![c].pc = "pointed"]
      /\ UNCHANGED <<init, tx_buffers, tx_idx, txCount, accepted, late, nested, irq, nic, wire>>
  BY DEF SendPoint, At
<1>2. /\ send \in [Contexts -> SendState] /\ send[c] \in SendState /\ init \in {"rings", "ready"}
      /\ tx_ring \in [Slots -> TxSlot] /\ tx_idx \in Slots
  BY <1>1, SenderOn DEF TxInv, TxType
<1>3. /\ send' \in [Contexts -> SendState] /\ send'[c].pc = "pointed"
      /\ send'[c].flat_buf = send[c].flat_buf /\ send'[c].frame = send[c].frame
      /\ \A d \in Contexts : d # c => send'[d] = send[d]
  BY <1>1, <1>2 DEF SendState
<1>4. tx_ring' \in [Slots -> TxSlot] /\ tx_ring'[tx_idx].buf = send[c].flat_buf
  BY <1>1, <1>2 DEF SendState, TxSlot
<1>41. \A i \in Slots : tx_ring'[i].own = tx_ring[i].own /\ (i # tx_idx => tx_ring'[i] = tx_ring[i])
  BY <1>1, <1>2 DEF TxSlot
<1>5. TxType' /\ TxWhen'
  BY <1>1, <1>2, <1>3, <1>4, SendWhen DEF TxInv, TxType
<1>6. ASSUME ~nested PROVE TxOrdered'
  <2>1. \A d \in Contexts : d # c => send[d] = Idle /\ send'[d] = Idle /\ send'[d].pc = "idle"
    BY <1>1, <1>3, <1>6, OtherIdle
  <2>2. ~Owned
    BY <1>1, <1>6, OtherIdle
  <2>3. ~Owned' /\ (send'["main"] = Idle \/ send'["irq"] = Idle)
    BY <1>3, <2>1 DEF Owned, Contexts
  <2>4. Front' = Front /\ Flight' = Flight
    BY <1>1, <2>2, <2>3 DEF Front, Flight
  <2>5. ~tx_ring[tx_idx].own /\ send[c].flat_buf = tx_idx /\ tx_buffers[tx_idx] = send[c].frame
    BY <1>1, <1>6 DEF TxInv, TxOrdered, TxSender
  <2>6. TxPlace'
    BY <1>1, <1>41, <1>6, <2>3, <2>4 DEF TxInv, TxOrdered, TxPlace
  <2>7. TxData'
    BY <1>1, <1>41, <1>6, <2>5 DEF TxInv, TxOrdered, TxData
  <2>8. TxSender'
    BY <1>1, <1>2, <1>3, <1>4, <1>41, <2>1, <2>5 DEF TxSender
  <2>9. QED
    BY <2>6, <2>7, <2>8 DEF TxOrdered
<1>7. TxDamageOnlyWhenFull'
  BY <1>1 DEF TxInv, TxDamageOnlyWhenFull
<1>8. QED
  BY <1>1, <1>5, <1>6, <1>7 DEF TxInv

\* The slot given to the card is the one behind those it owns.
LEMMA TxCommand == ASSUME RxInv, TxInv, NEW c \in Contexts, SendCommand(c) PROVE TxInv'
<1> DEFINE t == tx_idx
<1>1. /\ Running(c) /\ send[c].pc = "pointed"
      /\ tx_ring' = [tx_ring EXCEPT ![t].own = TRUE, ![t].eor = (t = NUM_DESCS - 1)]
      /\ accepted' = Append(accepted, send[c].frame)
      /\ send' = [send EXCEPT ![c].pc = "owned"]
      /\ UNCHANGED <<init, tx_buffers, tx_idx, txCount, late, nested, irq, nic, wire>>
  BY DEF SendCommand, At
<1>2. /\ send \in [Contexts -> SendState] /\ send[c] \in SendState /\ init \in {"rings", "ready"}
      /\ tx_ring \in [Slots -> TxSlot] /\ t \in Slots /\ send[c].frame \in Nat
      /\ accepted \in Seq(Nat) /\ wire \in Seq(Nat) /\ Len(accepted) \in Nat /\ Len(wire) \in Nat
      /\ NUM_DESCS \in Nat /\ NUM_DESCS > 0
  BY <1>1, SenderOn, Rtl8169Assumption DEF TxInv, TxType, SendState
<1> HIDE DEF t
<1>3. /\ send' \in [Contexts -> SendState] /\ send'[c].pc = "owned"
      /\ \A d \in Contexts : d # c => send'[d] = send[d]
  BY <1>1, <1>2 DEF SendState
<1>4. /\ tx_ring' \in [Slots -> TxSlot]
      /\ tx_ring'[t].own /\ (tx_ring'[t].eor = (t = NUM_DESCS - 1)) /\ tx_ring'[t].buf = tx_ring[t].buf
      /\ \A i \in Slots : i # t => tx_ring'[i] = tx_ring[i]
  <2>1. PICK b \in BOOLEAN : b = (t = NUM_DESCS - 1)
    OBVIOUS
  <2>2. tx_ring' = [tx_ring EXCEPT ![t].own = TRUE, ![t].eor = b]
    BY <1>1, <2>1
  <2>3. tx_ring' \in [Slots -> TxSlot]
    BY <1>2, <2>2 DEF TxSlot
  <2>4. tx_ring'[t].own /\ tx_ring'[t].eor = b /\ tx_ring'[t].buf = tx_ring[t].buf
    BY <1>2, <2>2 DEF TxSlot
  <2>5. \A i \in Slots : i # t => tx_ring'[i] = tx_ring[i]
    BY <1>2, <2>2
  <2>6. QED
    BY <2>1, <2>3, <2>4, <2>5
<1>5. /\ accepted' \in Seq(Nat) /\ Len(accepted') = Len(accepted) + 1
      /\ accepted'[Len(accepted) + 1] = send[c].frame
      /\ \A k \in 1 .. Len(accepted) : accepted'[k] = accepted[k]
  BY <1>1, <1>2
<1>6. TxType' /\ TxWhen'
  BY <1>1, <1>2, <1>3, <1>4, <1>5, SendWhen DEF TxInv, TxType
<1>7. ASSUME ~nested PROVE TxOrdered'
  <2>1. \A d \in Contexts : d # c => send[d] = Idle /\ send'[d] = Idle /\ send'[d].pc = "idle"
    BY <1>1, <1>3, <1>7, OtherIdle
  <2>2. ~Owned
    BY <1>1, <1>7, OtherIdle
  <2>3. Owned' /\ (send'["main"] = Idle \/ send'["irq"] = Idle)
    BY <1>3, <2>1 DEF Owned, Contexts
  <2>4. Front = t /\ Front' = Succ(t) /\ Flight' = Flight + 1 /\ Flight \in Int
    BY <1>1, <1>2, <1>5, <2>2, <2>3 DEF Front, Flight, t
  <2>5. ~tx_ring[t].own /\ tx_ring[t].buf = t /\ tx_buffers[t] = send[c].frame
    BY <1>1, <1>7 DEF TxInv, TxOrdered, TxSender, t
  <2>6. /\ nic.tx \in Slots /\ Flight \in 0 .. NUM_DESCS
        /\ \A i \in Slots : tx_ring[i].own <=> Ahead(nic.tx, i) < Flight
        /\ Flight < NUM_DESCS => Ahead(nic.tx, t) = Flight
    BY <1>7, <2>4 DEF TxInv, TxOrdered, TxPlace
  <2>7. \A i \in Slots : Ahead(nic.tx, i) \in 0 .. NUM_DESCS - 1
    BY <2>6, AheadRange
  <2>8. Flight < NUM_DESCS /\ Ahead(nic.tx, t) = Flight
    BY <1>2, <2>5, <2>6, <2>7
  <2>9. \A i \in Slots : i # t => Ahead(nic.tx, i) # Flight
    BY <1>2, <2>6, <2>8, AheadRange
  <2>10. TxPlace'
    <3>1. \A i \in Slots : tx_ring'[i].own <=> Ahead(nic.tx, i) < Flight + 1
      <4>1. TAKE i \in Slots
      <4>2. CASE i = t
        BY <1>4, <2>4, <2>8, <4>2
      <4>3. CASE i # t
        BY <1>4, <2>4, <2>6, <2>7, <2>9, <4>3
      <4>4. QED
        BY <4>2, <4>3
    <3>2. /\ Flight + 1 = NUM_DESCS => Succ(t) = nic.tx
          /\ Flight + 1 < NUM_DESCS => Ahead(nic.tx, Succ(t)) = Flight + 1
      <4>1. /\ Succ(t) = nic.tx <=> Ahead(nic.tx, t) = NUM_DESCS - 1
            /\ Succ(t) # nic.tx => Ahead(nic.tx, Succ(t)) = Ahead(nic.tx, t) + 1
        BY <1>2, <2>6, AheadSucc
      <4>2. QED
        BY <1>2, <2>4, <2>8, <4>1
    <3>3. QED
      BY <1>1, <1>2, <2>3, <2>4, <2>6, <2>8, <3>1, <3>2 DEF TxPlace
  <2>11. TxData'
    <3>1. ASSUME NEW i \in Slots, tx_ring'[i].own
          PROVE  /\ tx_ring'[i].buf = i /\ (tx_ring'[i].eor <=> i = NUM_DESCS - 1)
                 /\ \/ tx_buffers[i] = accepted'[Len(wire) + 1 + Ahead(nic.tx, i)]
                    \/ tx_buffers[i] \in late
      <4>1. CASE i = t
        <5>1. Len(wire) + 1 + Ahead(nic.tx, i) = Len(accepted) + 1
          BY <1>2, <2>8, <4>1 DEF Flight
        <5>2. QED
          BY <1>4, <1>5, <2>5, <4>1, <5>1
      <4>2. CASE i # t
        <5>1. tx_ring[i].own /\ tx_ring'[i] = tx_ring[i]
          BY <1>4, <3>1, <4>2
        <5>2. Ahead(nic.tx, i) < Flight /\ Ahead(nic.tx, i) \in Nat
          BY <2>6, <2>7, <5>1
        <5>3. Len(wire) + 1 + Ahead(nic.tx, i) \in 1 .. Len(accepted)
          BY <1>2, <5>2 DEF Flight
        <5>4. QED
          BY <1>5, <1>7, <5>1, <5>3 DEF TxInv, TxOrdered, TxData
      <4>3. QED
        BY <4>1, <4>2
    <3>2. QED
      BY <1>1, <3>1 DEF TxData
  <2>12. TxSender'
    BY <1>3, <2>1 DEF TxSender
  <2>13. QED
    BY <2>10, <2>11, <2>12 DEF TxOrdered
<1>8. TxDamageOnlyWhenFull'
  <2>1. SUFFICES ASSUME ~nested PROVE TxDamageOnlyWhenFull'
    BY <1>1 DEF TxDamageOnlyWhenFull
  <2>2. Len(wire) <= Len(accepted) /\ \A k \in 1 .. Len(wire) : wire[k] = accepted[k] \/ wire[k] \in late
    BY <2>1 DEF TxInv, TxDamageOnlyWhenFull
  <2>3. QED
    BY <1>1, <1>2, <1>5, <2>2 DEF TxDamageOnlyWhenFull
<1>9. QED
  BY <1>1, <1>6, <1>7, <1>8 DEF TxInv

LEMMA TxDoorbell == ASSUME RxInv, TxInv, NEW c \in Contexts, SendDoorbell(c) PROVE TxInv'
<1>1. /\ Running(c) /\ send[c].pc = "owned"
      /\ nic' = [nic EXCEPT !.sending = TRUE] /\ tx_idx' = (tx_idx + 1) % NUM_DESCS
      /\ send' = [send EXCEPT ![c] = Idle]
      /\ UNCHANGED <<init, tx_ring, tx_buffers, txCount, accepted, late, nested, irq, wire>>
  BY DEF SendDoorbell, At
<1>2. /\ send \in [Contexts -> SendState] /\ init \in {"rings", "ready"} /\ tx_idx \in Slots
      /\ nic \in [tx : Nat, rx : Slots, sending : BOOLEAN]
  BY <1>1, SenderOn DEF TxInv, TxType, RxInv, RxType
<1>3. tx_idx' = Succ(tx_idx) /\ tx_idx' \in Slots /\ nic'.tx = nic.tx
  BY <1>1, <1>2, SuccIs
<1>4. /\ send' \in [Contexts -> SendState] /\ send'[c] = Idle /\ Idle.pc = "idle"
      /\ \A d \in Contexts : d # c => send'[d] = send[d]
  <2>1. Idle \in SendState /\ Idle.pc = "idle"
    BY DEF Idle, SendState, Dropped
  <2>2. QED
    BY <1>1, <1>2, <2>1
<1>5. TxType' /\ TxWhen'
  BY <1>1, <1>2, <1>3, <1>4, SendWhen DEF TxInv, TxType
<1>6. ASSUME ~nested PROVE TxOrdered'
  <2>1. Owned /\ \A d \in Contexts : send'[d] = Idle /\ send'[d].pc = "idle"
    BY <1>1, <1>4, <1>6, OtherIdle
  <2>2. ~Owned' /\ send'["main"] = Idle
    BY <2>1 DEF Owned, Contexts
  <2>3. Front' = Front /\ Flight' = Flight
    BY <1>1, <1>3, <2>1, <2>2 DEF Front, Flight
  <2>4. TxPlace' /\ TxData'
    BY <1>1, <1>3, <1>6, <2>2, <2>3 DEF TxInv, TxOrdered, TxPlace, TxData
  <2>5. TxSender'
    BY <2>1 DEF TxSender
  <2>6. QED
    BY <2>4, <2>5 DEF TxOrdered
<1>7. TxDamageOnlyWhenFull'
  BY <1>1 DEF TxInv, TxDamageOnlyWhenFull
<1>8. QED
  BY <1>1, <1>5, <1>6, <1>7 DEF TxInv

\* The card sends the oldest frame it owns and goes on to the next slot.
LEMMA TxTransmit == ASSUME RxInv, TxInv, NicTransmit PROVE TxInv'
<1> DEFINE n == nic.tx
           b == tx_ring[n].buf
           f == IF b = None THEN Dropped ELSE tx_buffers[b]
<1>1. /\ n \in Slots /\ tx_ring[n].own
      /\ wire' = Append(wire, f)
      /\ tx_ring' = [tx_ring EXCEPT ![n].own = FALSE]
      /\ nic' = [nic EXCEPT !.tx = After(tx_ring, n)]
      /\ UNCHANGED <<init, tx_buffers, tx_idx, send, txCount, accepted, late, nested, irq>>
  BY DEF NicTransmit
<1>2. /\ tx_ring \in [Slots -> TxSlot] /\ tx_buffers \in [Slots -> Nat] /\ tx_idx \in Slots
      /\ accepted \in Seq(Nat) /\ wire \in Seq(Nat) /\ Len(accepted) \in Nat /\ Len(wire) \in Nat
      /\ nic \in [tx : Nat, rx : Slots, sending : BOOLEAN]
      /\ NUM_DESCS \in Nat /\ NUM_DESCS > 0
  BY Rtl8169Assumption DEF TxInv, TxType, RxInv, RxType
<1>3. f \in Nat
  BY <1>1, <1>2 DEF TxSlot, Dropped
<1>4. nic'.tx = After(tx_ring, n)
  BY <1>1, <1>2
<1> HIDE DEF n, b, f
<1>5. /\ tx_ring' \in [Slots -> TxSlot] /\ ~tx_ring'[n].own
      /\ \A i \in Slots : tx_ring'[i].buf = tx_ring[i].buf
      /\ \A i \in Slots : i # n => tx_ring'[i] = tx_ring[i]
  BY <1>1, <1>2 DEF TxSlot
<1>6. /\ wire' \in Seq(Nat) /\ Len(wire') = Len(wire) + 1 /\ wire'[Len(wire) + 1] = f
      /\ \A k \in 1 .. Len(wire) : wire'[k] = wire[k]
  BY <1>1, <1>2, <1>3
<1>7. TxType'
  BY <1>1, <1>2, <1>5, <1>6 DEF TxInv, TxType
<1>8. TxWhen'
  <2>1. init \notin {"no", "failed"}
    BY <1>1 DEF TxInv, TxWhen
  <2>2. QED
    BY <1>1, <2>1 DEF TxInv, TxWhen
<1>9. CASE nested
  BY <1>1, <1>7, <1>8, <1>9 DEF TxInv, TxDamageOnlyWhenFull
<1>10. CASE ~nested
  <2>1. Front' = Front /\ Owned' = Owned /\ Flight' = Flight - 1 /\ Flight \in Int
    BY <1>1, <1>2, <1>6 DEF Front, Owned, Flight
  <2>2. /\ Flight \in 0 .. NUM_DESCS
        /\ Flight = NUM_DESCS => Front = n
        /\ Flight < NUM_DESCS => Ahead(n, Front) = Flight
        /\ \A i \in Slots : tx_ring[i].own <=> Ahead(n, i) < Flight
        /\ send["main"] = Idle \/ send["irq"] = Idle
    BY <1>10 DEF TxInv, TxOrdered, TxPlace, n
  <2>3. Ahead(n, n) = 0 /\ 0 < Flight /\ \A i \in Slots : Ahead(n, i) \in 0 .. NUM_DESCS - 1
    BY <1>1, <2>2, AheadRange
  <2>4. /\ tx_ring[n].buf = n /\ (tx_ring[n].eor <=> n = NUM_DESCS - 1)
        /\ tx_buffers[n] = accepted[Len(wire) + 1] \/ tx_buffers[n] \in late
    BY <1>1, <1>2, <1>10, <2>3 DEF TxInv, TxOrdered, TxData, n
  <2>5. nic'.tx = Succ(n) /\ Succ(n) \in Slots
    <3>1. Succ(n) \in Slots
      BY <1>1, SuccIs
    <3>2. n \in 0 .. NUM_DESCS - 1
      BY <1>1 DEF Slots
    <3>3. QED
      BY <1>2, <1>4, <2>4, <3>1, <3>2 DEF After, Succ
  <2>6. f = tx_buffers[n]
    BY <1>1, <1>2, <2>4 DEF f, b, None, Slots
  <2>7. \A i \in Slots : Ahead(Succ(n), i) = IF n = i THEN NUM_DESCS - 1 ELSE Ahead(n, i) - 1
    BY <1>1, AheadFrom
  <2>8. Front \in Slots
    BY <1>2, SuccIs DEF Front
  <2>9. TxPlace'
    <3>1. \A i \in Slots : tx_ring'[i].own <=> Ahead(Succ(n), i) < Flight - 1
      <4>1. TAKE i \in Slots
      <4>2. CASE i = n
        BY <1>2, <1>5, <2>2, <2>7, <4>2
      <4>3. CASE i # n
        BY <1>5, <2>1, <2>2, <2>3, <2>7, <4>3
      <4>4. QED
        BY <4>2, <4>3
    <3>2. Ahead(Succ(n), Front) = Flight - 1
      <4>1. CASE Flight = NUM_DESCS
        BY <2>2, <2>7, <2>8, <4>1
      <4>2. CASE Flight < NUM_DESCS
        <5>1. Ahead(n, Front) = Flight /\ Front # n
          BY <2>2, <2>3, <4>2
        <5>2. QED
          BY <2>7, <2>8, <5>1
      <4>3. QED
        BY <1>2, <2>2, <4>1, <4>2
    <3>3. QED
      BY <1>1, <1>2, <2>1, <2>2, <2>3, <2>5, <3>1, <3>2 DEF TxPlace
  <2>10. TxData'
    <3>1. ASSUME NEW i \in Slots, tx_ring'[i].own
          PROVE  /\ tx_ring'[i].buf = i /\ (tx_ring'[i].eor <=> i = NUM_DESCS - 1)
                 /\ \/ tx_buffers[i] = accepted[Len(wire') + 1 + Ahead(nic'.tx, i)]
                    \/ tx_buffers[i] \in late
      <4>1. i # n
        BY <1>5, <3>1
      <4>2. tx_ring[i].own /\ tx_ring'[i] = tx_ring[i]
        BY <1>5, <3>1, <4>1
      <4>3. Len(wire') + 1 + Ahead(nic'.tx, i) = Len(wire) + 1 + Ahead(n, i)
        <5>1. Ahead(nic'.tx, i) = Ahead(n, i) - 1 /\ Ahead(n, i) \in Int
          BY <2>3, <2>5, <2>7, <4>1
        <5>2. QED
          BY <1>2, <1>6, <5>1
      <4>4. QED
        BY <1>10, <4>2, <4>3 DEF TxInv, TxOrdered, TxData, n
    <3>2. QED
      BY <1>1, <3>1 DEF TxData
  <2>11. TxSender'
    <3>1. \A i \in Slots : tx_ring'[i].own => tx_ring[i].own
      BY <1>5
    <3>2. QED
      BY <1>1, <1>2, <1>5, <1>10, <3>1 DEF TxInv, TxOrdered, TxSender
  <2>12. TxDamageOnlyWhenFull'
    <3>1. \A k \in 1 .. Len(wire) : wire[k] = accepted[k] \/ wire[k] \in late
      BY <1>10 DEF TxInv, TxDamageOnlyWhenFull
    <3>2. Len(wire') <= Len(accepted')
      BY <1>1, <1>2, <1>6, <2>3 DEF Flight
    <3>3. \A k \in 1 .. Len(wire') : wire'[k] = accepted'[k] \/ wire'[k] \in late'
      BY <1>1, <1>2, <1>6, <2>4, <2>6, <3>1
    <3>4. QED
      BY <3>2, <3>3 DEF TxDamageOnlyWhenFull
  <2>13. QED
    BY <1>7, <1>8, <2>9, <2>10, <2>11, <2>12 DEF TxInv, TxOrdered
<1>11. QED
  BY <1>9, <1>10

LEMMA TxNext == RxInv /\ TxInv /\ [Next]_vars => TxInv'
<1> SUFFICES ASSUME RxInv, TxInv, [Next]_vars PROVE TxInv'
  OBVIOUS
<1>0. nic \in [tx : Nat, rx : Slots, sending : BOOLEAN]
  BY DEF RxInv, RxType
<1>1. CASE InitFails \/ InitReady
  BY <1>1, TxSame DEF InitFails, InitReady, TxInv, TxWhen
<1>2. CASE InitRings
  BY <1>2, TxRings
<1>3. ASSUME NEW c \in Contexts, Send(c) PROVE TxInv'
  BY <1>3, TxCopy, TxCheck, TxPoint, TxCommand, TxDoorbell DEF Send, rtl8169_linkoutput
<1>4. CASE TimerIrq \/ rtl8169_poll \/ TimerEnd
  <2>1. UNCHANGED <<txVars, wire, nic, init>>
    BY <1>4 DEF TimerIrq, rtl8169_poll, PollEmpty, PollBadLength, PollTake, InputReturns, PollGive, TimerEnd
  <2>2. irq \in {"off", "check", "give"} \/ send["irq"] = Idle
    BY <1>4 DEF TimerIrq, rtl8169_poll, PollEmpty, PollBadLength, PollTake, InputReturns, PollGive, TimerEnd
  <2>3. send["irq"] = Idle
    BY <2>2 DEF TxInv, TxWhen
  <2>4. QED
    BY <2>1, <2>3, TxSame
<1>5. CASE NicReceive \/ NicIdle
  <2>1. /\ UNCHANGED <<txVars, wire, irq, init>>
        /\ \/ \E r : nic' = [nic EXCEPT !.rx = r]
           \/ nic' = [nic EXCEPT !.sending = FALSE]
    BY <1>5 DEF NicReceive, NicIdle
  <2>2. nic'.tx = nic.tx
    BY <1>0, <2>1
  <2>3. QED
    BY <2>1, <2>2, TxSame DEF TxInv, TxWhen
<1>6. CASE NicTransmit
  BY <1>6, TxTransmit
<1>7. CASE UNCHANGED vars
  BY <1>7, TxSame DEF vars, TxInv, TxWhen
<1>8. QED
  BY <1>1, <1>2, <1>3, <1>4, <1>5, <1>6, <1>7 DEF Next

\* Frames leave the card in the order in which rtl8169_linkoutput accepted them,
\* and whole unless the ring was full when a later one was copied, for every size
\* of the ring, as long as no send runs inside another.
THEOREM SentFramesInOrder == Spec => []TxDamageOnlyWhenFull
<1>1. TxInv => TxDamageOnlyWhenFull
  BY DEF TxInv
<1>2. QED
  BY <1>1, RxInvariant, TxInit, TxNext, PTL DEF Spec

=============================================================================
