------------------------------ MODULE Rtl8169 ------------------------------
(***************************************************************************)
(* The driver of the RTL8169 network card, src/src/drivers/net/rtl8169.c.  *)
(*                                                                         *)
(* Three parties share the two descriptor rings: the mainline, which sends *)
(* for the shell and during rtl8169_init; the timer interrupt, which runs  *)
(* rtl8169_poll and lwIP and sends answers; and the card, which reads and  *)
(* writes descriptors by DMA at any moment.  The handler freezes the       *)
(* mainline but not the card.  rtl8169_linkoutput takes no lock and does   *)
(* not mask interrupts: the handler may land inside it, and may send.      *)
(*                                                                         *)
(* Frames are numbered in the order in which they are sent or arrive.      *)
(* Headers, padding, cache flushes, the packet dump and the statistics are *)
(* left out.  The card is external: it uses its descriptors in order from  *)
(* the first, goes back there after one marked as the end of the ring, and *)
(* looks for frames to send when TPPOLL is written.                        *)
(***************************************************************************)
EXTENDS Integers, Sequences

CONSTANTS
    NUM_DESCS,
    MaxTx, MaxRx    \* frames sent and received: bounds of the model

ASSUME Rtl8169Assumption ==
    /\ NUM_DESCS \in Nat /\ NUM_DESCS > 0
    /\ MaxTx \in Nat /\ MaxRx \in Nat

Slots == 0 .. NUM_DESCS - 1
None == -1                      \* a null buffer address
Dropped == 0                    \* stands for a frame that lwIP does not get
Contexts == {"main", "irq"}

VARIABLES
    init,           \* "no", "failed", "rings" (card enabled) or "ready" (net_ready)
    tx_ring,        \* per slot: OWN bit, end-of-ring mark, buffer address
    tx_buffers, tx_idx,
    send,           \* per context: where linkoutput is, its frame and its flat_buf
    rx_ring,        \* per slot: OWN bit, end-of-ring mark, whether the length is usable
    rx_buffers, rx_idx,
    irq,            \* where the timer handler is
    nic,            \* the card: its slots in the two rings and whether it is sending
    txCount, rxCount,           \* frames handed to linkoutput, frames stored by the card
    accepted, wire, \* history: frames given to the card, frames it sent
    late,           \* history: frames copied to a slot that the card still owned
    nested,         \* history: whether the handler has sent from inside a send
    handed          \* history: what the driver made of each frame that arrived

txVars == <<tx_ring, tx_buffers, tx_idx, send, txCount, accepted, late, nested>>
rxVars == <<rx_ring, rx_buffers, rx_idx, rxCount, handed>>
vars == <<init, txVars, rxVars, irq, nic, wire>>

Idle == [pc |-> "idle", frame |-> Dropped, flat_buf |-> None]

Init ==
    /\ init = "no" /\ irq = "off"
    /\ tx_ring = [i \in Slots |-> [own |-> FALSE, eor |-> FALSE, buf |-> None]]
    /\ rx_ring = [i \in Slots |-> [own |-> FALSE, eor |-> FALSE, ok |-> FALSE]]
    /\ tx_buffers = [i \in Slots |-> Dropped] /\ rx_buffers = [i \in Slots |-> Dropped]
    /\ tx_idx = 0 /\ rx_idx = 0
    /\ send = [c \in Contexts |-> Idle]
    /\ nic = [tx |-> 0, rx |-> 0, sending |-> FALSE]
    /\ txCount = 0 /\ rxCount = 0
    /\ accepted = <<>> /\ late = {} /\ nested = FALSE /\ wire = <<>> /\ handed = <<>>

-----------------------------------------------------------------------------
(* rtl8169_init, in the mainline.                                          *)

\* No usable BAR: the card stays off, and a later call returns at once.
InitFails ==
    /\ init = "no" /\ init' = "failed"
    /\ UNCHANGED <<txVars, rxVars, irq, nic, wire>>

\* The rings are set up and the card is switched on.
InitRings ==
    /\ init = "no" /\ init' = "rings"
    /\ rx_ring' = [i \in Slots |-> [own |-> TRUE, eor |-> i = NUM_DESCS - 1, ok |-> TRUE]]
    /\ tx_ring' = [i \in Slots |-> [own |-> FALSE, eor |-> FALSE, buf |-> None]]
    /\ UNCHANGED <<tx_buffers, tx_idx, send, txCount, accepted, late, nested, rx_buffers, rx_idx,
                   rxCount, handed, irq, nic, wire>>

\* lwIP is bound, dhcp_start has sent what it wanted to, the timer may poll.
InitReady ==
    /\ init = "rings" /\ irq = "off" /\ send["main"] = Idle
    /\ init' = "ready"
    /\ UNCHANGED <<txVars, rxVars, irq, nic, wire>>

-----------------------------------------------------------------------------
(* rtl8169_linkoutput(c), in the mainline or from lwIP in the handler.     *)

Running(c) == IF c = "main" THEN irq = "off" ELSE irq \in {"input", "timeouts"}

At(c, pc) == Running(c) /\ send[c].pc = pc

\* Mutant: all frames go through one buffer.
SendCopy_OneBuffer(c) ==
    /\ init \in {"rings", "ready"} /\ At(c, "idle") /\ txCount < MaxTx
    /\ txCount' = txCount + 1
    /\ tx_buffers' = [tx_buffers EXCEPT ![0] = txCount + 1]
    /\ late' = IF tx_ring[tx_idx].own THEN late \cup {txCount + 1} ELSE late
    /\ nested' = (nested \/ (c = "irq" /\ send["main"] # Idle))
    /\ send' = [send EXCEPT ![c] = [pc |-> "copied", frame |-> txCount + 1, flat_buf |-> 0]]
    /\ UNCHANGED <<init, tx_ring, tx_idx, accepted, rxVars, irq, nic, wire>>

\* The frame is copied before anybody looks whether the slot is free.
SendCopy(c) ==
    /\ init \in {"rings", "ready"} /\ At(c, "idle") /\ txCount < MaxTx
    /\ txCount' = txCount + 1
    /\ tx_buffers' = [tx_buffers EXCEPT ![tx_idx] = txCount + 1]
    /\ late' = IF tx_ring[tx_idx].own THEN late \cup {txCount + 1} ELSE late
    /\ nested' = (nested \/ (c = "irq" /\ send["main"] # Idle))
    /\ send' = [send EXCEPT ![c] = [pc |-> "copied", frame |-> txCount + 1, flat_buf |-> tx_idx]]
    /\ UNCHANGED <<init, tx_ring, tx_idx, accepted, rxVars, irq, nic, wire>>

\* ERR_BUF when the card still owns the slot.
SendCheck(c) ==
    /\ At(c, "copied")
    /\ send' = [send EXCEPT ![c] = IF tx_ring[tx_idx].own THEN Idle ELSE [@ EXCEPT !.pc = "free"]]
    /\ UNCHANGED <<init, tx_ring, tx_buffers, tx_idx, txCount, accepted, late, nested, rxVars, irq, nic, wire>>

SendPoint(c) ==
    /\ At(c, "free")
    /\ tx_ring' = [tx_ring EXCEPT ![tx_idx].buf = send[c].flat_buf]
    /\ send' = [send EXCEPT ![c].pc = "pointed"]
    /\ UNCHANGED <<init, tx_buffers, tx_idx, txCount, accepted, late, nested, rxVars, irq, nic, wire>>

\* The command word with the OWN bit: from here the card may send the frame.
SendCommand(c) ==
    /\ At(c, "pointed")
    /\ tx_ring' = [tx_ring EXCEPT ![tx_idx].own = TRUE, ![tx_idx].eor = (tx_idx = NUM_DESCS - 1)]
    /\ accepted' = Append(accepted, send[c].frame)
    /\ send' = [send EXCEPT ![c].pc = "owned"]
    /\ UNCHANGED <<init, tx_buffers, tx_idx, txCount, late, nested, rxVars, irq, nic, wire>>

\* Mutant: the doorbell is rung for the first frame of the ring only.
SendDoorbell_First(c) ==
    /\ At(c, "owned")
    /\ nic' = [nic EXCEPT !.sending = @ \/ tx_idx = 0]
    /\ tx_idx' = (tx_idx + 1) % NUM_DESCS
    /\ send' = [send EXCEPT ![c] = Idle]
    /\ UNCHANGED <<init, tx_ring, tx_buffers, txCount, accepted, late, nested, rxVars, irq, wire>>

\* TPPOLL, and the next slot.
SendDoorbell(c) ==
    /\ At(c, "owned")
    /\ nic' = [nic EXCEPT !.sending = TRUE]
    /\ tx_idx' = (tx_idx + 1) % NUM_DESCS
    /\ send' = [send EXCEPT ![c] = Idle]
    /\ UNCHANGED <<init, tx_ring, tx_buffers, txCount, accepted, late, nested, rxVars, irq, wire>>

rtl8169_linkoutput(c) == SendCheck(c) \/ SendPoint(c) \/ SendCommand(c) \/ SendDoorbell(c)

-----------------------------------------------------------------------------
(* timer_handler: rtl8169_poll, then sys_check_timeouts.                   *)

TimerIrq ==
    /\ irq = "off" /\ init = "ready"
    /\ irq' = "check"
    /\ UNCHANGED <<init, txVars, rxVars, nic, wire>>

PollEmpty ==
    /\ irq = "check" /\ rx_ring[rx_idx].own
    /\ irq' = "timeouts"
    /\ UNCHANGED <<init, txVars, rxVars, nic, wire>>

\* Mutant: the poll gives up at a frame whose length is not usable.
PollBadLength_Break ==
    /\ irq = "check" /\ ~rx_ring[rx_idx].own /\ ~rx_ring[rx_idx].ok
    /\ irq' = "timeouts"
    /\ UNCHANGED <<init, txVars, rxVars, nic, wire>>

PollBadLength ==
    /\ irq = "check" /\ ~rx_ring[rx_idx].own /\ ~rx_ring[rx_idx].ok
    /\ handed' = Append(handed, Dropped)
    /\ irq' = "give"
    /\ UNCHANGED <<init, txVars, rx_ring, rx_buffers, rx_idx, rxCount, nic, wire>>

\* pbuf_alloc may fail; otherwise lwIP gets what is in the buffer now.
PollTake ==
    /\ irq = "check" /\ ~rx_ring[rx_idx].own /\ rx_ring[rx_idx].ok
    /\ \/ handed' = Append(handed, Dropped) /\ irq' = "give"
       \/ handed' = Append(handed, rx_buffers[rx_idx]) /\ irq' = "input"
    /\ UNCHANGED <<init, txVars, rx_ring, rx_buffers, rx_idx, rxCount, nic, wire>>

\* lwIP returns, whether it took the frame or not.
InputReturns ==
    /\ irq = "input" /\ send["irq"] = Idle
    /\ irq' = "give"
    /\ UNCHANGED <<init, txVars, rxVars, nic, wire>>

\* Mutant: the index stays where it is.
PollGive_Stay ==
    /\ irq = "give" /\ irq' = "check"
    /\ rx_ring' = [rx_ring EXCEPT ![rx_idx] =
                      [own |-> TRUE, eor |-> rx_idx = NUM_DESCS - 1, ok |-> TRUE]]
    /\ UNCHANGED <<init, txVars, rx_idx, rx_buffers, rxCount, handed, nic, wire>>

PollGive ==
    /\ irq = "give" /\ irq' = "check"
    /\ rx_ring' = [rx_ring EXCEPT ![rx_idx] =
                      [own |-> TRUE, eor |-> rx_idx = NUM_DESCS - 1, ok |-> TRUE]]
    /\ rx_idx' = (rx_idx + 1) % NUM_DESCS
    /\ UNCHANGED <<init, txVars, rx_buffers, rxCount, handed, nic, wire>>

\* sys_check_timeouts is done; the mainline goes on.
TimerEnd ==
    /\ irq = "timeouts" /\ send["irq"] = Idle
    /\ irq' = "off"
    /\ UNCHANGED <<init, txVars, rxVars, nic, wire>>

rtl8169_poll == PollEmpty \/ PollBadLength \/ PollTake \/ InputReturns \/ PollGive

-----------------------------------------------------------------------------
(* The card.  Behind the last slot it finds nothing it owns.               *)

After(ring, i) == IF ring[i].eor THEN 0 ELSE i + 1

NicReceive ==
    /\ init \in {"rings", "ready"} /\ rxCount < MaxRx
    /\ nic.rx \in Slots /\ rx_ring[nic.rx].own
    /\ rxCount' = rxCount + 1
    /\ rx_buffers' = [rx_buffers EXCEPT ![nic.rx] = rxCount + 1]
    /\ \E ok \in BOOLEAN :
          rx_ring' = [rx_ring EXCEPT ![nic.rx].own = FALSE, ![nic.rx].ok = ok]
    /\ nic' = [nic EXCEPT !.rx = After(rx_ring, nic.rx)]
    /\ UNCHANGED <<init, txVars, rx_idx, handed, irq, wire>>

NicTransmit ==
    /\ nic.sending /\ nic.tx \in Slots /\ tx_ring[nic.tx].own
    /\ LET buf == tx_ring[nic.tx].buf
       IN  wire' = Append(wire, IF buf = None THEN Dropped ELSE tx_buffers[buf])
    /\ tx_ring' = [tx_ring EXCEPT ![nic.tx].own = FALSE]
    /\ nic' = [nic EXCEPT !.tx = After(tx_ring, nic.tx)]
    /\ UNCHANGED <<init, tx_buffers, tx_idx, send, txCount, accepted, late, nested, rxVars, irq>>

NicIdle ==
    /\ nic.sending /\ (nic.tx \in Slots => ~tx_ring[nic.tx].own)
    /\ nic' = [nic EXCEPT !.sending = FALSE]
    /\ UNCHANGED <<init, txVars, rxVars, irq, wire>>

-----------------------------------------------------------------------------
Send(c) == SendCopy(c) \/ rtl8169_linkoutput(c)

Next ==
    \/ InitFails \/ InitRings \/ InitReady
    \/ \E c \in Contexts : Send(c)
    \/ TimerIrq \/ rtl8169_poll \/ TimerEnd
    \/ NicReceive \/ NicTransmit \/ NicIdle

\* The code runs on, the timer keeps firing but leaves time for the mainline, the
\* card sends what it owns.
Fairness ==
    /\ WF_vars(InitReady) /\ WF_vars(TimerIrq) /\ WF_vars(rtl8169_poll) /\ WF_vars(TimerEnd)
    /\ WF_vars(rtl8169_linkoutput("irq")) /\ SF_vars(rtl8169_linkoutput("main"))
    /\ WF_vars(NicTransmit)

Spec == Init /\ [][Next]_vars /\ Fairness

-----------------------------------------------------------------------------
(* Properties.                                                             *)

\* The frames that the card stored reach lwIP in the order in which they came,
\* each once and with its own contents, except for those rtl8169_poll drops.
RxInOrder ==
    /\ Len(handed) <= rxCount
    /\ \A k \in 1 .. Len(handed) : handed[k] \in {k, Dropped}

\* As long as the handler has not sent from inside a send, frames leave in the order
\* in which linkoutput accepted them, and with their own contents unless a later one
\* was copied over them while the ring was full.  That the handler interrupts
\* linkoutput does no harm by itself.
TxDamageOnlyWhenFull ==
    ~nested =>
    /\ Len(wire) <= Len(accepted)
    /\ \A k \in 1 .. Len(wire) : wire[k] = accepted[k] \/ wire[k] \in late

\* Every frame the card stored is dealt with.
RxDrains == \A k \in 1 .. MaxRx : (init = "ready" /\ rxCount >= k) ~> (Len(handed) >= k)

\* Every frame for which linkoutput returned ERR_OK leaves the machine, unless the
\* handler sends from inside a send: then tx_idx may skip a slot and the card waits
\* at it.
TxDrains == \A k \in 1 .. MaxTx : (Len(accepted) >= k) ~> (Len(wire) >= k \/ nested)

=============================================================================
