--------------------------------- MODULE E1000 ---------------------------------
(***************************************************************************)
(* drivers/ethernet/e1000/e1000.c with the packet handlers it calls,       *)
(* against the card.  The boot thread initialises the card with interrupts *)
(* on, so that the handler may run between any two of its steps.  The      *)
(* handler runs with interrupts off and is one step, but for its loop over *)
(* received frames and the wait in dev_e1000_send_data, during which the   *)
(* card goes on.                                                           *)
(*                                                                         *)
(* The card is external: it fills the receive descriptors from head up to  *)
(* tail, sends the transmit descriptors from head up to tail, and sets the *)
(* causes of an interrupt.  The redirection entry is edge triggered, so an *)
(* interrupt is remembered when the line rises.  Reading the causes clears *)
(* them.                                                                   *)
(***************************************************************************)
EXTENDS Net, Sequences

CONSTANTS
  Frames,               \* the frames that may arrive
  NULL,
  E1000_NUM_RX_DESC,    \* 32
  E1000_NUM_TX_DESC,    \* 8
  MaxFrames             \* bound: frames received

RX == 0 .. (E1000_NUM_RX_DESC - 1)
TX == 0 .. (E1000_NUM_TX_DESC - 1)

\* Interrupt causes, as bits of the register: 0x01, 0x04, 0x10, 0x40, 0x80.
Causes == {"TXDW", "LSC", "RXDMT0", "RXO", "RXT0"}

ASSUME E1000Assumption ==
  /\ E1000_NUM_RX_DESC \in Nat \ {0, 1} /\ E1000_NUM_TX_DESC \in Nat \ {0, 1}
  /\ NULL \notin Frames
  /\ \A f \in Frames, a \in {Mac, NULL} : ethernet_packet(f.arp, a) # NULL

VARIABLES
  pc, e1000_is_init, mac,   \* the boot thread in dev_e1000_init
  handler,                  \* "idle", or where e1000_irq_handler is
  rx_descs, rx_cur,         \* the frame in each descriptor, NULL when the status is 0
  tx_descs, tx_cur,         \* the packet and the status of each descriptor
  packet,                   \* the one that ethernet_send_packet has allocated
  card,       \* mask and causes; receiver: on, head, tail; transmitter: head, tail
  irr,        \* an interrupt is waiting
  received,   \* ghost: the frames put into descriptors since the receiver was enabled
  handled,    \* ghost: the number of frames that handle_recv has gone past
  swallowed   \* ghost: a receive cause was read, and handle_recv has not run since

boot == <<pc, e1000_is_init, mac>>
rx == <<rx_descs, rx_cur, handled>>
tx == <<tx_descs, tx_cur, packet>>
vars == <<boot, handler, rx, tx, card, irr, received, swallowed>>

TypeOK ==
  /\ card.icr \subseteq Causes /\ card.ims \subseteq Causes
  /\ rx_cur \in RX /\ card.rdh \in RX /\ card.rdt \in RX
  /\ tx_cur \in TX /\ card.tdh \in TX /\ card.tdt \in TX
  /\ handled \in 0 .. Len(received)

\* The firmware may have left a cause set.
Init ==
  /\ pc = "route" /\ e1000_is_init = FALSE /\ mac = NULL /\ handler = "idle"
  /\ rx_descs = [i \in RX |-> NULL] /\ rx_cur = 0
  /\ tx_descs = [i \in TX |-> [packet |-> NULL, status |-> FALSE]] /\ tx_cur = 0
  /\ packet = NULL
  /\ \E icr \in {{}, {"LSC"}} :
       card = [ims |-> {}, icr |-> icr, on |-> FALSE, rdh |-> 0, rdt |-> 0, tdh |-> 0, tdt |-> 0]
  /\ irr = FALSE /\ received = <<>> /\ handled = 0 /\ swallowed = FALSE

Line(c) == c.icr \cap c.ims # {}

\* The card becomes c; once there is a redirection entry a rising line is noticed.
Card(c) == card' = c /\ irr' = (irr \/ (pc # "route" /\ Line(c) /\ ~Line(card)))
-----------------------------------------------------------------------------
\* The boot thread: dev_e1000_init.

Step(from, to) == pc = from /\ pc' = to

set_gate ==
  /\ Step("route", "mac")
  /\ UNCHANGED <<e1000_is_init, mac, handler, rx, tx, card, irr, received, swallowed>>

\* When there is no address to read the address stays zero, and so it does after an error.
dev_e1000_get_mac ==
  /\ Step("mac", "mask")
  /\ mac' \in {Mac, NULL}
  /\ UNCHANGED <<e1000_is_init, handler, rx, tx, card, irr, received, swallowed>>

\* A write sets bits of the mask and clears none.
dev_e1000_enable_irq ==
  /\ \/ Step("mask", "ack") /\ Card([card EXCEPT !.ims = Causes])
     \/ Step("ack", "rx") /\ Card([card EXCEPT !.icr = {}])
  /\ UNCHANGED <<e1000_is_init, mac, handler, rx, tx, received, swallowed>>

dev_e1000_init_rx ==
  /\ Step("rx", "tx")
  /\ rx_descs' = [i \in RX |-> NULL] /\ rx_cur' = 0
  /\ Card([card EXCEPT !.rdh = 0, !.rdt = E1000_NUM_RX_DESC - 1, !.on = TRUE])
  /\ UNCHANGED <<e1000_is_init, mac, handler, handled, tx, received, swallowed>>

dev_e1000_init_tx ==
  /\ Step("tx", "register")
  /\ tx_descs' = [i \in TX |-> [packet |-> NULL, status |-> TRUE]] /\ tx_cur' = 0
  /\ Card([card EXCEPT !.tdh = 0, !.tdt = 0])
  /\ UNCHANGED <<e1000_is_init, mac, handler, rx, packet, received, swallowed>>

dev_e1000_init ==
  /\ Step("register", "done")
  /\ e1000_is_init' = TRUE
  /\ UNCHANGED <<mac, handler, rx, tx, card, irr, received, swallowed>>

BootThread ==
  /\ handler = "idle"
  /\ \/ set_gate \/ dev_e1000_get_mac \/ dev_e1000_enable_irq
     \/ dev_e1000_init_rx \/ dev_e1000_init_tx \/ dev_e1000_init
-----------------------------------------------------------------------------
\* The interrupt handler.

\* Only a receive cause that comes neither with a change of the link nor with a
\* half-empty ring leads to handle_recv.
e1000_irq_handler ==
  /\ handler = "idle" /\ irr
  /\ LET status == card.icr
         recv == e1000_is_init /\ status \cap {"LSC", "RXDMT0", "RXT0"} = {"RXT0"}
     IN  /\ handler' = IF recv THEN "recv" ELSE "idle"
         /\ swallowed' = (~recv /\ (swallowed \/ "RXT0" \in status))
  /\ card' = [card EXCEPT !.ims = @ \cup {"TXDW"}, !.icr = {}]
  /\ irr' = FALSE
  /\ UNCHANGED <<boot, rx, tx, received>>

\* Mutant: the status of the descriptor is not cleared.
Past_KeepsStatus ==
  /\ rx_descs' = rx_descs
  /\ rx_cur' = (rx_cur + 1) % E1000_NUM_RX_DESC
  /\ handled' = handled + 1
  /\ handler' = "recv"
  /\ Card([card EXCEPT !.rdt = rx_cur])

\* The rest of the loop's body: the descriptor goes back to the card.
Past ==
  /\ rx_descs' = [rx_descs EXCEPT ![rx_cur] = NULL]
  /\ rx_cur' = (rx_cur + 1) % E1000_NUM_RX_DESC
  /\ handled' = handled + 1
  /\ handler' = "recv"
  /\ Card([card EXCEPT !.rdt = rx_cur])

\* A frame that is not answered.
dev_e1000_handle_recv ==
  /\ handler = "recv" /\ rx_descs[rx_cur] # NULL /\ ~net_handle(rx_descs[rx_cur], mac)
  /\ Past
  /\ UNCHANGED <<boot, tx, received, swallowed>>

\* The answer is built, the frame is rewritten in place, and the tail is moved.
Send(pkt, tail) ==
  /\ rx_descs' = [rx_descs EXCEPT ![rx_cur].arp = Rewritten(rx_descs[rx_cur].arp, mac)]
  /\ packet' = pkt
  /\ tx_descs' = [tx_descs EXCEPT ![tx_cur] = [packet |-> pkt, status |-> FALSE]]
  /\ tx_cur' = (tx_cur + 1) % E1000_NUM_TX_DESC
  /\ handler' = "send"
  /\ Card([card EXCEPT !.tdt = tail])

\* Mutant: the tail names the descriptor just filled, not the one after it.
dev_e1000_send_data_Tail ==
  /\ handler = "recv" /\ rx_descs[rx_cur] # NULL /\ net_handle(rx_descs[rx_cur], mac)
  /\ Send(ethernet_packet(rx_descs[rx_cur].arp, mac), tx_cur)
  /\ UNCHANGED <<boot, rx_cur, handled, received, swallowed>>

dev_e1000_send_data ==
  /\ handler = "recv" /\ rx_descs[rx_cur] # NULL /\ net_handle(rx_descs[rx_cur], mac)
  /\ Send(ethernet_packet(rx_descs[rx_cur].arp, mac), (tx_cur + 1) % E1000_NUM_TX_DESC)
  /\ UNCHANGED <<boot, rx_cur, handled, received, swallowed>>

\* Mutant: the wait is for the next descriptor, which has never been used.
old_cur_Next == tx_cur

\* The descriptor that dev_e1000_send_data has just filled.
old_cur == (tx_cur + E1000_NUM_TX_DESC - 1) % E1000_NUM_TX_DESC

\* The wait is over: ethernet_send_packet frees the packet, and the loop goes on.
ethernet_send_packet ==
  /\ handler = "send" /\ tx_descs[old_cur].status
  /\ packet' = NULL
  /\ Past
  /\ UNCHANGED <<boot, tx_descs, tx_cur, received, swallowed>>

\* No descriptor is left: the handler returns.
Return ==
  /\ handler = "recv" /\ rx_descs[rx_cur] = NULL
  /\ handler' = "idle"
  /\ UNCHANGED <<boot, rx, tx, card, irr, received, swallowed>>

IrqHandler ==
  \/ e1000_irq_handler \/ dev_e1000_handle_recv \/ dev_e1000_send_data
  \/ ethernet_send_packet \/ Return
-----------------------------------------------------------------------------
\* The card.

Free(c) == (c.rdt - c.rdh) % E1000_NUM_RX_DESC

Receive(frame) ==
  /\ card.on /\ Len(received) < MaxFrames
  /\ Free(card) # 0
  /\ rx_descs' = [rx_descs EXCEPT ![card.rdh] = frame]
  /\ received' = Append(received, frame)
  /\ LET c == [card EXCEPT !.rdh = (@ + 1) % E1000_NUM_RX_DESC]
     IN  Card([c EXCEPT !.icr = @ \cup {"RXT0"} \cup
                 (IF Free(c) = E1000_NUM_RX_DESC \div 2 THEN {"RXDMT0"} ELSE {})])
  /\ UNCHANGED <<boot, handler, rx_cur, handled, tx, swallowed>>

\* A frame finds the ring full and is dropped.
Overrun ==
  /\ card.on /\ Free(card) = 0
  /\ Card([card EXCEPT !.icr = @ \cup {"RXO"}])
  /\ UNCHANGED <<boot, handler, rx, tx, received, swallowed>>

LinkChange ==
  /\ Len(received) < MaxFrames
  /\ Card([card EXCEPT !.icr = @ \cup {"LSC"}])
  /\ UNCHANGED <<boot, handler, rx, tx, received, swallowed>>

Transmit ==
  /\ card.tdh # card.tdt
  /\ tx_descs' = [tx_descs EXCEPT ![card.tdh].status = TRUE]
  /\ Card([card EXCEPT !.tdh = (@ + 1) % E1000_NUM_TX_DESC, !.icr = @ \cup {"TXDW"}])
  /\ UNCHANGED <<boot, handler, rx, tx_cur, packet, received, swallowed>>

Next ==
  \/ BootThread \/ IrqHandler
  \/ (\E frame \in Frames : Receive(frame)) \/ Overrun \/ LinkChange \/ Transmit

Spec == Init /\ [][Next]_vars

\* The boot thread and the handler run; the card sends what it is given.
FairSpec == Spec /\ WF_vars(BootThread) /\ WF_vars(IrqHandler) /\ WF_vars(Transmit)
-----------------------------------------------------------------------------
Waiting == Len(received) - handled

\* The descriptors from rx_cur on hold the frames that are still to be handled, in
\* the order of their arrival, and every other descriptor is empty: between the
\* card and handle_recv no frame is lost, handled twice or overwritten.  The first
\* may already have been rewritten as its answer.  The indices stay in their rings.
RingInOrder ==
  /\ TypeOK
  /\ card.on =>
    /\ Waiting < E1000_NUM_RX_DESC
    /\ \A i \in RX :
         LET d == rx_descs[(rx_cur + i) % E1000_NUM_RX_DESC]
         IN  /\ i < Waiting /\ ~(i = 0 /\ handler = "send") => d = received[handled + i + 1]
             /\ i >= Waiting => d = NULL

\* What the card sends has not been freed, answers the frame being handled, and goes
\* to the sender of it; that frame was for this card or for all.
AnswersItsSender ==
  [][card'.tdh # card.tdh /\ pc' = pc =>
       LET frame == received[handled + 1] IN
       /\ packet # NULL /\ packet = tx_descs[card.tdh].packet
       /\ packet.dst = frame.arp.sha /\ packet.arp.tha = frame.arp.sha
       /\ packet.arp.tpa = frame.arp.spa /\ packet.arp.sha = mac
       /\ frame.dst \in {mac, Broadcast}]_vars

\* Every frame received is handled in the end, through any number of answers, unless
\* its cause was swallowed.
FramesHandled == (Waiting > 0) ~> (Waiting = 0 \/ swallowed)
=============================================================================
