----------------------------- MODULE E1000Proofs -----------------------------
(***************************************************************************)
(* The E1000 driver for rings of every size and every set of frames.       *)
(***************************************************************************)
EXTENDS E1000, SequenceTheorems, TLAPS

N == E1000_NUM_RX_DESC
T == E1000_NUM_TX_DESC

\* The i-th receive descriptor from rx_cur on, and what it holds.
Slot(i) == (rx_cur + i) % N
Holds(i) ==
  /\ i < Waiting /\ ~(i = 0 /\ handler = "send") => rx_descs[Slot(i)] = received[handled + i + 1]
  /\ i >= Waiting => rx_descs[Slot(i)] = NULL

\* The types, and when the handler may run.
DriverType ==
  /\ pc \in {"route", "mac", "mask", "ack", "rx", "tx", "register", "done"}
  /\ e1000_is_init = (pc = "done") /\ mac \in {Mac, NULL}
  /\ handler \in {"idle", "recv", "send"} /\ (handler # "idle" => pc = "done")
  /\ DOMAIN rx_descs = RX /\ rx_cur \in RX
  /\ DOMAIN tx_descs = TX /\ tx_cur \in TX
  /\ \A i \in TX : DOMAIN tx_descs[i] = {"packet", "status"}
  /\ card \in [ims : SUBSET Causes, icr : SUBSET Causes, on : BOOLEAN,
               rdh : RX, rdt : RX, tdh : TX, tdt : TX]
  /\ card.on <=> pc \in {"tx", "register", "done"}
  /\ received \in Seq(Frames) /\ handled \in Nat /\ handled <= Len(received)

\* The receive ring: the tail is one behind rx_cur, the head is ahead of it by the
\* frames that wait.
RxInv ==
  IF card.on
  THEN /\ Waiting < N
       /\ card.rdt = Slot(N - 1) /\ card.rdh = Slot(Waiting)
       /\ \A i \in RX : Holds(i)
  ELSE received = <<>> /\ handled = 0

\* The transmit ring: the tail is tx_cur, and what the card has not sent is the
\* answer that the handler waits for.
TxInv ==
  /\ card.tdt = tx_cur
  /\ handler # "send" => card.tdh = tx_cur
  /\ handler = "send" =>
       /\ card.tdh \in {old_cur, tx_cur} /\ Waiting > 0
       /\ packet = ethernet_packet(received[handled + 1].arp, mac)
       /\ tx_descs[old_cur].packet = packet
       /\ tx_descs[old_cur].status => card.tdh = tx_cur
       /\ net_handle(received[handled + 1], mac)

E1000Inv == DriverType /\ RxInv /\ TxInv

-----------------------------------------------------------------------------
\* Indices around a ring.

LEMMA Sizes == N \in Nat \ {0, 1} /\ T \in Nat \ {0, 1} /\ RX = 0 .. (N - 1) /\ TX = 0 .. (T - 1)
BY E1000Assumption, Zenon DEF N, T, RX, TX

LEMMA Around ==
  ASSUME NEW M \in Nat \ {0, 1}, NEW c \in 0 .. (M - 1), NEW i \in 0 .. M
  PROVE  /\ c + i < M => (c + i) % M = c + i
         /\ c + i >= M => (c + i) % M = c + i - M
         /\ (c + i) % M \in 0 .. (M - 1)
<1>1. CASE c + i < M
  <2>1. (c + i) % M = c + i
    BY <1>1
  <2>. QED
    BY <1>1, <2>1
<1>2. CASE c + i >= M
  <2>1. (c + i) % M = c + i - M
    BY <1>2
  <2>. QED
    BY <1>2, <2>1
<1>. QED
  BY <1>1, <1>2

LEMMA AroundApart ==
  ASSUME NEW M \in Nat \ {0, 1}, NEW c \in 0 .. (M - 1),
         NEW i \in 0 .. (M - 1), NEW j \in 0 .. (M - 1), i # j
  PROVE  (c + i) % M # (c + j) % M
<1>1. i \in 0 .. M /\ j \in 0 .. M
  OBVIOUS
<1>2. /\ c + i < M => (c + i) % M = c + i
      /\ c + i >= M => (c + i) % M = c + i - M
  BY <1>1, Around, Zenon
<1>3. /\ c + j < M => (c + j) % M = c + j
      /\ c + j >= M => (c + j) % M = c + j - M
  BY <1>1, Around, Zenon
<1>4. PICK x : x = (c + i) % M
  BY Zenon
<1>5. PICK y : y = (c + j) % M
  BY Zenon
<1>. QED
  BY <1>2, <1>3, <1>4, <1>5

LEMMA AroundNext ==
  ASSUME NEW M \in Nat \ {0, 1}, NEW c \in 0 .. (M - 1), NEW i \in 0 .. (M - 1)
  PROVE  /\ (c + 1) % M \in 0 .. (M - 1) /\ (c + 1) % M # c
         /\ (((c + 1) % M) + i) % M = (c + (i + 1)) % M
         /\ (((c + 1) % M) + (M - 1)) % M = c
         /\ (c + 0) % M = c
<1>1. CASE c + 1 < M
  <2>1. (c + 1) % M = c + 1
    BY <1>1
  <2>2. (c + 1) + i = c + (i + 1)
    OBVIOUS
  <2>3. ((c + 1) + (M - 1)) % M = c
    <3>1. (c + 1) + (M - 1) = c + M
      OBVIOUS
    <3>2. c + M >= M /\ M \in 0 .. M
      OBVIOUS
    <3>3. (c + M) % M = c + M - M
      BY <3>2, Around, Zenon
    <3>. QED
      BY <3>1, <3>3
  <2>. QED
    BY <1>1, <2>1, <2>2, <2>3
<1>2. CASE c + 1 = M
  <2>1. (c + 1) % M = 0
    BY <1>2
  <2>2. i + 1 \in 0 .. M /\ c + (i + 1) >= M /\ c + (i + 1) - M = i
    BY <1>2
  <2>3. (c + (i + 1)) % M = i
    BY <2>2, Around, Zenon
  <2>4. (0 + i) % M = i
    OBVIOUS
  <2>5. (0 + (M - 1)) % M = c
    BY <1>2
  <2>. QED
    BY <1>2, <2>1, <2>3, <2>4, <2>5
<1>. QED
  BY <1>1, <1>2

LEMMA AroundStep ==
  ASSUME NEW M \in Nat \ {0, 1}, NEW c \in 0 .. (M - 1), NEW i \in 0 .. (M - 2)
  PROVE  (((c + i) % M) + 1) % M = (c + (i + 1)) % M
<1>1. CASE c + i < M
  BY <1>1
<1>2. CASE c + i >= M
  <2>1. (c + i) % M = c + i - M /\ (c + (i + 1)) % M = c + (i + 1) - M
    BY <1>2
  <2>2. (c + i - M + 1) % M = c + (i + 1) - M
    BY <1>2
  <2>. QED
    BY <2>1, <2>2, Zenon
<1>. QED
  BY <1>1, <1>2

LEMMA SlotFacts ==
  ASSUME DriverType
  PROVE  /\ \A i \in 0 .. N : Slot(i) \in RX
         /\ \A i, j \in RX : i # j => Slot(i) # Slot(j)
         /\ Slot(0) = rx_cur
<1>1. rx_cur \in 0 .. (N - 1) /\ N \in Nat \ {0, 1}
  BY Sizes, Zenon DEF DriverType
<1>2. Slot(0) = rx_cur
  BY <1>1, AroundNext, Zenon DEF Slot
<1>3. \A i \in 0 .. N : Slot(i) \in RX
  BY <1>1, Sizes, Around, Zenon DEF Slot
<1>4. \A i, j \in RX : i # j => Slot(i) # Slot(j)
  BY <1>1, Sizes, AroundApart, ZenonT(60) DEF Slot
<1>. QED
  BY <1>2, <1>3, <1>4, Zenon

LEMMA SlotNext ==
  ASSUME DriverType, rx_cur' = (rx_cur + 1) % E1000_NUM_RX_DESC
  PROVE  /\ rx_cur' \in RX
         /\ \A i \in RX : Slot(i)' = Slot(i + 1)
         /\ Slot(N - 1)' = rx_cur
<1>1. rx_cur \in 0 .. (N - 1) /\ N \in Nat \ {0, 1} /\ rx_cur' = (rx_cur + 1) % N
  BY Sizes, Zenon DEF DriverType, N
<1>2. ASSUME NEW i \in 0 .. (N - 1)
      PROVE  /\ (rx_cur + 1) % N \in 0 .. (N - 1)
             /\ (((rx_cur + 1) % N) + i) % N = (rx_cur + (i + 1)) % N
             /\ (((rx_cur + 1) % N) + (N - 1)) % N = rx_cur
  BY <1>1, <1>2, AroundNext, ZenonT(60)
<1>3. 0 \in 0 .. (N - 1) /\ RX = 0 .. (N - 1) /\ N' = N
  BY Sizes DEF N
<1>4. rx_cur' \in RX /\ (rx_cur' + (N - 1)) % N = rx_cur
  BY <1>1, <1>2, <1>3, Zenon
<1>5. \A i \in RX : (rx_cur' + i) % N = (rx_cur + (i + 1)) % N
  BY <1>1, <1>2, <1>3, Zenon
<1>. QED
  BY <1>3, <1>4, <1>5, Zenon DEF Slot

\* The steps keep the types.
CardType == [ims : SUBSET Causes, icr : SUBSET Causes, on : BOOLEAN,
             rdh : RX, rdt : RX, tdh : TX, tdt : TX]

LEMMA Index ==
  /\ \A c \in RX : (c + 1) % E1000_NUM_RX_DESC \in RX
  /\ \A c \in TX : (c + 1) % E1000_NUM_TX_DESC \in TX
<1>1. \A c \in RX : (c + 1) % N \in RX
  <2>1. 0 \in 0 .. (N - 1)
    BY Sizes
  <2>. QED
    BY <2>1, Sizes, AroundNext, Zenon
<1>2. \A c \in TX : (c + 1) % T \in TX
  <2>1. 0 \in 0 .. (T - 1)
    BY Sizes
  <2>. QED
    BY <2>1, Sizes, AroundNext, Zenon
<1>. QED
  BY <1>1, <1>2, Zenon DEF N, T

LEMMA TypeStep ==
  ASSUME E1000Inv, [Next]_vars
  PROVE  DriverType'
<1>. USE DEF CardType
<1>1. DriverType /\ card \in CardType
  BY Zenon DEF E1000Inv, DriverType
<1>2. CASE set_gate \/ dev_e1000_get_mac \/ dev_e1000_init
  BY <1>1, <1>2, Zenon DEF set_gate, dev_e1000_get_mac, dev_e1000_init, Step, DriverType, rx, tx
<1>3. CASE dev_e1000_enable_irq
  <2>1. card' \in CardType /\ card'.on = card.on
    BY <1>1, <1>3, Zenon DEF dev_e1000_enable_irq, Card
  <2>. QED
    BY <1>1, <1>3, <2>1, Zenon DEF dev_e1000_enable_irq, Step, DriverType, rx, tx
<1>4. CASE dev_e1000_init_rx
  <2>1. 0 \in RX /\ E1000_NUM_RX_DESC - 1 \in RX
    BY Sizes DEF N
  <2>2. card' \in CardType /\ card'.on = TRUE
    BY <1>1, <1>4, <2>1, Zenon DEF dev_e1000_init_rx, Card
  <2>. QED
    BY <1>1, <1>4, <2>1, <2>2, Zenon DEF dev_e1000_init_rx, Step, DriverType, tx
<1>5. CASE dev_e1000_init_tx
  <2>1. 0 \in TX
    BY Sizes
  <2>2. card' \in CardType /\ card'.on = card.on
    BY <1>1, <1>5, <2>1, Zenon DEF dev_e1000_init_tx, Card
  <2>. QED
    BY <1>1, <1>5, <2>1, <2>2, Zenon DEF dev_e1000_init_tx, Step, DriverType, rx
<1>6. CASE e1000_irq_handler
  <2>1. card' \in CardType /\ card'.on = card.on
    BY <1>1, <1>6, Zenon DEF e1000_irq_handler, Causes
  <2>. QED
    BY <1>1, <1>6, <2>1, Zenon DEF e1000_irq_handler, DriverType, boot, rx, tx
<1>7. ASSUME Past, handler # "idle", Waiting > 0, UNCHANGED <<boot, tx_descs, tx_cur, received>>
      PROVE  DriverType'
  <2>1. card' \in CardType /\ card'.on = card.on
    BY <1>1, <1>7, Zenon DEF Past, Card, DriverType
  <2>2. rx_cur' \in RX
    BY <1>1, <1>7, Index, Zenon DEF Past, DriverType
  <2>3. handled' \in Nat /\ handled' <= Len(received')
    BY <1>1, <1>7, LenProperties DEF Past, Waiting, DriverType
  <2>. QED
    BY <1>1, <1>7, <2>1, <2>2, <2>3, Zenon DEF Past, DriverType, boot
<1>8. CASE dev_e1000_handle_recv
  <2>1. Waiting > 0 
    BY <1>1, <1>8, LenProperties, Sizes, SlotFacts DEF E1000Inv, RxInv, Holds, dev_e1000_handle_recv, DriverType, Waiting
  <2>. QED
    BY <1>7, <1>8, <2>1, Zenon DEF dev_e1000_handle_recv, tx
<1>9. CASE dev_e1000_send_data
  <2>1. card' \in CardType /\ card'.on = card.on
    BY <1>1, <1>9, Index, Zenon DEF dev_e1000_send_data, Send, Card, DriverType
  <2>2. tx_cur' \in TX /\ DOMAIN rx_descs' = RX /\ DOMAIN tx_descs' = TX
    BY <1>1, <1>9, Index, Zenon DEF dev_e1000_send_data, Send, DriverType
  <2>3. \A i \in TX : DOMAIN tx_descs'[i] = {"packet", "status"}
    BY <1>1, <1>9, Zenon DEF dev_e1000_send_data, Send, DriverType
  <2>. QED
    BY <1>1, <1>9, <2>1, <2>2, <2>3, Zenon DEF dev_e1000_send_data, Send, DriverType, boot
<1>10. CASE ethernet_send_packet
  BY <1>1, <1>7, <1>10, Zenon DEF ethernet_send_packet, E1000Inv, TxInv
<1>11. CASE Return
  BY <1>1, <1>11, Zenon DEF Return, DriverType, boot, rx, tx
<1>12. ASSUME NEW frame \in Frames, Receive(frame) PROVE DriverType'
  <2>1. card' \in CardType /\ card'.on = card.on
    BY <1>1, <1>12, Index, Zenon DEF Receive, Card, Causes
  <2>2. received' \in Seq(Frames) /\ Len(received') = Len(received) + 1
    BY <1>1, <1>12, AppendProperties DEF Receive, DriverType
  <2>3. handled' \in Nat /\ handled' <= Len(received')
    BY <1>1, <1>12, <2>2, LenProperties DEF Receive, DriverType
  <2>. QED
    BY <1>1, <1>12, <2>1, <2>2, <2>3, Zenon DEF Receive, DriverType, boot, tx
<1>13. CASE Overrun \/ LinkChange
  <2>1. card' \in CardType /\ card'.on = card.on
    BY <1>1, <1>13, Zenon DEF Overrun, LinkChange, Card, Causes
  <2>. QED
    BY <1>1, <1>13, <2>1, Zenon DEF Overrun, LinkChange, DriverType, boot, rx, tx
<1>14. CASE Transmit
  <2>1. card' \in CardType /\ card'.on = card.on
    BY <1>1, <1>14, Index, Zenon DEF Transmit, Card, Causes
  <2>2. DOMAIN tx_descs' = TX /\ \A i \in TX : DOMAIN tx_descs'[i] = {"packet", "status"}
    BY <1>1, <1>14, Zenon DEF Transmit, DriverType
  <2>. QED
    BY <1>1, <1>14, <2>1, <2>2, Zenon DEF Transmit, DriverType, boot, rx
<1>15. CASE UNCHANGED vars
  BY <1>1, <1>15, Zenon DEF DriverType, vars, boot, rx, tx
<1>. QED
  BY <1>2, <1>3, <1>4, <1>5, <1>6, <1>8, <1>9, <1>10, <1>11, <1>12, <1>13, <1>14, <1>15, Zenon
  DEF Next, BootThread, IrqHandler

LEMMA E1000Init == Init => E1000Inv
<1>. SUFFICES ASSUME Init PROVE E1000Inv
  BY Zenon
<1>1. 0 \in RX /\ 0 \in TX
  BY Sizes
<1>2. /\ card.ims = {} /\ card.icr \in SUBSET Causes /\ card.on = FALSE
      /\ card.rdh = 0 /\ card.rdt = 0 /\ card.tdh = 0 /\ card.tdt = 0
      /\ card = [ims |-> card.ims, icr |-> card.icr, on |-> card.on, rdh |-> card.rdh,
                 rdt |-> card.rdt, tdh |-> card.tdh, tdt |-> card.tdt]
  BY DEF Init, Causes
<1>3. card \in [ims : SUBSET Causes, icr : SUBSET Causes, on : BOOLEAN,
                rdh : RX, rdt : RX, tdh : TX, tdt : TX]
  BY <1>1, <1>2, Zenon
<1>4. received \in Seq(Frames) /\ handled \in Nat /\ handled <= Len(received)
  BY EmptySeq DEF Init
<1>5. DriverType
  BY <1>1, <1>2, <1>3, <1>4, Zenon DEF Init, DriverType
<1>. QED
  BY <1>2, <1>5, Zenon DEF Init, E1000Inv, RxInv, TxInv

LEMMA WaitingNat ==
  ASSUME DriverType
  PROVE  Waiting \in Nat /\ Len(received) \in Nat /\ Len(received) = handled + Waiting
BY LenProperties DEF DriverType, Waiting

\* Going past a frame takes it out of the ring and keeps the order of the others.
LEMMA PastKeepsRing ==
  ASSUME E1000Inv, Past, card.on, Waiting > 0, UNCHANGED received
  PROVE  RxInv'
<1>1. DriverType /\ RxInv
  BY Zenon DEF E1000Inv
<1>2. /\ Waiting' = Waiting - 1 /\ Waiting \in Nat /\ Waiting < N /\ N \in Nat /\ RX = 0 .. (N - 1)
      /\ handled \in Nat /\ handled' = handled + 1
  <2>1. handled \in Nat /\ handled' = handled + 1 /\ Waiting < N
    BY <1>1, Zenon DEF Past, RxInv, DriverType
  <2>2. Waiting' = Waiting - 1
    BY <1>1, <2>1, WaitingNat DEF Waiting
  <2>. QED
    BY <1>1, <2>1, <2>2, WaitingNat, Sizes, Zenon
<1>3. card'.on = TRUE /\ card'.rdt = rx_cur /\ card'.rdh = card.rdh
  BY <1>1, Zenon DEF Past, Card, DriverType
<1>4. /\ \A i \in RX : Slot(i)' = Slot(i + 1)
      /\ Slot(N - 1)' = rx_cur
  BY <1>1, SlotNext, Zenon DEF Past
<1>5. Slot(Waiting)' = Slot(Waiting)
  <2>1. PICK w \in RX : w = Waiting - 1 /\ w + 1 = Waiting
    BY <1>2
  <2>2. Slot(w)' = Slot(w + 1)
    BY <1>4, Zenon
  <2>. QED
    BY <1>2, <2>1, <2>2, Zenon DEF Slot
<1>6. ASSUME NEW i \in RX PROVE Holds(i)'
  <2>1. CASE i = N - 1
    <3>1. Slot(i)' = rx_cur /\ rx_descs'[rx_cur] = NULL /\ i >= Waiting'
      BY <1>1, <1>2, <1>4, <2>1 DEF Past, DriverType
    <3>2. ~(i < Waiting')
      BY <1>2, <3>1
    <3>. QED
      BY <3>1, <3>2, Zenon DEF Holds
  <2>2. CASE i # N - 1
    <3>1. PICK j \in RX : j = i + 1 /\ j # 0 /\ 0 \in RX
      BY <1>2, <2>2
    <3>2. Slot(j) # rx_cur /\ Slot(j) \in RX
      BY <1>1, <1>2, <3>1, SlotFacts
    <3>3. rx_descs'[Slot(j)] = rx_descs[Slot(j)] /\ Slot(i)' = Slot(j)
      BY <1>1, <1>4, <3>1, <3>2, Zenon DEF Past, DriverType
    <3>4. /\ j < Waiting => rx_descs[Slot(j)] = received[handled + j + 1]
          /\ j >= Waiting => rx_descs[Slot(j)] = NULL
      BY <1>1, <3>1, Zenon DEF RxInv, Holds
    <3>5. /\ i < Waiting' <=> j < Waiting
          /\ i >= Waiting' <=> j >= Waiting
          /\ handled' + i + 1 = handled + j + 1
      BY <1>2, <3>1
    <3>. QED
      BY <3>3, <3>4, <3>5, Zenon DEF Holds
  <2>. QED
    BY <2>1, <2>2, Zenon
<1>7. Waiting' < N
  BY <1>2
<1>8. card'.rdt = Slot(N - 1)' /\ card'.rdh = Slot(Waiting)'
  BY <1>1, <1>3, <1>4, <1>5, Zenon DEF RxInv
<1>. QED
  BY <1>3, <1>6, <1>7, <1>8, Zenon DEF RxInv, N

\* A frame that arrives goes behind those that wait.
LEMMA ReceiveKeepsRing ==
  ASSUME E1000Inv, NEW frame \in Frames, Receive(frame)
  PROVE  RxInv'
<1>1. DriverType /\ RxInv /\ card.on
  BY Zenon DEF E1000Inv, Receive
<1>2. Waiting \in Nat /\ Waiting < N /\ N \in Nat \ {0, 1} /\ RX = 0 .. (N - 1) /\ rx_cur \in RX
  BY <1>1, WaitingNat, Sizes, Zenon DEF RxInv, DriverType
<1>3. /\ received' = Append(received, frame) /\ Len(received') = Len(received) + 1
      /\ \A k \in 1 .. Len(received) : received'[k] = received[k]
      /\ received'[Len(received) + 1] = frame
  BY <1>1, AppendProperties DEF Receive, DriverType
<1>4. Waiting' = Waiting + 1
  BY <1>1, <1>3, LenProperties DEF Receive, Waiting, DriverType
<1>5. /\ card'.on = TRUE /\ card'.rdt = card.rdt
      /\ card'.rdh = (card.rdh + 1) % N /\ UNCHANGED <<rx_cur, handled, handler>>
  BY <1>1, Zenon DEF Receive, Card, DriverType, N
<1>6. Waiting # N - 1
  <2>1. ASSUME Waiting = N - 1 PROVE card.rdt - card.rdh = 0
    BY <1>1, <2>1, <1>2 DEF RxInv, Slot, DriverType
  <2>2. 0 % N = 0
    BY <1>2
  <2>. QED
    BY <2>1, <2>2, Zenon DEF Receive, Free, N
<1>7. card'.rdh = Slot(Waiting)'
  <2>1. Waiting \in 0 .. (N - 2)
    BY <1>2, <1>6
  <2>2. (((rx_cur + Waiting) % N) + 1) % N = (rx_cur + (Waiting + 1)) % N
    BY <1>2, <2>1, AroundStep, Zenon
  <2>. QED
    BY <1>1, <1>4, <1>5, <2>2, Zenon DEF RxInv, Slot, N
<1>8. ASSUME NEW i \in RX PROVE Holds(i)'
  <2>1. Slot(i)' = Slot(i)
    BY <1>5, Zenon DEF Slot, N
  <2>2. CASE i = Waiting
    <3>1. rx_descs'[Slot(i)] = frame
      BY <1>1, <2>2, Zenon DEF Receive, RxInv, DriverType
    <3>2. handled + i + 1 = Len(received) + 1
      BY <1>1, <2>2, WaitingNat, Zenon DEF DriverType
    <3>3. i < Waiting' /\ ~(i >= Waiting')
      BY <1>2, <1>4, <2>2
    <3>. QED
      BY <1>3, <1>5, <2>1, <3>1, <3>2, <3>3, Zenon DEF Holds
  <2>3. CASE i # Waiting
    <3>1. Waiting \in RX /\ Slot(i) # Slot(Waiting) /\ Slot(i) \in RX
      BY <1>1, <1>2, <2>3, SlotFacts
    <3>2. rx_descs'[Slot(i)] = rx_descs[Slot(i)]
      BY <1>1, <3>1 DEF Receive, RxInv, DriverType
    <3>3. /\ i < Waiting' <=> i < Waiting
          /\ i >= Waiting' <=> i >= Waiting
      BY <1>2, <1>4, <2>3
    <3>4. i < Waiting => received'[handled + i + 1] = received[handled + i + 1]
      <4>1. i < Waiting => handled + i + 1 \in 1 .. Len(received)
        BY <1>1, <1>2, WaitingNat DEF DriverType
      <4>. QED
        BY <1>3, <4>1, Zenon
    <3>5. Holds(i)
      BY <1>1, Zenon DEF RxInv
    <3>. QED
      BY <1>5, <2>1, <3>2, <3>3, <3>4, <3>5, Zenon DEF Holds
  <2>. QED
    BY <2>2, <2>3, Zenon
<1>. QED
  BY <1>1, <1>2, <1>4, <1>5, <1>6, <1>7, <1>8 DEF RxInv, Slot, N

LEMMA RxStep ==
  ASSUME E1000Inv, [Next]_vars
  PROVE  RxInv'
<1>1. DriverType /\ RxInv /\ TxInv
  BY Zenon DEF E1000Inv
<1>2. ASSUME UNCHANGED <<rx_descs, rx_cur, handled, received>>,
             card'.on = card.on, card'.rdh = card.rdh, card'.rdt = card.rdt,
             handler = "send" => handler' = "send"
      PROVE  RxInv'
  BY <1>1, <1>2, Zenon DEF RxInv, Holds, Slot, Waiting, N
<1>3. CASE set_gate \/ dev_e1000_get_mac \/ dev_e1000_enable_irq \/ dev_e1000_init_tx \/ dev_e1000_init
  BY <1>1, <1>2, <1>3, Zenon DEF set_gate, dev_e1000_get_mac, dev_e1000_enable_irq, dev_e1000_init_tx,
                          dev_e1000_init, Card, rx, DriverType
<1>4. CASE dev_e1000_init_rx
  <2>1. received = <<>> /\ handled = 0 /\ UNCHANGED <<received, handled>>
    BY <1>1, <1>4, Zenon DEF dev_e1000_init_rx, Step, RxInv, DriverType
  <2>2. Waiting' = 0 /\ N \in Nat \ {0, 1} /\ RX = 0 .. (N - 1)
    BY <2>1, Sizes DEF Waiting
  <2>3. rx_cur' = 0 /\ card'.rdh = 0 /\ card'.rdt = N - 1 /\ card'.on = TRUE
    BY <1>1, <1>4, Zenon DEF dev_e1000_init_rx, Card, DriverType, N
  <2>4. \A i \in RX : Slot(i)' = i
    BY <2>2, <2>3 DEF Slot, N
  <2>5. \A i \in RX : Holds(i)'
    BY <1>4, <2>2, <2>4 DEF Holds, dev_e1000_init_rx
  <2>6. Slot(N - 1)' = N - 1 /\ Slot(Waiting)' = 0
    BY <2>2, <2>3 DEF Slot, N
  <2>. QED
    BY <2>2, <2>3, <2>5, <2>6 DEF RxInv, N
<1>5. CASE e1000_irq_handler \/ Return
  BY <1>1, <1>2, <1>5, Zenon DEF e1000_irq_handler, Return, rx, DriverType
<1>6. ASSUME handler = "recv", rx_descs[rx_cur] # NULL
      PROVE  card.on /\ Waiting > 0
  <2>1. card.on
    BY <1>1, <1>6, Zenon DEF DriverType
  <2>2. 0 \in RX /\ Slot(0) = rx_cur
    BY <1>1, SlotFacts, Sizes
  <2>. QED
    BY <1>1, <1>6, <2>1, <2>2, WaitingNat DEF RxInv, Holds
<1>7. CASE dev_e1000_handle_recv
  BY <1>6, <1>7, PastKeepsRing, Zenon DEF dev_e1000_handle_recv
<1>8. CASE dev_e1000_send_data
  <2>1. /\ UNCHANGED <<rx_cur, handled, received>> /\ handler' = "send"
        /\ card'.on = card.on /\ card'.rdh = card.rdh /\ card'.rdt = card.rdt
    BY <1>1, <1>8, Zenon DEF dev_e1000_send_data, Send, Card, DriverType
  <2>2. card.on /\ Waiting > 0 /\ Waiting' = Waiting
    BY <1>6, <1>8, <2>1, Zenon DEF dev_e1000_send_data, Waiting
  <2>3. ASSUME NEW i \in RX PROVE Holds(i)'
    <3>1. Slot(i)' = Slot(i) /\ Holds(i)
      BY <1>1, <2>1, <2>2, Zenon DEF Slot, N, RxInv
    <3>2. CASE i = 0
      BY <1>1, <2>1, <2>2, <3>2, WaitingNat DEF Holds
    <3>3. CASE i # 0
      <4>1. Slot(i) # rx_cur /\ Slot(i) \in RX
        BY <1>1, <3>3, Sizes, SlotFacts
      <4>2. rx_descs'[Slot(i)] = rx_descs[Slot(i)]
        BY <1>1, <1>8, <4>1, Zenon DEF dev_e1000_send_data, Send, DriverType
      <4>. QED
        BY <2>1, <2>2, <3>1, <3>3, <4>2, Zenon DEF Holds
    <3>. QED
      BY <3>2, <3>3, Zenon
  <2>. QED
    BY <1>1, <2>1, <2>2, <2>3, Zenon DEF RxInv, Slot, N
<1>9. CASE ethernet_send_packet
  BY <1>1, <1>9, PastKeepsRing, Zenon DEF ethernet_send_packet, TxInv, DriverType
<1>10. ASSUME NEW frame \in Frames, Receive(frame) PROVE RxInv'
  BY <1>10, ReceiveKeepsRing, Zenon
<1>11. CASE Overrun \/ LinkChange \/ Transmit
  BY <1>1, <1>2, <1>11, Zenon DEF Overrun, LinkChange, Transmit, Card, rx, DriverType
<1>12. CASE UNCHANGED vars
  BY <1>2, <1>12, Zenon DEF vars, rx
<1>. QED
  BY <1>3, <1>4, <1>5, <1>7, <1>8, <1>9, <1>10, <1>11, <1>12, Zenon DEF Next, BootThread, IrqHandler

\* The descriptor before tx_cur.
LEMMA OldCur ==
  ASSUME DriverType
  PROVE  /\ old_cur \in TX /\ old_cur # tx_cur
         /\ (old_cur + 1) % E1000_NUM_TX_DESC = tx_cur
<1>1. tx_cur \in 0 .. (T - 1) /\ T \in Nat \ {0, 1} /\ TX = 0 .. (T - 1)
  BY Sizes, Zenon DEF DriverType
<1>2. CASE tx_cur = 0
  <2>1. old_cur = T - 1
    BY <1>1, <1>2 DEF old_cur, T
  <2>2. (T - 1 + 1) % T = 0
    BY <1>1
  <2>. QED
    BY <1>1, <1>2, <2>1, <2>2 DEF T
<1>3. CASE tx_cur # 0
  <2>1. (tx_cur + T - 1) % T = tx_cur - 1
    BY <1>1, <1>3
  <2>2. (tx_cur - 1 + 1) % T = tx_cur
    BY <1>1, <1>3
  <2>. QED
    BY <1>1, <1>3, <2>1, <2>2 DEF old_cur, T
<1>. QED
  BY <1>2, <1>3, Zenon

LEMMA TxStep ==
  ASSUME E1000Inv, [Next]_vars
  PROVE  TxInv'
<1>1. DriverType /\ RxInv /\ TxInv
  BY Zenon DEF E1000Inv
<1>2. ASSUME UNCHANGED <<tx_cur, tx_descs, packet, mac, handled, received, handler>>,
             card'.tdh = card.tdh, card'.tdt = card.tdt
      PROVE  TxInv'
  BY <1>1, <1>2, Zenon DEF TxInv, old_cur, Waiting
<1>3. CASE set_gate \/ dev_e1000_enable_irq \/ dev_e1000_init_rx \/ dev_e1000_init
  BY <1>1, <1>2, <1>3, Zenon DEF set_gate, dev_e1000_enable_irq, dev_e1000_init_rx,
                          dev_e1000_init, Card, rx, tx, DriverType
<1>4. CASE dev_e1000_get_mac
  BY <1>1, <1>4, Zenon DEF dev_e1000_get_mac, Step, rx, tx, DriverType, TxInv
<1>5. CASE dev_e1000_init_tx
  <2>1. handler = "idle" /\ UNCHANGED handler
    BY <1>1, <1>5, Zenon DEF dev_e1000_init_tx, Step, DriverType
  <2>2. card'.tdh = 0 /\ card'.tdt = 0 /\ tx_cur' = 0
    BY <1>1, <1>5, Zenon DEF dev_e1000_init_tx, Card, DriverType
  <2>. QED
    BY <2>1, <2>2, Zenon DEF TxInv
<1>6. CASE e1000_irq_handler \/ Return \/ dev_e1000_handle_recv
  <2>1. /\ handler # "send" /\ handler' # "send" /\ UNCHANGED tx_cur
        /\ card'.tdh = card.tdh /\ card'.tdt = card.tdt
    BY <1>1, <1>6, Zenon DEF e1000_irq_handler, Return, dev_e1000_handle_recv, Past, Card, tx, DriverType
  <2>. QED
    BY <1>1, <2>1, Zenon DEF TxInv
<1>7. CASE dev_e1000_send_data
  <2>1. tx_cur' = (tx_cur + 1) % T /\ tx_cur \in 0 .. (T - 1) /\ T \in Nat \ {0, 1} /\ TX = 0 .. (T - 1)
    BY <1>1, <1>7, Sizes, Zenon DEF dev_e1000_send_data, Send, DriverType, T
  <2>2. old_cur' = tx_cur
    <3>1. (((tx_cur + 1) % T) + (T - 1)) % T = tx_cur /\ (tx_cur + 1) % T \in 0 .. (T - 1)
      BY <2>1, AroundNext, Zenon
    <3>2. tx_cur' + T - 1 = ((tx_cur + 1) % T) + (T - 1)
      BY <2>1, <3>1, Zenon
    <3>. QED
      BY <3>1, <3>2, Zenon DEF old_cur, T
  <2>3. /\ handler = "recv" /\ handler' = "send" /\ UNCHANGED <<mac, handled, received>>
        /\ card'.tdh = tx_cur /\ card'.tdt = tx_cur'
    BY <1>1, <1>7, Zenon DEF dev_e1000_send_data, Send, Card, boot, TxInv, DriverType
  <2>4. Waiting' > 0 /\ rx_descs[rx_cur] = received[handled + 1]
    <3>1. card.on /\ 0 \in RX /\ Slot(0) = rx_cur /\ Waiting \in Nat
      <4>1. card.on /\ Slot(0) = rx_cur /\ Waiting \in Nat
        BY <1>1, <2>3, SlotFacts, WaitingNat, Zenon DEF DriverType
      <4>. QED
        BY <4>1, Sizes
    <3>2. rx_descs[rx_cur] # NULL
      BY <1>7, Zenon DEF dev_e1000_send_data
    <3>3. Waiting > 0
      BY <1>1, <3>1, <3>2 DEF RxInv, Holds
    <3>4. rx_descs[rx_cur] = received[handled + 0 + 1] /\ handled + 0 + 1 = handled + 1
      BY <1>1, <2>3, <3>1, <3>3 DEF RxInv, Holds, DriverType
    <3>. QED
      BY <2>3, <3>3, <3>4, Zenon DEF Waiting
  <2>5. /\ packet' = ethernet_packet(received[handled + 1].arp, mac)
        /\ net_handle(received[handled + 1], mac)
        /\ tx_descs'[tx_cur] = [packet |-> packet', status |-> FALSE]
    BY <1>1, <1>7, <2>4, Zenon DEF dev_e1000_send_data, Send, DriverType
  <2>. QED
    BY <2>2, <2>3, <2>4, <2>5 DEF TxInv, ethernet_packet, Rewritten, net_handle
<1>8. CASE ethernet_send_packet
  <2>1. /\ handler' = "recv" /\ UNCHANGED tx_cur /\ card.tdh = tx_cur
        /\ card'.tdh = card.tdh /\ card'.tdt = card.tdt
    BY <1>1, <1>8, Zenon DEF ethernet_send_packet, Past, Card, TxInv, DriverType
  <2>. QED
    BY <1>1, <2>1, Zenon DEF TxInv
<1>9. ASSUME NEW frame \in Frames, Receive(frame) PROVE TxInv'
  <2>1. /\ UNCHANGED <<tx_cur, tx_descs, packet, mac, handled, handler>>
        /\ card'.tdh = card.tdh /\ card'.tdt = card.tdt
    BY <1>1, <1>9, Zenon DEF Receive, Card, boot, tx, DriverType
  <2>2. /\ Waiting' = Waiting + 1 /\ Waiting \in Nat
        /\ Waiting > 0 => received'[handled + 1] = received[handled + 1]
    <3>1. Waiting > 0 => handled + 1 \in 1 .. Len(received)
      BY <1>1, WaitingNat DEF DriverType
    <3>2. Len(received') = Len(received) + 1 /\ \A k \in 1 .. Len(received) : received'[k] = received[k]
      BY <1>1, <1>9, AppendProperties DEF Receive, DriverType
    <3>. QED
      BY <1>1, <2>1, <3>1, <3>2, WaitingNat DEF Waiting, DriverType
  <2>. QED
    BY <1>1, <2>1, <2>2 DEF TxInv, old_cur, ethernet_packet, Rewritten, net_handle
<1>10. CASE Overrun \/ LinkChange
  BY <1>1, <1>2, <1>10, Zenon DEF Overrun, LinkChange, Card, boot, rx, tx, DriverType
<1>11. CASE Transmit
  <2>1. handler = "send" /\ card.tdh = old_cur /\ UNCHANGED <<mac, handled, received, handler, packet, tx_cur>>
    BY <1>1, <1>11, Zenon DEF Transmit, TxInv, boot, rx
  <2>2. card'.tdh = tx_cur /\ card'.tdt = tx_cur
    BY <1>1, <1>11, <2>1, OldCur, Zenon DEF Transmit, Card, TxInv, DriverType
  <2>3. tx_descs'[old_cur].packet = tx_descs[old_cur].packet
    BY <1>1, <1>11, <2>1, OldCur, Zenon DEF Transmit, DriverType
  <2>4. old_cur' = old_cur /\ Waiting' = Waiting
    BY <2>1, Zenon DEF old_cur, Waiting
  <2>. QED
    BY <1>1, <2>1, <2>2, <2>3, <2>4, Zenon DEF TxInv
<1>12. CASE UNCHANGED vars
  BY <1>2, <1>12, Zenon DEF vars, boot, rx, tx
<1>. QED
  BY <1>3, <1>4, <1>5, <1>6, <1>7, <1>8, <1>9, <1>10, <1>11, <1>12, Zenon DEF Next, BootThread, IrqHandler

-----------------------------------------------------------------------------
\* The state of the driver and the card: indices, descriptors and the answer under
\* way are consistent at every point of dev_e1000_init and e1000_irq_handler.
THEOREM E1000State == Spec => []E1000Inv
<1>1. E1000Inv /\ [Next]_vars => E1000Inv'
  BY TypeStep, RxStep, TxStep, Zenon DEF E1000Inv
<1>. QED
  BY <1>1, E1000Init, PTL DEF Spec

\* No frame is lost, handled twice or overwritten between the card and
\* dev_e1000_handle_recv, for rings of every size.
THEOREM E1000RingInOrder == Spec => []RingInOrder
<1>1. E1000Inv => RingInOrder
  <2>. SUFFICES ASSUME E1000Inv PROVE RingInOrder
    BY Zenon
  <2>1. TypeOK
    <3>1. handled \in 0 .. Len(received)
      BY WaitingNat DEF E1000Inv, DriverType
    <3>. QED
      BY <3>1, Zenon DEF E1000Inv, DriverType, TypeOK
  <2>. QED
    BY <2>1, Zenon DEF E1000Inv, RxInv, Holds, Slot, N, RingInOrder
<1>. QED
  BY <1>1, E1000State, PTL

\* What the card sends is the answer to the frame being handled, not yet freed, and
\* goes to that frame's sender (dev_e1000_send_data, arp_handle).
THEOREM E1000AnswersItsSender == Spec => AnswersItsSender
<1>1. ASSUME E1000Inv, [Next]_vars, card'.tdh # card.tdh, pc' = pc
      PROVE  LET frame == received[handled + 1] IN
             /\ packet # NULL /\ packet = tx_descs[card.tdh].packet
             /\ packet.dst = frame.arp.sha /\ packet.arp.tha = frame.arp.sha
             /\ packet.arp.tpa = frame.arp.spa /\ packet.arp.sha = mac
             /\ frame.dst \in {mac, Broadcast}
  <2>1. DriverType /\ TxInv
    BY <1>1, Zenon DEF E1000Inv
  <2>2. Transmit
    <3>1. card \in CardType
      BY <2>1, Zenon DEF DriverType, CardType
    <3>. QED
      BY <1>1, <3>1, Zenon DEF Next, BootThread, IrqHandler, set_gate, dev_e1000_get_mac, dev_e1000_enable_irq,
         dev_e1000_init_rx, dev_e1000_init_tx, dev_e1000_init, e1000_irq_handler, dev_e1000_handle_recv,
         Past, dev_e1000_send_data, Send, ethernet_send_packet, Return, Receive, Overrun, LinkChange,
         Card, Step, vars, CardType
  <2>3. handler = "send" /\ card.tdh = old_cur
    BY <2>1, <2>2, Zenon DEF Transmit, TxInv
  <2>4. received[handled + 1] \in Frames
    <3>1. handled + 1 \in 1 .. Len(received)
      BY <2>1, <2>3, WaitingNat DEF TxInv, DriverType
    <3>. QED
      BY <2>1, <3>1, ElementOfSeq, Zenon DEF DriverType
  <2>5. packet # NULL
    BY <2>1, <2>3, <2>4, E1000Assumption, Zenon DEF TxInv, DriverType
  <2>6. /\ packet = ethernet_packet(received[handled + 1].arp, mac)
        /\ packet = tx_descs[card.tdh].packet
        /\ net_handle(received[handled + 1], mac)
    BY <2>1, <2>3, Zenon DEF TxInv
  <2>8. /\ packet.dst = received[handled + 1].arp.sha
        /\ packet.arp.tha = received[handled + 1].arp.sha
        /\ packet.arp.tpa = received[handled + 1].arp.spa
        /\ packet.arp.sha = mac
    BY <2>6 DEF ethernet_packet, Rewritten
  <2>9. received[handled + 1].dst \in {mac, Broadcast}
    BY <2>6, Zenon DEF net_handle
  <2>. QED
    BY <2>5, <2>6, <2>8, <2>9
<1>2. E1000Inv /\ [Next]_vars =>
        [card'.tdh # card.tdh /\ pc' = pc =>
           LET frame == received[handled + 1] IN
           /\ packet # NULL /\ packet = tx_descs[card.tdh].packet
           /\ packet.dst = frame.arp.sha /\ packet.arp.tha = frame.arp.sha
           /\ packet.arp.tpa = frame.arp.spa /\ packet.arp.sha = mac
           /\ frame.dst \in {mac, Broadcast}]_vars
  BY <1>1, Zenon
<1>. QED
  BY <1>2, E1000State, PTL DEF Spec, AnswersItsSender
=============================================================================
