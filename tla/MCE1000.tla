-------------------------------- MODULE MCE1000 --------------------------------
(***************************************************************************)
(* Frames for E1000: a request to all and one to another station, a reply  *)
(* to this card, and an IPv4 packet.                                       *)
(***************************************************************************)
EXTENDS E1000

Arp(op, from) ==
  [hardware_type |-> htons(ETHERNET_HW_TYPE), protocol |-> htons(ETHERNET_PROTOCOL_IPV4),
   opcode |-> htons(op), sha |-> from, spa |-> from, tha |-> NULL, tpa |-> OurIp]

MCFrames ==
  {[dst |-> Broadcast, src |-> "h1", type |-> htons(TYPE_ARP), arp |-> Arp(ARP_REQUEST, "h1")],
   [dst |-> "h2", src |-> "h1", type |-> htons(TYPE_ARP), arp |-> Arp(ARP_REQUEST, "h1")],
   [dst |-> Mac, src |-> "h2", type |-> htons(TYPE_ARP), arp |-> Arp(ARP_REPLY, "h2")],
   [dst |-> Mac, src |-> "h1", type |-> htons(ETHERNET_PROTOCOL_IPV4),
    arp |-> Arp(ARP_REQUEST, "h1")]}
=============================================================================
