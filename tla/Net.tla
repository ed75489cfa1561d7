---------------------------------- MODULE Net ----------------------------------
(***************************************************************************)
(* Frames and what the kernel makes of them: net/net.c, net/arp/arp.c,     *)
(* net/ipv4/ipv4.c and ethernet_send_packet.  A 16-bit field holds what a  *)
(* load from the frame gives, in the byte order of the wire.  Hardware     *)
(* addresses are names, and so are protocol addresses.                     *)
(***************************************************************************)
EXTENDS Integers

CONSTANTS
  Mac,         \* the address of the card
  Broadcast,   \* broadcast_mac
  OurIp        \* 192.168.1.100

ARP_REQUEST == 1
ARP_REPLY == 2
ETHERNET_HW_TYPE == 1
ETHERNET_PROTOCOL_IPV4 == 2048
TYPE_ARP == 2054

swap16(x) == x \div 256 + 256 * (x % 256)
ntohs(x) == swap16(x)
htons(x) == swap16(x)

\* The arp_packet_t that arp_handle makes of the one received, in place.
Rewritten(arp, mac) ==
  [hardware_type |-> htons(ETHERNET_HW_TYPE), protocol |-> htons(ETHERNET_PROTOCOL_IPV4),
   opcode |-> htons(ARP_REPLY), sha |-> mac, spa |-> OurIp, tha |-> arp.sha, tpa |-> arp.spa]

\* What ethernet_send_packet is given: the answer goes to the sender named in the
\* ARP packet.
ethernet_packet(arp, mac) ==
  [dst |-> arp.sha, src |-> mac, type |-> htons(TYPE_ARP), arp |-> Rewritten(arp, mac)]

\* arp_handle answers any packet for Ethernet: it compares ARP_REQUEST with the
\* hardware type.  The other branch, and ipv4_handle, only log.
Answered(arp) ==
  ntohs(arp.protocol) = ETHERNET_PROTOCOL_IPV4 /\ ntohs(arp.hardware_type) = ARP_REQUEST

\* net_handle sends an answer to this frame.
net_handle(frame, mac) ==
  frame.dst \in {mac, Broadcast} /\ ntohs(frame.type) = TYPE_ARP /\ Answered(frame.arp)
=============================================================================
