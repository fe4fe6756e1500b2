------------------------------ MODULE MCSniffer ------------------------------
(* Small instances of Sniffer for TLC. *)
EXTENDS Sniffer

IPv4(protocol, len, ihl, doff) ==
  [kind |-> "first", len |-> len, ihl |-> ihl, protocol |-> protocol, doff |-> doff]
Fragment(protocol, len, doff) ==
  [kind |-> "fragment", len |-> len, ihl |-> 5, protocol |-> protocol, doff |-> doff]
\* Byte 14 of an ARP or IPv6 frame, the version's, has 0 for ihl; byte 23 is
\* the second of a MAC address, or of an IPv6 source address.
Foreign(protocol, len, doff) ==
  [kind |-> "foreign", len |-> len, ihl |-> 0, protocol |-> protocol, doff |-> doff]

MCFrames ==
  {IPv4(17, 42 + n, 5, 0) : n \in 0..33} \cup {IPv4(6, 74 + n, 6, 9) : n \in {0, 3}}
  \cup {IPv4(6, 54, 5, 5), IPv4(1, 60, 5, 0), IPv4(1, 46, 6, 0), IPv4(2, 46, 6, 0),
         Fragment(6, 42, 15), Fragment(17, 60, 0),
         Foreign(6, 42, 15), Foreign(1, 86, 0), Foreign(0, 42, 0)}
=============================================================================
