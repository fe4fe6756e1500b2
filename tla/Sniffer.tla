------------------------------- MODULE Sniffer -------------------------------
(***************************************************************************)
(* pcap/sniff2.c (sniff.c is the same program): pcap_loop calls            *)
(* process_packet for every captured frame.  It takes byte 23 of the frame *)
(* for the IP protocol, counts the frame, and for TCP, UDP and ICMP writes *)
(* the headers' fields and three hex dumps to log.txt.                     *)
(*                                                                         *)
(* A frame is what decides the layout: its length, and the values the code *)
(* takes for IP header length, protocol and TCP header length, whatever    *)
(* the bytes at these places mean in a frame that is not IPv4.  A byte is  *)
(* named by its offset; its value, and the wording of the log, are left    *)
(* out.                                                                    *)
(***************************************************************************)
EXTENDS Integers, SequencesExt

CONSTANTS Frames,        \* the frames that may be captured
          SnapLen,       \* 65536, scaled: bytes of a frame pcap keeps
          MaxFrames      \* bound: frames captured

ethhdr == 14             \* sizeof(struct ethhdr); an IP header has at least 20
Columns == 16            \* bytes in a line of a dump

Frame == [kind : {"first", "fragment", "foreign"},  \* an IPv4 packet or first
                                     \* fragment, a later fragment, no IPv4
          len : Nat, ihl : 0..15, protocol : 0..255, doff : 0..15]

ASSUME SnifferAssumption == /\ Frames \subseteq Frame /\ SnapLen \in Nat
                            /\ MaxFrames \in Nat

VARIABLES count,         \* tcp, udp, icmp, igmp, others
          total,
          logfile,       \* "open", or "null" if fopen failed
          log,           \* one entry for each packet that was logged
          running,       \* FALSE once fprintf got the null logfile
          seen           \* history: the frames captured

vars == <<count, total, logfile, log, running, seen>>

Counters == {"tcp", "udp", "icmp", "igmp", "others"}

Init == /\ count = [k \in Counters |-> 0] /\ total = 0
        /\ logfile \in {"open", "null"} /\ log = <<>>
        /\ running = TRUE /\ seen = <<>>

-----------------------------------------------------------------------------
(* PrintData: the loop body for i prints the text of the line that is full *)
(* before it, then byte i in hex, then, at the last byte, spaces and text. *)
Hex(at) == <<"hex", at>>
Text(from, to) == [k \in 1..to - from |-> <<"text", from + k - 1>>]
NewLine == <<"\n">>
Spaces(n) == [k \in 1..n |-> <<"   ">>]

PrintByte_Ahead(from, Size, i) ==    \* mutant: the line's text a byte early
  IF i % Columns = Columns - 1 \/ i = Size - 1
  THEN Text(from + i - (i % Columns), from + i) \o <<Hex(from + i), NewLine>>
  ELSE <<Hex(from + i)>>
PrintByte(from, Size, i) ==
  (IF i # 0 /\ i % Columns = 0 THEN Append(Text(from + i - Columns, from + i), NewLine)
                               ELSE <<>>)
  \o <<Hex(from + i)>>
  \o (IF i = Size - 1
      THEN Spaces(Columns - 1 - (i % Columns))
             \o Append(Text(from + i - (i % Columns), from + i + 1), NewLine)
      ELSE <<>>)
PrintData(from, Size) == FlattenSeq([i \in 1..Size |-> PrintByte(from, Size, i - 1)])

\* The fields of a header of n bytes, read at an offset.
Fields(title, at, n) == [title |-> title, bytes |-> at..at + n - 1]
print_ethernet_header == <<Fields("Ethernet", 0, ethhdr)>>
print_ip_header == Append(print_ethernet_header, Fields("IP", ethhdr, 20))

Entry(title, f, fields, dumps) ==
  [title |-> title, frame |-> f, fields |-> Append(print_ip_header, fields), dumps |-> dumps]

iphdrlen(f) == 4 * f.ihl
print_tcp_packet_NoEther(f) ==       \* mutant: Ethernet header not counted
  LET header_size == iphdrlen(f) + 4 * f.doff IN
  Entry("TCP", f, Fields("TCP", ethhdr + iphdrlen(f), 20),
        <<PrintData(0, iphdrlen(f)), PrintData(iphdrlen(f), 4 * f.doff),
          PrintData(header_size, f.len - header_size)>>)
print_tcp_packet(f) ==
  LET header_size == ethhdr + iphdrlen(f) + 4 * f.doff IN
  Entry("TCP", f, Fields("TCP", ethhdr + iphdrlen(f), 20),
        <<PrintData(0, iphdrlen(f)), PrintData(iphdrlen(f), 4 * f.doff),
          PrintData(header_size, f.len - header_size)>>)

\* sizeof of a pointer to the header: 8, as the header itself has.
print_udp_packet(f) ==
  LET header_size == ethhdr + iphdrlen(f) + 8 IN
  Entry("UDP", f, Fields("UDP", ethhdr + iphdrlen(f), 8),
        <<PrintData(0, iphdrlen(f)), PrintData(iphdrlen(f), 8),
          PrintData(header_size, f.len - header_size)>>)
print_icmp_packet_Whole(f) ==        \* mutant: the size is not reduced
  LET header_size == ethhdr + iphdrlen(f) + 8 IN
  Entry("ICMP", f, Fields("ICMP", ethhdr + iphdrlen(f), 4),
        <<PrintData(0, iphdrlen(f)), PrintData(iphdrlen(f), 8),
          PrintData(header_size, f.len)>>)
print_icmp_packet(f) ==
  LET header_size == ethhdr + iphdrlen(f) + 8 IN
  Entry("ICMP", f, Fields("ICMP", ethhdr + iphdrlen(f), 4),
        <<PrintData(0, iphdrlen(f)), PrintData(iphdrlen(f), 8),
          PrintData(header_size, f.len - header_size)>>)

-----------------------------------------------------------------------------
\* The switch: one counter goes up, and some packets are logged.
Counter(f) == CASE f.protocol = 1 -> "icmp" [] f.protocol = 2 -> "igmp"
                [] f.protocol = 6 -> "tcp" [] f.protocol = 17 -> "udp"
                [] OTHER -> "others"
Logged == {"tcp", "udp", "icmp"}
Printed(f) == CASE f.protocol = 6 -> print_tcp_packet(f)
                [] f.protocol = 17 -> print_udp_packet(f)
                [] f.protocol = 1 -> print_icmp_packet(f)

process_packet(f) ==
  /\ running /\ Len(seen) < MaxFrames
  /\ total' = total + 1
  /\ count' = [count EXCEPT ![Counter(f)] = @ + 1]
  /\ \/ /\ Counter(f) \in Logged /\ logfile = "open"
        /\ log' = Append(log, Printed(f))
        /\ UNCHANGED running
     \/ /\ Counter(f) \in Logged /\ logfile = "null"
        /\ running' = FALSE
        /\ UNCHANGED log
     \/ /\ Counter(f) \notin Logged
        /\ UNCHANGED <<log, running>>
  /\ seen' = Append(seen, f)
  /\ UNCHANGED logfile

Next == \E f \in Frames : process_packet(f)

Spec == Init /\ [][Next]_vars

-----------------------------------------------------------------------------
\* The transport header an entry is about, where its fields are read.
Transport(e) == [at |-> ethhdr + iphdrlen(e.frame),
                 len |-> IF e.title = "TCP" THEN 4 * e.frame.doff ELSE 8]
Payload(e) == Transport(e).at + Transport(e).len
WellFormed(e) == /\ e.frame.kind = "first" /\ e.frame.ihl >= 5
                 /\ e.title = "TCP" => e.frame.doff >= 5
                 /\ Payload(e) <= e.frame.len

From(a, b) == [k \in 1..b - a |-> a + k - 1]

\* The bytes a dump shows in hex, in order.
HexBytes(d) ==
  LET bytes[n \in 0..Len(d)] ==
        IF n = 0 THEN <<>> ELSE
        IF d[n][1] = "hex" THEN Append(bytes[n - 1], d[n][2]) ELSE bytes[n - 1]
  IN bytes[Len(d)]
HexShown(e) == FlattenSeq([k \in DOMAIN e.dumps |-> HexBytes(e.dumps[k])])

(* Fields and dumps of a packet do not agree on where its headers are: the *)
(* fields are read behind the Ethernet header, the dumps start with it.    *)
(* Still the dumps of a well-formed packet show every byte once and in     *)
(* order, but for the 14 that come just before the payload (sniff2.c       *)
(* 171-173, 202-208; the same for UDP and ICMP).                           *)
DumpsSkipFourteen ==
  \A n \in DOMAIN log : WellFormed(log[n]) =>
    HexShown(log[n]) =
      From(0, Payload(log[n]) - ethhdr) \o From(Payload(log[n]), log[n].frame.len)

(* The lines of a dump: up to each line end there are, from some byte on,  *)
(* bytes in hex, spaces for those that lack up to 16, which only the last  *)
(* line may have, and the same bytes as text (sniff2.c 299-344).           *)
Ends(d) == {0} \cup {i \in DOMAIN d : d[i] = NewLine}
Neighbours(a, b, S) == a < b /\ \A e \in S : e <= a \/ e >= b
Line(d, a, b) ==
  LET first == d[a + 1][2]
      shown == b - a - 1 - Columns
  IN /\ shown \in 1..Columns
     /\ shown = Columns \/ b = Len(d)
     /\ \A i \in 1..b - a - 1 :
          d[a + i] = IF i <= shown THEN <<"hex", first + i - 1>>
                     ELSE IF i <= Columns THEN <<"   ">>
                     ELSE <<"text", first + i - 1 - Columns>>
LinesAgree ==
  \A n \in DOMAIN log : \A k \in DOMAIN log[n].dumps :
    LET d == log[n].dumps[k] IN
    /\ Len(d) \in Ends(d)
    /\ \A a, b \in Ends(d) : Neighbours(a, b, Ends(d)) => Line(d, a, b)

(* No byte beyond the captured ones is read, if the packet is well formed  *)
(* and pcap has kept all of it.  Of a later fragment or a frame that is no *)
(* IPv4 the code takes arbitrary bytes for lengths, and len is the length  *)
(* on the wire, not what was captured (sniff2.c 88, 93, 171, 208).         *)
Read(d) == {d[i][2] : i \in {j \in DOMAIN d : d[j][1] \in {"hex", "text"}}}
Touched(e) == UNION ({e.fields[k].bytes : k \in DOMAIN e.fields}
                       \cup {Read(d) : d \in ToSet(e.dumps)})
Least(a, b) == IF a <= b THEN a ELSE b
WithinCapture ==
  \A n \in DOMAIN log :
    \/ Touched(log[n]) \subseteq 0..Least(log[n].frame.len, SnapLen) - 1
    \/ ~WellFormed(log[n])
    \/ log[n].frame.len > SnapLen

=============================================================================
