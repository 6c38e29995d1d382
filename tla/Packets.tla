------------------------------- MODULE Packets -------------------------------
(* One hop's work on a packet (src/l3/packet.rs, src/l3/path.rs, wire.rs     *)
(* checksum): spending a hop with the incremental header checksum, clamping  *)
(* the MSS of a SYN, the ICMP errors this hop answers with, and the UDP      *)
(* packets it writes. An octet has Octet values, so a word has Octet^2; a    *)
(* header is the words its checksum covers, all but hops and check in one.   *)
EXTENDS Integers, Sequences, FiniteSets, FiniteSetsExt, SequencesExt

CONSTANTS
  Octet,       \* values of an octet, 256 in the code
  Hops,        \* hop counts packets arrive with
  HeaderWords, \* the rest of a header, summed
  OptionBytes, \* octets that occur among TCP options
  MaxOptions,  \* bound: octets of TCP options
  ClampFor,    \* the MSS the inner MTU leaves: [v4, v6]
  InnerMtu,    \* bytes a packet may have inside the tunnel
  Sizes,       \* bytes of packets
  MaxErrorSize,\* MAX_ICMPV4_ERROR, MAX_ICMPV6_ERROR
  ErrorHeader, \* bytes of an error's own headers
  SliceSize,   \* bytes of a pool slice
  Payloads     \* octets of the UDP payloads written

VARIABLES
  packet,  \* as it came
  outcome, \* "none", "forwarded", "exhausted", "too big", "quarantined", "written", "failed"
  sent,    \* the packet sent on
  notice     \* the ICMP error to the sender: bytes quoted, or none

packetVars == <<packet, outcome, sent, notice>>

(* Checksums. *)
Ones == Octet * Octet - 1
Word(octets, i) == octets[i] * Octet + (IF i < Len(octets) THEN octets[i + 1] ELSE 0)
WordSum(octets) ==
  LET s[i \in 0..((Len(octets) + 1) \div 2)] == IF i = 0 THEN 0 ELSE s[i - 1] + Word(octets, 2 * i - 1)
  IN s[(Len(octets) + 1) \div 2]
Folded(sum) ==
  LET f[n \in 0..sum] == IF n <= Ones THEN n ELSE f[(n % (Ones + 1)) + (n \div (Ones + 1))] IN f[sum]
Checksum(octets) == Ones - Folded(WordSum(octets))
Verifies(octets) == Folded(WordSum(octets)) = Ones

Octets(word) == <<word \div Octet, word % Octet>>
HeaderOf(p) == Octets(p.words) \o <<p.hops, 1>> \o Octets(p.check)
SegmentOf(p) == Octets(p.words) \o Octets(p.sum) \o p.rest

(* Classes of ICMP messages. *)
Icmpv4Class(type) == IF type \in {3, 4, 5, 11, 12} THEN "error" ELSE "informational"
Icmpv6Class(type) == IF type < 128 THEN "error" ELSE "informational"
Parse(p) ==
  IF p.fragment THEN "fragment"
  ELSE IF p.protocol # "icmp" THEN p.protocol
  ELSE IF p.version = 4 THEN Icmpv4Class(p.type) ELSE Icmpv6Class(p.type)

(* The packets that arrive. A header with any check, right or wrong; TCP     *)
(* options of any shape, behind a data offset that may lie.                  *)
Plain == [version |-> 4, hops |-> 3, words |-> 9, check |-> 0, protocol |-> "tcp", type |-> 0,
          fragment |-> FALSE, from |-> "tunnel", size |-> 1, whole |-> TRUE, syn |-> TRUE,
          offset |-> 0, rest |-> <<>>, sum |-> 5]
Options == UNION {[1..n -> OptionBytes] : n \in 0..MaxOptions}

Headers == {[Plain EXCEPT !.version = v, !.hops = h, !.words = w, !.check = c] :
              v \in {4, 6}, h \in Hops, w \in HeaderWords, c \in 0..Ones}
Segments == {[Plain EXCEPT !.version = v, !.rest = r, !.offset = Len(r)] : v \in {4, 6}, r \in Options}
              \cup {[Plain EXCEPT !.rest = <<2, 4, 3, 7>>, !.offset = o, !.syn = s, !.whole = w,
                                  !.protocol = p] :
                      o \in {-1, 2, 3, 4, 5}, s \in BOOLEAN, w \in BOOLEAN, p \in {"tcp", "udp"}}
Sized == {[Plain EXCEPT !.version = v, !.hops = h, !.size = n, !.from = f, !.protocol = "icmp", !.type = t,
                           !.fragment = g] :
            g \in BOOLEAN, v \in {4, 6}, h \in {1, 2}, n \in Sizes, f \in {"tunnel", "egress"},
            t \in {0, 3, 4, 8, 11, 12, 127, 128}}
Written == {[Plain EXCEPT !.version = v, !.protocol = "write", !.words = w, !.rest = r, !.size = n] :
              v \in {4, 6}, w \in HeaderWords, r \in Payloads, n \in Sizes}

NoNotice == -1
PacketInit ==
  /\ packet \in Headers \cup Segments \cup Sized \cup Written
  /\ outcome = "none" /\ sent = packet /\ notice = NoNotice

(* spend_hop: the word that holds the hops falls by Octet, so its complement *)
(* rises by as much, the carry brought around.                               *)
SpendHopUncarried(p) ==
  LET left == IF p.hops = 0 THEN 0 ELSE p.hops - 1 IN
  IF left = 0 THEN p
  ELSE IF p.version = 6 THEN [p EXCEPT !.hops = left]
  ELSE [p EXCEPT !.hops = left, !.check = (@ + Octet) % (Ones + 1)]

SpendHop(p) ==
  LET left == IF p.hops = 0 THEN 0 ELSE p.hops - 1
      raised == p.check + Octet
  IN IF left = 0 THEN p
     ELSE IF p.version = 6 THEN [p EXCEPT !.hops = left]
     ELSE [p EXCEPT !.hops = left, !.check = (raised % (Ones + 1)) + (raised \div (Ones + 1))]
Exhausted(p) == p.hops <= 1

(* clamp_mss. *)
OptionEnd == 0
OptionNoop == 1
OptionMss == 2

\* The option bytes the data offset declares; a false offset declares none.
Declared(p) == IF p.offset \in 0..Len(p.rest) THEN SubSeq(p.rest, 1, p.offset) ELSE <<>>

\* Where the value of the first MSS option starts and how long it is, if there is one.
TcpOptions(options) ==
  LET n == Len(options)
      none == [at |-> 0, width |-> 0]
      from[i \in 1..(n + 1)] ==
        IF i > n THEN none
        ELSE IF options[i] = OptionEnd THEN none
        ELSE IF options[i] = OptionNoop THEN from[i + 1]
        ELSE IF i = n THEN none
        ELSE IF options[i + 1] < 2 \/ i + options[i + 1] - 1 > n THEN none
        ELSE IF options[i] = OptionMss THEN [at |-> i + 2, width |-> options[i + 1] - 2]
        ELSE from[i + options[i + 1]]
  IN from[1]

MssAbove(p, clamp) ==
  LET mss == TcpOptions(Declared(p)) IN
  IF p.syn /\ mss.width >= 2 THEN IF Word(p.rest, mss.at) > clamp THEN mss.at ELSE 0 ELSE 0

Clamp(p) ==
  LET clamp == IF p.version = 4 THEN ClampFor.v4 ELSE ClampFor.v6
      at == MssAbove(p, clamp)
      clamped == [p EXCEPT !.rest = [@ EXCEPT ![at] = clamp \div Octet, ![at + 1] = clamp % Octet],
                           !.sum = 0]
  IN IF ~p.whole \/ p.protocol # "tcp" THEN p
     ELSE IF at = 0 THEN p
     ELSE [clamped EXCEPT !.sum = Checksum(SegmentOf(clamped))]

(* The errors answered with: a quote, cut so that the error keeps its limit. *)
Quote(p) == Min({p.size, MaxErrorSize - ErrorHeader})
WriteIcmpError(p) == IF ErrorHeader + Quote(p) <= SliceSize THEN Quote(p) ELSE NoNotice
QuotingAllowed(p) == p.from = "tunnel" /\ Parse(p) # "error"

ReportTooBig ==
  /\ outcome = "none" /\ Parse(packet) \notin {"write", "fragment"}
  /\ QuotingAllowed(packet) /\ packet.size > InnerMtu
  /\ outcome' = "too big" /\ notice' = WriteIcmpError(packet)
  /\ UNCHANGED <<packet, sent>>

\* A fragment is quarantined, and comes back as the datagram it completes.
Quarantine ==
  /\ outcome = "none" /\ Parse(packet) = "fragment" /\ outcome' = "quarantined"
  /\ UNCHANGED <<packet, sent, notice>>

\* forward; the hop count is looked at before the packet is clamped.
Hop ==
  /\ outcome = "none" /\ Parse(packet) \notin {"write", "fragment"}
  /\ ~(QuotingAllowed(packet) /\ packet.size > InnerMtu)
  /\ IF Exhausted(packet)
     THEN /\ outcome' = "exhausted" /\ UNCHANGED sent
          /\ notice' = IF QuotingAllowed(packet) THEN WriteIcmpError(packet) ELSE NoNotice
     ELSE /\ outcome' = "forwarded" /\ sent' = Clamp(SpendHop(packet)) /\ UNCHANGED notice
  /\ UNCHANGED packet

\* write_udp: both checksums in full, and a zero sum sent as all ones.
Transmitted(sum) == IF sum = 0 THEN Ones ELSE sum
WriteUdp ==
  /\ outcome = "none" /\ packet.protocol = "write"
  /\ LET headed == IF packet.version = 6 THEN packet
                   ELSE [packet EXCEPT !.check = Checksum(HeaderOf([packet EXCEPT !.check = 0]))]
         summed == [headed EXCEPT !.sum = Transmitted(Checksum(SegmentOf([headed EXCEPT !.sum = 0])))]
     IN IF packet.size > SliceSize THEN outcome' = "failed" /\ UNCHANGED sent
        ELSE outcome' = "written" /\ sent' = summed
  /\ UNCHANGED <<packet, notice>>

PacketNext == Quarantine \/ ReportTooBig \/ Hop \/ WriteUdp

PacketSpec == PacketInit /\ [][PacketNext]_packetVars

(* A place where an option starts, by any way of cutting the bytes before it *)
(* into padding and whole options.                                           *)
NextCut(options, c) == IF options[c] = OptionNoop THEN c + 1 ELSE c + options[c + 1]
StartsAt(options, k) ==
  \E cuts \in SUBSET (1..k) :
    /\ {1, k} \subseteq cuts
    /\ \A c \in cuts \ {k} :
         /\ options[c] \notin {OptionEnd, OptionMss}
         /\ options[c] # OptionNoop => options[c + 1] >= 2
         /\ Min({d \in cuts : d > c}) = NextCut(options, c)
Advertised(p, k) ==
  LET options == Declared(p) IN
  /\ k + 3 <= Len(options) /\ StartsAt(options, k) /\ options[k] = OptionMss
  /\ options[k + 1] >= 4 /\ k + options[k + 1] - 1 <= Len(options)

(* A packet sent on has one hop less and a header checksum that is right if  *)
(* it was; a SYN with a well-formed MSS above the clamp leaves with exactly  *)
(* the clamp and a right checksum, and every other segment leaves as it      *)
(* came. What is written here carries a checksum, and both are right. No     *)
(* error answers an error or goes out to the egress, and none outgrows its   *)
(* limit.                                                                    *)
HopKeepsPackets ==
  /\ outcome = "forwarded" =>
       LET clamp == IF packet.version = 4 THEN ClampFor.v4 ELSE ClampFor.v6
           above == {k \in 1..Len(packet.rest) : Advertised(packet, k) /\ Word(packet.rest, k + 2) > clamp}
       IN /\ sent.hops = packet.hops - 1 /\ sent.hops > 0
          /\ packet.version = 4 /\ Verifies(HeaderOf(packet)) => Verifies(HeaderOf(sent))
          /\ packet.syn /\ packet.whole /\ packet.protocol = "tcp" /\ above # {} =>
               LET at == Min(above) + 2 IN
               /\ Word(sent.rest, at) = clamp /\ Verifies(SegmentOf(sent))
               /\ \A i \in 1..Len(packet.rest) : i \notin {at, at + 1} => sent.rest[i] = packet.rest[i]
          /\ ~packet.syn \/ ~packet.whole \/ packet.protocol # "tcp" \/ above = {} =>
               sent.rest = packet.rest /\ sent.sum = packet.sum
  /\ outcome = "written" =>
       /\ Verifies(SegmentOf(sent)) /\ sent.sum # 0 /\ sent.rest = packet.rest
       /\ packet.version = 4 => Verifies(HeaderOf(sent))
  /\ notice # NoNotice =>
       /\ packet.from = "tunnel" /\ ~packet.fragment
       /\ packet.protocol = "icmp" => packet.type \in (IF packet.version = 4 THEN {0, 8, 127, 128} ELSE {128})
       /\ notice <= packet.size /\ ErrorHeader + notice <= MaxErrorSize
=============================================================================
