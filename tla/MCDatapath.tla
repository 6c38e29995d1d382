----------------------------- MODULE MCDatapath -----------------------------
(* Small packets, paths and keys for the datapath, in two instances side by *)
(* side: a behaviour has every kind of packet on every path with room for   *)
(* one flow, or the datagrams of two flows on three paths.                  *)
EXTENDS Datapath

CONSTANTS c1, c2, a1, a2, Parts

VARIABLE part

mcVars == <<part, vars>>

Plain(transport, c, a) ==
  [transport |-> transport, client |-> c, dest |-> a, syn |-> FALSE, big |-> FALSE,
   lastHop |-> FALSE, own |-> FALSE, inspectable |-> TRUE, owned |-> FALSE]

\* Every transport and every flag that changes what dispatch does.
AllKinds ==
  LET tcp == Plain("Tcp", c1, a1) udp == Plain("Udp", c1, a1)
  IN  {[tcp EXCEPT !.syn = TRUE], tcp, [tcp EXCEPT !.own = TRUE],
       [tcp EXCEPT !.lastHop = TRUE], [tcp EXCEPT !.owned = TRUE], udp,
       [udp EXCEPT !.big = TRUE], [udp EXCEPT !.owned = TRUE]}
      \union {Plain(t, c1, a1) : t \in {"Dns", "Quic", "Icmp", "IcmpError", "Fragment", "Other"}}

Segments == {Plain("Tcp", c1, a1), [Plain("Tcp", c1, a1) EXCEPT !.syn = TRUE]}

Datagrams == {Plain("Udp", c, a1) : c \in {c1, c2}}

Egress(fidelity, overhead, max) ==
  [fidelity |-> fidelity, overhead |-> overhead, maxDatagram |-> max]

\* Path MTU 6, with 4 for IPv6 and 3 for QUIC.
PacketPath == [accepts |-> "IpPackets", egress |-> Egress("Native", 1, Undeclared)]
NarrowPath == [accepts |-> "IpPackets", egress |-> Egress("Native", 2, Undeclared)]
BrokenPath == [accepts |-> "IpPackets", egress |-> Egress("Native", 3, Undeclared)]
OverPath == [accepts |-> "IpPackets", egress |-> Egress("Native", 7, Undeclared)]
FlowPath == [accepts |-> "Flows", egress |-> Egress("Native", 1, 3)]
SmallFlowPath == [accepts |-> "Flows", egress |-> Egress("Native", 1, 2)]
EmulatedPath == [accepts |-> "Flows", egress |-> Egress("Emulated", 1, 3)]

AllPaths == {PacketPath, NarrowPath, BrokenPath, OverPath, FlowPath, SmallFlowPath, EmulatedPath}
OnlyPacketPath == {PacketPath}
FlowPaths == {FlowPath, EmulatedPath, PacketPath}

Queues == INSTANCE Datapath WITH
            Clients <- {c1, c2}, Addresses <- {a1}, Packets <- Datagrams, Paths <- FlowPaths,
            FlowBuffer <- 2, MaxFlows <- 2, PoolSlices <- 3, MaxReady <- 4

MCInit == part \in Parts /\ (IF part = "kinds" THEN Init ELSE Queues!Init)

MCNext ==
  /\ UNCHANGED part
  /\ \/ part = "kinds" /\ Next
     \/ part = "queues" /\ Queues!Next

\* The reactor drains datagrams on every turn of its loop.
MCSpec ==
  /\ MCInit /\ [][MCNext]_mcVars
  /\ WF_vars(part = "queues" /\ Queues!PollDatagram)

\* poll_datagram's round robin starves no flow: one with queued datagrams gets
\* its turn, however many datagrams the others receive, or it expires.
FlowsServed == part = "queues" => Queues!EveryFlowServed
=============================================================================
