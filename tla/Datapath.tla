------------------------------ MODULE Datapath -------------------------------
(***************************************************************************)
(* The sans-IO datapath of src/datapath.rs: dispatch of packets from the   *)
(* tunnel and from the egress, the per-flow datagram queues and their      *)
(* round robin, the shared pool budget, inspected addresses, and the       *)
(* re-planning of live flows when the egress path changes.                 *)
(*                                                                         *)
(* Time is nondeterministic here: a flow may go idle and an inspection     *)
(* window may lapse at any step, and FlowTable has the deadlines of flows. *)
(* Reassembly is one of its outcomes; the module Reassembly has the        *)
(* details.  Events are counters and left out.                             *)
(***************************************************************************)
EXTENDS Integers, Sequences, FiniteSets, FiniteSetsExt, Functions

CONSTANTS MinIpv6Mtu,     \* MIN_IPV6_MTU, 1280 in the code
          MinQuicMtu,     \* MIN_QUIC_MTU, 1200 in the code
          Clients,        \* source endpoints
          Addresses,      \* destination addresses
          Packets,        \* the packets that arrive
          Filter, Dns,    \* the session's policies
          Paths,          \* [accepts, egress] the egress may report
          PathMtu,
          FlowBuffer,     \* datagram_buffer_capacity
          MaxFlows,       \* max_flows
          PoolSlices,     \* buffers of the shared pool
          MaxInspected,   \* max_inspected_addresses
          IcmpBurst,      \* ICMP_ERRORS_PER_SECOND, 100 in the code
          MayExpire,      \* whether idle flows expire
          MaxReady        \* bound: entries of the ready list

ASSUME PlannerAssumption ==
  MinIpv6Mtu \in Nat /\ MinQuicMtu \in Nat /\ MinQuicMtu <= MinIpv6Mtu

-----------------------------------------------------------------------------
(* Flow planning, src/lib.rs: how a packet is admitted, which transport    *)
(* path and QUIC policy a flow gets, and what a change of the egress path  *)
(* does to a live flow.  Sizes keep the code's order and thresholds; MTUs  *)
(* are u16, so the only arithmetic is the checked subtraction of the       *)
(* overhead.                                                               *)

Filters == {"PassThrough", "InspectHttp"}
Inspections == {"Candidate", "Excluded"}
Layers == {"IpPackets", "Flows"}
DnsPolicies == {"Intercept", "Forward"}
Fidelities == {"None", "Emulated", "Native"}
Undeclared == -1  \* max_datagram_size: None

Transports == {"Tcp", "Udp", "Dns", "Quic", "Icmp", "IcmpError", "Fragment", "Other"}

PathProperties == [fidelity : Fidelities, overhead : Nat, maxDatagram : Nat \union {Undeclared}]

Steerings == {"PassThrough", "InspectionRequired", "DatagramFidelity", "MtuBelowMinimum"}

\* A plan's transport is the inner MTU of the packet path, or Terminated.
Terminated == -1
FlowPlan == [transport : Nat \union {Terminated}, quic : Steerings]
PlanError == [error : {"OverheadExceedsPathMtu", "InnerMtu"}]

IsPlan(p) == "transport" \in DOMAIN p
IsTerminated(plan) == plan.transport = Terminated

-----------------------------------------------------------------------------
\* admit: what needs no plan is settled.  Dns and Quic are UDP to their ports.
Admit(transport, dns, backstop) ==
  CASE transport = "Fragment" -> "Reassemble"
    [] transport = "Other" -> "DropUnsupported"
    [] transport = "Dns" /\ dns = "Intercept" -> "ResolveDns"
    [] transport = "Quic" /\ backstop -> "DropSteered"
    [] OTHER -> "Planned"

RoutePlanned(transport, plan) ==
  IF ~ IsTerminated(plan) THEN "ForwardPacket"
  ELSE CASE transport = "Tcp" -> "OpenStream"
         [] transport \in {"Udp", "Dns", "Quic"} -> "OpenDatagram"
         [] transport \in {"Icmp", "IcmpError"} -> "HandleIcmp"
         [] OTHER -> "DropUnsupported"

Inspected(filter, inspection) == filter = "InspectHttp" /\ inspection = "Candidate"

OnPacketPath(filter, inspection, accepts) ==
  ~ Inspected(filter, inspection) /\ accepts = "IpPackets"

\* The datagram size QUIC's floor is measured against, -1 where none is known.
DatagramBudget(packet, egress, pathMtu) ==
  IF packet THEN pathMtu - egress.overhead ELSE egress.maxDatagram

QuicPolicy(filter, inspection, packet, egress, pathMtu) ==
  IF Inspected(filter, inspection) THEN "InspectionRequired"
  ELSE IF egress.fidelity # "Native" THEN "DatagramFidelity"
  ELSE IF DatagramBudget(packet, egress, pathMtu) < MinQuicMtu THEN "MtuBelowMinimum"
  ELSE "PassThrough"

PlanFlow(filter, inspection, accepts, egress, pathMtu) ==
  LET packet == OnPacketPath(filter, inspection, accepts)
      inner == pathMtu - egress.overhead
  IN  IF packet /\ inner < 0 THEN [error |-> "OverheadExceedsPathMtu"]
      ELSE IF packet /\ inner < MinIpv6Mtu THEN [error |-> "InnerMtu"]
      ELSE [transport |-> IF packet THEN inner ELSE Terminated,
            quic |-> QuicPolicy(filter, inspection, packet, egress, pathMtu)]

\* The layer a live flow runs on, recovered from its plan.
FlowLayer(current, filter, inspection, accepts) ==
  IF ~ IsTerminated(current) THEN "IpPackets"
  ELSE IF Inspected(filter, inspection) THEN accepts
  ELSE "Flows"

Replan(current, filter, inspection, accepts, next, pathMtu) ==
  LET plan == PlanFlow(filter, inspection, accepts, next, pathMtu)
  IN  IF accepts # FlowLayer(current, filter, inspection, accepts)
      THEN [verdict |-> "Teardown"]
      ELSE IF ~ IsPlan(plan) THEN [verdict |-> "Error"]
      ELSE IF IsTerminated(plan) # IsTerminated(current) THEN [verdict |-> "Teardown"]
      ELSE IF current.quic = "PassThrough" /\ plan.quic # "PassThrough"
      THEN [verdict |-> "Resteer", plan |-> plan]
      ELSE [verdict |-> "Unchanged"]

\* What is left of the flow: its plan after the verdict.
PlanAfter(current, filter, inspection, accepts, next, pathMtu) ==
  LET r == Replan(current, filter, inspection, accepts, next, pathMtu)
  IN  IF r.verdict = "Resteer" THEN r.plan ELSE current

Survives(current, filter, inspection, accepts, next, pathMtu) ==
  Replan(current, filter, inspection, accepts, next, pathMtu).verdict
    \in {"Unchanged", "Resteer"}

-----------------------------------------------------------------------------
(* The datapath. *)

Sides == {"Tunnel", "Egress"}
Across(side) == IF side = "Tunnel" THEN "Egress" ELSE "Tunnel"

\* own: from a re-origination port.  inspectable: to an inspected port.
\* owned: the bytes already sit in a pool slice.
Packet == [transport : Transports, client : Clients, dest : Addresses,
           syn : BOOLEAN, big : BOOLEAN, lastHop : BOOLEAN, own : BOOLEAN,
           inspectable : BOOLEAN, owned : BOOLEAN]

NoServer == "none"
NoKey == [client |-> "none", server |-> NoServer]

ASSUME DatapathAssumption ==
  /\ FlowBuffer \in Nat \ {0} /\ MaxFlows \in Nat \ {0}
  /\ PoolSlices \in Nat \ {0} /\ MaxInspected \in Nat \ {0}
  /\ Filter \in Filters /\ Dns \in DnsPolicies
  /\ PathMtu \in Nat /\ Packets \subseteq Packet
  /\ Paths \subseteq [accepts : Layers, egress : PathProperties]

\* key_of: TCP by connection, UDP by client endpoint.
KeyOf(p) ==
  IF p.transport = "Tcp" THEN [client |-> p.client, server |-> p.dest]
  ELSE [client |-> p.client, server |-> NoServer]

Key == [client : Clients, server : Addresses \union {NoServer}]

VARIABLES path,       \* accepts and egress
          plans,      \* the cached plan for each inspection verdict
          stored,     \* addresses the map of inspection windows has an entry for
          inspected,  \* those still inside their window
          flows,      \* key -> its plan and its queue of targets
          ready,      \* keys with queued datagrams, in turn order
          transmits,  \* destination side of each queued packet
          terminate,  \* keys of the segments for the local stack
          queries,    \* DNS queries waiting for the shell
          asked,      \* queries the shell resolves, each holding its slice
          outside,    \* slices of the shared pool other tasks hold
          icmp,       \* ICMP errors left in this second
          served,     \* the flow poll_datagram served since the last packet
          host,       \* connection -> who got its SYN
          strayed     \* connections with a segment sent elsewhere

windows == <<stored, inspected>>
queues == <<transmits, terminate, queries>>
loans == <<asked, outside>>
vars == <<path, plans, windows, flows, ready, transmits, terminate, queries, asked,
          outside, icmp, served, host, strayed>>

PlansFor(pt) ==
  [i \in Inspections |-> PlanFlow(Filter, i, pt.accepts, pt.egress, PathMtu)]

\* new refuses a configuration that plans nothing, and forwarded DNS on a
\* packet egress, which would leave inspection without candidates.
Usable(pt) ==
  /\ \A i \in Inspections : IsPlan(PlansFor(pt)[i])
  /\ ~ (Filter = "InspectHttp" /\ Dns = "Forward" /\ pt.accepts = "IpPackets")

-----------------------------------------------------------------------------
(* The shared pool                                                         *)

Queued(fs) == FoldSet(LAMBDA k, n : n + Len(fs[k].buffer), 0, DOMAIN fs)

Used ==
  Len(transmits) + Len(terminate) + queries + Queued(flows) + asked + outside

\* A slice is left beside the one the packet itself may hold.
Room(held) == Used + held < PoolSlices

\* into_pooled: an owned packet moves, a borrowed one is copied.
Pooled(p, held) == p.owned \/ Room(held)

-----------------------------------------------------------------------------
(* dispatch                                                                *)

Inspection(p, from) ==
  IF /\ p.transport = "Tcp" /\ ~ p.own /\ from = "Tunnel"
     /\ Filter = "InspectHttp" /\ p.inspectable /\ p.dest \in inspected
  THEN "Candidate" ELSE "Excluded"

Carried(p) == p.transport \in {"Tcp", "Udp", "Dns", "Quic"}

Kept(p, from) == from = "Tunnel" /\ Carried(p) /\ KeyOf(p) \in DOMAIN flows

\* A live flow keeps the plan it opened with.
PlanOf(p, from) ==
  IF Kept(p, from) THEN flows[KeyOf(p)].plan ELSE plans[Inspection(p, from)]

Backstop(p, from) == from = "Tunnel" /\ p.dest \in inspected

Action(p, from) ==
  LET admission == Admit(p.transport, Dns, Backstop(p, from))
  IN  IF admission # "Planned" THEN admission
      ELSE IF IsPlan(PlanOf(p, from)) THEN RoutePlanned(p.transport, PlanOf(p, from))
      ELSE "PlanError"

TakeIcmp == icmp > 0 /\ icmp' = icmp - 1

\* A generated ICMP error for the client, when budget and pool allow.
AnswerWith(held) ==
  IF icmp = 0 THEN UNCHANGED <<transmits, icmp>>
  ELSE /\ TakeIcmp
       /\ transmits' = IF Room(held) THEN Append(transmits, "Tunnel") ELSE transmits

\* forward: spends a hop; a packet out of hops is dropped, and its sender
\* told when it may be.
Forward(p, from, held, quoting) ==
  /\ IF ~ Pooled(p, held) THEN UNCHANGED <<transmits, icmp>>
     ELSE IF p.lastHop
     THEN IF from = "Tunnel" /\ quoting THEN AnswerWith(1)
          ELSE UNCHANGED <<transmits, icmp>>
     ELSE transmits' = Append(transmits, Across(from)) /\ UNCHANGED icmp
  /\ UNCHANGED <<flows, ready, terminate, queries>>

TooBig(p, from) == from = "Tunnel" /\ p.transport # "IcmpError" /\ p.big

ForwardPacket(p, from, held) ==
  IF TooBig(p, from)
  THEN AnswerWith(held) /\ UNCHANGED <<flows, ready, terminate, queries>>
  ELSE Forward(p, from, held, p.transport # "IcmpError")

NewFlow(plan) == [plan |-> plan, buffer |-> <<>>]

\* open_flow: refresh or insert; Full is returned as an error.
FlowsWithOpen(k, plan) ==
  [x \in DOMAIN flows \union {k} |->
     IF x \in DOMAIN flows THEN flows[x] ELSE NewFlow(plan)]

CanOpen(k) == k \in DOMAIN flows \/ Cardinality(DOMAIN flows) < MaxFlows

CaptureForTermination(p, held) ==
  terminate' = IF Pooled(p, held) THEN Append(terminate, KeyOf(p)) ELSE terminate

OpenStream(p, from, held) ==
  IF ~ CanOpen(KeyOf(p)) THEN UNCHANGED <<flows, ready, queues, icmp>>
  ELSE /\ flows' = FlowsWithOpen(KeyOf(p), PlanOf(p, from))
       /\ IF from = "Tunnel" THEN CaptureForTermination(p, held)
          ELSE UNCHANGED terminate
       /\ UNCHANGED <<ready, transmits, queries, icmp>>

\* One ready entry per empty-to-non-empty transition.
ReadyUnchanged(k, wasIdle) == ready
ReadyAfter(k, wasIdle) == IF wasIdle THEN Append(ready, k) ELSE ready

\* The datagram is dropped when the pool or the flow's own queue is full.
CaptureDatagram(p, opened, held) ==
  LET k == KeyOf(p)
      queue == opened[k].buffer
  IN  IF Room(held) /\ Len(queue) < FlowBuffer
      THEN /\ flows' = [opened EXCEPT ![k].buffer = Append(queue, p.dest)]
           /\ ready' = ReadyAfter(k, queue = <<>>)
      ELSE flows' = opened /\ UNCHANGED ready

OpenDatagram(p, from, held) ==
  LET opened == FlowsWithOpen(KeyOf(p), PlanOf(p, from))
  IN  /\ IF ~ CanOpen(KeyOf(p)) THEN UNCHANGED <<flows, ready>>
         ELSE IF from = "Tunnel" THEN CaptureDatagram(p, opened, held)
         ELSE flows' = opened /\ UNCHANGED ready
      /\ UNCHANGED <<queues, icmp>>

ResolveDns(held) ==
  /\ queries' = IF Room(held) THEN queries + 1 ELSE queries
  /\ UNCHANGED <<flows, ready, transmits, terminate, icmp>>

\* Who handles the segments of a connection, as its client sees it.
NoteHost(p, from) ==
  LET k == KeyOf(p)
      act == Action(p, from)
  IN  IF p.transport = "Tcp" /\ from = "Tunnel" /\ act \in {"ForwardPacket", "OpenStream"}
      THEN /\ host' = IF p.syn THEN [host EXCEPT ![k] = act] ELSE host
           /\ strayed' = IF ~ p.syn /\ host[k] \notin {"none", act}
                         THEN strayed \union {k} ELSE strayed
      ELSE UNCHANGED <<host, strayed>>

Dispatch(p, from, held) ==
  /\ CASE Action(p, from) = "ForwardPacket" -> ForwardPacket(p, from, held)
       [] Action(p, from) = "OpenStream" -> OpenStream(p, from, held)
       [] Action(p, from) = "OpenDatagram" -> OpenDatagram(p, from, held)
       [] Action(p, from) = "HandleIcmp" -> Forward(p, from, held, FALSE)
       [] Action(p, from) = "ResolveDns" -> ResolveDns(held)
       [] OTHER -> UNCHANGED <<flows, ready, queues, icmp>>
  /\ NoteHost(p, from)
  /\ served' = NoKey
  /\ UNCHANGED <<path, plans, windows, loans>>

Held(p) == IF p.owned THEN 1 ELSE 0

\* on_tun_packet, on_tun_owned, on_egress_packet, on_egress_owned.
OnPacket(p, from) ==
  /\ p.transport # "Fragment"
  /\ p.owned => Room(0)
  /\ Len(ready) < MaxReady
  /\ Dispatch(p, from, Held(p))

\* A fragment that completes a datagram is dispatched as that datagram;
\* fragments from the egress are discarded.
OnFragment(p, q) ==
  /\ p.transport = "Fragment" /\ q.transport # "Fragment" /\ ~ q.owned
  /\ p.owned => Room(0)
  /\ Len(ready) < MaxReady
  /\ Dispatch(q, "Tunnel", Held(p))

-----------------------------------------------------------------------------
(* What the shell calls                                                    *)

\* poll_datagram: stale entries are skipped, then one datagram is served.
Servable(k) == k \in DOMAIN flows /\ flows[k].buffer # <<>>

\* A flow with more to send goes to the end of the line.
RequeuedFirst(k, rest) ==
  IF Len(flows[k].buffer) > 1 THEN <<k>> \o rest ELSE rest
Requeued(k, rest) ==
  IF Len(flows[k].buffer) > 1 THEN Append(rest, k) ELSE rest

PollDatagram ==
  /\ \E i \in 1 .. Len(ready) : Servable(ready[i])
  /\ LET turn == Min({i \in 1 .. Len(ready) : Servable(ready[i])})
         k == ready[turn]
         rest == SubSeq(ready, turn + 1, Len(ready))
     IN  /\ flows' = [flows EXCEPT ![k].buffer = Tail(@)]
         /\ ready' = Requeued(k, rest)
         /\ served' = k
  /\ outside' = outside + 1
  /\ UNCHANGED <<path, plans, windows, queues, asked, icmp, host, strayed>>

\* Nothing servable: every entry was stale, and None is returned.
PollDatagramEmpty ==
  /\ ready # <<>> /\ \A i \in 1 .. Len(ready) : ~ Servable(ready[i])
  /\ ready' = <<>>
  /\ UNCHANGED <<path, plans, windows, flows, queues, loans, icmp, served, host, strayed>>

\* What is written is dropped at once; what goes to a channel is still held.
PollTransmit ==
  /\ transmits # <<>> /\ transmits' = Tail(transmits)
  /\ UNCHANGED <<path, plans, windows, flows, ready, terminate, queries, loans, icmp,
                 served, host, strayed>>

PollTerminate ==
  /\ terminate # <<>> /\ terminate' = Tail(terminate)
  /\ outside' = outside + 1
  /\ UNCHANGED <<path, plans, windows, flows, ready, transmits, queries, asked, icmp,
                 served, host, strayed>>

PollQuery ==
  /\ queries > 0 /\ queries' = queries - 1
  /\ asked' = asked + 1
  /\ UNCHANGED <<path, plans, windows, flows, ready, transmits, terminate, outside, icmp,
                 served, host, strayed>>

\* The reply needs a slice of its own beside the resolved message.
AnswerDns ==
  /\ asked > 0 /\ asked' = asked - 1
  /\ transmits' = IF Room(0) THEN Append(transmits, "Tunnel") ELSE transmits
  /\ UNCHANGED <<path, plans, windows, flows, ready, terminate, queries, outside, icmp,
                 served, host, strayed>>

\* No answer: a full channel, an invalid query, no slice for the message.
AbandonQuery ==
  /\ asked > 0 /\ asked' = asked - 1
  /\ UNCHANGED <<path, plans, windows, flows, ready, queues, outside, icmp, served, host,
                 strayed>>

\* Other tasks take slices of the pool, and drop those they hold.
TakeElsewhere ==
  /\ Room(0) /\ outside' = outside + 1
  /\ UNCHANGED <<path, plans, windows, flows, ready, queues, asked, icmp, served, host,
                 strayed>>

DropElsewhere ==
  /\ outside > 0 /\ outside' = outside - 1
  /\ UNCHANGED <<path, plans, windows, flows, ready, queues, asked, icmp, served, host,
                 strayed>>

\* deliver_datagram: a reply for a mapping that has expired is dropped.
DeliverDatagram(c) ==
  /\ [client |-> c, server |-> NoServer] \in DOMAIN flows
  /\ IsPlan(plans["Excluded"]) /\ Room(0)
  /\ transmits' = Append(transmits, "Tunnel")
  /\ UNCHANGED <<path, plans, windows, flows, ready, terminate, queries, loans, icmp,
                 served, host, strayed>>

\* admit: an entry is opened or extended.  One that has lapsed still counts
\* towards the capacity until expire removes it.
InspectAddress(a) ==
  /\ a \in stored \/ Cardinality(stored) < MaxInspected
  /\ stored' = stored \union {a} /\ inspected' = inspected \union {a}
  /\ UNCHANGED <<path, plans, flows, ready, queues, loans, icmp, served, host, strayed>>

\* A deadline passes: the address is not live, even before expire has run.
Lapse(a) ==
  /\ a \in inspected /\ inspected' = inspected \ {a}
  /\ UNCHANGED <<path, plans, stored, flows, ready, queues, loans, icmp, served, host, strayed>>

\* on_timeout: lapsed entries and idle flows go, with what the flows had queued.
OnTimeout(idle) ==
  /\ MayExpire \/ idle = {}
  /\ stored' = inspected
  /\ flows' = Restrict(flows, DOMAIN flows \ idle)
  /\ UNCHANGED <<path, plans, inspected, ready, queues, loans, icmp, served, host, strayed>>

RefillIcmp ==
  /\ icmp < IcmpBurst /\ icmp' = IcmpBurst
  /\ UNCHANGED <<path, plans, windows, flows, ready, queues, loans, served, host, strayed>>

\* on_path_change: every live flow is re-planned as not inspected.
SurvivesChange(plan, pt) ==
  Survives(plan, Filter, "Excluded", pt.accepts, pt.egress, PathMtu)

PlanUnchanged(plan, pt) == plan
PlanAfterChange(plan, pt) ==
  PlanAfter(plan, Filter, "Excluded", pt.accepts, pt.egress, PathMtu)

OnPathChange(pt) ==
  /\ path' = pt
  /\ plans' = PlansFor(pt)
  /\ flows' = [k \in {x \in DOMAIN flows : SurvivesChange(flows[x].plan, pt)} |->
                 [flows[k] EXCEPT !.plan = PlanAfterChange(flows[k].plan, pt)]]
  /\ UNCHANGED <<windows, ready, queues, loans, icmp, served, host, strayed>>

-----------------------------------------------------------------------------
Connections == [client : Clients, server : Addresses]

Init ==
  /\ path \in {pt \in Paths : Usable(pt)}
  /\ plans = PlansFor(path)
  /\ stored = {} /\ inspected = {} /\ flows = <<>> /\ ready = <<>>
  /\ transmits = <<>> /\ terminate = <<>> /\ queries = 0 /\ asked = 0 /\ outside = 0
  /\ icmp = IcmpBurst /\ served = NoKey
  /\ host = [k \in Connections |-> "none"] /\ strayed = {}

Arrivals ==
  \E p \in Packets : \/ OnPacket(p, "Tunnel")
                     \/ p.transport # "Fragment" /\ OnPacket(p, "Egress")
                     \/ \E q \in Packets : OnFragment(p, q)

Drains == PollDatagram \/ PollDatagramEmpty \/ PollTransmit \/ PollTerminate \/ PollQuery

Elsewhere == AnswerDns \/ AbandonQuery \/ TakeElsewhere \/ DropElsewhere

Replies == \E c \in Clients : DeliverDatagram(c)

Windows == \E a \in Addresses : InspectAddress(a) \/ Lapse(a)

Expiries == \E idle \in SUBSET DOMAIN flows : OnTimeout(idle)

PathChanges == \E pt \in Paths : OnPathChange(pt)

Next ==
  Arrivals \/ Drains \/ Elsewhere \/ Replies \/ Windows \/ Expiries \/ RefillIcmp \/ PathChanges

Spec == Init /\ [][Next]_vars

-----------------------------------------------------------------------------
(* Properties                                                              *)

FlowState == [plan : FlowPlan, buffer : Seq(Addresses)]

PlansCurrent == path \in Paths /\ plans = PlansFor(path)

FlowsTyped == DOMAIN flows \subseteq Key /\ flows \in [DOMAIN flows -> FlowState]

TypeOK ==
  /\ PlansCurrent /\ FlowsTyped
  /\ inspected \subseteq stored /\ stored \subseteq Addresses
  /\ Cardinality(stored) <= MaxInspected
  /\ Cardinality(DOMAIN flows) <= MaxFlows
  /\ \A k \in DOMAIN flows : Len(flows[k].buffer) <= FlowBuffer
  /\ ready \in Seq(Key)
  /\ icmp \in 0 .. IcmpBurst

\* A queued datagram is never stranded: its flow has a turn coming (and its
\* slices of the shared pool are given back), also when
\* the flow expired or was torn down with a stale turn left and then reopened.
ReadyCoversQueues ==
  \A k \in DOMAIN flows :
    flows[k].buffer # <<>> => \E i \in 1 .. Len(ready) : ready[i] = k

Fits(plan, pt) ==
  /\ IsTerminated(plan)
  /\ pt.accepts = "Flows" \/ plan.quic = "InspectionRequired"
  /\ plan.quic = "PassThrough" =>
       IsPlan(PlansFor(pt)["Excluded"]) /\ PlansFor(pt)["Excluded"].quic = "PassThrough"

\* Live flows fit the path after any sequence of changes: a terminated flow on
\* a packet egress is an inspected one, and no flow is left to pass QUIC on a
\* path whose own plan would steer it.
PlansFitPath == \A k \in DOMAIN flows : Fits(flows[k].plan, path)

\* The round robin starves no flow: one with queued datagrams gets a turn,
\* however many datagrams the others receive, or it expires.
EveryFlowServed ==
  \A k \in Key :
    (k \in DOMAIN flows /\ flows[k].buffer # <<>>)
      ~> (served = k \/ k \notin DOMAIN flows)

\* dispatch's comment: the inspection window decides new flows only, since
\* re-planning a connection mid-way hands its segments to a host that never
\* saw it.
ConnectionKeepsItsHost == strayed = {}
=============================================================================
