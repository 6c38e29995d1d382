--------------------------- MODULE DatapathProofs ----------------------------
(***************************************************************************)
(* Proofs about Datapath for every policy, set of paths, clients,          *)
(* addresses and packets, and every limit.                                 *)
(***************************************************************************)
EXTENDS Datapath, WellFoundedInduction, TLAPS

\* The invariant.  What a turn or a plan says about a flow is only preserved
\* when the flows are typed and the cached plans are those of the path.
Typed == PlansCurrent /\ FlowsTyped /\ ready \in Seq(Key)
IInv == Typed /\ ReadyCoversQueues /\ PlansFitPath

PathSet == [accepts : Layers, egress : PathProperties]

-----------------------------------------------------------------------------
(* Plans                                                                   *)

Planned(i, pt) == PlanFlow(Filter, i, pt.accepts, pt.egress, PathMtu)
Packetised(i, pt) == OnPacketPath(Filter, i, pt.accepts)
Steered(i, pt) == QuicPolicy(Filter, i, Packetised(i, pt), pt.egress, PathMtu)

\* plan_flow fails on the packet path only.
LEMMA PlanFlowCases ==
  ASSUME NEW i \in Inspections, NEW pt \in PathSet
  PROVE  LET inner == PathMtu - pt.egress.overhead
         IN  \/ /\ Packetised(i, pt) /\ inner < MinIpv6Mtu
                /\ ~ IsPlan(Planned(i, pt))
             \/ /\ Packetised(i, pt) => inner >= MinIpv6Mtu
                /\ Planned(i, pt) =
                     [transport |-> IF Packetised(i, pt) THEN inner ELSE Terminated,
                      quic |-> Steered(i, pt)]
<1> DEFINE inner == PathMtu - pt.egress.overhead
<1>1. inner \in Int /\ MinIpv6Mtu \in Nat
  BY DatapathAssumption, PlannerAssumption DEF PathSet, PathProperties
<1>2. CASE Packetised(i, pt) /\ inner < 0
  <2>1. Planned(i, pt) = [error |-> "OverheadExceedsPathMtu"]
    BY <1>2 DEF Planned, Packetised, PlanFlow
  <2>2. ~ IsPlan(Planned(i, pt))
    BY <2>1 DEF IsPlan
  <2> QED BY <2>2, <1>1, <1>2
<1>3. CASE Packetised(i, pt) /\ inner >= 0 /\ inner < MinIpv6Mtu
  <2>1. Planned(i, pt) = [error |-> "InnerMtu"]
    BY <1>3, <1>1 DEF Planned, Packetised, PlanFlow
  <2>2. ~ IsPlan(Planned(i, pt))
    BY <2>1 DEF IsPlan
  <2> QED BY <2>2, <1>3
<1>4. CASE Packetised(i, pt) => inner >= MinIpv6Mtu
  BY <1>4, <1>1 DEF Planned, Packetised, Steered, PlanFlow
<1> QED BY <1>1, <1>2, <1>3, <1>4

\* The QUIC policy is one of its four values.
LEMMA SteeredType ==
  ASSUME NEW i \in Inspections, NEW pt \in PathSet
  PROVE  Steered(i, pt) \in Steerings
  BY DEF Steered, QuicPolicy, Steerings

\* plan_flow returns a plan or an error, never a malformed plan.
LEMMA PlanFlowType ==
  ASSUME NEW i \in Inspections, NEW pt \in PathSet, IsPlan(Planned(i, pt))
  PROVE  Planned(i, pt) \in FlowPlan
<1> DEFINE inner == PathMtu - pt.egress.overhead
<1>1. inner \in Int /\ MinIpv6Mtu \in Nat
  BY DatapathAssumption, PlannerAssumption DEF PathSet, PathProperties
<1>2. /\ Packetised(i, pt) => inner >= MinIpv6Mtu
      /\ Planned(i, pt) = [transport |-> IF Packetised(i, pt) THEN inner ELSE Terminated,
                           quic |-> Steered(i, pt)]
  BY PlanFlowCases
<1> QED BY <1>1, <1>2, SteeredType DEF FlowPlan, Terminated

\* A terminated plan on a packet egress is an inspected one, and a plan that
\* passes QUIC is what the path plans for flows that are not inspected.
LEMMA TerminatedPlan ==
  ASSUME NEW i \in Inspections, NEW pt \in PathSet,
         IsPlan(Planned(i, pt)), IsTerminated(Planned(i, pt))
  PROVE  /\ pt.accepts = "Flows" \/ Planned(i, pt).quic = "InspectionRequired"
         /\ Planned(i, pt).quic = "PassThrough" =>
              IsPlan(Planned("Excluded", pt)) /\ Planned("Excluded", pt).quic = "PassThrough"
<1> DEFINE inner == PathMtu - pt.egress.overhead
<1>1. inner \in Int /\ MinIpv6Mtu \in Nat /\ pt.accepts \in Layers
  BY DatapathAssumption, PlannerAssumption DEF PathSet, PathProperties
<1>2. /\ Packetised(i, pt) => inner >= MinIpv6Mtu
      /\ Planned(i, pt) = [transport |-> IF Packetised(i, pt) THEN inner ELSE Terminated,
                           quic |-> Steered(i, pt)]
  BY PlanFlowCases
<1>3. ~ Packetised(i, pt)
  BY <1>1, <1>2 DEF IsTerminated, Terminated
<1>4. pt.accepts = "Flows" \/ Inspected(Filter, i)
  BY <1>1, <1>3 DEF Packetised, OnPacketPath, Layers
<1>5. Inspected(Filter, i) => Steered(i, pt) = "InspectionRequired"
  BY DEF Steered, QuicPolicy
<1>6. ~ Inspected(Filter, i) => Planned(i, pt) = Planned("Excluded", pt)
  BY DEF Planned, PlanFlow, QuicPolicy, OnPacketPath, Inspected
<1> QED BY <1>2, <1>4, <1>5, <1>6

-----------------------------------------------------------------------------
(* Re-planning                                                             *)

\* A terminated flow survives only on an egress that carries flows, and never
\* passes QUIC there unless the path itself does.
LEMMA SurvivorFits ==
  ASSUME NEW plan \in FlowPlan, NEW pt \in PathSet,
         IsTerminated(plan), SurvivesChange(plan, pt)
  PROVE  LET next == PlanAfterChange(plan, pt)
         IN  next \in FlowPlan /\ Fits(next, pt)
<1> DEFINE x == Planned("Excluded", pt)
<1> DEFINE r == Replan(plan, Filter, "Excluded", pt.accepts, pt.egress, PathMtu)
<1>1. r = IF pt.accepts # "Flows" THEN [verdict |-> "Teardown"]
          ELSE IF ~ IsPlan(x) THEN [verdict |-> "Error"]
          ELSE IF IsTerminated(x) # IsTerminated(plan) THEN [verdict |-> "Teardown"]
          ELSE IF plan.quic = "PassThrough" /\ x.quic # "PassThrough"
          THEN [verdict |-> "Resteer", plan |-> x]
          ELSE [verdict |-> "Unchanged"]
  BY DEF Replan, FlowLayer, Inspected, Planned
<1>2. r.verdict \in {"Unchanged", "Resteer"}
  BY DEF SurvivesChange, Survives
<1>3. pt.accepts = "Flows" /\ IsPlan(x) /\ IsTerminated(x)
  BY <1>1, <1>2 DEF IsTerminated
<1>4. x \in FlowPlan
  BY <1>3, PlanFlowType DEF Inspections
<1>5. PlanAfterChange(plan, pt) = IF r.verdict = "Resteer" THEN r.plan ELSE plan
  BY DEF PlanAfterChange, PlanAfter
<1>6. CASE plan.quic = "PassThrough" /\ x.quic # "PassThrough"
  <2>1. r = [verdict |-> "Resteer", plan |-> x]
    BY <1>1, <1>3, <1>6
  <2>2. PlanAfterChange(plan, pt) = x
    BY <2>1, <1>5
  <2> QED BY <2>2, <1>3, <1>4, <1>6 DEF Fits
<1>7. CASE ~ (plan.quic = "PassThrough" /\ x.quic # "PassThrough")
  <2>1. r = [verdict |-> "Unchanged"]
    BY <1>1, <1>3, <1>7
  <2>2. PlanAfterChange(plan, pt) = plan
    BY <2>1, <1>5
  <2>3. PlansFor(pt)["Excluded"] = x
    BY DEF PlansFor, Planned, Inspections
  <2> QED BY <2>2, <2>3, <1>3, <1>7 DEF Fits
<1> QED BY <1>6, <1>7

-----------------------------------------------------------------------------
(* dispatch                                                                *)

\* A packet's flow is one of the keys.
LEMMA KeyOfType == \A p \in Packet : KeyOf(p) \in Key
  BY DEF KeyOf, Key, Packet

\* The plan that opens or refreshes a flow fits the path.
LEMMA OpeningPlan ==
  ASSUME IInv, NEW p \in Packet, NEW from \in Sides,
         Action(p, from) \in {"OpenStream", "OpenDatagram"}
  PROVE  PlanOf(p, from) \in FlowPlan /\ Fits(PlanOf(p, from), path)
<1> DEFINE plan == PlanOf(p, from)
<1>1. IsPlan(plan) /\ IsTerminated(plan)
  BY DEF Action, Admit, RoutePlanned
<1>2. CASE Kept(p, from)
  <2>1. KeyOf(p) \in DOMAIN flows /\ plan = flows[KeyOf(p)].plan
    BY <1>2 DEF Kept, PlanOf
  <2>2. flows[KeyOf(p)] \in FlowState
    BY <2>1 DEF IInv, Typed, FlowsTyped
  <2> QED BY <2>1, <2>2 DEF IInv, PlansFitPath, FlowState
<1>3. CASE ~ Kept(p, from)
  <2> DEFINE i == Inspection(p, from)
  <2>1. i \in Inspections /\ path \in PathSet
    BY DatapathAssumption DEF Inspection, Inspections, IInv, Typed, PlansCurrent, PathSet
  <2>2. plan = Planned(i, path)
    BY <1>3, <2>1 DEF PlanOf, PlansFor, Planned, IInv, Typed, PlansCurrent
  <2>3. PlansFor(path)["Excluded"] = Planned("Excluded", path)
    BY DEF PlansFor, Planned, Inspections
  <2> QED BY <1>1, <2>1, <2>2, <2>3, PlanFlowType, TerminatedPlan DEF Fits
<1> QED BY <1>2, <1>3

\* A step that leaves the flows, their turns and the path alone.
LEMMA Unaffected ==
  ASSUME IInv, UNCHANGED <<path, plans, flows, ready>>
  PROVE  IInv'
  BY DEF IInv, Typed, PlansCurrent, FlowsTyped, ReadyCoversQueues, PlansFitPath

\* open_flow keeps what the live flows have and adds one with an empty queue.
LEMMA OpenedFlows ==
  ASSUME IInv, NEW k \in Key, NEW plan \in FlowPlan
  PROVE  LET opened == FlowsWithOpen(k, plan)
         IN  /\ opened \in [DOMAIN flows \union {k} -> FlowState]
             /\ \A x \in DOMAIN flows : opened[x] = flows[x]
             /\ k \notin DOMAIN flows => opened[k] = [plan |-> plan, buffer |-> <<>>]
<1>1. \A x \in DOMAIN flows : flows[x] \in FlowState
  BY DEF IInv, Typed, FlowsTyped
<1>2. NewFlow(plan) \in FlowState /\ NewFlow(plan) = [plan |-> plan, buffer |-> <<>>]
  BY DEF NewFlow, FlowState
<1> QED BY <1>1, <1>2 DEF FlowsWithOpen

\* Opening a flow, with or without a datagram for it, keeps the invariant.
LEMMA OpenStreamIInv ==
  ASSUME IInv, NEW p \in Packet, NEW from \in Sides, NEW held,
         Action(p, from) = "OpenStream", OpenStream(p, from, held),
         UNCHANGED <<path, plans>>
  PROVE  IInv'
<1> DEFINE k == KeyOf(p)
           plan == PlanOf(p, from)
           opened == FlowsWithOpen(k, plan)
<1>1. CASE ~ CanOpen(k)
  BY <1>1, Unaffected DEF OpenStream
<1>2. CASE CanOpen(k)
  <2>1. k \in Key /\ plan \in FlowPlan /\ Fits(plan, path)
    BY KeyOfType, OpeningPlan
  <2>2. flows' = opened /\ ready' = ready
    BY <1>2 DEF OpenStream
  <2> HIDE DEF opened, k, plan
  <2>3. /\ opened \in [DOMAIN flows \union {k} -> FlowState]
        /\ \A x \in DOMAIN flows : opened[x] = flows[x]
        /\ k \notin DOMAIN flows => opened[k] = [plan |-> plan, buffer |-> <<>>]
    BY <2>1, OpenedFlows DEF opened
  <2>4. Typed'
    BY <2>1, <2>2, <2>3 DEF IInv, Typed, PlansCurrent, FlowsTyped
  <2>5. ReadyCoversQueues'
    BY <2>2, <2>3 DEF IInv, ReadyCoversQueues
  <2>6. PlansFitPath'
    BY <2>1, <2>2, <2>3 DEF IInv, PlansFitPath
  <2> QED BY <2>4, <2>5, <2>6 DEF IInv
<1> QED BY <1>1, <1>2

LEMMA OpenDatagramIInv ==
  ASSUME IInv, NEW p \in Packet, NEW from \in Sides, NEW held,
         Action(p, from) = "OpenDatagram", OpenDatagram(p, from, held),
         UNCHANGED <<path, plans>>
  PROVE  IInv'
<1> DEFINE k == KeyOf(p)
           plan == PlanOf(p, from)
           opened == FlowsWithOpen(k, plan)
<1>1. CASE ~ CanOpen(k)
  BY <1>1, Unaffected DEF OpenDatagram
<1>2. CASE CanOpen(k)
  <2>1. k \in Key /\ plan \in FlowPlan /\ Fits(plan, path) /\ p.dest \in Addresses
    BY KeyOfType, OpeningPlan DEF Packet
  <2>2. \/ flows' = opened /\ ready' = ready
        \/ /\ flows' = [opened EXCEPT ![k].buffer = Append(opened[k].buffer, p.dest)]
           /\ ready' = IF opened[k].buffer = <<>> THEN Append(ready, k) ELSE ready
    BY <1>2 DEF OpenDatagram, CaptureDatagram, ReadyAfter
  <2> HIDE DEF opened, k, plan
  <2>3. /\ opened \in [DOMAIN flows \union {k} -> FlowState]
        /\ \A x \in DOMAIN flows : opened[x] = flows[x]
        /\ k \notin DOMAIN flows => opened[k] = [plan |-> plan, buffer |-> <<>>]
    BY <2>1, OpenedFlows DEF opened
  <2>4. ready \in Seq(Key)
    BY DEF IInv, Typed
  <2>5. CASE flows' = opened /\ ready' = ready
    <3>1. Typed'
      BY <2>1, <2>3, <2>5 DEF IInv, Typed, PlansCurrent, FlowsTyped
    <3>2. ReadyCoversQueues'
      BY <2>3, <2>5 DEF IInv, ReadyCoversQueues
    <3>3. PlansFitPath'
      BY <2>1, <2>3, <2>5 DEF IInv, PlansFitPath
    <3> QED BY <3>1, <3>2, <3>3 DEF IInv
  <2>6. CASE /\ flows' = [opened EXCEPT ![k].buffer = Append(opened[k].buffer, p.dest)]
             /\ ready' = IF opened[k].buffer = <<>> THEN Append(ready, k) ELSE ready
    <3>1. opened[k] \in FlowState
      BY <2>3
    <3>2. /\ DOMAIN flows' = DOMAIN flows \union {k}
          /\ flows' \in [DOMAIN flows' -> FlowState]
          /\ flows'[k].plan = opened[k].plan
          /\ \A x \in DOMAIN flows \ {k} : flows'[x] = flows[x]
      <4> DEFINE flow == [opened[k] EXCEPT !.buffer = Append(opened[k].buffer, p.dest)]
      <4>1. flow \in FlowState /\ flow.plan = opened[k].plan
        <5>1. opened[k].buffer \in Seq(Addresses)
          BY <3>1 DEF FlowState
        <5>2. Append(opened[k].buffer, p.dest) \in Seq(Addresses)
          BY <2>1, <5>1
        <5> QED BY <3>1, <5>2 DEF FlowState
      <4>2. flows' = [opened EXCEPT ![k] = flow]
        BY <2>6
      <4> HIDE DEF flow
      <4>3. DOMAIN opened = DOMAIN flows \union {k}
        BY <2>3
      <4>4. DOMAIN flows' = DOMAIN flows \union {k}
        BY <4>2, <4>3
      <4>5. flows'[k] = flow /\ \A x \in DOMAIN flows \ {k} : flows'[x] = opened[x]
        BY <4>2, <4>3
      <4>6. flows' \in [DOMAIN flows' -> FlowState]
        BY <2>3, <4>1, <4>2, <4>4
      <4> QED BY <2>3, <4>1, <4>4, <4>5, <4>6
    <3>3. Typed'
      BY <2>1, <2>4, <2>6, <3>2 DEF IInv, Typed, PlansCurrent, FlowsTyped
    <3>4. ReadyCoversQueues'
      <4> SUFFICES ASSUME NEW x \in DOMAIN flows', flows'[x].buffer # <<>>
                   PROVE  \E i \in 1 .. Len(ready') : ready'[i] = x
        BY DEF ReadyCoversQueues
      <4>1. CASE x = k /\ opened[k].buffer = <<>>
        BY <4>1, <2>1, <2>4, <2>6
      <4>2. CASE ~ (x = k /\ opened[k].buffer = <<>>)
        <5>1. x \in DOMAIN flows /\ flows[x].buffer # <<>>
          BY <4>2, <2>3, <3>2
        <5>2. PICK i \in 1 .. Len(ready) : ready[i] = x
          BY <5>1 DEF IInv, ReadyCoversQueues
        <5> QED BY <5>2, <2>1, <2>4, <2>6
      <4> QED BY <4>1, <4>2
    <3>5. PlansFitPath'
      BY <2>1, <2>3, <3>2 DEF IInv, PlansFitPath
    <3> QED BY <3>3, <3>4, <3>5 DEF IInv
  <2> QED BY <2>2, <2>5, <2>6
<1> QED BY <1>1, <1>2

\* dispatch keeps the invariant, whatever it decides about the packet.
LEMMA DispatchIInv ==
  ASSUME IInv, NEW p \in Packet, NEW from \in Sides, NEW held, Dispatch(p, from, held)
  PROVE  IInv'
<1>1. UNCHANGED <<path, plans>>
  BY DEF Dispatch
<1>2. CASE Action(p, from) = "OpenStream"
  <2>1. OpenStream(p, from, held)
    BY <1>2 DEF Dispatch
  <2> QED BY <1>1, <1>2, <2>1, OpenStreamIInv
<1>3. CASE Action(p, from) = "OpenDatagram"
  <2>1. OpenDatagram(p, from, held)
    BY <1>3 DEF Dispatch
  <2> QED BY <1>1, <1>3, <2>1, OpenDatagramIInv
<1>4. CASE Action(p, from) \notin {"OpenStream", "OpenDatagram"}
  <2>1. UNCHANGED <<flows, ready>>
    BY <1>4 DEF Dispatch, ForwardPacket, Forward, ResolveDns
  <2> QED BY <1>1, <2>1, Unaffected
<1> QED BY <1>2, <1>3, <1>4

-----------------------------------------------------------------------------
(* poll_datagram                                                           *)

\* A non-empty set of naturals has a least element.
LEMMA LeastNat ==
  ASSUME NEW S \in SUBSET Nat, S # {}
  PROVE  Min(S) \in S /\ \A t \in S : Min(S) <= t
<1>1. IsWellFoundedOn(OpToRel(<, Nat), Nat)
  BY NatLessThanWellFounded
<1>2. PICK s \in S : \A t \in S : ~(<<t, s>> \in OpToRel(<, Nat))
  BY <1>1, WFMin
<1>3. \A t \in S : ~(t < s)
  BY <1>2 DEF OpToRel
<1>4. \A t \in S : s <= t
  BY <1>3
<1> QED BY <1>4 DEF Min

\* Serving a turn strands no other flow: the turns it skips are stale, so a
\* flow with datagrams has its turn behind the one served, and the flow served
\* is put back when it has more.
LEMMA PollDatagramIInv ==
  ASSUME IInv, PollDatagram
  PROVE  IInv'
<1> DEFINE turns == {i \in 1 .. Len(ready) : Servable(ready[i])}
           turn == Min(turns)
           k == ready[turn]
           rest == SubSeq(ready, turn + 1, Len(ready))
<1>1. /\ flows' = [flows EXCEPT ![k].buffer = Tail(flows[k].buffer)]
      /\ ready' = IF Len(flows[k].buffer) > 1 THEN Append(rest, k) ELSE rest
      /\ UNCHANGED <<path, plans>>
  BY DEF PollDatagram, Requeued
<1>2. ready \in Seq(Key) /\ Len(ready) \in Nat
  BY DEF IInv, Typed
<1>3. turns \in SUBSET Nat /\ turns # {}
  BY DEF PollDatagram
<1>4. turn \in turns /\ \A i \in turns : turn <= i
  BY <1>3, LeastNat
<1>5. turn \in 1 .. Len(ready) /\ k \in Key /\ k \in DOMAIN flows /\ flows[k].buffer # <<>>
  BY <1>2, <1>4 DEF Servable
<1>6. \A i \in 1 .. Len(ready) : Servable(ready[i]) => turn <= i
  BY <1>4
<1> HIDE DEF turn, turns, k
<1>7. rest \in Seq(Key) /\ Len(rest) = Len(ready) - turn
  BY <1>2, <1>5
<1>8. \A i \in turn + 1 .. Len(ready) :
        i - turn \in 1 .. Len(rest) /\ rest[i - turn] = ready[i]
  BY <1>2, <1>5, <1>7
<1> HIDE DEF rest
<1>9. flows[k] \in FlowState
  BY <1>5 DEF IInv, Typed, FlowsTyped
<1>10. /\ DOMAIN flows' = DOMAIN flows
       /\ flows'[k].plan = flows[k].plan /\ flows'[k].buffer = Tail(flows[k].buffer)
       /\ flows'[k] \in FlowState
       /\ \A x \in DOMAIN flows \ {k} : flows'[x] = flows[x]
       /\ flows' \in [DOMAIN flows -> FlowState]
  <2> DEFINE flow == [flows[k] EXCEPT !.buffer = Tail(flows[k].buffer)]
  <2>1. /\ flow \in FlowState /\ flow.plan = flows[k].plan
        /\ flow.buffer = Tail(flows[k].buffer)
    BY <1>5, <1>9 DEF FlowState
  <2>2. flows' = [flows EXCEPT ![k] = flow]
    BY <1>1
  <2> HIDE DEF flow
  <2>3. flows \in [DOMAIN flows -> FlowState]
    BY DEF IInv, Typed, FlowsTyped
  <2> QED BY <1>5, <2>1, <2>2, <2>3
<1>11. Typed'
  BY <1>1, <1>5, <1>7, <1>10 DEF IInv, Typed, PlansCurrent, FlowsTyped
<1>12. ReadyCoversQueues'
  <2> SUFFICES ASSUME NEW x \in DOMAIN flows', flows'[x].buffer # <<>>
               PROVE  \E i \in 1 .. Len(ready') : ready'[i] = x
    BY DEF ReadyCoversQueues
  <2>1. CASE x = k
    <3>1. flows[k].buffer \in Seq(Addresses) /\ Tail(flows[k].buffer) # <<>>
      BY <2>1, <1>9, <1>10 DEF FlowState
    <3>2. Len(flows[k].buffer) > 1
      BY <3>1, <1>5
    <3>3. ready' = Append(rest, k)
      BY <3>2, <1>1
    <3> QED BY <2>1, <3>3, <1>5, <1>7
  <2>2. CASE x # k
    <3>1. x \in DOMAIN flows /\ flows[x].buffer # <<>>
      BY <2>2, <1>10
    <3>2. PICK i \in 1 .. Len(ready) : ready[i] = x
      BY <3>1 DEF IInv, ReadyCoversQueues
    <3>3. turn <= i
      BY <1>6, <3>1, <3>2 DEF Servable
    <3>4. i # turn
      BY <2>2, <3>2 DEF k
    <3>5. i \in turn + 1 .. Len(ready)
      BY <1>2, <1>5, <3>2, <3>3, <3>4
    <3>6. i - turn \in 1 .. Len(rest) /\ rest[i - turn] = x
      BY <1>8, <3>2, <3>5
    <3> QED BY <1>1, <1>5, <1>7, <3>6
  <2> QED BY <2>1, <2>2
<1>13. PlansFitPath'
  BY <1>1, <1>5, <1>10 DEF IInv, PlansFitPath
<1> QED BY <1>11, <1>12, <1>13 DEF IInv

\* When no turn is servable no flow has datagrams, and every turn goes.
LEMMA PollDatagramEmptyIInv ==
  ASSUME IInv, PollDatagramEmpty
  PROVE  IInv'
<1>1. \A k \in DOMAIN flows : flows[k].buffer = <<>>
  BY DEF PollDatagramEmpty, Servable, IInv, ReadyCoversQueues
<1>2. ready' = <<>> /\ UNCHANGED <<path, plans, flows>>
  BY DEF PollDatagramEmpty
<1> QED BY <1>1, <1>2
        DEF IInv, Typed, PlansCurrent, FlowsTyped, ReadyCoversQueues, PlansFitPath

-----------------------------------------------------------------------------
(* Expiry and path changes                                                 *)

LEMMA OnTimeoutIInv ==
  ASSUME IInv, NEW idle \in SUBSET DOMAIN flows, OnTimeout(idle)
  PROVE  IInv'
<1>1. flows' = [x \in DOMAIN flows \ idle |-> flows[x]] /\ UNCHANGED <<path, plans, ready>>
  BY DEF OnTimeout, Restrict
<1>2. DOMAIN flows' = DOMAIN flows \ idle /\ \A x \in DOMAIN flows' : flows'[x] = flows[x]
  BY <1>1
<1>3. flows' \in [DOMAIN flows' -> FlowState]
  BY <1>1 DEF IInv, Typed, FlowsTyped
<1> QED BY <1>1, <1>2, <1>3
        DEF IInv, Typed, PlansCurrent, FlowsTyped, ReadyCoversQueues, PlansFitPath

LEMMA OnPathChangeIInv ==
  ASSUME IInv, NEW pt \in Paths, OnPathChange(pt)
  PROVE  IInv'
<1> DEFINE kept == {x \in DOMAIN flows : SurvivesChange(flows[x].plan, pt)}
<1>1. /\ path' = pt /\ plans' = PlansFor(pt) /\ ready' = ready
      /\ flows' = [k \in kept |->
                     [flows[k] EXCEPT !.plan = PlanAfterChange(flows[k].plan, pt)]]
  BY DEF OnPathChange
<1>2. pt \in PathSet
  BY DatapathAssumption DEF PathSet
<1>3. ASSUME NEW k \in kept
      PROVE  /\ flows'[k] \in FlowState /\ flows'[k].buffer = flows[k].buffer
             /\ Fits(flows'[k].plan, pt)
  <2>1. flows[k] \in FlowState /\ flows[k].plan \in FlowPlan /\ IsTerminated(flows[k].plan)
    BY DEF IInv, Typed, FlowsTyped, PlansFitPath, Fits, FlowState
  <2> DEFINE next == PlanAfterChange(flows[k].plan, pt)
  <2>2. next \in FlowPlan /\ Fits(next, pt)
    BY <1>2, <2>1, SurvivorFits
  <2>3. flows'[k] = [flows[k] EXCEPT !.plan = next]
    BY <1>1
  <2> HIDE DEF next
  <2> QED BY <2>1, <2>2, <2>3 DEF FlowState
<1>4. DOMAIN flows' = kept
  BY <1>1
<1>5. flows' \in [kept -> FlowState]
  <2>1. flows' = [k \in kept |-> flows'[k]]
    BY <1>1
  <2> QED BY <2>1, <1>3
<1>6. Typed'
  BY <1>1, <1>4, <1>5 DEF IInv, Typed, PlansCurrent, FlowsTyped
<1>7. ReadyCoversQueues'
  BY <1>1, <1>3, <1>4 DEF IInv, ReadyCoversQueues
<1>8. PlansFitPath'
  BY <1>1, <1>3, <1>4 DEF PlansFitPath
<1> QED BY <1>6, <1>7, <1>8 DEF IInv

-----------------------------------------------------------------------------
(* The invariant                                                           *)

LEMMA InitIInv == Init => IInv
<1> SUFFICES ASSUME Init PROVE IInv
  OBVIOUS
<1>1. DOMAIN flows = {} /\ flows \in [{} -> FlowState]
  BY DEF Init
<1>2. Typed
  BY <1>1 DEF Init, Typed, PlansCurrent, FlowsTyped
<1> QED BY <1>1, <1>2 DEF IInv, ReadyCoversQueues, PlansFitPath

LEMMA NextIInv == IInv /\ [Next]_vars => IInv'
<1> SUFFICES ASSUME IInv, [Next]_vars PROVE IInv'
  OBVIOUS
<1>1. CASE UNCHANGED vars
  BY <1>1, Unaffected DEF vars
<1>2. ASSUME NEW p \in Packets, NEW from \in Sides, OnPacket(p, from) PROVE IInv'
  BY <1>2, DispatchIInv, DatapathAssumption DEF OnPacket
<1>3. ASSUME NEW p \in Packets, NEW q \in Packets, OnFragment(p, q) PROVE IInv'
  BY <1>3, DispatchIInv, DatapathAssumption DEF OnFragment, Sides
<1>4. CASE Arrivals
  BY <1>2, <1>3, <1>4 DEF Arrivals, Sides
<1>5. CASE PollTransmit \/ PollTerminate \/ PollQuery
  BY <1>5, Unaffected DEF PollTransmit, PollTerminate, PollQuery
<1>6. CASE Drains
  BY <1>5, <1>6, PollDatagramIInv, PollDatagramEmptyIInv DEF Drains
<1>7. CASE Elsewhere
  BY <1>7, Unaffected DEF Elsewhere, AnswerDns, AbandonQuery, TakeElsewhere, DropElsewhere
<1>8. CASE Replies
  BY <1>8, Unaffected DEF Replies, DeliverDatagram
<1>9. CASE Windows
  BY <1>9, Unaffected DEF Windows, InspectAddress, Lapse
<1>10. CASE Expiries
  BY <1>10, OnTimeoutIInv DEF Expiries
<1>11. CASE RefillIcmp
  BY <1>11, Unaffected DEF RefillIcmp
<1>12. CASE PathChanges
  BY <1>12, OnPathChangeIInv DEF PathChanges
<1> QED BY <1>1, <1>4, <1>6, <1>7, <1>8, <1>9, <1>10, <1>11, <1>12 DEF Next

LEMMA Invariance == Spec => []IInv
  BY InitIInv, NextIInv, PTL DEF Spec

\* capture_datagram, poll_datagram, expiry and on_path_change together leave no
\* datagram queued without a turn, for any number of flows and any limits.
THEOREM NoDatagramStranded == Spec => []ReadyCoversQueues
<1>1. IInv => ReadyCoversQueues
  BY DEF IInv
<1> QED BY <1>1, Invariance, PTL

\* on_path_change leaves only flows whose plan the new path carries, for any
\* MTU, any policy and any sequence of paths.
THEOREM LivePlansFit == Spec => []PlansFitPath
<1>1. IInv => PlansFitPath
  BY DEF IInv
<1> QED BY <1>1, Invariance, PTL
==============================================================================
