-------------------------------- MODULE Reactor --------------------------------
(***************************************************************************)
(* The reactor task of src/host/shell.rs: one select branch, the egress    *)
(* tick, the drain of what the datapath and the egress produced, and the   *)
(* report of counters through a lossy telemetry channel.  The datapath and *)
(* the egress are external here: they produce any output an input of that  *)
(* kind can have.  Every await of the drain is a step of its own, so that  *)
(* the host's reads and the shutdown token interleave with it.             *)
(***************************************************************************)
EXTENDS Naturals, Sequences, FiniteSets

CONSTANTS
  TelemetryDepth,   \* CHANNEL_DEPTH of the telemetry channel
  MaxCount          \* bound on a counter and on the losses held between reports

ASSUME ReactorAssumption ==
  TelemetryDepth \in Nat \ {0} /\ MaxCount \in Nat \ {0}

VARIABLES
  consumers,  \* the queues the session has a task for; fixed
  at,         \* the await point, "select" between iterations
  emits,      \* what the egress produced: "net" or "tun"
  transmits,  \* what the core produced: "device" or "egress"
  outputs,    \* what the core queued for the other tasks
  passes,     \* passes of the running drain over emits
  counters,   \* Counters
  sink,       \* the telemetry channel
  lost,       \* TelemetrySink.lost
  stop,       \* the shutdown token
  stopping,   \* the loop was left; this is the final drain
  owed        \* history: observations made and not received, and for each
              \* queue what was put in it and neither handed on nor reported

reactorVars == <<consumers, at, emits, transmits, outputs, passes, counters, sink, lost, stop, stopping, owed>>

\* The queues drained without waiting; a refusal is counted under its queue,
\* every other refused packet and transient error under "errors".
Queues == {"queries", "datagrams", "terminate"}
Kinds == Queues \union {"errors"}

Zero == [k \in Kinds |-> 0]

\* A resolver always; a relay and a terminator where the egress needs them.
ReactorInit ==
  /\ consumers \in {Queues, {"queries"}, {"queries", "terminate"}}
  /\ at = "select" /\ stop = FALSE /\ stopping = FALSE
  /\ emits = <<>> /\ transmits = <<>> /\ sink = <<>>
  /\ outputs = [q \in Queues |-> 0]
  /\ counters = Zero
  /\ passes = 0 /\ lost = 0
  /\ owed = [seen |-> 0, queued |-> [q \in Queues |-> 0]]

-----------------------------------------------------------------------------
(* Telemetry: an observation is a count of lost ones, or 0 *)

Observation == 0
Worth(observation) == IF observation = Observation THEN 1 ELSE observation

\* TelemetrySink::emit of one observation, as [sink, lost].
Emit(state) ==
  IF Len(state.sink) >= TelemetryDepth THEN [state EXCEPT !.lost = @ + 1]
  ELSE LET offered == Append(state.sink, Observation)
       IN IF state.lost # 0 /\ Len(offered) < TelemetryDepth
          THEN [sink |-> Append(offered, state.lost), lost |-> 0]
          ELSE [state EXCEPT !.sink = offered]

Sink == [sink |-> sink, lost |-> lost]
Reports(n) ==
  LET after[i \in 0..n] == IF i = 0 THEN Sink ELSE Emit(after[i - 1]) IN after[n]

\* Counters::flush: one observation per non-zero counter; each is reset,
\* whether or not the channel took it.
Due == {k \in Kinds : counters[k] # 0}
Flush ==
  /\ sink' = Reports(Cardinality(Due)).sink
  /\ lost' = Reports(Cardinality(Due)).lost
  /\ counters' = Zero
  /\ owed' = [seen |-> owed.seen + Cardinality(Due),
              queued |-> [q \in Queues |-> owed.queued[q] - counters[q]]]

Observe ==
  /\ sink' = Emit(Sink).sink /\ lost' = Emit(Sink).lost
  /\ owed' = [owed EXCEPT !.seen = @ + 1]

Count(k) == counters' = [counters EXCEPT ![k] = @ + 1]

\* The host takes an observation.
Receive ==
  /\ sink # <<>>
  /\ sink' = Tail(sink)
  /\ owed' = [owed EXCEPT !.seen = @ - Worth(Head(sink))]
  /\ UNCHANGED <<at, emits, transmits, outputs, passes, counters, lost, stop, stopping>>

-----------------------------------------------------------------------------
(* One iteration: a branch of the select, then the tick *)

Produce(q) ==
  /\ outputs' = [outputs EXCEPT ![q] = @ + 1]
  /\ owed' = [owed EXCEPT !.queued[q] = @ + 1]

Selected ==
  /\ at = "select" /\ ~stopping
  /\ lost < MaxCount /\ \A k \in Kinds : counters[k] < MaxCount
  /\ UNCHANGED <<passes, stop, stopping>>

Queued == UNCHANGED <<emits, counters, sink, lost>>

\* A packet from the client: forwarded, answered, queued, or refused.
FromDevice ==
  /\ Selected /\ at' = "tick"
  /\ \/ /\ \E to \in {"device", "egress"} : transmits' = Append(transmits, to)
        /\ Queued /\ UNCHANGED <<outputs, owed>>
     \/ /\ \E q \in Queues : Produce(q)
        /\ Queued /\ UNCHANGED transmits
     \/ /\ Count("errors")
        /\ UNCHANGED <<emits, transmits, outputs, sink, lost, owed>>

\* A datagram from the egress peer, or the peer's socket refusing for a moment.
FromNetwork ==
  /\ Selected /\ at' = "tick"
  /\ \/ /\ \E e \in {"net", "tun"} : emits' = Append(emits, e)
        /\ UNCHANGED counters
     \/ Count("errors") /\ UNCHANGED emits
  /\ UNCHANGED <<transmits, outputs, sink, lost, owed>>

\* The relay's datagram: buffered for the client, dropped, or refused.
FromRelay ==
  /\ "datagrams" \in consumers /\ Selected /\ at' = "tick"
  /\ \/ transmits' = Append(transmits, "device") /\ UNCHANGED <<counters, owed>>
     \/ Count("errors") /\ UNCHANGED <<transmits, owed>>
     \/ /\ Count("datagrams") /\ UNCHANGED transmits
        /\ owed' = [owed EXCEPT !.queued.datagrams = @ + 1]
  /\ UNCHANGED <<emits, outputs, sink, lost>>

\* The resolver's answer: addressed to the client, and observed.
FromResolver ==
  /\ Selected /\ at' = "tick"
  /\ \/ /\ transmits' = Append(transmits, "device") /\ UNCHANGED counters
     \/ /\ Count("errors") /\ UNCHANGED transmits
  /\ Observe
  /\ UNCHANGED <<emits, outputs>>

\* A policy reload is observed, a path change applied; a timer does neither.
FromHost ==
  /\ Selected /\ at' = "tick"
  /\ \/ Observe
     \/ UNCHANGED <<sink, lost, owed>>
  /\ UNCHANGED <<emits, transmits, outputs, counters>>

\* A segment of the terminator goes to the device before anything else.
FromTermination ==
  /\ "terminate" \in consumers /\ Selected /\ at' = "reply"
  /\ UNCHANGED <<emits, transmits, outputs, counters, sink, lost, owed>>

\* A device or network error that is not transient ends the task at once.
Broken ==
  /\ at = "select" /\ ~stopping
  /\ at' = "failed"
  /\ UNCHANGED <<emits, transmits, outputs, passes, counters, sink, lost, stop, stopping, owed>>

\* to_device and to_network: taken, counted when refused for the moment or
\* not taken within SEND_BUDGET, or the end of the task.
Send(next) ==
  \/ /\ at' = next /\ UNCHANGED counters
  \/ /\ at' = next /\ Count("errors")
  \/ /\ at' = "failed" /\ UNCHANGED counters

SendReply ==
  /\ at = "reply"
  /\ Send("tick")
  /\ UNCHANGED <<emits, transmits, outputs, passes, sink, lost, stop, stopping, owed>>

\* The egress tick when it is due; it may fail.
Tick ==
  /\ at = "tick"
  /\ at' = "emits" /\ passes' = 1
  /\ \/ UNCHANGED <<emits, counters>>
     \/ emits' = Append(emits, "net") /\ UNCHANGED counters
     \/ Count("errors") /\ UNCHANGED emits
  /\ UNCHANGED <<transmits, outputs, sink, lost, stop, stopping, owed>>

\* The token, the control channel's Shutdown, or its closing.
Break ==
  /\ at = "select" /\ ~stopping /\ stop
  /\ stopping' = TRUE /\ at' = "emits" /\ passes' = 1
  /\ UNCHANGED <<consumers, emits, transmits, outputs, counters, sink, lost, stop, owed>>

-----------------------------------------------------------------------------
(* drain *)

DrainNetwork ==
  /\ at = "emits" /\ emits # <<>> /\ Head(emits) = "net"
  /\ emits' = Tail(emits)
  /\ Send("emits")
  /\ UNCHANGED <<transmits, outputs, passes, sink, lost, stop, stopping, owed>>

\* on_egress_owned: for the client, an ICMP error back, or refused.
DrainTunnel ==
  /\ at = "emits" /\ emits # <<>> /\ Head(emits) = "tun"
  /\ emits' = Tail(emits)
  /\ \/ /\ \E to \in {"device", "egress"} : transmits' = Append(transmits, to)
        /\ UNCHANGED counters
     \/ /\ Count("errors") /\ UNCHANGED transmits
  /\ UNCHANGED <<at, outputs, passes, sink, lost, stop, stopping, owed>>

DrainDevice ==
  /\ at = "transmits" /\ transmits # <<>> /\ Head(transmits) = "device"
  /\ transmits' = Tail(transmits)
  /\ Send("transmits")
  /\ UNCHANGED <<emits, outputs, passes, sink, lost, stop, stopping, owed>>

\* handle_tun_packet: datagrams for the peer, or a refusal.
DrainEgress ==
  /\ at = "transmits" /\ transmits # <<>> /\ Head(transmits) = "egress"
  /\ transmits' = Tail(transmits)
  /\ \/ emits' = Append(emits, "net") /\ UNCHANGED counters
     \/ Count("errors") /\ UNCHANGED emits
  /\ UNCHANGED <<at, outputs, passes, sink, lost, stop, stopping, owed>>

\* The emits, then the transmits, then again while the egress made more.
Turn ==
  /\ \/ at = "emits" /\ emits = <<>> /\ at' = "transmits" /\ UNCHANGED passes
     \/ at = "transmits" /\ transmits = <<>> /\ emits # <<>> /\ at' = "emits" /\ passes' = passes + 1
     \/ at = "transmits" /\ transmits = <<>> /\ emits = <<>> /\ at' = "offers" /\ UNCHANGED passes
  /\ UNCHANGED <<emits, transmits, outputs, counters, sink, lost, stop, stopping, owed>>

\* Mutant: what an absent consumer cannot take is dropped uncounted.
OfferUncounted(q) ==
  /\ at = "offers" /\ outputs[q] > 0
  /\ outputs' = [outputs EXCEPT ![q] = @ - 1]
  /\ \/ /\ q \in consumers
        /\ owed' = [owed EXCEPT !.queued[q] = @ - 1]
        /\ UNCHANGED counters
     \/ /\ q \in consumers /\ Count(q) /\ UNCHANGED owed
     \/ /\ q \notin consumers /\ UNCHANGED <<counters, owed>>
  /\ UNCHANGED <<at, emits, transmits, passes, sink, lost, stop, stopping>>

\* try_send, the refusal counted; an absent consumer takes nothing.
Offer(q) ==
  /\ at = "offers" /\ outputs[q] > 0
  /\ outputs' = [outputs EXCEPT ![q] = @ - 1]
  /\ \/ /\ q \in consumers
        /\ owed' = [owed EXCEPT !.queued[q] = @ - 1]
        /\ UNCHANGED counters
     \/ /\ Count(q) /\ UNCHANGED owed
  /\ UNCHANGED <<at, emits, transmits, passes, sink, lost, stop, stopping>>

\* The core's events last: counted, or observed one by one.
DrainEvents ==
  /\ at = "offers" /\ \A q \in Queues : outputs[q] = 0
  /\ at' = "flush"
  /\ \/ UNCHANGED <<counters, sink, lost, owed>>
     \/ Count("errors") /\ UNCHANGED <<sink, lost, owed>>
     \/ Observe /\ UNCHANGED counters
  /\ UNCHANGED <<emits, transmits, outputs, passes, stop, stopping>>

\* The report when its interval is over, and always before the end.
Finish ==
  /\ at = "flush"
  /\ \/ Flush
     \/ ~stopping /\ UNCHANGED <<counters, sink, lost, owed>>
  /\ at' = IF stopping THEN "ended" ELSE "select"
  /\ passes' = 0
  /\ UNCHANGED <<emits, transmits, outputs, stop, stopping>>

Stop ==
  /\ ~stop
  /\ stop' = TRUE
  /\ UNCHANGED <<at, emits, transmits, outputs, passes, counters, sink, lost, stopping, owed>>

Iterate ==
  /\ UNCHANGED consumers
  /\ \/ SendReply \/ Tick \/ DrainNetwork \/ DrainTunnel \/ DrainDevice \/ DrainEgress \/ Turn
     \/ (\E q \in Queues : Offer(q)) \/ DrainEvents \/ Finish

ReactorNext ==
  \/ Iterate \/ Break
  \/ /\ UNCHANGED consumers
     /\ \/ FromDevice \/ FromNetwork \/ FromRelay \/ FromResolver \/ FromHost \/ FromTermination
        \/ Broken \/ Stop \/ Receive

\* Every await of an iteration is bounded, and the select picks among the
\* ready branches at random, so a cancelled token is not passed over for ever.
ReactorFairness == WF_reactorVars(Iterate) /\ SF_reactorVars(Break)

-----------------------------------------------------------------------------
(* Properties *)

Total(s) ==
  LET first[i \in 0..Len(s)] == IF i = 0 THEN 0 ELSE first[i - 1] + Worth(s[i])
  IN first[Len(s)]

\* Nothing is lost silently.  Every observation the reactor made was
\* received, is in the channel, or is part of a loss the sink has reported or
\* still holds to report; every query, datagram and segment the core queued
\* was handed on, or is in a counter that was, or will be, reported.
Accounted ==
  /\ owed.seen = Total(sink) + lost
  /\ \A q \in Queues : owed.queued[q] = outputs[q] + counters[q]

\* "Cross-fed output reaches a fixpoint in at most two passes."
TwoPasses == passes <= 2

\* Draining the core settles in two passes, and drops nothing unaccounted.
DrainsAccounted == Accounted /\ TwoPasses

\* Once the token is cancelled the task ends, whatever the device does with
\* the packets it is handed.
ReactorEnds == stop ~> (at \in {"ended", "failed"})
=============================================================================
