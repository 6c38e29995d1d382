-------------------------------- MODULE Relay --------------------------------
(* The datagram relay of flow egresses (l4/relay.rs): one task hands each    *)
(* client's datagrams to that client's association, one more task each, up   *)
(* to a ceiling; a datagram that finds no room is a counted drop.            *)
EXTENDS Naturals, FiniteSets

CONSTANTS
  Clients,          \* client endpoints
  Slots,            \* association tasks the model can tell apart
  MaxAssociations,  \* RelayLimits.max_associations
  AssociationDepth, \* ASSOCIATION_DEPTH
  MaxOffered        \* bound: datagrams the reactor offers

ASSUME RelayAssumption == IsFiniteSet(Slots) /\ MaxAssociations \in Nat

VARIABLES
  offered,      \* datagrams offered so far, the bound of the model
  relay,        \* "running", "waiting" for the tracker, "ended"
  relayStop,    \* the shutdown token
  associations, \* [Slots -> task]
  senders,      \* live: the slot each mapped client's sender reaches
  tally         \* RelayCounts, with what the code leaves uncounted: "sent" and "gone"

relayVars == <<offered, relay, relayStop, associations, senders, tally>>

Free == [client |-> "nobody", phase |-> "free", queue |-> 0]
Fates == {"refused", "failed", "dropped", "sent", "gone"}

RelayInit ==
  /\ offered = 0 /\ relay = "running" /\ relayStop = FALSE
  /\ associations = [s \in Slots |-> Free]
  /\ senders = [c \in {} |-> 0]
  /\ tally = [f \in Fates |-> 0]

\* A task's receiver goes when it returns.
Closed(s) == associations[s].phase = "free"
Serving(c) == {s \in Slots : associations[s].client = c /\ ~Closed(s)}

ReapedOwn(c) == [d \in {d \in DOMAIN senders : ~(d = c /\ Closed(senders[d]))} |-> senders[d]]

\* An ended association of the same client goes first; at the ceiling those of
\* every client do.
Reaped(c) ==
  LET own == {d \in DOMAIN senders : ~(d = c /\ Closed(senders[d]))}
      full == c \notin own /\ Cardinality(own) >= MaxAssociations
      kept == IF full THEN {d \in own : ~Closed(senders[d])} ELSE own
  IN [d \in kept |-> senders[d]]

Count(f, n) == tally' = [tally EXCEPT ![f] = @ + n]

\* The loop body for one datagram of a client.
Forward(c) ==
  LET kept == Reaped(c) IN
  /\ relay = "running" /\ offered < MaxOffered
  /\ offered' = offered + 1
  /\ UNCHANGED <<relay, relayStop>>
  /\ \/ /\ c \notin DOMAIN kept /\ Cardinality(DOMAIN kept) >= MaxAssociations
        /\ senders' = kept /\ Count("refused", 1) /\ UNCHANGED associations
     \/ /\ c \notin DOMAIN kept /\ Cardinality(DOMAIN kept) < MaxAssociations
        /\ \E s \in {s \in Slots : Closed(s) /\ \A d \in DOMAIN kept : kept[d] # s} :
             /\ senders' = [d \in DOMAIN kept \union {c} |-> IF d = c THEN s ELSE kept[d]]
             /\ associations' = [associations EXCEPT ![s] =
                  [client |-> c, phase |-> "dialing", queue |-> 1]]
        /\ UNCHANGED tally
     \/ /\ c \in DOMAIN kept
        /\ senders' = kept
        /\ LET s == kept[c] IN
           IF Closed(s) \/ associations[s].queue = AssociationDepth
             THEN Count("dropped", 1) /\ UNCHANGED associations
             ELSE associations' = [associations EXCEPT ![s].queue = @ + 1] /\ UNCHANGED tally

\* The associate call settles within the dial budget; a failure drops the queue, counted.
Associated(s) ==
  /\ associations[s].phase = "dialing"
  /\ UNCHANGED <<offered, relay, relayStop, senders>>
  /\ \/ associations' = [associations EXCEPT ![s].phase = "serving"] /\ UNCHANGED tally
     \/ /\ associations' = [associations EXCEPT ![s] = Free]
        /\ tally' = [tally EXCEPT !["failed"] = @ + 1, !["dropped"] = @ + associations[s].queue]

SendTo(s) ==
  /\ associations[s].phase = "serving" /\ associations[s].queue > 0
  /\ associations' = [associations EXCEPT ![s].queue = @ - 1]
  /\ \E f \in {"sent", "dropped"} : Count(f, 1)
  /\ UNCHANGED <<offered, relay, relayStop, senders>>

\* A reply without an address, without a pool slice, without room, or too large is
\* one more drop; the association stays.
ReplyFails(s) ==
  /\ associations[s].phase = "serving" /\ offered < MaxOffered
  /\ offered' = offered + 1 /\ Count("dropped", 1)
  /\ UNCHANGED <<relay, relayStop, associations, senders>>

\* Shutdown, a failed source or the idle timer: what is queued goes uncounted.
\* The select polls its arms in random order, so the queue may hold datagrams.
AssociationStops(s) ==
  /\ associations[s].phase = "serving"
  /\ associations' = [associations EXCEPT ![s] = Free]
  /\ Count("gone", associations[s].queue)
  /\ UNCHANGED <<offered, relay, relayStop, senders>>

CancelRelay ==
  /\ ~relayStop /\ relayStop' = TRUE
  /\ UNCHANGED <<offered, relay, associations, senders, tally>>

\* Cancelled, or the reactor's sender is gone: report, cancel every task, wait.
StopRelay ==
  /\ relay = "running"
  /\ relay' = "waiting" /\ relayStop' = TRUE
  /\ UNCHANGED <<offered, associations, senders, tally>>

RelayEnds ==
  /\ relay = "waiting" /\ \A s \in Slots : Closed(s)
  /\ relay' = "ended" /\ senders' = [c \in {} |-> 0]
  /\ UNCHANGED <<offered, relayStop, associations, tally>>

RelayOver == relay = "ended" /\ UNCHANGED relayVars

RelayNext ==
  \/ \E c \in Clients : Forward(c)
  \/ \E s \in Slots : Associated(s) \/ SendTo(s) \/ ReplyFails(s) \/ AssociationStops(s)
  \/ CancelRelay \/ StopRelay \/ RelayEnds \/ RelayOver

RelayFairness ==
  /\ WF_relayVars(relayStop /\ StopRelay)
  /\ WF_relayVars(RelayEnds)
  /\ \A s \in Slots : WF_relayVars(Associated(s)) /\ WF_relayVars(relayStop /\ AssociationStops(s))

\* An association is refused only while the ceiling's worth of others run, and no
\* more than that ever run, one for a client: ended ones stay mapped until their
\* own client or the ceiling reaps them (run_relay, the two reaping steps).
AdmissionExact ==
  [][/\ \A c \in Clients : Cardinality(Serving(c)') <= 1
     /\ Cardinality({s \in Slots : ~Closed(s)}') <= MaxAssociations
     /\ tally'["refused"] > tally["refused"] =>
          Cardinality({s \in Slots : ~Closed(s)}) >= MaxAssociations]_relayVars

\* Cancellation ends the relay and every association task with it, whatever the
\* proxies do within their dial budget.
RelayStops == relayStop ~> relay = "ended" /\ \A s \in Slots : Closed(s)
=============================================================================
