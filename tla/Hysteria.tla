------------------------------- MODULE Hysteria -------------------------------
(* The datagram side of the Hysteria2 egress (egress/hysteria2.rs): one      *)
(* shared connection at a time, the hub that routes its datagrams to         *)
(* sessions, sessions that pair the two, and the reassembly of fragments.    *)
EXTENDS Naturals, FiniteSets

CONSTANTS
  Callers,      \* concurrent associate() calls
  Generations,  \* 1 .. the connections a run dials
  MaxSessions,  \* bound: sessions opened on a hub
  MaxPackets,   \* bound: packets the server sends
  MaxLength,    \* bound: units of payload in a packet
  FrameBudget,  \* units of payload one datagram carries
  MaxFragments, \* 255: the count is one octet
  PacketIds     \* 2^16: packet identifiers wrap there

ASSUME HysteriaAssumption ==
  /\ Generations \subseteq Nat \ {0}
  /\ MaxPackets \in Nat /\ MaxLength \in Nat /\ MaxFragments \in Nat
  /\ FrameBudget \in Nat \ {0} /\ PacketIds \in Nat \ {0}

VARIABLES
  link,      \* Live: [at |-> "down" | "opening" | "up", gen |-> connection]
  opening,   \* the dial in progress: "none", "dialing" or "published"
  carries,   \* the connection being dialled carries datagrams
  alive,     \* connections whose driver runs
  hub,       \* the hub in the shared cell: its connection, or 0
  routes,    \* session identifiers registered with each connection's hub
  nextSession, \* the next identifier of each hub
  calls,     \* what each associate() call holds
  routed,    \* the session's route is registered
  fragments, \* fragments of the server's packets still in flight
  packets,   \* packets the server has sent
  partial,   \* Defragmenter: the packet and fragments held
  delivered  \* the pieces of the payload last delivered

linkVars == <<link, opening, carries, alive, hub, routes, nextSession, calls>>
pieceVars == <<routed, fragments, packets, partial, delivered>>
hysteriaVars == <<linkVars, pieceVars>>

NoCall == [at |-> "idle", gen |-> 0, hub |-> 0, id |-> 0]
NoPartial == [packet |-> 0, count |-> 0, held |-> {}]

HysteriaInit ==
  /\ link = [at |-> "down", gen |-> 0] /\ opening = "none" /\ carries = FALSE
  /\ alive = {} /\ hub = 0
  /\ routes = [g \in Generations |-> {}] /\ nextSession = [g \in Generations |-> 1]
  /\ calls = [c \in Callers |-> NoCall]
  /\ routed = TRUE /\ fragments = {} /\ packets = 0 /\ partial = NoPartial /\ delivered = {}

\* Live::get: the connection that is up and alive, the dial in progress, or a new dial.
Get(c) ==
  /\ calls[c].at = "idle"
  /\ \/ /\ link.at = "up" /\ link.gen \in alive
        /\ calls' = [calls EXCEPT ![c].at = "connected", ![c].gen = link.gen]
        /\ UNCHANGED <<link, opening, carries>>
     \/ /\ link.at = "opening"
        /\ calls' = [calls EXCEPT ![c].at = "waiting", ![c].gen = link.gen]
        /\ UNCHANGED <<link, opening, carries>>
     \/ /\ ~(link.at = "up" /\ link.gen \in alive) /\ link.at # "opening"
        /\ link.gen + 1 \in Generations
        /\ link' = [at |-> "opening", gen |-> link.gen + 1] /\ opening' = "dialing"
        /\ carries' \in BOOLEAN
        /\ calls' = [calls EXCEPT ![c].at = "waiting", ![c].gen = link.gen + 1]
  /\ UNCHANGED <<alive, hub, routes, nextSession, pieceVars>>

\* Handshake, authentication, driver, claim of the datagrams, then the hub's cell.
Publish ==
  /\ opening = "dialing"
  /\ alive' = alive \union {link.gen}
  /\ hub' = IF carries THEN link.gen ELSE 0
  /\ opening' = "published"
  /\ UNCHANGED <<link, carries, routes, nextSession, calls, pieceVars>>

\* The dial task reports: the connection is up and its waiters hold it.
Report ==
  /\ opening = "published"
  /\ link' = [link EXCEPT !.at = "up"] /\ opening' = "none"
  /\ calls' = [c \in Callers |-> IF calls[c].at = "waiting" THEN [calls[c] EXCEPT !.at = "connected"]
                                 ELSE calls[c]]
  /\ UNCHANGED <<carries, alive, hub, routes, nextSession, pieceVars>>

\* A failed handshake, refused authentication or the dial budget fails the waiters.
DialFails ==
  /\ opening = "dialing"
  /\ link' = [link EXCEPT !.at = "down"] /\ opening' = "none"
  /\ calls' = [c \in Callers |-> IF calls[c].at = "waiting" THEN NoCall ELSE calls[c]]
  /\ UNCHANGED <<carries, alive, hub, routes, nextSession, pieceVars>>

ConnectionDies(g) ==
  /\ g \in alive /\ alive' = alive \ {g}
  /\ UNCHANGED <<link, opening, carries, hub, routes, nextSession, calls, pieceVars>>

\* Sessions::open: the next identifier and a route under it.
OpenRoute(h) ==
  /\ routes' = [routes EXCEPT ![h] = @ \union {nextSession[h]}]
  /\ nextSession' = [nextSession EXCEPT ![h] = @ + 1]

\* associate() after its connection: whichever hub the cell holds by now.
Associate(c) ==
  /\ calls[c].at = "connected" /\ (hub # 0 => nextSession[hub] <= MaxSessions)
  /\ IF hub = 0
       THEN calls' = [calls EXCEPT ![c] = NoCall] /\ UNCHANGED <<routes, nextSession>>
       ELSE /\ calls' = [calls EXCEPT ![c].at = "session", ![c].hub = hub, ![c].id = nextSession[hub]]
            /\ OpenRoute(hub)
  /\ UNCHANGED <<link, opening, carries, alive, hub, pieceVars>>

\* Dropping the session, both halves, unregisters its route.
CloseSession(c) ==
  /\ calls[c].at = "session"
  /\ routes' = [routes EXCEPT ![calls[c].hub] = @ \ {calls[c].id}]
  /\ calls' = [calls EXCEPT ![c] = NoCall]
  /\ UNCHANGED <<link, opening, carries, alive, hub, nextSession, pieceVars>>

\* fragment(): as many messages as the payload needs, one for none, up to the octet.
FragmentCount(n) == IF n = 0 THEN 1 ELSE (n + FrameBudget - 1) \div FrameBudget
Fragment(packet, n) ==
  IF FragmentCount(n) > MaxFragments THEN {}
  ELSE {[packet |-> packet, piece |-> i, count |-> FragmentCount(n), empty |-> n = 0] :
          i \in 0..(FragmentCount(n) - 1)}

\* UdpMessage::read refuses a message without a payload, the one for none among them.
HasPayload(f) == ~f.empty

\* The server fragments as the client does; datagrams may be lost and come in any order.
ServerSends ==
  /\ packets < MaxPackets
  /\ packets' = packets + 1
  /\ \E n \in 0..MaxLength : fragments' = fragments \union Fragment(packets + 1, n)
  /\ UNCHANGED <<linkVars, routed, partial, delivered>>

LoseFragment(f) ==
  /\ fragments' = fragments \ {f}
  /\ UNCHANGED <<linkVars, routed, packets, partial, delivered>>

\* Keeping what is held when the packet changes mixes two packets.
PushMixing(f) ==
  LET held == partial.held \union {f} IN
  IF {h.piece : h \in held} = 0..(f.count - 1)
    THEN [whole |-> held, partial |-> NoPartial]
    ELSE [whole |-> {}, partial |-> [packet |-> f.packet % PacketIds, count |-> f.count, held |-> held]]

\* Defragmenter::push: an unfragmented packet passes; another packet or count replaces
\* the partial one.
Push(f) ==
  LET same == partial.count = f.count /\ partial.packet = f.packet % PacketIds
      held == {h \in (IF same THEN partial.held ELSE {}) : h.piece # f.piece} \union {f} IN
  IF f.count = 1 THEN [whole |-> {f}, partial |-> partial]
  ELSE IF Cardinality(held) = f.count
    THEN [whole |-> held, partial |-> [partial EXCEPT !.packet = f.packet % PacketIds,
                                                      !.count = 0, !.held = {}]]
    ELSE [whole |-> {}, partial |-> [packet |-> f.packet % PacketIds, count |-> f.count, held |-> held]]

\* serve(): what cannot be read is passed over; a session that has closed loses its
\* partial packet; a whole one goes to the route, which may be full.
Serve(f) ==
  /\ fragments' = fragments \ {f}
  /\ IF ~HasPayload(f) THEN partial' = partial /\ delivered' = {}
     ELSE IF routed THEN /\ partial' = Push(f).partial
                         /\ delivered' \in {Push(f).whole, {}}
     ELSE partial' = NoPartial /\ delivered' = {}
  /\ UNCHANGED <<linkVars, routed, packets>>

RouteCloses ==
  /\ routed /\ routed' = FALSE
  /\ UNCHANGED <<linkVars, fragments, packets, partial, delivered>>

SessionNext ==
  \/ \E c \in Callers : Get(c) \/ Associate(c) \/ CloseSession(c)
  \/ Publish \/ Report \/ DialFails \/ \E g \in Generations : ConnectionDies(g)

PieceNext ==
  \/ ServerSends \/ RouteCloses \/ \E f \in fragments : LoseFragment(f) \/ Serve(f)

\* A session never registers with the hub of an older connection than its own, its
\* identifier is its own there, and a hub's routes are those of its sessions
\* (connection() starts routing before it hands the connection out; Sessions).
SessionsRouted ==
  LET open == {c \in Callers : calls[c].at = "session"} IN
  /\ \A c \in open : calls[c].gen <= calls[c].hub
  /\ \A g \in Generations : routes[g] = {calls[c].id : c \in {d \in open : calls[d].hub = g}}
  /\ \A c, d \in open : c # d => <<calls[c].hub, calls[c].id>> # <<calls[d].hub, calls[d].id>>

\* A delivered payload is every piece of one packet and nothing else, however they were
\* lost or reordered, while packet identifiers have not wrapped (Defragmenter).
PacketsNotMixed ==
  packets < PacketIds => \A f \in delivered :
    delivered = {[f EXCEPT !.piece = i] : i \in 0..(f.count - 1)}

\* Datagrams reach the session they are for, and whole: a hub routes exactly
\* the sessions that registered with it, and no packet is put together from
\* the pieces of two.
DatagramsRouted == SessionsRouted /\ PacketsNotMixed
=============================================================================
