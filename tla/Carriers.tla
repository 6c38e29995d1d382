------------------------------- MODULE Carriers -------------------------------
(* The packet egresses behind PacketEgress (egress/mod.rs, masque.rs,        *)
(* origin.rs): WireGuard over GotaTun, MASQUE CONNECT-IP over quiche, and    *)
(* the placeholder of a flow-only session. A call appends emissions, each in *)
(* a slice of the shared pool, and may fail part way.                        *)
EXTENDS Naturals, FiniteSets

CONSTANTS
  Slices,    \* slices of the pool
  MaxQueued  \* bound: packets waiting inside GotaTun or quiche

ASSUME CarriersAssumption == Slices \in Nat /\ MaxQueued \in Nat

VARIABLES
  carrier,   \* "wireguard", "masque" or "none"
  session,   \* external: GotaTun's session, or quiche's connection
  state,     \* MASQUE's TunnelState
  request,   \* MASQUE's HTTP/3 layer exists and CONNECT was sent
  sending,   \* external: packets the library has to send
  received,  \* external: datagrams of our flow quiche holds
  slices,    \* free slices
  result,    \* what the last call returned
  emitted,   \* emissions of the last call, by kind
  gone       \* outgoing packets taken from the library and not emitted, by the last call

carrierVars == <<carrier, session, state, request, sending, received, slices, result, emitted, gone>>

\* assemble(): a packet egress, or the placeholder beside a flow egress.
CarriersInit ==
  /\ carrier \in {"wireguard", "masque", "none"}
  /\ session = "none" /\ state = "connecting" /\ request = FALSE
  /\ sending = 0 /\ received = 0 /\ slices = Slices
  /\ result = "ok" /\ emitted = {} /\ gone = 0

Lesser(a, b) == IF a < b THEN a ELSE b

Return(value, kinds, lost, left) ==
  result' = value /\ emitted' = kinds /\ gone' = lost /\ slices' = left

\* network_emit of one packet: a slice, or PoolExhausted and the packet is gone.
Emit(kind) ==
  IF slices > 0 THEN Return("ok", {kind}, 0, slices - 1) ELSE Return("exhausted", {}, 1, 0)

\* flush_queue: the first packet without a slice ends the drain and the rest go with it.
FlushQueueSilently(kinds, left) ==
  /\ sending' = 0
  /\ Return("ok", kinds \union (IF sending > 0 /\ left > 0 THEN {"data"} ELSE {}),
            sending - Lesser(sending, left), left - Lesser(sending, left))

FlushQueue(kinds, left) ==
  /\ sending' = 0
  /\ Return(IF sending > left THEN "exhausted" ELSE "ok",
            kinds \union (IF sending > 0 /\ left > 0 THEN {"data"} ELSE {}),
            sending - Lesser(sending, left), left - Lesser(sending, left))

\* WireGuard: a packet without a session waits in GotaTun and starts a handshake.
WgTunPacket ==
  /\ carrier = "wireguard"
  /\ CASE session = "up" -> Emit("data") /\ UNCHANGED <<session, sending>>
       [] session = "none" -> Emit("init") /\ session' = "handshaking"
                              /\ sending' = Lesser(sending + 1, MaxQueued)
       [] session = "handshaking" -> Return("ok", {}, 0, slices) /\ UNCHANGED session
                                     /\ sending' = Lesser(sending + 1, MaxQueued)
  /\ UNCHANGED <<carrier, state, request, received>>

\* The rate limiter's cookie, a refused packet, the handshake's end, data or a keepalive.
WgNetworkPacket ==
  /\ carrier = "wireguard"
  /\ \/ Emit("cookie") /\ UNCHANGED <<session, sending>>
     \/ Return("malformed", {}, 0, slices) /\ UNCHANGED <<session, sending>>
     \/ session = "handshaking" /\ session' = "up" /\ FlushQueue({}, slices)
     \/ /\ session = "up" /\ UNCHANGED session
        /\ IF slices = 0 THEN Emit("packet") /\ UNCHANGED sending
                         ELSE FlushQueue({"packet"}, slices - 1)
     \/ session = "up" /\ UNCHANGED session /\ FlushQueue({}, slices)
  /\ UNCHANGED <<carrier, state, request, received>>

\* Timers: a handshake again, an expired session, or the queue.
WgTick ==
  /\ carrier = "wireguard"
  /\ \/ session = "handshaking" /\ Emit("init") /\ UNCHANGED <<session, sending>>
     \/ session' = "none" /\ sending' = 0 /\ Return("expired", {}, 0, slices)
     \/ session = "up" /\ UNCHANGED session /\ FlushQueue({}, slices)
  /\ UNCHANGED <<carrier, state, request, received>>

\* drain_send: quiche wrote the packet before the pool refused it.
DrainSend(waiting, kinds, left) ==
  /\ sending' = IF waiting > left THEN waiting - left - 1 ELSE 0
  /\ Return(IF waiting > left THEN "exhausted" ELSE "ok",
            kinds \union (IF waiting > 0 /\ left > 0 THEN {"quic"} ELSE {}),
            IF waiting > left THEN 1 ELSE 0, left - Lesser(waiting, left))

\* A client packet that quiche can take travels in an established tunnel; none is queued
\* before that.
MasqueTunPacket ==
  /\ carrier = "masque"
  /\ \E fits \in {0, 1} :
       DrainSend(IF state = "established" THEN Lesser(sending + fits, MaxQueued) ELSE sending, {}, slices)
  /\ UNCHANGED <<carrier, session, state, request, received>>

\* poll_h3: headers settle a pending request and end any other tunnel; the end of the
\* stream and an HTTP/3 error close it; capsules are read and ignored.
AfterEvent(at, event) ==
  CASE event = "2xx" -> IF at = "requested" THEN "established" ELSE "closed"
    [] event \in {"other status", "no status", "finished", "error"} -> "closed"
    [] event \in {"none", "data", "goaway"} -> at

Events == {"none", "2xx", "other status", "no status", "finished", "error", "data", "goaway"}

\* advance(), then drain_send: CONNECT once the handshake is done, one event, and the
\* received datagrams, the one without a slice gone and the rest left for later.
Advance(event) ==
  LET asks == session = "up" /\ ~request
      at == AfterEvent(IF asks THEN "requested" ELSE state, event)
      taken == IF session = "up" /\ at = "established" THEN Lesser(received, slices) ELSE 0
      drop == IF session = "up" /\ at = "established" /\ received > slices THEN 1 ELSE 0 IN
  /\ event # "none" => request /\ session = "up"
  /\ state' = CASE session = "closed" -> "closed"
                [] session = "none" -> state
                [] session = "up" -> at
  /\ request' = (request \/ asks)
  /\ received' = received - taken - drop
  /\ DrainSend(IF asks THEN Lesser(sending + 1, MaxQueued) ELSE sending,
               IF taken > 0 THEN {"packet"} ELSE {}, slices - taken)
  /\ UNCHANGED <<carrier, session>>

MasqueNetworkPacket ==
  /\ carrier = "masque"
  /\ \/ /\ Return("malformed", {}, 0, slices)
        /\ UNCHANGED <<carrier, session, state, request, sending, received>>
     \/ \E event \in Events : Advance(event)

MasqueTick == carrier = "masque" /\ Advance("none")

\* External: quiche's handshake completes, frames wait, datagrams come, it closes.
QuicProgress ==
  /\ carrier = "masque"
  /\ \/ session = "none" /\ session' = "up" /\ UNCHANGED <<sending, received>>
     \/ session \in {"none", "up"} /\ session' = "closed" /\ UNCHANGED <<sending, received>>
     \/ sending < MaxQueued /\ sending' = sending + 1 /\ UNCHANGED <<session, received>>
     \/ session = "up" /\ received < MaxQueued /\ received' = received + 1 /\ UNCHANGED <<session, sending>>
  /\ Return("ok", {}, 0, slices)
  /\ UNCHANGED <<carrier, state, request>>

\* A flow-only session carries no packets.
NoPacket ==
  /\ carrier = "none" /\ Return("malformed", {}, 0, slices)
  /\ UNCHANGED <<carrier, session, state, request, sending, received>>

\* The reactor sends what was emitted and the slices come back.
Reclaim ==
  /\ slices < Slices /\ Return("ok", {}, 0, slices + 1)
  /\ UNCHANGED <<carrier, session, state, request, sending, received>>

CarriersNext ==
  \/ WgTunPacket \/ WgNetworkPacket \/ WgTick
  \/ MasqueTunPacket \/ MasqueNetworkPacket \/ MasqueTick \/ QuicProgress
  \/ NoPacket \/ Reclaim

\* A packet on its way out of WireGuard or quiche that finds no slice is an error of
\* the call, which the reactor counts (a received one is dropped in silence); packets reach the client only through an open
\* tunnel; and a tunnel that was refused or closed never opens again.
CarriersHonest ==
  [][/\ gone' > 0 => result' = "exhausted"
     /\ "packet" \in emitted' /\ carrier = "masque" => state' = "established"
     /\ state = "closed" => state' = "closed"]_carrierVars
=============================================================================
