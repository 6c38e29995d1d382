------------------------------- MODULE MCEgress -------------------------------
(* The egresses, in eight parts side by side; a behaviour exercises one: the *)
(* datagram relay, a QUIC connection's driver, Hysteria2 sessions, their     *)
(* fragments, re-origination, dials through transports, the packet         *)
(* egresses, or encrypted DNS.                                               *)
EXTENDS Relay, Quic, Hysteria, Dialer, Carriers, Encrypted

CONSTANT Parts

VARIABLE part

vars == <<part, relayVars, quicVars, hysteriaVars, dialerVars, carrierVars, encryptedVars>>

\* What each dial's name resolves to.
MCAddresses == <<<<"v4", "v6">>, <<"v6">>, <<>>>>

\* The parts a behaviour does not exercise are over.
Init ==
  /\ part \in Parts
  /\ \/ part = "relay" /\ RelayInit
     \/ /\ part # "relay" /\ offered = 0 /\ relay = "ended" /\ relayStop = TRUE
        /\ associations = [s \in Slots |-> Free] /\ senders = [c \in {} |-> 0]
        /\ tally = [f \in Fates |-> 0]
  /\ \/ part = "quic" /\ QuicInit
     \/ /\ part # "quic" /\ task = "ended" /\ closing = TRUE /\ connected = FALSE
        /\ handles = FALSE /\ wake = FALSE /\ nextId = 1 /\ streams = [i \in Streams |-> Fresh]
        /\ claim = [sink |-> FALSE, held |-> FALSE, queued |-> 0] /\ dgrams = 0
  /\ HysteriaInit
  /\ \/ part = "dialer" /\ DialerInit
     \/ /\ part # "dialer" /\ freePorts = Ports /\ tries = [d \in Dials |-> <<>>]
        /\ dials = [d \in Dials |-> "failed"] /\ copying = [d \in Dials |-> StillCopy]
  /\ TransportInit /\ (part # "transports" => stack = "plain")
  /\ CarriersInit /\ (part # "carriers" => carrier = "none")
  /\ EncryptedInit /\ (part # "encrypted" => upstream = "doh")

Next ==
  /\ UNCHANGED part
  /\ \/ part = "relay" /\ RelayNext
        /\ UNCHANGED <<quicVars, hysteriaVars, dialerVars, carrierVars, encryptedVars>>
     \/ part = "quic" /\ QuicNext
        /\ UNCHANGED <<relayVars, hysteriaVars, dialerVars, carrierVars, encryptedVars>>
     \/ part = "sessions" /\ SessionNext
        /\ UNCHANGED <<relayVars, quicVars, dialerVars, carrierVars, encryptedVars>>
     \/ part = "fragments" /\ PieceNext
        /\ UNCHANGED <<relayVars, quicVars, dialerVars, carrierVars, encryptedVars>>
     \/ part = "dialer" /\ DialerNext
        /\ UNCHANGED <<relayVars, quicVars, hysteriaVars, transportVars, carrierVars, encryptedVars>>
     \/ part = "transports" /\ TransportNext
        /\ UNCHANGED <<relayVars, quicVars, hysteriaVars, originVars, carrierVars, encryptedVars>>
     \/ part = "carriers" /\ CarriersNext
        /\ UNCHANGED <<relayVars, quicVars, hysteriaVars, dialerVars, encryptedVars>>
     \/ part = "encrypted" /\ EncryptedNext
        /\ UNCHANGED <<relayVars, quicVars, hysteriaVars, dialerVars, carrierVars>>

Spec == Init /\ [][Next]_vars /\ RelayFairness /\ QuicFairness /\ PeerFairness /\ DialerFairness
        /\ TransportFairness

\* What an egress starts ends: the relay and its associations when cancelled,
\* a QUIC driver nobody holds, every re-originated dial, with its port leased
\* once, and every dial through a transport, whatever falls silent.
EgressEnds == RelayStops /\ DriverEnds /\ PortsAccounted /\ DialsEnd
=============================================================================
