-------------------------------- MODULE Dialer --------------------------------
(* Re-origination through packet egress (egress/origin.rs): a connection     *)
(* leases a source port from a reserved range, tries every address of its    *)
(* target a little after the last, and keeps the first that connects; and    *)
(* the copy that then runs until neither side moves a byte (idle.rs). And    *)
(* the dials of the other stream egresses: layer upon layer, each with a     *)
(* wait of its own or none (transport.rs, deadline.rs), over a connection of *)
(* the flow's own or one opened once and shared (live.rs).                   *)
EXTENDS Naturals, Sequences, FiniteSets, SequencesExt

CONSTANTS
  Dials,      \* connect() calls
  Addresses,  \* Addresses[d]: what the resolver answers, "v4" or "v6" each
  PortStart, PortEnd, \* the range, end exclusive
  MaxMoves,   \* bound: bytes moved on a stream
  Stacks,     \* the transports a flow may be dialled through
  Flows,      \* flows that dial through one of them, each once
  TcpConnect, TlsHandshake, ProxyDial \* Wait::budget, in units of five seconds

VARIABLES
  freePorts, \* the free list, a stack
  tries,     \* [Dials -> sequence of attempts]
  dials,     \* [Dials -> the call: "new", "racing", the winner held, "closed" or "failed"]
  copying,   \* [Dials -> the splice over the stream: timer armed, touched since, moves left]
  stack,     \* the transport in use
  flows,     \* [Flows -> the flow's dial]
  opener,    \* the Live of a transport that shares its connection
  attempts   \* what became of each connection the Live opened

originVars == <<freePorts, tries, dials, copying>>
transportVars == <<stack, flows, opener, attempts>>
dialerVars == <<originVars, transportVars>>

PortRange == PortStart .. (PortEnd - 1)

\* Ports::new: a stack whose top is the lowest port.
Ports == [i \in 1..(PortEnd - PortStart) |-> PortEnd - i]

\* IPv6 first, then the families in turn, each in resolver order.
Interleaved(all) ==
  LET Of(family) == SelectSeq(all, LAMBDA a : a = family)
      six == Of("v6") four == Of("v4")
      longest == IF Len(six) > Len(four) THEN Len(six) ELSE Len(four)
      Pair(i) == SubSeq(six, i, IF i <= Len(six) THEN i ELSE 0) \o
                 SubSeq(four, i, IF i <= Len(four) THEN i ELSE 0)
  IN FlattenSeq([i \in 1..longest |-> Pair(i)])

Unstarted(address) == [at |-> "waiting", port |-> 0, address |-> address]
StillCopy == [armed |-> FALSE, touched |-> FALSE, moves |-> 0, ended |-> "no"]

DialerInit ==
  /\ freePorts = Ports
  /\ tries = [d \in Dials |-> <<>>]
  /\ dials = [d \in Dials |-> "new"]
  /\ copying = [d \in Dials |-> StillCopy]

Leases(d) == {i \in DOMAIN tries[d] : tries[d][i].port # 0}

\* Resolve, then one task for each address; a name without addresses is NotFound.
Connect(d) ==
  /\ dials[d] = "new"
  /\ dials' = [dials EXCEPT ![d] = IF Addresses[d] = <<>> THEN "failed" ELSE "racing"]
  /\ tries' = [tries EXCEPT ![d] = [i \in DOMAIN Interleaved(Addresses[d]) |->
                                      Unstarted(Interleaved(Addresses[d])[i])]]
  /\ UNCHANGED <<freePorts, copying>>

\* ATTEMPT_DELAY * index: an attempt leaves its sleep after the ones before it.
TakePort(d, i) ==
  /\ tries[d][i].at = "waiting"
  /\ \A j \in 1..(i - 1) : tries[d][j].at # "waiting"
  /\ IF freePorts = <<>>
       THEN tries' = [tries EXCEPT ![d][i].at = "refused"] /\ UNCHANGED freePorts
       ELSE /\ tries' = [tries EXCEPT ![d][i].at = "dialing", ![d][i].port = Last(freePorts)]
            /\ freePorts' = Front(freePorts)
  /\ UNCHANGED <<dials, copying>>

\* Socket, bind and connect, within the connect budget: a stream with its lease, or
\* an error and the lease back.
Attempt(d, i) ==
  /\ tries[d][i].at = "dialing"
  /\ \/ tries' = [tries EXCEPT ![d][i].at = "connected"] /\ UNCHANGED freePorts
     \/ /\ tries' = [tries EXCEPT ![d][i].at = "refused", ![d][i].port = 0]
        /\ freePorts' = Append(freePorts, tries[d][i].port)
  /\ UNCHANGED <<dials, copying>>

\* The winner leaves the set, and dropping the set aborts the rest.
Join(d, i) ==
  /\ dials[d] = "racing" /\ tries[d][i].at = "connected"
  /\ dials' = [dials EXCEPT ![d] = "open"]
  /\ tries' = [tries EXCEPT ![d] = [j \in DOMAIN @ |->
                 IF j = i THEN [@[j] EXCEPT !.at = "won"] ELSE [@[j] EXCEPT !.at = "aborted"]]]
  /\ copying' = [copying EXCEPT ![d].armed = TRUE]
  /\ UNCHANGED freePorts

\* The runtime drops an aborted attempt, or its unread stream, in its own time.
Aborted(d, i) ==
  /\ tries[d][i].at = "aborted"
  /\ tries' = [tries EXCEPT ![d][i].at = "refused", ![d][i].port = 0]
  /\ freePorts' = IF tries[d][i].port = 0 THEN freePorts ELSE Append(freePorts, tries[d][i].port)
  /\ UNCHANGED <<dials, copying>>

\* Every attempt failed: the last error is the answer.
NoneConnected(d) ==
  /\ dials[d] = "racing"
  /\ \A i \in DOMAIN tries[d] : tries[d][i].at = "refused"
  /\ dials' = [dials EXCEPT ![d] = "failed"]
  /\ UNCHANGED <<freePorts, tries, copying>>

\* The caller drops the call, and with it the set; or an ended copy drops the stream.
GiveUp(d) ==
  /\ \/ dials[d] = "racing" \/ (dials[d] = "open" /\ copying[d].ended # "no")
  /\ dials' = [dials EXCEPT ![d] = "closed"]
  /\ tries' = [tries EXCEPT ![d] = [j \in DOMAIN @ |-> [@[j] EXCEPT !.at = "aborted"]]]
  /\ UNCHANGED <<freePorts, copying>>

\* A byte read or written on either stream marks the copy touched.
Move(d) ==
  /\ dials[d] = "open" /\ copying[d].ended = "no" /\ copying[d].moves < MaxMoves
  /\ copying' = [copying EXCEPT ![d].touched = TRUE, ![d].moves = @ + 1]
  /\ UNCHANGED <<freePorts, tries, dials>>

\* The timer fires: a touched copy waits again, an untouched one times out.
IdleFires(d) ==
  /\ dials[d] = "open" /\ copying[d].ended = "no" /\ copying[d].armed
  /\ copying' = [copying EXCEPT ![d] =
       IF @.touched THEN [@ EXCEPT !.touched = FALSE] ELSE [@ EXCEPT !.ended = "timed out"]]
  /\ UNCHANGED <<freePorts, tries, dials>>

CopyEnds(d) ==
  /\ dials[d] = "open" /\ copying[d].ended = "no"
  /\ copying' = [copying EXCEPT ![d].ended = "finished"]
  /\ UNCHANGED <<freePorts, tries, dials>>

DialerNext ==
  \E d \in Dials :
    \/ Connect(d) \/ NoneConnected(d) \/ GiveUp(d) \/ Move(d) \/ IdleFires(d) \/ CopyEnds(d)
    \/ \E i \in DOMAIN tries[d] : TakePort(d, i) \/ Attempt(d, i) \/ Join(d, i) \/ Aborted(d, i)

\* Timers fire, attempts end within their budget, an ended copy drops its stream.
DialerFairness ==
  \A d \in Dials :
    /\ WF_originVars(Connect(d)) /\ WF_originVars(NoneConnected(d))
    /\ WF_originVars(IdleFires(d)) /\ WF_originVars(copying[d].ended # "no" /\ GiveUp(d))
    /\ WF_originVars(\E i \in DOMAIN tries[d] : TakePort(d, i) \/ Attempt(d, i) \/ Join(d, i))
    /\ WF_originVars(\E i \in DOMAIN tries[d] : Aborted(d, i))

\* Every port of the range is free once or leased once, whoever won, failed, was
\* aborted or gave up: a re-originated connection never shares its source port and
\* no port is lost to the range (PortLease).
PortsConserved ==
  LET leased == UNION {{<<d, i>> : i \in Leases(d)} : d \in Dials}
      PortOf(l) == tries[l[1]][l[2]].port IN
  /\ IsInjective(freePorts)
  /\ \A l, m \in leased : PortOf(l) = PortOf(m) => l = m
  /\ ToSet(freePorts) \union {PortOf(l) : l \in leased} = PortRange
  /\ ToSet(freePorts) \intersect {PortOf(l) : l \in leased} = {}

\* Every call ends, and once all have the whole range is free again: a silent stream
\* is timed out by the idle copy, so a lease cannot be held for ever.
LeasesReturn == <>[](Len(freePorts) = PortEnd - PortStart)

\* Ports are leased once at a time, and all of them come back.
PortsAccounted == []PortsConserved /\ LeasesReturn

------------------------------------------------------------------------------
\* What a dial waits for, one layer after the other.  TLS stands on TCP; the two
\* HTTP/1 upgrades stand on either.
Below(kind) == IF kind = "plain" THEN <<"tcp">> ELSE <<"tcp", "tls">>
WebSocketLayers == Below("tls") \o <<"websocket">>
UpgradeLayers == Below("plain") \o <<"upgrade">>

\* HTTP/2 and QUIC open one connection for all flows, then a stream for each.
IsShared(kind) == kind \in {"grpc", "http", "quic"}
H2Opening == Below("tls") \o <<"h2">>
QuicOpening == <<"udp", "handshake">>
Opening(kind) == IF kind = "quic" THEN QuicOpening ELSE H2Opening
GrpcLayers == <<"ready", "request">>
HttpLayers == <<"ready", "request">>
QuicLayers == <<"bidi">>

\* VLESS writes its request over any of them.
VlessLayers(kind) ==
  Append(IF kind = "websocket" THEN WebSocketLayers
         ELSE IF kind = "upgrade" THEN UpgradeLayers
         ELSE IF kind = "grpc" THEN GrpcLayers
         ELSE IF kind = "http" THEN HttpLayers
         ELSE IF kind = "quic" THEN QuicLayers
         ELSE Below(kind), "write")

ShadowsocksLayers == <<"tcp", "write">>
SocksLayers == <<"tcp", "negotiate">>
DirectLayers == <<"resolve", "tcp">>

OwnLayers(kind) ==
  IF kind = "shadowsocks" THEN ShadowsocksLayers
  ELSE IF kind = "socks5" THEN SocksLayers
  ELSE IF kind = "direct" THEN DirectLayers
  ELSE VlessLayers(kind)

Unbounded == ProxyDial + 1
Budget(layer) ==
  IF layer = "tcp" THEN TcpConnect
  ELSE IF layer = "tls" THEN TlsHandshake
  ELSE IF layer = "handshake" THEN ProxyDial
  ELSE Unbounded

\* A dial in progress: the layers it still has to pass, what is left of the wait
\* on the first of them and of the wait on the whole.
Through(layers, left) ==
  [at |-> "layers", layers |-> layers, step |-> Budget(layers[1]), left |-> left, conn |-> 0]
Settled(end) == [at |-> end, layers |-> <<>>, step |-> Unbounded, left |-> Unbounded, conn |-> 0]
OverConnection(n, left) == [Through(OwnLayers(stack), left) EXCEPT !.conn = n]
Joining(n) == [Settled("joined") EXCEPT !.left = ProxyDial, !.conn = n]

\* The next layer, once the first of several is passed.
Passed(d) ==
  [d EXCEPT !.layers = Tail(@), !.step = Budget(d.layers[2])]

TransportInit ==
  /\ stack \in Stacks
  /\ flows = [f \in Flows |-> Settled("idle")]
  /\ opener = Settled("down") /\ attempts = <<>>

IsUp == opener.at = "up" /\ attempts[Len(attempts)] = "up"

\* connect(), within ProxyDial: the layers, or the shared connection, which is
\* the one that is up, the one being opened, or one opened now on its own task.
BeginDial(f) ==
  /\ flows[f].at = "idle"
  /\ \/ /\ ~IsShared(stack)
        /\ flows' = [flows EXCEPT ![f] = Through(OwnLayers(stack), ProxyDial)]
        /\ UNCHANGED <<opener, attempts>>
     \/ /\ IsShared(stack) /\ IsUp
        /\ flows' = [flows EXCEPT ![f] = OverConnection(Len(attempts), ProxyDial)]
        /\ UNCHANGED <<opener, attempts>>
     \/ /\ IsShared(stack) /\ opener.at = "layers"
        /\ flows' = [flows EXCEPT ![f] = Joining(Len(attempts))]
        /\ UNCHANGED <<opener, attempts>>
     \/ /\ IsShared(stack) /\ ~IsUp /\ opener.at # "layers"
        /\ attempts' = Append(attempts, "pending")
        /\ opener' = Through(Opening(stack), ProxyDial)
        /\ flows' = [flows EXCEPT ![f] = Joining(Len(attempts) + 1)]
  /\ UNCHANGED stack

\* The task that opens: its next layer, the connection, or an error for everyone.
OpeningAdvances ==
  /\ opener.at = "layers"
  /\ IF Len(opener.layers) > 1 THEN opener' = Passed(opener) /\ UNCHANGED attempts
     ELSE /\ opener' = Settled("up")
          /\ attempts' = [attempts EXCEPT ![Len(attempts)] = "up"]
  /\ UNCHANGED <<stack, flows>>

OpeningFails ==
  /\ opener.at = "layers"
  /\ opener' = Settled("down")
  /\ attempts' = [attempts EXCEPT ![Len(attempts)] = "failed"]
  /\ UNCHANGED <<stack, flows>>

\* The watch channel: whoever waits for the attempt hears what became of it.
Hear(f) ==
  /\ flows[f].at = "joined" /\ attempts[flows[f].conn] # "pending"
  /\ flows' = [flows EXCEPT ![f] =
       IF attempts[@.conn] = "failed" THEN Settled("failed") ELSE OverConnection(@.conn, @.left)]
  /\ UNCHANGED <<stack, opener, attempts>>

\* A layer over a shared connection needs that connection.
Advances(f) ==
  /\ flows[f].at = "layers"
  /\ flows[f].conn # 0 => attempts[flows[f].conn] = "up"
  /\ flows' = [flows EXCEPT ![f] = IF Len(@.layers) > 1 THEN Passed(@) ELSE Settled("open")]
  /\ UNCHANGED <<stack, opener, attempts>>

Fails(f) ==
  /\ flows[f].at = "layers"
  /\ flows' = [flows EXCEPT ![f] = Settled("failed")]
  /\ UNCHANGED <<stack, opener, attempts>>

\* The caller's own wait, or the caller itself, is over: only its wait ends.
StopsWaiting(f) ==
  /\ flows[f].at \in {"layers", "joined"}
  /\ flows' = [flows EXCEPT ![f] = Settled("failed")]
  /\ UNCHANGED <<stack, opener, attempts>>

ConnectionEnds ==
  /\ \E n \in DOMAIN attempts : attempts[n] = "up" /\ attempts' = [attempts EXCEPT ![n] = "ended"]
  /\ UNCHANGED <<stack, flows, opener>>

\* Timers: a wait that is used up is over before time goes on.
Expired(d) == d.at \in {"layers", "joined"} /\ (d.step = 0 \/ d.left = 0)
Expires(f) == Expired(flows[f]) /\ StopsWaiting(f)
OpeningExpires == Expired(opener) /\ OpeningFails

Waits(d) == d.at \in {"layers", "joined"}
Aged(d) ==
  IF ~Waits(d) THEN d
  ELSE [d EXCEPT !.step = IF @ = Unbounded THEN @ ELSE @ - 1, !.left = @ - 1]

Tick ==
  /\ Waits(opener) \/ \E f \in Flows : Waits(flows[f])
  /\ ~Expired(opener) /\ \A f \in Flows : ~Expired(flows[f])
  /\ opener' = Aged(opener)
  /\ flows' = [f \in Flows |-> Aged(flows[f])]
  /\ UNCHANGED <<stack, attempts>>

TransportNext ==
  \/ OpeningAdvances \/ OpeningFails \/ ConnectionEnds \/ Tick
  \/ \E f \in Flows : BeginDial(f) \/ Hear(f) \/ Advances(f) \/ Fails(f) \/ StopsWaiting(f)

\* Time goes on, a wait that is over ends, and a watcher is woken; nothing else
\* has to happen, as a path may fall silent at any layer.
TransportFairness ==
  /\ WF_transportVars(Tick) /\ WF_transportVars(OpeningExpires)
  /\ \A f \in Flows : WF_transportVars(Expires(f)) /\ WF_transportVars(Hear(f))

\* Where every layer so far has a wait of its own, the layer's wait ends first:
\* TcpConnect and TlsHandshake fit into ProxyDial.
LayersFit ==
  /\ \A f \in Flows : flows[f].at = "layers" /\ Head(flows[f].layers) \in {"tcp", "tls"}
       => stack = "direct" \/ flows[f].step <= flows[f].left
  /\ opener.at = "layers" /\ Head(opener.layers) \in {"tcp", "tls"} => opener.step <= opener.left

\* One connection is opened at a time, by a task that goes on when its callers stop.
OpenedOnce ==
  \A n \in DOMAIN attempts : attempts[n] = "pending" <=> n = Len(attempts) /\ opener.at = "layers"

Quiet == ~Waits(opener) /\ \A f \in Flows : ~Waits(flows[f])

\* Every dial ends, though a layer without a wait of its own may never answer
\* (WebSocket, upgrade, HTTP/2 capacity), and so does every opening.
DialsEnd == [](LayersFit /\ OpenedOnce) /\ []<>Quiet
=============================================================================
