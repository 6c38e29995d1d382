------------------------------ MODULE LocalStack -----------------------------
(***************************************************************************)
(* The local TCP stack of src/l4/stream.rs: a smoltcp socket set with its  *)
(* listeners, its established connections and the queues its owner drains. *)
(*                                                                         *)
(* smoltcp is external: a socket is its TCP state, the client it talks to  *)
(* and its receive buffer, and SegmentArrives is the part of the TCP       *)
(* machine that LocalStack can tell apart.  Payload is a sequence of       *)
(* numbered units, so that loss, duplication and reordering show.          *)
(***************************************************************************)
EXTENDS Integers, FiniteSets, Sequences, FiniteSetsExt, Functions

CONSTANTS Clients,     \* client endpoints
          Ports,       \* the configured ports, in order
          OtherPorts,  \* ports without a standing listener
          EveryPort,   \* terminate_every_port was called
          Backlog,     \* TerminationLimits::backlog
          MaxSockets,  \* TerminationLimits::max_sockets
          RxUnits,     \* receive window of a socket, in units
          MaxUnits,    \* bound: units one client sends
          MaxInbound,  \* bound: packets queued at the device
          MaxUndrained \* bound: reports the owner leaves in the queues

NoClient == "none"

ASSUME LocalStackAssumption ==
  /\ Ports \in Seq(Nat) /\ OtherPorts \subseteq Nat
  /\ Backlog \in Nat \ {0} /\ MaxSockets \in Nat \ {0}
  /\ Len(Ports) * Backlog <= MaxSockets  \* else SocketsBelowBacklog
  /\ RxUnits \in Nat \ {0}
  /\ NoClient \notin Clients

\* One slot more than the budget, so that exceeding it would show.
Handles == 1 .. MaxSockets + 1

AllPorts == Range(Ports) \union OtherPorts
Kinds == {"SYN", "ACK", "FIN", "RST"}
           \union (IF MaxUnits = 0 THEN {} ELSE {"DATA"})
Packet == [kind : Kinds, client : Clients, port : AllPorts]

VARIABLES inbound,      \* device.inbound
          sockets,      \* slot -> socket, NoSocket where the slot is free
          wanted,       \* SYNs pushed since the last poll, per other port
          listeners,    \* handles of the listeners vector
          established,  \* handles of the established map
          closing,      \* connections this side closed or aborted
          accepted,     \* connections to publish
          closed        \* connections reaped

stackVars ==
  <<inbound, sockets, wanted, listeners, established, closing, accepted, closed>>

-----------------------------------------------------------------------------
(* smoltcp sockets                                                         *)

NoSocket == [state |-> "Free", port |-> 0, client |-> NoClient,
             rx |-> <<>>, units |-> 0, fin |-> FALSE, torn |-> FALSE]

ListenOn(port) == [NoSocket EXCEPT !.state = "Listen", !.port = port]

\* A Listen socket takes any SYN to its port; another one its client's packets.
Takes(socket, p) ==
  /\ socket.port = p.port
  /\ \/ socket.state = "Listen" /\ p.kind = "SYN"
     \/ socket.state \notin {"Free", "Listen", "Closed"} /\ socket.client = p.client

\* An ACK acknowledges everything sent, this side's FIN included.
OnAck == [SynReceived |-> "Established", FinWait1 |-> "FinWait2",
          Closing |-> "TimeWait", LastAck |-> "Closed"]
OnFin == [Established |-> "CloseWait", FinWait1 |-> "Closing",
          FinWait2 |-> "TimeWait"]
OnClose == [SynReceived |-> "FinWait1", Established |-> "FinWait1",
            CloseWait |-> "LastAck", Listen |-> "Closed"]

Moved(socket, table) ==
  IF socket.state \in DOMAIN table
  THEN [socket EXCEPT !.state = table[socket.state]] ELSE socket

MaySend(socket) == socket.state \in {"Established", "CloseWait"}
Streaming(socket) == socket.state \in {"Established", "FinWait1", "FinWait2"}

\* A reset, or the timer that gives up on a silent peer.
Torn(socket) == [socket EXCEPT !.state = "Closed", !.torn = TRUE]

SegmentTaken(socket, p) ==
  CASE p.kind = "SYN" ->
         IF socket.state = "Listen"
         THEN [socket EXCEPT !.state = "SynReceived", !.client = p.client]
         ELSE socket
    [] p.kind = "ACK" -> Moved(socket, OnAck)
    [] p.kind = "DATA" ->
         IF Streaming(socket) /\ Len(socket.rx) < RxUnits /\ socket.units < MaxUnits
         THEN [socket EXCEPT !.rx = Append(@, socket.units + 1), !.units = @ + 1]
         ELSE socket
    [] p.kind = "FIN" ->
         [Moved(socket, OnFin) EXCEPT
            !.fin = @ \/ socket.state \in DOMAIN OnFin]
    [] p.kind = "RST" ->
         IF socket.state = "SynReceived" THEN ListenOn(socket.port)
         ELSE Torn(socket)

\* The first socket that takes the packet gets it; nobody's packet is dropped.
SegmentArrives(socks, p) ==
  LET takers == {h \in Handles : Takes(socks[h], p)}
  IN  IF takers = {} THEN socks
      ELSE [socks EXCEPT ![Min(takers)] = SegmentTaken(@, p)]

\* An unanswered handshake, a dead peer and TIME-WAIT all end by a timer.
HasTimer(socket) == socket.state \notin {"Free", "Listen", "Closed"}

TimedOut(socks, late) ==
  [h \in Handles |->
     IF h \notin late THEN socks[h]
     ELSE IF socks[h].state = "TimeWait" THEN [socks[h] EXCEPT !.state = "Closed"]
     ELSE Torn(socks[h])]

-----------------------------------------------------------------------------
(* Budget and listeners                                                    *)

SocketCount(lst, est) == Cardinality(lst) + Cardinality(est)

\* The slot SocketSet::add takes: the first free one.
FreeSlot(socks) == Min({h \in Handles : socks[h].state = "Free"})

Listening(st, port) ==
  {h \in st.listeners : st.sockets[h].port = port /\ st.sockets[h].state = "Listen"}

AddListener(st, port) ==
  IF SocketCount(st.listeners, st.established) >= MaxSockets THEN st
  ELSE [st EXCEPT !.sockets[FreeSlot(st.sockets)] = ListenOn(port),
                  !.listeners = @ \union {FreeSlot(st.sockets)}]

\* How many listeners a port lacks.
Missing(st, port) ==
  IF Cardinality(Listening(st, port)) < Backlog THEN Backlog - Cardinality(Listening(st, port)) ELSE 0

AddListeners(st, port, n) ==
  LET after[i \in 0 .. n] == IF i = 0 THEN st ELSE AddListener(after[i - 1], port)
  IN  after[n]

\* Ports in order, each up to its backlog; a spent budget ends the loop.
Replenish(st) ==
  LET after[i \in 0 .. Len(Ports)] ==
        IF i = 0 THEN st
        ELSE AddListeners(after[i - 1], Ports[i], Missing(after[i - 1], Ports[i]))
  IN  after[Len(Ports)]

\* harvest: a listener past its handshake leaves the list, as a connection
\* unless it is closed already: a closed socket has lost its endpoints.  A
\* closed connection is reaped, as reset when this side did not close it.
Done(st) ==
  {h \in st.listeners : st.sockets[h].state \notin {"Listen", "SynReceived"}}

Fresh(st) == {h \in Done(st) : st.sockets[h].state # "Closed"}

Over(st) == {h \in st.established : st.sockets[h].state = "Closed"}

Removed(st) == Over(st) \union (Done(st) \ Fresh(st))

EndedReset(h) == h \notin closing

ClosingAfter(st) == closing \ Over(st)

Harvest(st) ==
  [sockets |-> [h \in Handles |->
                  IF h \in Removed(st) THEN NoSocket ELSE st.sockets[h]],
   listeners |-> st.listeners \ Done(st),
   established |-> (st.established \ Over(st)) \union Fresh(st)]

-----------------------------------------------------------------------------
(* Operations                                                              *)

Budgeted == [sockets |-> sockets, listeners |-> listeners, established |-> established]

Becomes(st) ==
  /\ sockets' = st.sockets
  /\ listeners' = st.listeners
  /\ established' = st.established

StackInit ==
  /\ inbound = <<>>
  /\ wanted = [port \in OtherPorts |-> 0]
  /\ closing = {} /\ accepted = <<>> /\ closed = <<>>
  /\ LET st == Replenish([sockets |-> [h \in Handles |-> NoSocket],
                          listeners |-> {}, established |-> {}])
     IN  sockets = st.sockets /\ listeners = st.listeners
                              /\ established = st.established

Push(p) ==
  /\ Len(inbound) < MaxInbound
  /\ inbound' = Append(inbound, p)
  /\ IF EveryPort /\ p.kind = "SYN" /\ p.port \in OtherPorts
     THEN /\ wanted' = [wanted EXCEPT ![p.port] = @ + 1]
          /\ Becomes(IF Cardinality(Listening(Budgeted, p.port)) < wanted'[p.port]
                     THEN AddListener(Budgeted, p.port) ELSE Budgeted)
     ELSE UNCHANGED <<wanted, sockets, listeners, established>>
  /\ UNCHANGED <<closing, accepted, closed>>

WantedCleared == [port \in OtherPorts |-> 0]

\* The sockets after smoltcp took n packets, fewer than are queued only when
\* the pool runs out of transmit buffers, and the timers of `late' fired for
\* those of its sockets that no packet touched.
Driven(n, late) ==
  LET after[i \in 0 .. n] == IF i = 0 THEN sockets ELSE SegmentArrives(after[i - 1], inbound[i])
  IN  TimedOut(after[n], {h \in late : after[n][h] = sockets[h]})

\* What a harvest found, in some order.
Listed(S) == CHOOSE s \in [1 .. Cardinality(S) -> S] : Range(s) = S

Poll(n, late) ==
  LET st == [Budgeted EXCEPT !.sockets = Driven(n, late)]
  IN  /\ inbound' = SubSeq(inbound, n + 1, Len(inbound))
      /\ wanted' = WantedCleared
      /\ Becomes(Replenish(Harvest(st)))
      /\ accepted' = accepted \o
                     Listed({[id |-> h, client |-> st.sockets[h].client] : h \in Fresh(st)})
      /\ closed' = closed \o
                   Listed({[id |-> h, reset |-> EndedReset(h)] : h \in Over(st)})
      /\ closing' = ClosingAfter(st)

SomePoll(P(_, _)) ==
  \E n \in 0 .. Len(inbound) :
    \E late \in {{}} \union {{h} : h \in {g \in Handles : HasTimer(sockets[g])}} :
      P(n, late)

PollAccept ==
  /\ accepted # <<>>
  /\ accepted' = Tail(accepted)

PollClosed ==
  /\ closed # <<>>
  /\ closed' = Tail(closed)

\* recv: buffered bytes first, then why there are none.
RecvResult(h) ==
  IF h \notin established THEN "Unknown"
  ELSE IF sockets[h].rx # <<>> THEN "Data"
  ELSE IF Streaming(sockets[h]) THEN "WouldBlock"
  ELSE IF sockets[h].state = "Closed" THEN "Reset"
  ELSE "Closed"

SendResult(h) ==
  IF h \notin established THEN "Unknown"
  ELSE IF MaySend(sockets[h]) THEN "Ok"
  ELSE IF sockets[h].state = "Closed" THEN "Reset"
  ELSE "Closed"

CloseUnmarked(h) ==
  IF h \in established
  THEN /\ sockets' = [sockets EXCEPT ![h] = Moved(@, OnClose)]
       /\ UNCHANGED closing
  ELSE UNCHANGED <<sockets, closing>>

Close(h) ==
  IF h \in established
  THEN /\ sockets' = [sockets EXCEPT ![h] = Moved(@, OnClose)]
       /\ closing' = closing \union {h}
  ELSE UNCHANGED <<sockets, closing>>

Abort(h) ==
  IF h \in established
  THEN /\ sockets' = [sockets EXCEPT ![h].state = "Closed"]
       /\ closing' = closing \union {h}
  ELSE UNCHANGED <<sockets, closing>>

-----------------------------------------------------------------------------
(* An owner that calls the operations in any order                         *)

DoPush == \E p \in Packet : Push(p)

DoPoll ==
  /\ Len(accepted) + Len(closed) <= MaxUndrained
  /\ SomePoll(Poll)

DoPollAccept ==
  /\ PollAccept
  /\ UNCHANGED <<inbound, sockets, wanted, listeners, established, closing, closed>>

DoPollClosed ==
  /\ PollClosed
  /\ UNCHANGED <<inbound, sockets, wanted, listeners, established, closing, accepted>>

DoClose == \E h \in established :
  /\ Close(h)
  /\ UNCHANGED <<inbound, wanted, listeners, established, accepted, closed>>

DoAbort == \E h \in established :
  /\ Abort(h)
  /\ UNCHANGED <<inbound, wanted, listeners, established, accepted, closed>>

StackNext ==
  DoPush \/ DoPoll \/ DoPollAccept \/ DoPollClosed \/ DoClose \/ DoAbort

StackSpec == StackInit /\ [][StackNext]_stackVars

-----------------------------------------------------------------------------
(* Properties                                                              *)

\* socket_count, which the budget is checked against, misses no socket of the
\* set: each occupied slot is a listener or a connection, and never both.
SocketsAccounted ==
  /\ {h \in Handles : sockets[h].state # "Free"} = listeners \union established
  /\ listeners \intersect established = {}

\* Listeners and connections together never exceed max_sockets, whatever mix
\* of pushes for unlisted ports and replenishments created them.
SocketBudget == SocketCount(listeners, established) <= MaxSockets

\* A configured port lacks part of its backlog only when the budget is spent.
BacklogKept ==
  \A port \in Range(Ports) :
    \/ Cardinality(Listening(Budgeted, port)) >= Backlog
    \/ SocketCount(listeners, established) = MaxSockets

\* The mark of a connection this side closed dies with the connection, so the
\* next connection in the same slot is not taken for one this side closed.
ClosingMarksAreLive == closing \subseteq established

\* Every socket is paid for, marked and listened for while it lives, whatever
\* order packets, closes and reapings came in.
SocketsKept == SocketsAccounted /\ SocketBudget /\ BacklogKept /\ ClosingMarksAreLive

\* harvest never sees how a socket came to CLOSED; it infers a reset from the
\* missing mark.  The inference is right at every reaping: a connection is
\* reported as reset exactly when no FIN or abort of this side preceded.  Nor
\* does a step leave a socket unaccounted for.
ReapedAsItEnded ==
  [][/\ SocketsKept'
     /\ \A h \in established \ established' :
          LET reports == SubSeq(closed', Len(closed) + 1, Len(closed'))
          IN  [id |-> h, reset |-> sockets[h].state \in {"Established", "CloseWait"}]
                \in Range(reports)]_stackVars
==============================================================================
