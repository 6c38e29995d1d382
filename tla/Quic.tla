--------------------------------- MODULE Quic ---------------------------------
(* The driver task of one QUIC connection (egress/quic.rs) and the streams   *)
(* its handles opened, each bridged by two bounded channels (bridge.rs). One *)
(* unit is one chunk, moved by one stream_recv or stream_send.               *)
EXTENDS Naturals, Sequences, FiniteSets

CONSTANTS
  Streams,      \* 1 .. the streams opened in a run
  ChannelDepth, \* DEPTH, of each bridge channel
  SinkDepth,    \* DATAGRAM_DEPTH, of the claimed receiver and the transport queue
  MaxIn,        \* bound: units the peer sends on a stream
  MaxOut        \* bound: units written to a stream

ASSUME QuicAssumption == Streams \subseteq Nat /\ ChannelDepth \in Nat \ {0}

VARIABLES
  task,      \* the driver: "service", "flush", "select" or "ended"
  closing,   \* the last handle is gone
  connected, \* ~conn.is_closed()
  handles,   \* some QuicConnection is held
  wake,      \* a stored Notify permit
  nextId,    \* next_stream_id
  streams,   \* both halves of every stream, and the transport below it
  claim,     \* the datagram claim: sink taken, receiver held, queued
  dgrams     \* the transport's received datagrams

quicVars == <<task, closing, connected, handles, wake, nextId, streams, claim, dgrams>>

Least(a, b) == IF a < b THEN a ELSE b

\* pair(): what the driver holds (entry .. finished), what the consumer holds
\* (consumer, writer), what the transport holds (rx, end, credit), and the counts
\* that say what became of every unit.
Fresh ==
  [entry |-> FALSE, toTask |-> TRUE, reset |-> FALSE, inq |-> 0, fromq |-> 0, pending |-> 0,
   finished |-> FALSE, consumer |-> "none", writer |-> FALSE,
   rx |-> 0, end |-> "open", credit |-> 0, stopped |-> FALSE,
   sent |-> 0, taken |-> 0, written |-> 0, carried |-> 0, fin |-> FALSE]

QuicInit ==
  /\ task = "service" /\ closing = FALSE /\ connected = TRUE /\ handles = TRUE
  /\ wake = FALSE /\ nextId = 1
  /\ streams = [i \in Streams |-> Fresh]
  /\ claim = [sink |-> FALSE, held |-> FALSE, queued |-> 0]
  /\ dgrams = 0

Held == {i \in Streams : streams[i].entry}

\* A stream is readable while bytes, a FIN or a reset wait to be read.
Readable(q) == q.rx > 0 \/ q.end \in {"fin", "reset"}

\* A permit is reserved before each read; a consumer that is gone is noticed only here.
PumpIn(q) ==
  LET room == ChannelDepth - q.inq
      n == Least(room, q.rx) IN
  IF q.consumer = "gone"
    THEN [q EXCEPT !.toTask = FALSE, !.rx = 0, !.end = "shut"]
  ELSE IF q.end = "reset" /\ room > 0
    THEN [q EXCEPT !.toTask = FALSE, !.reset = TRUE, !.end = "shut"]
  ELSE IF q.end = "fin" /\ n = q.rx /\ room > 0
    THEN [q EXCEPT !.inq = @ + n, !.rx = 0, !.toTask = FALSE, !.end = "shut"]
    ELSE [q EXCEPT !.inq = @ + n, !.rx = @ - n]

\* Without the retained tail a chunk the transport refused would be forgotten.
PumpOutForgetful(q) ==
  LET waiting == q.pending + q.fromq
      n == Least(waiting, q.credit) IN
  IF q.finished THEN q
  ELSE IF waiting = n /\ ~q.writer
    THEN [q EXCEPT !.pending = 0, !.fromq = 0, !.credit = @ - n, !.carried = @ + n,
                   !.finished = TRUE, !.fin = TRUE]
    ELSE [q EXCEPT !.pending = 0, !.fromq = IF waiting > n THEN waiting - n - 1 ELSE 0,
                   !.credit = @ - n, !.carried = @ + n]

\* What the transport does not take stays pending; FIN follows the last unit; a
\* stopped stream is given up.
PumpOut(q) ==
  LET waiting == q.pending + q.fromq
      n == Least(waiting, q.credit) IN
  IF q.finished THEN q
  ELSE IF q.stopped /\ waiting > 0
    THEN [q EXCEPT !.finished = TRUE, !.pending = 0, !.fromq = waiting - 1]
  ELSE IF waiting = n /\ ~q.writer
    THEN [q EXCEPT !.pending = 0, !.fromq = 0, !.credit = @ - n, !.carried = @ + n,
                   !.finished = TRUE, !.fin = ~q.stopped]
    ELSE [q EXCEPT !.pending = IF waiting > n THEN 1 ELSE 0,
                   !.fromq = IF waiting > n THEN waiting - n - 1 ELSE 0,
                   !.credit = @ - n, !.carried = @ + n]

\* Keyed on the FIN, a stream the peer stopped would be kept for ever.
RetainUntilFin(q) == [q EXCEPT !.entry = q.toTask \/ ~q.fin]

Retain(q) == [q EXCEPT !.entry = q.toTask \/ ~q.finished]

\* A claimed sink takes what fits; the datagram that finds it full or closed is popped
\* and lost, and the sweep stops there.
DrainDatagrams ==
  LET n == Least(dgrams, IF claim.held THEN SinkDepth - claim.queued ELSE 0) IN
  IF ~claim.sink THEN UNCHANGED <<claim, dgrams>>
  ELSE /\ claim' = [claim EXCEPT !.queued = @ + n]
       /\ dgrams' = IF dgrams > n THEN dgrams - n - 1 ELSE 0

Service ==
  /\ task = "service" /\ task' = "flush"
  /\ DrainDatagrams
  /\ streams' = [i \in Streams |->
       IF ~streams[i].entry THEN streams[i]
       ELSE Retain(PumpOut(IF streams[i].toTask /\ Readable(streams[i])
                             THEN PumpIn(streams[i]) ELSE streams[i]))]
  /\ UNCHANGED <<closing, connected, handles, wake, nextId>>

\* The task returns: its halves of every channel go with it.
Ended ==
  /\ task' = "ended"
  /\ UNCHANGED <<closing, connected, handles, wake, nextId, streams, claim, dgrams>>

\* A burst is flushed, drained or with more to come; then the loop's two exits.
FlushSent ==
  /\ task = "flush"
  /\ IF ~connected \/ (closing /\ Held = {})
       THEN Ended
       ELSE /\ task' = "select" /\ wake' \in {wake, TRUE}
            /\ UNCHANGED <<closing, connected, handles, nextId, streams, claim, dgrams>>

\* A send error that is not transient, the token, or a socket read error.
DriverFails == task \in {"flush", "select"} /\ Ended

InUse == Held # {} \/ claim.sink

\* OpenBidi: the peer's limit is the streams left; an opener that gave up costs the id.
Open(kept) ==
  IF nextId \notin Streams THEN UNCHANGED <<nextId, streams, claim>>
  ELSE /\ nextId' = nextId + 1
       /\ streams' = IF kept THEN [streams EXCEPT ![nextId] =
                       [@ EXCEPT !.entry = TRUE, !.consumer = "open", !.writer = TRUE]]
                     ELSE streams
       /\ UNCHANGED claim

\* Receive: the first claimant still there takes the receiver, the others None.
Claim(kept) ==
  /\ claim' = IF claim.sink \/ ~kept THEN claim ELSE [claim EXCEPT !.sink = TRUE, !.held = TRUE]
  /\ UNCHANGED <<nextId, streams>>

\* One command of the queue, which waits only for this turn; its sender may be gone.
Dispatch(c) ==
  /\ task = "select" /\ ~closing /\ handles
  /\ task' = "service"
  /\ \E kept \in BOOLEAN :
       \/ c = "open" /\ Open(kept)
       \/ c = "claim" /\ Claim(kept)
       \/ c = "send" /\ UNCHANGED <<nextId, streams, claim>>
  /\ UNCHANGED <<closing, connected, handles, wake, dgrams>>

\* The queue is empty and no handle is left to fill it.
LastHandle ==
  /\ task = "select" /\ ~closing /\ ~handles
  /\ closing' = TRUE /\ task' = "service"
  /\ UNCHANGED <<connected, handles, wake, nextId, streams, claim, dgrams>>

Woken ==
  /\ task = "select" /\ wake
  /\ wake' = FALSE /\ task' = "service"
  /\ UNCHANGED <<closing, connected, handles, nextId, streams, claim, dgrams>>

\* The transport's timer, which may find the connection idle too long, and the
\* keepalive of a connection in use.
Timer ==
  /\ task = "select" /\ task' = "service"
  /\ connected' \in {connected, FALSE}
  /\ UNCHANGED <<closing, handles, wake, nextId, streams, claim, dgrams>>

Keepalive ==
  /\ task = "select" /\ InUse /\ task' = "service"
  /\ UNCHANGED <<closing, connected, handles, wake, nextId, streams, claim, dgrams>>

\* One packet from the peer, and what it does to the transport.
PeerSent(q) ==
  (IF q.end = "open" /\ q.sent < MaxIn THEN {[q EXCEPT !.rx = @ + 1, !.sent = @ + 1]} ELSE {})
  \union (IF q.end = "open" THEN {[q EXCEPT !.end = "fin"], [q EXCEPT !.end = "reset", !.rx = 0]} ELSE {})
  \union (IF q.credit + q.carried < MaxOut THEN {[q EXCEPT !.credit = @ + 1]} ELSE {})
  \union (IF q.stopped THEN {} ELSE {[q EXCEPT !.stopped = TRUE]})

Packet(i) ==
  /\ task = "select" /\ streams[i].consumer # "none"
  /\ \E q \in PeerSent(streams[i]) : streams' = [streams EXCEPT ![i] = q]
  /\ task' = "service"
  /\ UNCHANGED <<closing, connected, handles, wake, nextId, claim, dgrams>>

DatagramCame ==
  /\ task = "select" /\ dgrams < SinkDepth
  /\ dgrams' = dgrams + 1 /\ task' = "service"
  /\ UNCHANGED <<closing, connected, handles, wake, nextId, streams, claim>>

PeerCloses ==
  /\ task = "select" /\ connected /\ connected' = FALSE /\ task' = "service"
  /\ UNCHANGED <<closing, handles, wake, nextId, streams, claim, dgrams>>

DropHandles ==
  /\ handles /\ handles' = FALSE
  /\ UNCHANGED <<task, closing, connected, wake, nextId, streams, claim, dgrams>>

ReceiveDatagram ==
  /\ claim.held
  /\ \/ claim.queued > 0 /\ claim' = [claim EXCEPT !.queued = @ - 1]
     \/ claim' = [claim EXCEPT !.held = FALSE, !.queued = 0]
  /\ UNCHANGED <<task, closing, connected, handles, wake, nextId, streams, dgrams>>

Touch(i, q) ==
  /\ streams' = [streams EXCEPT ![i] = q]
  /\ UNCHANGED <<task, closing, connected, handles, nextId, claim, dgrams>>

\* A consumer reads, writes, shuts its writing down, or drops the stream; only the
\* drop does not wake the driver.
Consume(i) ==
  LET q == streams[i] IN
  /\ q.consumer = "open"
  /\ \/ q.inq > 0 /\ Touch(i, [q EXCEPT !.inq = @ - 1, !.taken = @ + 1]) /\ wake' = TRUE
     \/ /\ q.writer /\ task # "ended" /\ q.entry /\ q.fromq < ChannelDepth /\ q.written < MaxOut
        /\ Touch(i, [q EXCEPT !.fromq = @ + 1, !.written = @ + 1]) /\ wake' = TRUE
     \/ q.writer /\ Touch(i, [q EXCEPT !.writer = FALSE]) /\ wake' = TRUE
     \/ Touch(i, [q EXCEPT !.consumer = "gone", !.writer = FALSE, !.inq = 0]) /\ UNCHANGED wake

QuicOver == task = "ended" /\ UNCHANGED quicVars

QuicNext ==
  \/ Service \/ FlushSent \/ DriverFails \/ LastHandle \/ Woken \/ Timer \/ Keepalive
  \/ DatagramCame \/ PeerCloses \/ DropHandles \/ ReceiveDatagram \/ QuicOver
  \/ \E c \in {"open", "claim", "send"} : Dispatch(c)
  \/ \E i \in Streams : Packet(i) \/ Consume(i)

\* The driver's task runs; its keepalive and its commands win a turn again and again.
QuicFairness ==
  /\ WF_quicVars(Service) /\ WF_quicVars(FlushSent)
  /\ SF_quicVars(LastHandle)
  /\ WF_quicVars(Woken \/ Keepalive)

\* The peer ends its half of every stream, and makes room for what is sent on it.
PeerFairness ==
  \A i \in Streams :
    SF_quicVars(Packet(i) /\ (streams'[i].credit > streams[i].credit
                              \/ (streams[i].end = "open" /\ streams'[i].end # "open")))

\* A consumer that reads end of stream on a live connection has read all the peer
\* sent before its FIN; units go missing only behind a reset flag or a dropped
\* consumer; and a FIN follows every unit written (pump_in, pump_out).
StreamsWhole ==
  \A i \in Streams : LET q == streams[i] IN
    /\ q.sent > q.taken + q.inq + q.rx => q.reset \/ q.end = "reset" \/ q.consumer = "gone"
    /\ q.consumer = "open" /\ ~q.toTask /\ ~q.reset => q.sent = q.taken + q.inq
    /\ q.fin => q.carried = q.written
    /\ ~q.stopped => q.written = q.carried + q.fromq + q.pending

\* Once the handles and every consumer are gone the driver ends, if the peer ends
\* its streams (Handshake::drive).
DriverEnds ==
  (~handles /\ \A i \in Streams : streams[i].consumer # "open") ~>
  (task = "ended" \/ \E i \in Streams : streams[i].consumer = "open")
=============================================================================
