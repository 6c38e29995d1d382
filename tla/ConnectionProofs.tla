-------------------------- MODULE ConnectionProofs --------------------------
(* What the connections promise, for any number of streams, requests,        *)
(* handshakes, hosts and profiles: the streams of a QUIC connection, the     *)
(* packet egresses, the exchanges of a terminated connection and the caches  *)
(* its handshake goes through.                                               *)
EXTENDS Quic, Carriers, Exchange, Forgery, FiniteSetTheorems, TLAPS

-----------------------------------------------------------------------------
\* The driver of a QUIC connection and its streams.

\* One stream's fields.
Stream(q) ==
  /\ DOMAIN q = DOMAIN Fresh
  /\ \A f \in {"inq", "fromq", "pending", "rx", "credit", "sent", "taken", "written", "carried"} :
       q[f] \in Nat
  /\ \A f \in {"entry", "toTask", "reset", "finished", "writer", "stopped", "fin"} : q[f] \in BOOLEAN
  /\ q.consumer \in {"none", "open", "gone"}
  /\ q.end \in {"open", "fin", "reset", "shut"}

\* The count of what came in is kept until a reset or the consumer breaks it off,
\* and a driver that let go of its sender has read the transport dry. The count of
\* what went out is kept until the peer stops the stream, and a stream that has
\* its FIN has no writer that could add to it.
StreamKept(q) ==
  /\ Stream(q)
  /\ q.inq <= ChannelDepth
  /\ q.consumer # "gone" /\ ~q.reset /\ q.end # "reset" => q.sent = q.taken + q.inq + q.rx
  /\ q.toTask <=> q.end # "shut"
  /\ q.end \in {"reset", "shut"} => q.rx = 0
  /\ ~q.stopped => q.written = q.carried + q.fromq + q.pending
  /\ q.fin => q.finished /\ ~q.writer /\ q.carried = q.written

\* Every stream is kept, and one no command has opened yet is as pair() made it.
QuicInv ==
  /\ nextId \in Nat
  /\ DOMAIN streams = Streams
  /\ \A i \in Streams : StreamKept(streams[i]) /\ (i >= nextId => streams[i] = Fresh)

LEMMA PumpInKeeps ==
  ASSUME NEW q, StreamKept(q), q.toTask PROVE StreamKept(PumpIn(q))
<1> DEFINE room == ChannelDepth - q.inq
           n == Least(room, q.rx)
<1>1. n \in Nat /\ n <= room /\ n <= q.rx
  BY QuicAssumption DEF StreamKept, Stream, Least
<1> HIDE DEF n
<1>2. CASE q.consumer = "gone"
  <2>1. PumpIn(q) = [q EXCEPT !.toTask = FALSE, !.rx = 0, !.end = "shut"]
    BY <1>2 DEF PumpIn
  <2> QED BY <1>2, <2>1 DEF StreamKept, Stream, Fresh
<1>3. CASE q.consumer # "gone" /\ q.end = "reset" /\ room > 0
  <2>1. PumpIn(q) = [q EXCEPT !.toTask = FALSE, !.reset = TRUE, !.end = "shut"]
    BY <1>3 DEF PumpIn
  <2> QED BY <1>3, <2>1 DEF StreamKept, Stream, Fresh
<1>4. CASE q.consumer # "gone" /\ ~(q.end = "reset" /\ room > 0) /\ q.end = "fin" /\ n = q.rx /\ room > 0
  <2>1. PumpIn(q) = [q EXCEPT !.inq = @ + n, !.rx = 0, !.toTask = FALSE, !.end = "shut"]
    BY <1>4 DEF PumpIn, n
  <2> QED BY <1>1, <1>4, <2>1, QuicAssumption DEF StreamKept, Stream, Fresh
<1>5. CASE q.consumer # "gone" /\ ~(q.end = "reset" /\ room > 0) /\ ~(q.end = "fin" /\ n = q.rx /\ room > 0)
  <2>1. PumpIn(q) = [q EXCEPT !.inq = @ + n, !.rx = @ - n]
    BY <1>5 DEF PumpIn, n
  <2> QED BY <1>1, <1>5, <2>1, QuicAssumption DEF StreamKept, Stream, Fresh
<1> QED BY <1>2, <1>3, <1>4, <1>5

LEMMA PumpOutKeeps ==
  ASSUME NEW q, StreamKept(q) PROVE StreamKept(PumpOut(q))
<1> DEFINE waiting == q.pending + q.fromq
           n == Least(waiting, q.credit)
<1>1. waiting \in Nat /\ n \in Nat /\ n <= waiting /\ n <= q.credit
  BY DEF StreamKept, Stream, Least
<1>2. CASE q.finished
  BY <1>2 DEF PumpOut
<1>3. CASE ~q.finished /\ q.stopped /\ waiting > 0
  <2>1. PumpOut(q) = [q EXCEPT !.finished = TRUE, !.pending = 0, !.fromq = waiting - 1]
    BY <1>3 DEF PumpOut
  <2> HIDE DEF waiting
  <2> QED BY <1>1, <1>3, <2>1 DEF StreamKept, Stream, Fresh
<1>4. CASE ~q.finished /\ ~(q.stopped /\ waiting > 0) /\ waiting = n /\ ~q.writer
  <2>1. PumpOut(q) = [q EXCEPT !.pending = 0, !.fromq = 0, !.credit = @ - n, !.carried = @ + n,
                               !.finished = TRUE, !.fin = ~q.stopped]
    BY <1>4 DEF PumpOut
  <2>2. q.pending + q.fromq = n
    BY <1>4
  <2> HIDE DEF n
  <2> QED BY <1>1, <1>4, <2>1, <2>2 DEF StreamKept, Stream, Fresh
<1>5. CASE ~q.finished /\ ~(q.stopped /\ waiting > 0) /\ ~(waiting = n /\ ~q.writer)
  <2> DEFINE left == IF waiting > n THEN 1 ELSE 0
             queued == IF waiting > n THEN waiting - n - 1 ELSE 0
  <2>1. PumpOut(q) = [q EXCEPT !.pending = left, !.fromq = queued, !.credit = @ - n, !.carried = @ + n]
    BY <1>5 DEF PumpOut
  <2>2. left \in Nat /\ queued \in Nat /\ n + left + queued = q.pending + q.fromq
    <3> HIDE DEF n
    <3> QED BY <1>1 DEF StreamKept, Stream
  <2> HIDE DEF n, left, queued
  <2> QED BY <1>1, <1>5, <2>1, <2>2 DEF StreamKept, Stream, Fresh
<1> QED BY <1>2, <1>3, <1>4, <1>5

LEMMA RetainKeeps ==
  ASSUME NEW q, StreamKept(q) PROVE StreamKept(Retain(q))
  BY DEF StreamKept, Stream, Fresh, Retain

LEMMA PeerKeeps ==
  ASSUME NEW q, StreamKept(q), NEW p \in PeerSent(q) PROVE StreamKept(p)
<1>1. CASE q.end = "open" /\ p = [q EXCEPT !.rx = @ + 1, !.sent = @ + 1]
  BY <1>1 DEF StreamKept, Stream, Fresh
<1>2. CASE q.end = "open" /\ p = [q EXCEPT !.end = "fin"]
  BY <1>2 DEF StreamKept, Stream, Fresh
<1>3. CASE q.end = "open" /\ p = [q EXCEPT !.end = "reset", !.rx = 0]
  BY <1>3 DEF StreamKept, Stream, Fresh
<1>4. CASE p = [q EXCEPT !.credit = @ + 1]
  BY <1>4 DEF StreamKept, Stream, Fresh
<1>5. CASE p = [q EXCEPT !.stopped = TRUE]
  BY <1>5 DEF StreamKept, Stream, Fresh
<1> QED BY <1>1, <1>2, <1>3, <1>4, <1>5 DEF PeerSent

LEMMA FreshKept == StreamKept(Fresh)
  BY QuicAssumption DEF StreamKept, Stream, Fresh

\* Opening touches a stream that is still as it was made: it has no FIN a writer could break.
LEMMA OpenedKept == StreamKept([Fresh EXCEPT !.entry = TRUE, !.consumer = "open", !.writer = TRUE])
  BY QuicAssumption DEF StreamKept, Stream, Fresh

LEMMA QuicInvInit == QuicInit => QuicInv
  BY FreshKept DEF QuicInit, QuicInv

\* A step that moves one opened stream, and nothing else of the streams.
LEMMA OneStream ==
  ASSUME QuicInv, NEW i \in Streams, NEW q, StreamKept(q), streams[i].consumer # "none",
         streams' = [streams EXCEPT ![i] = q], UNCHANGED nextId
  PROVE  QuicInv'
<1>1. streams[i] # Fresh
  BY DEF Fresh
<1> QED BY <1>1 DEF QuicInv, StreamKept, Stream

LEMMA ServiceKeeps == QuicInv /\ Service => QuicInv'
<1> SUFFICES ASSUME QuicInv, Service PROVE QuicInv'
  OBVIOUS
<1>1. ASSUME NEW i \in Streams PROVE StreamKept(streams'[i]) /\ (i >= nextId => streams'[i] = Fresh)
  <2>1. CASE ~streams[i].entry
    BY <2>1 DEF QuicInv, Service
  <2>2. CASE streams[i].entry
    <3> DEFINE q == IF streams[i].toTask /\ Readable(streams[i]) THEN PumpIn(streams[i]) ELSE streams[i]
    <3>1. StreamKept(q)
      BY PumpInKeeps DEF QuicInv
    <3>2. streams'[i] = Retain(PumpOut(q))
      BY <2>2 DEF Service
    <3>3. streams[i] # Fresh
      BY <2>2 DEF Fresh
    <3> HIDE DEF q
    <3> QED BY <3>1, <3>2, <3>3, PumpOutKeeps, RetainKeeps DEF QuicInv
  <2> QED BY <2>1, <2>2
<1>2. DOMAIN streams' = Streams /\ nextId' = nextId
  BY DEF Service
<1> QED BY <1>1, <1>2 DEF QuicInv

LEMMA DispatchKeeps ==
  ASSUME QuicInv, NEW c, Dispatch(c) PROVE QuicInv'
<1>1. PICK kept \in BOOLEAN : \/ c = "open" /\ Open(kept)
                              \/ c = "claim" /\ Claim(kept)
                              \/ c = "send" /\ UNCHANGED <<nextId, streams, claim>>
  BY DEF Dispatch
<1>2. CASE UNCHANGED <<nextId, streams>>
  BY <1>2 DEF QuicInv, StreamKept, Stream
<1>3. CASE Open(kept) /\ nextId \in Streams
  <2>1. streams[nextId] = Fresh /\ nextId \in Nat /\ nextId' = nextId + 1
    BY <1>3 DEF QuicInv, Open
  <2>2. CASE kept
    <3>1. streams' = [streams EXCEPT ![nextId] = [Fresh EXCEPT !.entry = TRUE, !.consumer = "open", !.writer = TRUE]]
      BY <1>3, <2>1, <2>2 DEF Open
    <3> QED BY <2>1, <3>1, OpenedKept, QuicAssumption DEF QuicInv
  <2>3. CASE ~kept
    BY <1>3, <2>1, <2>3, QuicAssumption DEF QuicInv, Open, StreamKept, Stream
  <2> QED BY <2>2, <2>3
<1> QED BY <1>1, <1>2, <1>3 DEF Open, Claim

LEMMA PacketKeeps ==
  ASSUME QuicInv, NEW i \in Streams, Packet(i) PROVE QuicInv'
<1>1. PICK q \in PeerSent(streams[i]) : streams' = [streams EXCEPT ![i] = q]
  BY DEF Packet
<1> QED BY <1>1, PeerKeeps, OneStream DEF QuicInv, Packet

LEMMA ConsumeKeeps ==
  ASSUME QuicInv, NEW i \in Streams, Consume(i) PROVE QuicInv'
<1> DEFINE q == streams[i]
<1>1. StreamKept(q) /\ q.consumer = "open" /\ UNCHANGED nextId
  BY DEF QuicInv, Consume, Touch
<1>2. CASE q.inq > 0 /\ Touch(i, [q EXCEPT !.inq = @ - 1, !.taken = @ + 1])
  <2>1. StreamKept([q EXCEPT !.inq = @ - 1, !.taken = @ + 1])
    <3> HIDE DEF q
    <3> QED BY <1>1, <1>2, QuicAssumption DEF StreamKept, Stream, Fresh
  <2> QED BY <1>1, <1>2, <2>1, OneStream DEF Touch
<1>3. CASE q.writer /\ Touch(i, [q EXCEPT !.fromq = @ + 1, !.written = @ + 1])
  <2>1. StreamKept([q EXCEPT !.fromq = @ + 1, !.written = @ + 1])
    <3> HIDE DEF q
    <3> QED BY <1>1, <1>3 DEF StreamKept, Stream, Fresh
  <2> QED BY <1>1, <1>3, <2>1, OneStream DEF Touch
<1>4. CASE q.writer /\ Touch(i, [q EXCEPT !.writer = FALSE])
  <2>1. StreamKept([q EXCEPT !.writer = FALSE])
    <3> HIDE DEF q
    <3> QED BY <1>1 DEF StreamKept, Stream, Fresh
  <2> QED BY <1>1, <1>4, <2>1, OneStream DEF Touch
<1>5. CASE Touch(i, [q EXCEPT !.consumer = "gone", !.writer = FALSE, !.inq = 0])
  <2>1. StreamKept([q EXCEPT !.consumer = "gone", !.writer = FALSE, !.inq = 0])
    <3> HIDE DEF q
    <3> QED BY <1>1, QuicAssumption DEF StreamKept, Stream, Fresh
  <2> QED BY <1>1, <1>5, <2>1, OneStream DEF Touch
<1> QED BY <1>2, <1>3, <1>4, <1>5 DEF Consume

LEMMA QuicInvNext == QuicInv /\ [QuicNext]_quicVars => QuicInv'
<1> SUFFICES ASSUME QuicInv, [QuicNext]_quicVars PROVE QuicInv'
  OBVIOUS
<1>1. CASE UNCHANGED <<nextId, streams>>
  BY <1>1 DEF QuicInv, StreamKept, Stream
<1>2. CASE Service
  BY <1>2, ServiceKeeps
<1>3. CASE \E c \in {"open", "claim", "send"} : Dispatch(c)
  BY <1>3, DispatchKeeps
<1>4. CASE \E i \in Streams : Packet(i) \/ Consume(i)
  BY <1>4, PacketKeeps, ConsumeKeeps
<1> QED BY <1>1, <1>2, <1>3, <1>4
  DEF QuicNext, quicVars, FlushSent, DriverFails, Ended, LastHandle, Woken, Timer, Keepalive, DatagramCame,
      PeerCloses, DropHandles, ReceiveDatagram, QuicOver

LEMMA QuicInvWhole == QuicInv => StreamsWhole
<1> SUFFICES ASSUME QuicInv, NEW i \in Streams
             PROVE LET q == streams[i] IN
                   /\ q.sent > q.taken + q.inq + q.rx => q.reset \/ q.end = "reset" \/ q.consumer = "gone"
                   /\ q.consumer = "open" /\ ~q.toTask /\ ~q.reset => q.sent = q.taken + q.inq
                   /\ q.fin => q.carried = q.written
                   /\ ~q.stopped => q.written = q.carried + q.fromq + q.pending
  BY DEF StreamsWhole
<1> QED BY DEF QuicInv, StreamKept, Stream

\* Streams stay whole however many are opened and however deep their channels are.
THEOREM QuicStreamsWhole == QuicInit /\ [][QuicNext]_quicVars => []StreamsWhole
  BY QuicInvInit, QuicInvNext, QuicInvWhole, PTL

-----------------------------------------------------------------------------
\* The packet egresses.

\* A tunnel that closed had asked, or its connection is closed: it will not ask again.
CarriersInv ==
  /\ sending \in Nat /\ received \in Nat /\ slices \in Nat
  /\ session \in (IF carrier = "masque" THEN {"none", "up", "closed"} ELSE {"none", "handshaking", "up"})
  /\ state \in {"connecting", "requested", "established", "closed"}
  /\ state = "closed" => request \/ session = "closed"

\* What a step of a carrier may do, from any state the invariant allows.
Honest ==
  /\ gone' > 0 => result' = "exhausted"
  /\ "packet" \in emitted' /\ carrier = "masque" => state' = "established"
  /\ state = "closed" => state' = "closed"

LEMMA LesserFacts ==
  ASSUME NEW a \in Nat, NEW b \in Nat
  PROVE  /\ Lesser(a, b) \in Nat /\ Lesser(a, b) <= a /\ Lesser(a, b) <= b
         /\ a <= b => Lesser(a, b) = a
         /\ a > b => Lesser(a, b) = b
  BY DEF Lesser

\* A packet that found no slice is reported, and the counts stay counts.
LEMMA EmitReports ==
  ASSUME slices \in Nat, NEW kind, Emit(kind)
  PROVE  slices' \in Nat /\ (gone' > 0 => result' = "exhausted") /\ emitted' \subseteq {kind}
  BY DEF Emit, Return

LEMMA FlushReports ==
  ASSUME sending \in Nat, NEW left \in Nat, NEW kinds, FlushQueue(kinds, left)
  PROVE  slices' \in Nat /\ sending' \in Nat /\ (gone' > 0 => result' = "exhausted")
  BY LesserFacts DEF FlushQueue, Return

LEMMA DrainReports ==
  ASSUME NEW waiting \in Nat, NEW left \in Nat, NEW kinds, DrainSend(waiting, kinds, left)
  PROVE  /\ slices' \in Nat /\ sending' \in Nat /\ (gone' > 0 => result' = "exhausted")
         /\ emitted' \subseteq kinds \union {"quic"}
  BY LesserFacts DEF DrainSend, Return

LEMMA AdvanceHonest ==
  ASSUME CarriersInv, carrier = "masque", NEW event \in Events, Advance(event)
  PROVE  CarriersInv' /\ Honest
<1> DEFINE asks == session = "up" /\ ~request
           at == AfterEvent(IF asks THEN "requested" ELSE state, event)
           taken == IF session = "up" /\ at = "established" THEN Lesser(received, slices) ELSE 0
           drop == IF session = "up" /\ at = "established" /\ received > slices THEN 1 ELSE 0
           waiting == IF asks THEN Lesser(sending + 1, MaxQueued) ELSE sending
           kinds == IF taken > 0 THEN {"packet"} ELSE {}
<1>1. /\ event # "none" => request /\ session = "up"
      /\ session = "closed" => state' = "closed"
      /\ session = "none" => state' = state
      /\ session = "up" => state' = at
      /\ request' = (request \/ asks) /\ received' = received - taken - drop
      /\ DrainSend(waiting, kinds, slices - taken)
      /\ UNCHANGED <<carrier, session>>
  BY DEF Advance
<1>2. at \in {"connecting", "requested", "established", "closed"}
      /\ (session = "up" /\ state = "closed" => at = "closed")
      /\ (session = "up" /\ at = "closed" => request')
  BY <1>1 DEF AfterEvent, Events, CarriersInv
<1>3. taken \in Nat /\ taken <= slices /\ received - taken - drop \in Nat /\ slices - taken \in Nat
      /\ (taken > 0 => session = "up" /\ at = "established")
  <2> HIDE DEF at
  <2>1. CASE session = "up" /\ at = "established"
    <3>1. received \in Nat /\ slices \in Nat /\ taken = Lesser(received, slices)
          /\ drop = IF received > slices THEN 1 ELSE 0
      BY <2>1 DEF CarriersInv
    <3> HIDE DEF taken, drop
    <3>2. CASE received > slices
      BY <2>1, <3>1, <3>2, LesserFacts
    <3>3. CASE ~(received > slices)
      <4>1. taken = received /\ drop = 0
        BY <3>1, <3>3 DEF Lesser
      <4> QED BY <2>1, <3>1, <3>3, <4>1
    <3> QED BY <3>2, <3>3
  <2>2. CASE ~(session = "up" /\ at = "established")
    BY <2>2 DEF CarriersInv
  <2> QED BY <2>1, <2>2
<1>4. waiting \in Nat
  BY LesserFacts, CarriersAssumption DEF CarriersInv
<1> HIDE DEF asks, at, taken, drop, waiting
<1>5. /\ slices' \in Nat /\ sending' \in Nat /\ (gone' > 0 => result' = "exhausted")
      /\ emitted' \subseteq kinds \union {"quic"}
  BY <1>1, <1>3, <1>4, DrainReports
<1>6. "packet" \in emitted' => session = "up" /\ at = "established"
  BY <1>3, <1>5
<1> QED BY <1>1, <1>2, <1>3, <1>5, <1>6 DEF CarriersInv, Honest, asks

LEMMA CarriersInvInit == CarriersInit => CarriersInv
  BY CarriersAssumption DEF CarriersInit, CarriersInv

LEMMA CarriersStep ==
  ASSUME CarriersInv, CarriersNext PROVE CarriersInv' /\ Honest
<1>1. CASE WgTunPacket
  <2>1. Lesser(sending + 1, MaxQueued) \in Nat
    BY LesserFacts, CarriersAssumption DEF CarriersInv
  <2>2. CASE session = "handshaking"
    BY <1>1, <2>1, <2>2 DEF WgTunPacket, CarriersInv, Honest, Return
  <2>3. CASE session \in {"up", "none"}
    <3>1. slices' \in Nat /\ (gone' > 0 => result' = "exhausted")
      BY <1>1, <2>3, EmitReports DEF WgTunPacket, CarriersInv
    <3>2. sending' \in Nat /\ session' \in {"up", "handshaking"}
      BY <1>1, <2>1, <2>3 DEF WgTunPacket, CarriersInv
    <3> QED BY <1>1, <3>1, <3>2 DEF WgTunPacket, CarriersInv, Honest
  <2> QED BY <1>1, <2>2, <2>3 DEF WgTunPacket, CarriersInv
<1>2. CASE WgNetworkPacket
  <2>1. sending' \in Nat /\ slices' \in Nat /\ (gone' > 0 => result' = "exhausted")
    BY <1>2, EmitReports, FlushReports DEF WgNetworkPacket, CarriersInv, Return
  <2> QED BY <1>2, <2>1 DEF WgNetworkPacket, CarriersInv, Honest
<1>3. CASE WgTick
  <2>1. sending' \in Nat /\ slices' \in Nat /\ (gone' > 0 => result' = "exhausted")
    BY <1>3, EmitReports, FlushReports DEF WgTick, CarriersInv, Return
  <2> QED BY <1>3, <2>1 DEF WgTick, CarriersInv, Honest
<1>4. CASE MasqueTunPacket
  <2>1. PICK fits \in {0, 1} :
          DrainSend(IF state = "established" THEN Lesser(sending + fits, MaxQueued) ELSE sending, {}, slices)
    BY <1>4 DEF MasqueTunPacket
  <2>2. (IF state = "established" THEN Lesser(sending + fits, MaxQueued) ELSE sending) \in Nat
    BY LesserFacts, CarriersAssumption DEF CarriersInv
  <2>3. /\ slices' \in Nat /\ sending' \in Nat /\ (gone' > 0 => result' = "exhausted")
        /\ emitted' \subseteq {} \union {"quic"}
    BY <2>1, <2>2, DrainReports DEF CarriersInv
  <2> QED BY <1>4, <2>3 DEF MasqueTunPacket, CarriersInv, Honest
<1>5. CASE MasqueNetworkPacket
  <2>1. CASE \E event \in Events : Advance(event)
    BY <1>5, <2>1, AdvanceHonest DEF MasqueNetworkPacket
  <2>2. CASE /\ Return("malformed", {}, 0, slices)
             /\ UNCHANGED <<carrier, session, state, request, sending, received>>
    BY <2>2 DEF CarriersInv, Honest, Return
  <2> QED BY <1>5, <2>1, <2>2 DEF MasqueNetworkPacket
<1>6. CASE MasqueTick
  BY <1>6, AdvanceHonest DEF MasqueTick, Events
<1>7. CASE QuicProgress
  BY <1>7 DEF QuicProgress, CarriersInv, Honest, Return
<1>8. CASE NoPacket
  BY <1>8 DEF NoPacket, CarriersInv, Honest, Return
<1>9. CASE Reclaim
  BY <1>9 DEF Reclaim, CarriersInv, Honest, Return
<1> QED BY <1>1, <1>2, <1>3, <1>4, <1>5, <1>6, <1>7, <1>8, <1>9 DEF CarriersNext

\* No carrier loses an outgoing packet without reporting it, hands the client a packet
\* outside an open tunnel, or reopens a closed one, however small the pool.
THEOREM CarriersStayHonest == CarriersInit /\ [][CarriersNext]_carrierVars => CarriersHonest
<1>1. CarriersInv /\ [CarriersNext]_carrierVars => CarriersInv'
  BY CarriersStep DEF CarriersInv, carrierVars
<1>2. CarriersInv /\ [CarriersNext]_carrierVars =>
        [/\ gone' > 0 => result' = "exhausted"
         /\ "packet" \in emitted' /\ carrier = "masque" => state' = "established"
         /\ state = "closed" => state' = "closed"]_carrierVars
  BY CarriersStep DEF Honest
<1> QED BY <1>1, <1>2, CarriersInvInit, PTL DEF CarriersHonest

-----------------------------------------------------------------------------
(* The exchange.                                                           *)

\* A request holds an answer only from the origin's answering on, and every
\* answer handed over was marked as served in the same step.
ServedInv ==
  /\ served \in BOOLEAN
  /\ DOMAIN requests = Requests
  /\ \A r \in Requests :
       /\ DOMAIN requests[r] = {"pc", "asked", "sent", "answer", "status", "got"}
       /\ requests[r].answer.status # "none" => requests[r].answer \in Answers
       /\ requests[r].pc \in {"idle", "ready", "sending", "failed"} => requests[r].answer.status = "none"
       /\ requests[r].pc = "answered" => requests[r].answer \in Answers
       /\ requests[r].pc # "done" => requests[r].status = "none"
       /\ requests[r].pc = "done" => requests[r].status # "none"
       /\ HandedAnswer(r) => served

LEMMA WaitingShape ==
  /\ DOMAIN Waiting = {"pc", "asked", "sent", "answer", "status", "got"}
  /\ Waiting.pc = "idle" /\ Waiting.status = "none" /\ Waiting.answer.status = "none"
  BY DEF Waiting

LEMMA InitServedInv == ExchangeInit => ServedInv
  BY WaitingShape DEF ExchangeInit, ServedInv, HandedAnswer

LEMMA NextServedInv == ServedInv /\ [ExchangeNext]_exchangeVars => ServedInv'
<1> SUFFICES ASSUME ServedInv, [ExchangeNext]_exchangeVars PROVE ServedInv'
  OBVIOUS
<1> USE ExchangeAssumption DEF ServedInv, HandedAnswer
<1>1. ASSUME NEW r \in Requests, NEW asked \in Asked, Receive(r, asked) PROVE ServedInv'
  <2>1. \/ \E status \in {"421", "403"} : requests' = [requests EXCEPT ![r] =
              [Waiting EXCEPT !.pc = "done", !.asked = asked, !.status = status]]
        \/ \E sent : requests' = [requests EXCEPT ![r] =
              [Waiting EXCEPT !.pc = "ready", !.asked = asked, !.sent = sent]]
    BY <1>1 DEF Receive
  <2>2. served' = served
    BY <1>1 DEF Receive
  <2>3. /\ DOMAIN requests' = Requests
        /\ \A q \in Requests \ {r} : requests'[q] = requests[q]
        /\ DOMAIN requests'[r] = DOMAIN Waiting /\ requests'[r].answer = Waiting.answer
        /\ \/ requests'[r].pc = "done" /\ requests'[r].status \in {"421", "403"}
           \/ requests'[r].pc = "ready" /\ requests'[r].status = "none"
    <3>1. ASSUME NEW status \in {"421", "403"}, requests' = [requests EXCEPT ![r] =
                   [Waiting EXCEPT !.pc = "done", !.asked = asked, !.status = status]]
          PROVE  <2>3!:
      BY <3>1, WaitingShape
    <3>2. ASSUME NEW sent, requests' = [requests EXCEPT ![r] =
                   [Waiting EXCEPT !.pc = "ready", !.asked = asked, !.sent = sent]]
          PROVE  <2>3!:
      BY <3>2, WaitingShape
    <3> QED BY <2>1, <3>1, <3>2
  <2> QED BY <2>2, <2>3, WaitingShape
<1>2. ASSUME NEW r \in Requests, TakeSender(r) PROVE ServedInv'
  BY <1>2 DEF TakeSender
<1>3. ASSUME NEW r \in Requests, NEW answer \in Answers, OriginAnswers(r, answer) PROVE ServedInv'
  BY <1>3 DEF OriginAnswers
<1>4. ASSUME NEW r \in Requests, SendFails(r) PROVE ServedInv'
  BY <1>4 DEF SendFails
<1>5. ASSUME NEW r \in Requests, TellFailure(r) PROVE ServedInv'
  BY <1>5 DEF TellFailure, Replied
<1>6. ASSUME NEW r \in Requests, TellAnswer(r) PROVE ServedInv'
  BY <1>6 DEF TellAnswer
<1>7. CASE UNCHANGED <<served, requests>>
  BY <1>7
<1>8. ASSUME NEW ok \in BOOLEAN, Handshake(ok) PROVE UNCHANGED <<served, requests>>
  BY <1>8 DEF Handshake
<1>9. OriginEnds \/ ClientEnds \/ UpgradeEnds => UNCHANGED <<served, requests>>
  BY DEF OriginEnds, ClientEnds, UpgradeEnds
<1>10. UNCHANGED exchangeVars => UNCHANGED <<served, requests>>
  BY DEF exchangeVars
<1> QED BY <1>1, <1>2, <1>3, <1>4, <1>5, <1>6, <1>7, <1>8, <1>9, <1>10 DEF ExchangeNext

\* Whatever the number of requests and the threads they run on, none is told 502
\* once an answer of this origin was handed over.
THEOREM ServedIsRemembered ==
  ExchangeInit /\ [][ExchangeNext]_exchangeVars => NoBadGatewayAfterAnswer
<1>1. ServedInv /\ [ExchangeNext]_exchangeVars =>
        [\A r \in Requests :
           requests[r].status # "502" /\ requests'[r].status = "502" =>
             ~\E q \in Requests : HandedAnswer(q)]_exchangeVars
  <2> SUFFICES ASSUME ServedInv, ExchangeNext, NEW r \in Requests,
                      requests[r].status # "502", requests'[r].status = "502"
               PROVE  ~served
    BY DEF ServedInv
  <2> USE ExchangeAssumption DEF ServedInv
  <2>1. ASSUME NEW q \in Requests, NEW asked \in Asked, Receive(q, asked) PROVE FALSE
    <3>1. \/ requests'[r] = requests[r]
          \/ \E status \in {"421", "403"} :
               requests'[r] = [Waiting EXCEPT !.pc = "done", !.asked = asked, !.status = status]
          \/ \E sent : requests'[r] = [Waiting EXCEPT !.pc = "ready", !.asked = asked, !.sent = sent]
      BY <2>1 DEF Receive
    <3> QED BY <3>1, WaitingShape
  <2>2. ASSUME NEW q \in Requests, TellFailure(q) PROVE ~served
    BY <2>2 DEF TellFailure, Replied
  <2>3. ASSUME NEW q \in Requests, TellAnswer(q) PROVE FALSE
    BY <2>3 DEF TellAnswer
  <2>4. ASSUME NEW q \in Requests, NEW answer \in Answers, OriginAnswers(q, answer) PROVE FALSE
    BY <2>4 DEF OriginAnswers
  <2>5. ASSUME NEW q \in Requests, TakeSender(q) \/ SendFails(q) PROVE FALSE
    BY <2>5 DEF TakeSender, SendFails
  <2>6. ASSUME NEW ok \in BOOLEAN, Handshake(ok) PROVE FALSE
    BY <2>6 DEF Handshake
  <2>7. ~(OriginEnds \/ ClientEnds \/ UpgradeEnds)
    BY DEF OriginEnds, ClientEnds, UpgradeEnds
  <2> QED BY <2>1, <2>2, <2>3, <2>4, <2>5, <2>6, <2>7 DEF ExchangeNext
<1> QED BY <1>1, InitServedInv, NextServedInv, PTL DEF NoBadGatewayAfterAnswer

-----------------------------------------------------------------------------
(* The bounded memo.                                                       *)

\* The order lists every key once.
Orderly(memo) ==
  /\ DOMAIN memo = {"entries", "order"}
  /\ memo.order \in Seq(Keys(memo))
  /\ \A k \in Keys(memo) : \E i \in 1 .. Len(memo.order) : memo.order[i] = k
  /\ \A i, j \in 1 .. Len(memo.order) : memo.order[i] = memo.order[j] => i = j

LEMMA OrderlyCounts ==
  ASSUME NEW memo, Orderly(memo)
  PROVE  /\ IsFiniteSet(Keys(memo)) /\ Cardinality(Keys(memo)) = Len(memo.order)
         /\ Len(memo.order) \in Nat
<1> DEFINE s == memo.order
           K == Keys(memo)
<1>1. /\ s \in Seq(K) /\ \A k \in K : \E i \in 1 .. Len(s) : s[i] = k
      /\ \A i, j \in 1 .. Len(s) : s[i] = s[j] => i = j
  BY DEF Orderly
<1> HIDE DEF s, K
<1>2. Len(s) \in Nat /\ s \in [1 .. Len(s) -> K]
  BY <1>1
<1>3. s \in Bijection(1 .. Len(s), K)
  BY <1>1, <1>2 DEF Bijection, Injection, Surjection, IsInjective
<1>4. IsFiniteSet(1 .. Len(s)) /\ Cardinality(1 .. Len(s)) = Len(s)
  BY <1>2, FS_Interval
<1>5. IsFiniteSet(K) /\ Cardinality(K) = Len(s)
  BY <1>3, <1>4, FS_Bijection DEF ExistsBijection
<1> QED BY <1>2, <1>5 DEF s, K

LEMMA EmptyOrderly == Orderly(EmptyMemo) /\ Keys(EmptyMemo) = {} /\ Len(EmptyMemo.order) = 0
  BY DEF Orderly, EmptyMemo, Keys

LEMMA AppendFacts ==
  ASSUME NEW S, NEW s \in Seq(S), NEW x \in S
  PROVE  /\ Append(s, x) \in Seq(S) /\ Len(s) \in Nat /\ Len(Append(s, x)) = Len(s) + 1
         /\ Append(s, x)[Len(s) + 1] = x
         /\ \A i \in 1 .. Len(s) : Append(s, x)[i] = s[i] /\ s[i] \in S
  OBVIOUS

LEMMA SeqWider ==
  ASSUME NEW S, NEW T, S \subseteq T, NEW s \in Seq(S)
  PROVE  s \in Seq(T)
  OBVIOUS

LEMMA TailFacts ==
  ASSUME NEW S, NEW s \in Seq(S), s # <<>>
  PROVE  /\ Tail(s) \in Seq(S) /\ Len(s) \in Nat \ {0} /\ Len(Tail(s)) = Len(s) - 1 /\ Head(s) = s[1]
         /\ \A i \in 1 .. Len(s) - 1 : Tail(s)[i] = s[i + 1]
  OBVIOUS

\* The oldest key is the one forgotten, and nothing else changes.
LEMMA EvictedOrderly ==
  ASSUME NEW memo, Orderly(memo), memo.order # <<>>
  PROVE  /\ Orderly(Evicted(memo)) /\ Len(Evicted(memo).order) = Len(memo.order) - 1
         /\ Keys(Evicted(memo)) \subseteq Keys(memo)
         /\ \A j \in Keys(Evicted(memo)) : Evicted(memo).entries[j] = memo.entries[j]
<1> DEFINE s == memo.order
           t == Tail(s)
           K == Keys(memo)
           L == K \ {s[1]}
           out == Evicted(memo)
<1>1. /\ s \in Seq(K) /\ \A k \in K : \E i \in 1 .. Len(s) : s[i] = k
      /\ \A i, j \in 1 .. Len(s) : s[i] = s[j] => i = j
  BY DEF Orderly
<1>2. /\ t \in Seq(K) /\ Len(s) \in Nat \ {0} /\ Len(t) = Len(s) - 1 /\ Head(s) = s[1]
      /\ \A i \in 1 .. Len(s) - 1 : t[i] = s[i + 1]
  BY <1>1, TailFacts
<1>3. out = [entries |-> [j \in L |-> memo.entries[j]], order |-> t]
  BY <1>2 DEF Evicted, Without
<1>4. DOMAIN out = {"entries", "order"} /\ out.order = t /\ Keys(out) = L
      /\ \A j \in L : out.entries[j] = memo.entries[j]
  BY <1>3 DEF Keys
<1> HIDE DEF s, t, K, L, out
<1>5. \A i \in 1 .. Len(t) : i \in 1 .. Len(s) - 1 /\ i + 1 \in 1 .. Len(s) /\ i + 1 # 1
  BY <1>2
<1>6. \A i \in 1 .. Len(t) : t[i] = s[i + 1] /\ t[i] \in K /\ t[i] # s[1]
  <2> SUFFICES ASSUME NEW i \in 1 .. Len(t) PROVE t[i] = s[i + 1] /\ t[i] \in K /\ t[i] # s[1]
    OBVIOUS
  <2>1. 1 \in 1 .. Len(s) /\ i \in 1 .. Len(s) - 1 /\ i + 1 \in 1 .. Len(s) /\ i + 1 # 1
    BY <1>2
  <2>2. t[i] = s[i + 1] /\ s[i + 1] \in K /\ s[1] # s[i + 1]
    <3>1. t[i] = s[i + 1]
      BY <1>2, <2>1
    <3>2. s[i + 1] \in K
      BY <1>1, <2>1
    <3>3. s[1] # s[i + 1]
      BY <1>1, <2>1, Zenon
    <3> QED BY <3>1, <3>2, <3>3
  <2> QED BY <2>2
<1>7. t \in Seq(L)
  <2>1. t \in [1 .. Len(t) -> L] /\ Len(t) \in Nat
    BY <1>2, <1>6 DEF L
  <2> QED BY <2>1
<1>8. \A k \in L : \E i \in 1 .. Len(t) : t[i] = k
  <2> SUFFICES ASSUME NEW k \in L PROVE \E i \in 1 .. Len(t) : t[i] = k
    OBVIOUS
  <2>1. PICK m \in 1 .. Len(s) : s[m] = k
    BY <1>1 DEF L
  <2>2. m # 1
    BY <2>1 DEF L
  <2>3. m - 1 \in 1 .. Len(t) /\ (m - 1) + 1 = m
    BY <1>2, <2>2
  <2> QED BY <1>6, <2>1, <2>3
<1>9. \A i, j \in 1 .. Len(t) : t[i] = t[j] => i = j
  <2> SUFFICES ASSUME NEW i \in 1 .. Len(t), NEW j \in 1 .. Len(t), t[i] = t[j] PROVE i = j
    OBVIOUS
  <2>1. i + 1 \in 1 .. Len(s) /\ j + 1 \in 1 .. Len(s) /\ s[i + 1] = s[j + 1]
    BY <1>5, <1>6
  <2>2. i + 1 = j + 1
    BY <1>1, <2>1, Zenon
  <2> QED BY <1>2, <2>2
<1>10. Orderly(out)
  BY <1>4, <1>7, <1>8, <1>9 DEF Orderly
<1> QED BY <1>2, <1>4, <1>10 DEF s, t, K, L, out

\* One more key behind the others.
Pushed(memo, k, v) == [entries |-> Stored(memo, k, v), order |-> Append(memo.order, k)]

LEMMA PushedOrderly ==
  ASSUME NEW memo, Orderly(memo), NEW k, k \notin Keys(memo), NEW v
  PROVE  /\ Orderly(Pushed(memo, k, v)) /\ Len(Pushed(memo, k, v).order) = Len(memo.order) + 1
         /\ Keys(Pushed(memo, k, v)) = Keys(memo) \union {k} /\ Pushed(memo, k, v).entries[k] = v
         /\ \A j \in Keys(memo) : Pushed(memo, k, v).entries[j] = memo.entries[j]
<1> DEFINE s == memo.order
           t == Append(s, k)
           K == Keys(memo)
           L == K \union {k}
           out == Pushed(memo, k, v)
<1>1. /\ s \in Seq(K) /\ \A x \in K : \E i \in 1 .. Len(s) : s[i] = x
      /\ \A i, j \in 1 .. Len(s) : s[i] = s[j] => i = j
  BY DEF Orderly
<1>2. /\ DOMAIN out = {"entries", "order"} /\ out.order = t /\ Keys(out) = L /\ out.entries[k] = v
      /\ \A j \in K : out.entries[j] = memo.entries[j]
  BY DEF Keys, Stored, Pushed
<1>3. s \in Seq(L) /\ k \in L
  BY <1>1, SeqWider
<1>4. /\ t \in Seq(L) /\ Len(s) \in Nat /\ Len(t) = Len(s) + 1 /\ t[Len(s) + 1] = k
      /\ \A i \in 1 .. Len(s) : t[i] = s[i]
  BY <1>3, AppendFacts
<1> HIDE DEF t, out
<1>5. \A i \in 1 .. Len(s) : s[i] \in K /\ s[i] # k
  BY <1>1
<1> HIDE DEF s, K, L
<1>6. \A i \in 1 .. Len(t) : i \in 1 .. Len(s) \/ i = Len(s) + 1
  BY <1>4
<1>7. \A i \in 1 .. Len(s) : i \in 1 .. Len(t) /\ Len(s) + 1 \in 1 .. Len(t)
  BY <1>4
<1>8. Len(s) + 1 \in 1 .. Len(t)
  BY <1>4
<1>9. \A x \in L : \E i \in 1 .. Len(t) : t[i] = x
  BY <1>1, <1>4, <1>7, <1>8 DEF L
<1>10. \A i, j \in 1 .. Len(t) : t[i] = t[j] => i = j
  BY <1>1, <1>4, <1>5, <1>6
<1>11. Orderly(out)
  BY <1>2, <1>4, <1>9, <1>10 DEF Orderly
<1> QED BY <1>2, <1>4, <1>11 DEF s, t, K, L, out

\* A memo that kept its order and its bound, holds v under k, and of the others only what
\* memo held.
Gained(out, memo, capacity, k, v) ==
  /\ Orderly(out) /\ Len(out.order) <= capacity
  /\ k \in Keys(out) /\ out.entries[k] = v
  /\ \A j \in Keys(out) : j # k => j \in Keys(memo) /\ out.entries[j] = memo.entries[j]

\* That is what insert (fifo.rs) makes of an orderly one.
LEMMA InsertKeeps ==
  ASSUME NEW memo, Orderly(memo), NEW capacity \in Nat \ {0}, Len(memo.order) <= capacity,
         NEW k, NEW v
  PROVE  Gained(Insert(memo, capacity, k, v), memo, capacity, k, v)
<1> DEFINE out == Insert(memo, capacity, k, v)
<1>1. CASE HasKey(memo, k)
  <2>1. out = [memo EXCEPT !.entries = Stored(memo, k, v)]
    BY <1>1 DEF Insert
  <2>2. /\ DOMAIN out = {"entries", "order"} /\ out.order = memo.order /\ out.entries = Stored(memo, k, v)
    BY <2>1 DEF Orderly
  <2>3. Keys(memo) \union {k} = Keys(memo)
    BY <1>1 DEF HasKey, Keys
  <2> HIDE DEF out
  <2>4. /\ Keys(out) = Keys(memo) /\ k \in Keys(out) /\ out.entries[k] = v
        /\ \A j \in Keys(memo) : j # k => out.entries[j] = memo.entries[j]
    BY <2>2, <2>3 DEF Stored, Keys
  <2>5. Orderly(out)
    BY <2>2, <2>4 DEF Orderly
  <2> QED BY <2>2, <2>4, <2>5 DEF out, Gained
<1>2. CASE ~HasKey(memo, k)
  <2> DEFINE full == Cardinality(Keys(memo)) >= capacity /\ memo.order # <<>>
             room == IF full THEN Evicted(memo) ELSE memo
             pushed == Pushed(room, k, v)
  <2>1. out = pushed
    BY <1>2 DEF Insert, Pushed
  <2>2. Cardinality(Keys(memo)) = Len(memo.order) /\ Len(memo.order) \in Nat
    BY OrderlyCounts
  <2>3. /\ Orderly(room) /\ Len(room.order) < capacity /\ Keys(room) \subseteq Keys(memo)
        /\ Len(room.order) \in Nat
        /\ \A j \in Keys(room) : room.entries[j] = memo.entries[j]
    <3>1. CASE full
      <4>1. Len(Evicted(memo).order) \in Nat
        BY <3>1, EvictedOrderly, OrderlyCounts
      <4> QED BY <2>2, <3>1, <4>1, EvictedOrderly
    <3>2. CASE ~full
      <4>1. Len(memo.order) < capacity
        <5>1. memo.order = <<>> => Len(memo.order) = 0
          OBVIOUS
        <5> QED BY <2>2, <3>2, <5>1
      <4> QED BY <2>2, <3>2, <4>1
    <3> QED BY <3>1, <3>2
  <2> HIDE DEF room
  <2>4. k \notin Keys(room)
    BY <1>2, <2>3 DEF HasKey, Keys
  <2>5. /\ Orderly(pushed) /\ Len(pushed.order) = Len(room.order) + 1
        /\ Keys(pushed) = Keys(room) \union {k} /\ pushed.entries[k] = v
        /\ \A j \in Keys(room) : pushed.entries[j] = room.entries[j]
    BY <2>3, <2>4, PushedOrderly
  <2> HIDE DEF pushed, out
  <2>6. Len(pushed.order) <= capacity
    BY <2>3, <2>5
  <2> QED BY <2>1, <2>3, <2>5, <2>6 DEF out, Gained
<1> QED BY <1>1, <1>2

-----------------------------------------------------------------------------
(* The caches.                                                             *)

\* A cache of at most cap entries, cleared when it is full.
Cached(f, cap) == IsFiniteSet(DOMAIN f) /\ Cardinality(DOMAIN f) <= cap

\* What a handshake has is of its own host and profile; a leaf it minted and has yet to
\* keep is of its host and not of the future.
Own(shake, now) ==
  /\ DOMAIN shake = DOMAIN Resting
  /\ shake.leaf = NoLeaf \/ shake.leaf.host = shake.host
  /\ shake.leafAge < LeafRefresh
  /\ shake.connector = NoConnector \/ shake.connector.profile = shake.profile
  /\ shake.offered = NoSession \/ shake.offered.host = shake.host
  /\ shake.rules = NoRules \/ shake.rules = shake.host
  /\ shake.pc = "keep" => shake.leaf.host = shake.host /\ shake.leaf.at \in 0 .. now

ForgeryInv ==
  /\ age \in Nat
  /\ Orderly(leaves) /\ Len(leaves.order) <= LeafCapacity
  /\ \A h \in Keys(leaves) : leaves.entries[h].host = h /\ leaves.entries[h].at \in 0 .. age
  /\ Orderly(rules) /\ Len(rules.order) <= RulesCapacity
  /\ \A h \in Keys(rules) : rules.entries[h] = h
  /\ Cached(connectors, MaxConnectors) /\ \A p \in DOMAIN connectors : connectors[p].profile = p
  /\ Cached(resumable, MaxSessions) /\ \A h \in DOMAIN resumable : resumable[h].host = h
  /\ DOMAIN shakes = Handshakes /\ \A s \in Handshakes : Own(shakes[s], age)

LEMMA NothingCached == ASSUME NEW cap \in Nat PROVE Cached(<<>>, cap)
<1>1. DOMAIN <<>> = {}
  OBVIOUS
<1> QED BY <1>1, FS_EmptySet DEF Cached

Cleared(f, cap) == IF Cardinality(DOMAIN f) >= cap THEN <<>> ELSE f

Within(g, f) == \A j \in DOMAIN g : j \in DOMAIN f /\ g[j] = f[j]

Holds(g, f, cap, k, v) ==
  /\ Cached(g, cap) /\ k \in DOMAIN g /\ g[k] = v
  /\ \A j \in DOMAIN g : j # k => j \in DOMAIN f /\ g[j] = f[j]

\* One more entry, in a cache that was cleared if it was full.
LEMMA SetCached ==
  ASSUME NEW f, NEW cap \in Nat \ {0}, Cached(f, cap), NEW k, NEW v
  PROVE  /\ Cached(Cleared(f, cap), cap) /\ Within(Cleared(f, cap), f)
         /\ Holds(Set(Cleared(f, cap), k, v), f, cap, k, v)
<1> DEFINE kept == Cleared(f, cap)
<1> USE DEF Cleared
<1>1. /\ DOMAIN Set(kept, k, v) = DOMAIN kept \union {k} /\ Set(kept, k, v)[k] = v
      /\ \A j \in DOMAIN Set(kept, k, v) : j # k => j \in DOMAIN kept /\ Set(kept, k, v)[j] = kept[j]
  BY DEF Set
<1>2. \A j \in DOMAIN kept : j \in DOMAIN f /\ kept[j] = f[j]
  OBVIOUS
<1>3. IsFiniteSet(DOMAIN kept) /\ Cardinality(DOMAIN kept) \in Nat /\ Cardinality(DOMAIN kept) < cap
  <2>1. CASE Cardinality(DOMAIN f) >= cap
    <3>1. DOMAIN kept = {}
      BY <2>1
    <3> QED BY <3>1, FS_EmptySet
  <2>2. CASE ~(Cardinality(DOMAIN f) >= cap)
    <3>1. kept = f /\ IsFiniteSet(DOMAIN f)
      BY <2>2 DEF Cached
    <3>2. Cardinality(DOMAIN f) \in Nat
      BY <3>1, FS_CardinalityType
    <3> QED BY <2>2, <3>1, <3>2
  <2> QED BY <2>1, <2>2
<1> HIDE DEF kept
<1>4. IsFiniteSet(DOMAIN kept \union {k}) /\ Cardinality(DOMAIN kept \union {k}) <= cap
  BY <1>3, FS_AddElement
<1> QED BY <1>1, <1>2, <1>3, <1>4 DEF kept, Cached, Within, Holds

LEMMA ForgeryInvInit == ForgeryInit => ForgeryInv
<1> SUFFICES ASSUME ForgeryInit PROVE ForgeryInv
  OBVIOUS
<1>1. Own(Resting, 0)
  BY ForgeryAssumption DEF Own, Resting
<1>2. /\ Orderly(leaves) /\ Keys(leaves) = {} /\ Len(leaves.order) = 0
      /\ Orderly(rules) /\ Keys(rules) = {} /\ Len(rules.order) = 0
  BY EmptyOrderly DEF ForgeryInit
<1>3. Cached(connectors, MaxConnectors) /\ Cached(resumable, MaxSessions)
  BY ForgeryAssumption, NothingCached DEF ForgeryInit
<1>4. DOMAIN connectors = {} /\ DOMAIN resumable = {}
  BY DEF ForgeryInit
<1> QED BY <1>1, <1>2, <1>3, <1>4, ForgeryAssumption DEF ForgeryInit, ForgeryInv

\* Nothing is disturbed by a step that only moves one handshake.
LEMMA OneOwn ==
  ASSUME ForgeryInv, NEW s \in Handshakes, NEW new, shakes' = [shakes EXCEPT ![s] = new],
         Own(new, age)
  PROVE  DOMAIN shakes' = Handshakes /\ \A t \in Handshakes : Own(shakes'[t], age)
  BY DEF ForgeryInv

LEMMA ForgeryInvNext == ForgeryInv /\ [ForgeryNext]_forgeryVars => ForgeryInv'
<1> SUFFICES ASSUME ForgeryInv, [ForgeryNext]_forgeryVars PROVE ForgeryInv'
  OBVIOUS
<1> USE ForgeryAssumption
<1>1. ASSUME NEW s \in Handshakes, NEW new, shakes' = [shakes EXCEPT ![s] = new], Own(new, age),
             UNCHANGED <<age, leaves, connectors, resumable, rules>>
      PROVE  ForgeryInv'
  <2>1. DOMAIN shakes' = Handshakes /\ \A t \in Handshakes : Own(shakes'[t], age)
    BY <1>1, OneOwn
  <2> QED BY <1>1, <2>1 DEF ForgeryInv
<1>2. ASSUME NEW s \in Handshakes PROVE Own(shakes[s], age)
  BY DEF ForgeryInv
<1>3. Own(Resting, age)
  BY DEF Own, Resting
<1>4. ASSUME NEW s \in Handshakes, NEW host \in HostNames, NEW profile \in Profiles,
             SeekConnector(s, host, profile)
      PROVE  ForgeryInv'
  <2> DEFINE hit == profile \in DOMAIN connectors
             new == [Resting EXCEPT !.pc = IF hit THEN "configure" ELSE "build", !.host = host,
                       !.profile = profile,
                       !.connector = IF hit THEN connectors[profile] ELSE NoConnector]
  <2>1. Own(new, age)
    BY DEF Own, Resting, ForgeryInv
  <2>2. shakes' = [shakes EXCEPT ![s] = new] /\ UNCHANGED <<age, leaves, connectors, resumable, rules>>
    BY <1>4 DEF SeekConnector
  <2> HIDE DEF new
  <2> QED BY <1>1, <2>1, <2>2
<1>5. ASSUME NEW s \in Handshakes, StoreConnector(s) PROVE ForgeryInv'
  <2> DEFINE key == shakes[s].profile
             kept == Cleared(connectors, MaxConnectors)
             fresh == Set(kept, key, [profile |-> key])
             stored == IF key \in DOMAIN kept THEN kept ELSE fresh
             new == [shakes[s] EXCEPT !.pc = "configure", !.connector = stored[key]]
  <2>1. Cached(connectors, MaxConnectors) /\ \A p \in DOMAIN connectors : connectors[p].profile = p
    BY DEF ForgeryInv
  <2>2. /\ Cached(kept, MaxConnectors) /\ Within(kept, connectors)
        /\ Holds(fresh, connectors, MaxConnectors, key, [profile |-> key])
    BY <2>1, SetCached, Zenon
  <2>3. connectors' = stored /\ UNCHANGED <<age, leaves, resumable, rules>>
    BY <1>5 DEF StoreConnector, Cleared
  <2>4. shakes' = [shakes EXCEPT ![s] = new]
    BY <1>5 DEF StoreConnector, Cleared, ForgeryInv
  <2> HIDE DEF kept, fresh
  <2>5. /\ Cached(stored, MaxConnectors) /\ \A p \in DOMAIN stored : stored[p].profile = p
        /\ stored[key].profile = key
    BY <2>1, <2>2 DEF Within, Holds
  <2>6. Own(new, age)
    BY <1>2, <2>5 DEF Own
  <2> HIDE DEF new, stored
  <2>7. DOMAIN shakes' = Handshakes /\ \A t \in Handshakes : Own(shakes'[t], age)
    BY <2>4, <2>6, OneOwn
  <2> QED BY <2>3, <2>5, <2>7 DEF ForgeryInv
<1>6. ASSUME NEW s \in Handshakes, Configure(s) PROVE ForgeryInv'
  <2> DEFINE host == shakes[s].host
             new == [shakes[s] EXCEPT !.pc = "origin", !.offered =
                       IF host \in DOMAIN resumable THEN resumable[host] ELSE NoSession]
  <2>1. Own(new, age)
    BY <1>2 DEF Own, ForgeryInv
  <2>2. shakes' = [shakes EXCEPT ![s] = new] /\ UNCHANGED <<age, leaves, connectors, resumable, rules>>
    BY <1>6 DEF Configure, ForgeryInv
  <2> HIDE DEF new
  <2> QED BY <1>1, <2>1, <2>2
<1>7. ASSUME NEW s \in Handshakes, NEW issues \in BOOLEAN, OriginUp(s, issues) PROVE ForgeryInv'
  <2> DEFINE host == shakes[s].host
             kept == Cleared(resumable, MaxSessions)
             fresh == Set(kept, host, [host |-> host])
             new == [shakes[s] EXCEPT !.pc = "lookup"]
  <2>1. Cached(resumable, MaxSessions) /\ \A h \in DOMAIN resumable : resumable[h].host = h
    BY DEF ForgeryInv
  <2>2. Holds(fresh, resumable, MaxSessions, host, [host |-> host])
    BY <2>1, SetCached, Zenon
  <2>3. resumable' \in {fresh, resumable} /\ UNCHANGED <<age, leaves, connectors, rules>>
    BY <1>7 DEF OriginUp, Cleared
  <2>4. shakes' = [shakes EXCEPT ![s] = new]
    BY <1>7 DEF OriginUp, ForgeryInv
  <2> HIDE DEF kept, fresh
  <2>5. Cached(resumable', MaxSessions) /\ \A h \in DOMAIN resumable' : resumable'[h].host = h
    BY <2>1, <2>2, <2>3 DEF Holds
  <2>6. Own(new, age)
    BY <1>2 DEF Own
  <2> HIDE DEF new
  <2>7. DOMAIN shakes' = Handshakes /\ \A t \in Handshakes : Own(shakes'[t], age)
    BY <2>4, <2>6, OneOwn
  <2> QED BY <2>3, <2>5, <2>7 DEF ForgeryInv
<1>8. ASSUME NEW s \in Handshakes, LookUpLeaf(s) PROVE ForgeryInv'
  <2> DEFINE host == shakes[s].host
             hit == HasKey(leaves, host) /\ age < leaves.entries[host].at + LeafRefresh
             found == [shakes[s] EXCEPT !.pc = "page", !.leaf = leaves.entries[host],
                                       !.leafAge = age - leaves.entries[host].at]
             missed == [shakes[s] EXCEPT !.pc = "mint"]
  <2>1. hit => Own(found, age)
    <3> SUFFICES ASSUME hit PROVE Own(found, age)
      OBVIOUS
    <3>1. /\ leaves.entries[host].host = host /\ leaves.entries[host].at \in Nat /\ age \in Nat
          /\ leaves.entries[host].at <= age
      BY DEF ForgeryInv, HasKey, Keys
    <3>2. age - leaves.entries[host].at < LeafRefresh
      BY <3>1
    <3> QED BY <1>2, <3>1, <3>2 DEF Own
  <2>2. Own(missed, age)
    BY <1>2 DEF Own
  <2>3. /\ shakes' = [shakes EXCEPT ![s] = IF hit THEN found ELSE missed]
        /\ UNCHANGED <<age, leaves, connectors, resumable, rules>>
    BY <1>8 DEF LookUpLeaf, ForgeryInv
  <2> HIDE DEF found, missed, hit
  <2> QED BY <1>1, <2>1, <2>2, <2>3
<1>9. ASSUME NEW s \in Handshakes, NEW ok \in BOOLEAN, Mint(s, ok) PROVE ForgeryInv'
  <2> DEFINE minted == [shakes[s] EXCEPT !.pc = "keep", !.leaf = [host |-> shakes[s].host, at |-> age]]
  <2>1. Own(minted, age)
    BY <1>2 DEF Own, ForgeryInv
  <2>2. /\ shakes' = [shakes EXCEPT ![s] = IF ok THEN minted ELSE Resting]
        /\ UNCHANGED <<age, leaves, connectors, resumable, rules>>
    BY <1>9 DEF Mint, ForgeryInv
  <2> HIDE DEF minted
  <2> QED BY <1>1, <1>3, <2>1, <2>2
<1>10. ASSUME NEW s \in Handshakes, KeepLeaf(s) PROVE ForgeryInv'
  <2> DEFINE host == shakes[s].host
             kept == Insert(leaves, LeafCapacity, host, shakes[s].leaf)
             new == [shakes[s] EXCEPT !.pc = "page"]
  <2>1. Own(new, age)
    BY <1>2 DEF Own
  <2>2. Orderly(leaves) /\ Len(leaves.order) <= LeafCapacity
    BY DEF ForgeryInv
  <2>3. Gained(kept, leaves, LeafCapacity, host, shakes[s].leaf)
    BY <2>2, InsertKeeps, Zenon
  <2>4. shakes[s].leaf.host = host /\ shakes[s].leaf.at \in 0 .. age
    BY <1>2, <1>10 DEF KeepLeaf, Own
  <2>5. /\ shakes' = [shakes EXCEPT ![s] = new] /\ leaves' = kept
        /\ UNCHANGED <<age, connectors, resumable, rules>>
    BY <1>10 DEF KeepLeaf, ForgeryInv
  <2> HIDE DEF new, kept
  <2>6. \A h \in Keys(kept) : kept.entries[h].host = h /\ kept.entries[h].at \in 0 .. age
    BY <2>3, <2>4 DEF ForgeryInv, Gained
  <2>7. DOMAIN shakes' = Handshakes /\ \A t \in Handshakes : Own(shakes'[t], age)
    BY <2>1, <2>5, OneOwn
  <2> QED BY <2>3, <2>5, <2>6, <2>7 DEF ForgeryInv, Gained
<1>11. ASSUME NEW s \in Handshakes, SeekRules(s) PROVE ForgeryInv'
  <2> DEFINE host == shakes[s].host
             hit == HasKey(rules, host)
             new == [shakes[s] EXCEPT !.pc = IF hit THEN "served" ELSE "compile",
                                     !.rules = IF hit THEN rules.entries[host] ELSE NoRules]
  <2>1. Own(new, age)
    BY <1>2 DEF Own, ForgeryInv, HasKey, Keys
  <2>2. shakes' = [shakes EXCEPT ![s] = new] /\ UNCHANGED <<age, leaves, connectors, resumable, rules>>
    BY <1>11 DEF SeekRules, ForgeryInv
  <2> HIDE DEF new
  <2> QED BY <1>1, <2>1, <2>2
<1>12. ASSUME NEW s \in Handshakes, KeepRules(s) PROVE ForgeryInv'
  <2> DEFINE host == shakes[s].host
             inserted == Insert(rules, RulesCapacity, host, host)
             kept == InsertIfAbsent(rules, RulesCapacity, host, host)
             new == [shakes[s] EXCEPT !.pc = "served", !.rules = kept.entries[host]]
  <2>1. Orderly(rules) /\ Len(rules.order) <= RulesCapacity /\ \A h \in Keys(rules) : rules.entries[h] = h
    BY DEF ForgeryInv
  <2>2. Gained(inserted, rules, RulesCapacity, host, host)
    BY <2>1, InsertKeeps, Zenon
  <2>3. kept = IF HasKey(rules, host) THEN rules ELSE inserted
    BY DEF InsertIfAbsent
  <2>4. shakes' = [shakes EXCEPT ![s] = new] /\ rules' = kept
        /\ UNCHANGED <<age, leaves, connectors, resumable>>
    BY <1>12 DEF KeepRules, ForgeryInv
  <2> HIDE DEF kept, inserted
  <2>5. /\ Orderly(kept) /\ Len(kept.order) <= RulesCapacity /\ \A h \in Keys(kept) : kept.entries[h] = h
        /\ kept.entries[host] = host
    BY <2>1, <2>2, <2>3 DEF HasKey, Keys, Gained
  <2>6. Own(new, age)
    BY <1>2, <2>5 DEF Own
  <2> HIDE DEF new
  <2>7. DOMAIN shakes' = Handshakes /\ \A t \in Handshakes : Own(shakes'[t], age)
    BY <2>4, <2>6, OneOwn
  <2> QED BY <2>4, <2>5, <2>7 DEF ForgeryInv
<1>13. ASSUME NEW s \in Handshakes, Conclude(s) PROVE ForgeryInv'
  BY <1>1, <1>3, <1>13 DEF Conclude
<1>14. ASSUME Age PROVE ForgeryInv'
  <2>1. age \in Nat /\ age' = age + 1 /\ 0 .. age \subseteq 0 .. age'
    BY <1>14 DEF Age, ForgeryInv
  <2>2. UNCHANGED <<leaves, connectors, resumable, rules, shakes>>
    BY <1>14 DEF Age
  <2>3. \A s \in Handshakes : Own(shakes[s], age')
    BY <1>2, <2>1 DEF Own
  <2>4. \A h \in Keys(leaves) : leaves.entries[h].host = h /\ leaves.entries[h].at \in 0 .. age'
    BY <2>1 DEF ForgeryInv
  <2> QED BY <2>1, <2>2, <2>3, <2>4 DEF ForgeryInv
<1>15. CASE UNCHANGED forgeryVars
  BY <1>15 DEF forgeryVars, ForgeryInv
<1> QED BY <1>4, <1>5, <1>6, <1>7, <1>8, <1>9, <1>10, <1>11, <1>12, <1>13, <1>14, <1>15 DEF ForgeryNext

\* A handshake is given only what belongs to its own host and profile and a leaf young
\* enough, whatever handshakes race on the caches of ca.rs, mirror.rs and rules.rs, and no
\* cache outgrows its bound, for any capacities.
THEOREM HandshakesGetTheirOwn == ForgeryInit /\ [][ForgeryNext]_forgeryVars => []GivenItsOwn
<1>1. ForgeryInv => GivenItsOwn
  <2> SUFFICES ASSUME ForgeryInv PROVE GivenItsOwn
    OBVIOUS
  <2>1. ASSUME NEW memo, NEW cap, Orderly(memo), Len(memo.order) <= cap PROVE MemoSound(memo, cap)
    <3>1. memo.order \in Seq(Keys(memo))
      BY <2>1 DEF Orderly
    <3>2. /\ DOMAIN memo.order = 1 .. Len(memo.order)
          /\ \A i \in 1 .. Len(memo.order) : memo.order[i] \in Keys(memo)
      BY <3>1
    <3>3. {memo.order[i] : i \in DOMAIN memo.order} = Keys(memo)
      <4>1. ASSUME NEW k \in Keys(memo) PROVE \E i \in DOMAIN memo.order : memo.order[i] = k
        BY <2>1, <3>2 DEF Orderly
      <4> QED BY <3>2, <4>1
    <3> QED BY <2>1, <3>3, OrderlyCounts DEF MemoSound
  <2>2. MemoSound(leaves, LeafCapacity) /\ MemoSound(rules, RulesCapacity)
    BY <2>1 DEF ForgeryInv
  <2>3. ASSUME NEW s \in Handshakes PROVE Own(shakes[s], age)
    BY DEF ForgeryInv
  <2> QED BY <2>2, <2>3 DEF GivenItsOwn, ForgeryInv, Cached, Own
<1> QED BY <1>1, ForgeryInvInit, ForgeryInvNext, PTL
==============================================================================
