------------------------------- MODULE Framing -------------------------------
(* Byte streams through a proxy: the negotiation that opens one, and the     *)
(* framing of what it carries.                                               *)
EXTENDS Integers, Sequences, SequencesExt, FiniteSetsExt

-----------------------------------------------------------------------------
(* One-time negotiations of the stream proxies (sansio.rs negotiate), with   *)
(* the three machines it drives: SOCKS5, Hysteria2's stream request and the  *)
(* HTTP upgrade. The server answers as a script says, in pieces of any size, *)
(* with tunnel payload right behind its grant; then Prefixed replays what    *)
(* the negotiation read too far.                                             *)

CONSTANTS
  Protocols,      \* of {"socks5", "hysteria2", "upgrade"}
  MaxNegotiation, \* MAX_NEGOTIATION
  Chunk,          \* NEGOTIATION_CHUNK
  MaxPaid         \* bound: payload the server sends

VARIABLES
  plan,     \* protocol, credentials, the server's replies, its grant, its haste
  link,     \* bytes on their way here, replies and payload sent, closed
  machine,  \* phase and offset
  received, \* read during the negotiation
  written,  \* messages written, in order
  stage,    \* "advance", "read", "open", "failed"
  prefix,   \* Prefixed: bytes to replay
  consumer  \* bytes the flow has read

negotiationVars == <<plan, link, machine, received, written, stage, prefix, consumer>>

Lengths == [len0 |-> 0, len1 |-> 1, len2 |-> 2, over |-> MaxNegotiation + 1]
Fill(n) == [i \in 1..n |-> "x"]

(* What a server may answer. *)
Grants == {<<"5", "ok", "rsv", "v4", "x", "port">>, <<"5", "ok", "rsv", "name", "len2", "x", "x", "port">>}
Refusals == {<<"5", "refused", "rsv">>, <<"5", "ok", "rsv", "atyp">>, <<"4", "ok", "rsv">>,
             <<"5", "ok", "rsv", "name", "len0", "port">>}

SocksScripts(credentials) ==
  {[replies |-> <<<<"5", "none">>, r>>, grants |-> r \in Grants] : r \in Grants \cup Refusals}
  \cup {[replies |-> <<<<"5", "userpass">>, <<"1", "0">>, r>>, grants |-> credentials /\ r \in Grants] :
         r \in Grants \cup Refusals}
  \cup {[replies |-> <<<<"5", "userpass">>, <<"1", "failed">>>>, grants |-> FALSE],
        [replies |-> <<<<"5", "unacceptable">>>>, grants |-> FALSE],
        [replies |-> <<<<"4", "none">>>>, grants |-> FALSE]}

HysteriaScripts ==
  {[replies |-> <<<<s, m>> \o Fill(Lengths[m]) \o <<p>> \o Fill(Lengths[p])>>, grants |-> s = "0"] :
     s \in {"0", "1"}, m \in {"len0", "len1"}, p \in {"len0", "len2"}}
  \cup {[replies |-> <<<<"0", "over">>>>, grants |-> FALSE]}

UpgradeScripts ==
  {[replies |-> <<<<"101", "connection", "upgrade", "end">>>>, grants |-> TRUE],
   [replies |-> <<<<"101", "connection", "end">>>>, grants |-> FALSE],
   [replies |-> <<<<"403", "end">>>>, grants |-> FALSE],
   [replies |-> <<<<"101">> \o Fill(MaxNegotiation) \o <<"end">>>>, grants |-> FALSE]}

NegotiationInit ==
  /\ \E p \in Protocols, c \in BOOLEAN, eager \in BOOLEAN :
       \E s \in CASE p = "socks5" -> SocksScripts(c) [] p = "hysteria2" -> HysteriaScripts
                  [] p = "upgrade" -> UpgradeScripts :
         plan = [protocol |-> p, credentials |-> c, eager |-> eager,
                 replies |-> s.replies, grants |-> s.grants]
  /\ link = [wire |-> <<>>, replied |-> 0, paid |-> 0, closed |-> FALSE]
  /\ machine = [phase |-> IF plan.protocol = "socks5" THEN "greeting" ELSE "request", at |-> 0]
  /\ received = <<>> /\ written = <<>> /\ stage = "advance" /\ prefix = <<>> /\ consumer = <<>>

\* Username and password are offered only when they are configured.
Greeting == IF plan.credentials THEN "greeting with password" ELSE "greeting"

(* Decoders: what they consume of their input, zero when it is incomplete. *)
Rest(input, at) == SubSeq(input, at + 1, Len(input))
Incomplete(m, out) == [machine |-> m, out |-> out, result |-> "incomplete", consumed |-> 0]
Complete(m, out, n) == [machine |-> m, out |-> out, result |-> "complete", consumed |-> n]
Refused(m) == [machine |-> m, out |-> <<>>, result |-> "error", consumed |-> 0]

\* decode_address: the width of the address after its type, the port included.
AddressWidth(rest) ==
  IF rest[1] # "name" THEN 2
  ELSE IF Len(rest) < 2 THEN Len(rest) ELSE 1 + Lengths[rest[2]] + 1

Requesting(m, input, out) ==
  LET rest == Rest(input, m.at) IN
  IF Len(rest) < 3 THEN Incomplete(m, out)
  ELSE IF rest[1] # "5" \/ rest[2] # "ok" THEN Refused(m)
  ELSE IF Len(rest) = 3 THEN Incomplete(m, out)
  ELSE IF rest[4] = "atyp" THEN Refused(m)
  ELSE LET width == AddressWidth(Rest(rest, 3)) IN
       IF Len(rest) < 4 + width THEN Incomplete(m, out)
       ELSE IF rest[4] = "name" /\ width = 2 THEN Refused(m) \* an empty name
       ELSE Complete(m, out, m.at + 4 + width)

Authenticating(m, input, out) ==
  LET rest == Rest(input, m.at) IN
  IF Len(rest) < 2 THEN Incomplete(m, out)
  ELSE IF SubSeq(rest, 1, 2) # <<"1", "0">> THEN Refused(m)
  ELSE Requesting([phase |-> "requesting", at |-> m.at + 2], input, Append(out, "request"))

Selecting(m, input, out) ==
  LET rest == Rest(input, m.at) IN
  IF Len(rest) < 2 THEN Incomplete(m, out)
  ELSE IF rest[1] # "5" \/ rest[2] = "unacceptable" THEN Refused(m)
  ELSE IF rest[2] = "userpass"
       THEN IF ~plan.credentials THEN Refused(m)
            ELSE Authenticating([phase |-> "authenticating", at |-> m.at + 2], input,
                                Append(out, "credentials"))
  ELSE Requesting([phase |-> "requesting", at |-> m.at + 2], input, Append(out, "request"))

\* Hysteria2: status, message and padding, each with its length.
OpenStream(m, input, out) ==
  IF Len(input) < 2 THEN Incomplete(m, out)
  ELSE IF input[2] = "over" THEN Refused(m)
  ELSE LET padding == 3 + Lengths[input[2]] IN
       IF Len(input) < padding THEN Incomplete(m, out)
       ELSE LET whole == padding + Lengths[input[padding]] IN
            IF Len(input) < whole THEN Incomplete(m, out)
            ELSE IF input[1] # "0" THEN Refused(m) ELSE Complete(m, out, whole)

\* A response head: whole at its blank line, then the status and both headers.
Upgraded(m, input, out) ==
  IF ~Contains(input, "end") THEN Incomplete(m, out)
  ELSE LET head == CHOOSE i \in 1..Len(input) : input[i] = "end" IN
       IF input[1] = "101" /\ {"connection", "upgrade"} \subseteq ToSet(SubSeq(input, 1, head))
       THEN Complete(m, out, head) ELSE Refused(m)

SocksFromStart(m, input) ==
  IF m.phase = "greeting" THEN Incomplete([m EXCEPT !.phase = "selecting"], <<Greeting>>)
  ELSE IF m.phase = "selecting" THEN Selecting([m EXCEPT !.at = 0], input, <<>>)
  ELSE IF m.phase = "authenticating" THEN Authenticating([m EXCEPT !.at = 0], input, <<>>)
  ELSE Requesting([m EXCEPT !.at = 0], input, <<>>)

Socks(m, input) ==
  IF m.phase = "greeting" THEN Incomplete([m EXCEPT !.phase = "selecting"], <<Greeting>>)
  ELSE IF m.phase = "selecting" THEN Selecting(m, input, <<>>)
  ELSE IF m.phase = "authenticating" THEN Authenticating(m, input, <<>>)
  ELSE Requesting(m, input, <<>>)

\* The request goes out on the first call only.
Requested(m) == [m EXCEPT !.phase = "requesting"]
RequestOnce(m) == IF m.phase = "request" THEN <<"request">> ELSE <<>>

AdvanceMachine(input) ==
  IF plan.protocol = "socks5" THEN Socks(machine, input)
  ELSE IF plan.protocol = "hysteria2" THEN OpenStream(Requested(machine), input, RequestOnce(machine))
  ELSE Upgraded(Requested(machine), input, RequestOnce(machine))

(* negotiate: advance and write; on completion the surplus is the prefix. *)
Advance ==
  /\ stage = "advance"
  /\ LET p == AdvanceMachine(received) IN
     /\ machine' = p.machine
     /\ written' = written \o p.out
     /\ \/ /\ p.result = "complete" /\ p.consumed <= Len(received) /\ stage' = "open"
           /\ prefix' = Rest(received, p.consumed) /\ received' = <<>>
        \/ /\ p.result = "incomplete" /\ Len(received) < MaxNegotiation /\ stage' = "read"
           /\ UNCHANGED <<prefix, received>>
        \/ /\ \/ p.result = "error"
              \/ p.result = "incomplete" /\ Len(received) >= MaxNegotiation
              \/ p.out # <<>> /\ link.closed
           /\ stage' = "failed" /\ UNCHANGED <<prefix, received>>
  /\ UNCHANGED <<plan, link, consumer>>

Read(k) ==
  /\ stage = "read" /\ k \in 1..Chunk /\ k <= Len(link.wire)
  /\ received' = received \o SubSeq(link.wire, 1, k)
  /\ link' = [link EXCEPT !.wire = Rest(@, k)] /\ stage' = "advance"
  /\ UNCHANGED <<plan, machine, written, prefix, consumer>>

ReadEnds ==
  /\ stage = "read" /\ link.wire = <<>> /\ link.closed /\ stage' = "failed"
  /\ UNCHANGED <<plan, link, machine, received, written, prefix, consumer>>

\* Prefixed: the surplus first, then the stream itself.
Consume(k) ==
  /\ stage = "open" /\ k \in 1..Chunk
  /\ \/ /\ prefix # <<>> /\ k <= Len(prefix)
        /\ consumer' = consumer \o SubSeq(prefix, 1, k) /\ prefix' = Rest(prefix, k)
        /\ UNCHANGED link
     \/ /\ prefix = <<>> /\ k <= Len(link.wire)
        /\ consumer' = consumer \o SubSeq(link.wire, 1, k)
        /\ link' = [link EXCEPT !.wire = Rest(@, k)] /\ UNCHANGED prefix
  /\ UNCHANGED <<plan, machine, received, written, stage>>

(* The server: the next reply once it was asked, or at once when it does not *)
(* wait; payload after a grant; a close at any time.                         *)
ServerReplies ==
  /\ ~link.closed /\ link.replied < Len(plan.replies)
  /\ plan.eager \/ link.replied < Len(written)
  /\ link' = [link EXCEPT !.wire = @ \o plan.replies[link.replied + 1], !.replied = @ + 1]
  /\ UNCHANGED <<plan, machine, received, written, stage, prefix, consumer>>

Payload(n) == SubSeq(<<"p1", "p2", "p3">>, 1, n)
ServerPays ==
  /\ ~link.closed /\ plan.grants /\ link.replied = Len(plan.replies) /\ link.paid < MaxPaid
  /\ link' = [link EXCEPT !.wire = Append(@, Payload(link.paid + 1)[link.paid + 1]), !.paid = @ + 1]
  /\ UNCHANGED <<plan, machine, received, written, stage, prefix, consumer>>

ServerCloses ==
  /\ ~link.closed /\ link' = [link EXCEPT !.closed = TRUE]
  /\ UNCHANGED <<plan, machine, received, written, stage, prefix, consumer>>

NegotiationNext ==
  \/ Advance \/ ReadEnds \/ ServerReplies \/ ServerPays \/ ServerCloses
  \/ \E k \in 1..Chunk : Read(k) \/ Consume(k)

NegotiationSpec == NegotiationInit /\ [][NegotiationNext]_negotiationVars

(* A negotiation writes each of its messages once and in order, opens only   *)
(* when the server granted it, fails only when the server refused, closed or *)
(* never came to an end, and the flow then reads the server's payload from   *)
(* its first byte, however the reads cut and joined replies and payload.     *)
NegotiatedExactly ==
  /\ \E messages \in {<<"request">>, <<Greeting, "request">>, <<Greeting, "credentials", "request">>} :
       IsPrefix(written, messages)
  /\ stage = "open" =>
       plan.grants /\ consumer \o prefix \o link.wire = Payload(link.paid)
  /\ stage = "failed" => ~plan.grants \/ link.closed

-----------------------------------------------------------------------------
(* Framing of tunnel bytes and of messages on byte streams: the Framed       *)
(* adapter with its codecs (VLESS header, Shadowsocks chunks), the HTTP/2    *)
(* stream (raw or gRPC), WebSocket messages, and length-prefixed messages    *)
(* (DNS over TLS, VLESS datagrams). The stream cuts anywhere, reads are      *)
(* short, writes are partial. Bytes are numbered in the order they are sent. *)

CONSTANTS
  Codecs,     \* of {"header", "sealed", "grpc", "raw", "websocket", "dot", "datagrams"}
  SizeLists,  \* sizes of the messages a peer sends, in order
  Base,       \* values of one length octet, or of one varint group
  ReadChunk,  \* bytes of one read
  MaxChunk,   \* MAX_CHUNK
  MaxMessage, \* MAX_DNS_MESSAGE
  MaxWrite    \* bound: bytes the flow writes

VARIABLES
  codec,
  peer,    \* what it sends: sizes, honest, its bytes still on the wire, cut short
  decoder, \* state, undecoded bytes, decoded bytes, bytes left of a message, counter
  reading, \* "open", "ended", "failed"
  got,     \* bytes the flow has read, or messages with their place
  writer,  \* frame on its way out, payload bytes in it, counter
  buffer,  \* bytes the flow wants to write
  frames,  \* sizes of the frames begun
  out,     \* on the wire
  told     \* bytes reported written

framingVars == <<codec, peer, decoder, reading, got, writer, buffer, frames, out, told>>

(* The wire forms. *)
Byte(i) == 1000 + i
Bytes(after, n) == [i \in 1..n |-> Byte(after + i)]
Before(sizes, i) == LET s[k \in 0..Len(sizes)] == IF k = 0 THEN 0 ELSE s[k - 1] + sizes[k] IN s[i - 1]
Total(sizes) == Before(sizes, Len(sizes) + 1)
Part(sizes, i) == Bytes(Before(sizes, i), sizes[i])

U16(n) == <<n \div Base, n % Base>>
FromU16(b) == b[1] * Base + b[2]
Tag(k) == 500 + k
Good == 1
Bad == 2

\* Groups from the lowest; every group but the last is marked. Two hold any size here.
PutVarint(n) == IF n < Base THEN <<n>> ELSE <<Base + (n % Base), n \div Base>>
GetVarint(b) ==
  LET used == CHOOSE i \in 1..Len(b) : b[i] < Base /\ \A j \in 1..(i - 1) : b[j] >= Base
      v[i \in 0..Len(b)] == IF i = 0 THEN 0 ELSE v[i - 1] + ((b[i] % Base) * (Base ^ (i - 1)))
  IN IF \E i \in 1..Len(b) : b[i] < Base THEN [value |-> v[used], used |-> used]
     ELSE [value |-> 0, used |-> 0]

\* One message: sealed chunks carry two tags, counted on.
SealedChunk(counter, part) == U16(Len(part)) \o <<Tag(counter)>> \o part \o <<Tag(counter + 1)>>
GrpcMessage(part) == <<Good>> \o PutVarint(Len(part)) \o part
LengthPrefixed(part) == U16(Len(part)) \o part
Frame(counter, part) ==
  CASE codec = "sealed" -> SealedChunk(counter, part)
    [] codec = "grpc" -> GrpcMessage(part)
    [] codec \in {"dot", "datagrams"} -> LengthPrefixed(part)
    [] codec \in {"header", "raw", "websocket"} -> part

Encoded(sizes, counter) ==
  FlattenSeq([i \in 1..Len(sizes) |-> Frame(counter + 2 * (i - 1), Part(sizes, i))])

\* Before the first message: VLESS version and addons; salt and response header.
Prelude(honest) ==
  LET mark == IF honest THEN Good ELSE Bad IN
  CASE codec \in {"header", "datagrams"} -> <<mark, 1, 7>>
    [] codec = "sealed" -> <<7, mark>>
    [] codec \in {"grpc", "raw", "websocket", "dot"} -> <<>>

Start == [header |-> "header", datagrams |-> "header", sealed |-> "salt", grpc |-> "response",
          raw |-> "response", websocket |-> "frames", dot |-> "frames"]

FramingInit ==
  /\ codec \in Codecs
  /\ \E sizes \in SizeLists, honest \in BOOLEAN :
       peer = [sizes |-> sizes, honest |-> honest, cut |-> FALSE,
               wire |-> Prelude(honest) \o Encoded(sizes, 0)]
  /\ decoder = [at |-> Start[codec], coded |-> <<>>, plain |-> <<>>, left |-> 0, counter |-> 0]
  /\ reading = "open" /\ got = <<>>
  /\ writer = [pending |-> <<>>, taken |-> 0, counter |-> 2]
  /\ buffer = <<>> /\ frames = <<>> /\ out = <<>> /\ told = 0

(* Decoding. *)
After(s, n) == SubSeq(s, n + 1, Len(s))
Failed(d) == [d EXCEPT !.at = "failed"]

\* decode_response: version, then addons by their length; zero while incomplete.
DecodeResponse(b) ==
  IF Len(b) < 2 THEN 0 ELSE IF Len(b) < 2 + b[2] THEN 0 ELSE 2 + b[2]
BadVersion(b) == b # <<>> /\ b[1] # Good

\* The VLESS codec: once the header is off, what was read behind it is kept.
StripForgetful(d) ==
  LET n == DecodeResponse(d.coded) IN
  IF BadVersion(d.coded) THEN Failed(d)
  ELSE IF n = 0 THEN d
  ELSE [d EXCEPT !.at = "transparent", !.coded = <<>>]

Strip(d) ==
  LET n == DecodeResponse(d.coded) IN
  IF BadVersion(d.coded) THEN Failed(d)
  ELSE IF n = 0 THEN d
  ELSE [d EXCEPT !.at = "transparent", !.plain = @ \o After(d.coded, n), !.coded = <<>>]

Needed(d) ==
  CASE d.at = "salt" -> 1 [] d.at = "fixed" -> 4 [] d.at = "length" -> 3 [] d.at = "payload" -> d.left + 1

\* The Shadowsocks codec: a block opens only under the counter it was sealed with.
Open(d) ==
  LET needed == Needed(d)
      block == SubSeq(d.coded, 1, needed)
      rest == [d EXCEPT !.coded = After(@, needed)]
      opened == [rest EXCEPT !.counter = @ + 1]
  IN IF Len(d.coded) < needed THEN d
     ELSE IF d.at = "salt" THEN [rest EXCEPT !.at = "fixed"]
     ELSE IF block[needed] # Tag(d.counter) THEN Failed(d)
     ELSE IF d.at = "fixed" THEN
       IF block[1] # Good THEN Failed(d) \* type, age or salt
       ELSE [opened EXCEPT !.at = "payload", !.left = FromU16(SubSeq(block, 2, 3))]
     ELSE IF d.at = "length" THEN [opened EXCEPT !.at = "payload", !.left = FromU16(block)]
     ELSE [opened EXCEPT !.at = "length", !.plain = @ \o SubSeq(block, 1, d.left)]

\* The gRPC stream: between messages everything held is header, and what the
\* header does not use is the message's beginning.
Header(d) ==
  LET head == d.coded \o d.plain
      length == GetVarint(After(head, 1))
  IN IF d.left > 0 THEN d
     ELSE IF length.used = 0 THEN [d EXCEPT !.coded = head, !.plain = <<>>]
     ELSE [d EXCEPT !.left = length.value, !.plain = After(head, 1 + length.used), !.coded = <<>>]

Decoded(d) ==
  CASE d.at = "header" /\ codec = "header" -> Strip(d)
    [] d.at = "header" /\ codec = "datagrams" ->
         LET s == Strip(d) IN
         IF s.at = "transparent" THEN [s EXCEPT !.at = "frames", !.coded = s.plain, !.plain = <<>>] ELSE s
    [] codec = "sealed" -> Open(d)
    [] d.at = "ready" /\ codec = "grpc" -> Header(d)
    [] d.at \in {"transparent", "response", "frames", "failed"} \/ (d.at = "ready" /\ codec = "raw") -> d

Least(a, b) == IF a < b THEN a ELSE b
Deliverable == IF codec = "grpc" THEN Least(decoder.left, Len(decoder.plain)) ELSE Len(decoder.plain)

\* A whole message at the front of what is held: Frames::recv, read_datagrams.
Whole(d) ==
  /\ codec \in {"dot", "datagrams"} /\ d.at = "frames" /\ Len(d.coded) >= 2
  /\ Len(d.coded) >= 2 + FromU16(d.coded)
TooLong(d) ==
  codec = "dot" /\ d.at = "frames" /\ Len(d.coded) >= 2 /\ FromU16(d.coded) > MaxMessage

writeVars == <<writer, buffer, frames, out, told>>

\* Bytes decoded earlier are delivered before anything else is done.
Deliver(k) ==
  /\ reading = "open" /\ k \in 1..Deliverable
  /\ got' = got \o SubSeq(decoder.plain, 1, k)
  /\ decoder' = [decoder EXCEPT !.plain = After(@, k), !.left = IF codec = "grpc" THEN @ - k ELSE @]
  /\ UNCHANGED <<codec, peer, reading, writeVars>>

Decode ==
  /\ reading = "open" /\ Deliverable = 0 /\ Decoded(decoder) # decoder
  /\ decoder' = Decoded(decoder)
  /\ reading' = IF decoder'.at = "failed" THEN "failed" ELSE "open"
  /\ UNCHANGED <<codec, peer, got, writeVars>>

\* A whole message; an empty datagram is ignored, and a full queue drops one.
TakeMessage ==
  /\ reading = "open" /\ Whole(decoder) /\ ~TooLong(decoder)
  /\ LET n == FromU16(decoder.coded)
         m == [place |-> decoder.counter + 1, bytes |-> SubSeq(decoder.coded, 3, 2 + n)]
     IN /\ decoder' = [decoder EXCEPT !.coded = After(@, 2 + n), !.counter = @ + 1]
        /\ \/ (codec = "dot" \/ n > 0) /\ got' = Append(got, m)
           \/ codec = "datagrams" /\ got' = got
  /\ UNCHANGED <<codec, peer, reading, writeVars>>

RefuseLength ==
  /\ reading = "open" /\ TooLong(decoder) /\ reading' = "failed"
  /\ UNCHANGED <<codec, peer, decoder, got, writeVars>>

\* More is read only when nothing held can be used.
Hungry ==
  reading = "open" /\ Deliverable = 0 /\ Decoded(decoder) = decoder /\ ~Whole(decoder) /\ ~TooLong(decoder)

Filled(d, data) ==
  IF (codec = "grpc" /\ d.left > 0) \/ codec = "raw" \/ d.at = "transparent"
  THEN [d EXCEPT !.plain = data] ELSE [d EXCEPT !.coded = @ \o data]

ReadBytes(k) ==
  /\ Hungry /\ codec # "websocket" /\ decoder.at # "response"
  /\ k \in 1..ReadChunk /\ k <= Len(peer.wire)
  /\ decoder' = Filled(decoder, SubSeq(peer.wire, 1, k))
  /\ peer' = [peer EXCEPT !.wire = After(@, k)]
  /\ UNCHANGED <<codec, reading, got, writeVars>>

\* poll_next: a binary message, empty ones among them.
ReadMessage ==
  /\ Hungry /\ codec = "websocket" /\ decoder.counter < Len(peer.sizes) /\ ~peer.cut
  /\ LET part == Part(peer.sizes, decoder.counter + 1) IN
     /\ decoder' = [decoder EXCEPT !.plain = part, !.counter = @ + 1]
     /\ peer' = [peer EXCEPT !.wire = After(@, Len(part))]
  /\ UNCHANGED <<codec, reading, got, writeVars>>

\* The HTTP/2 response arrives with the first read; any status but 200 refuses.
Respond ==
  /\ Hungry /\ decoder.at = "response"
  /\ decoder' = [decoder EXCEPT !.at = IF peer.honest THEN "ready" ELSE "failed"]
  /\ reading' = IF peer.honest THEN "open" ELSE "failed"
  /\ UNCHANGED <<codec, peer, got, writeVars>>

\* A partial frame ends with its stream; a resolver's session ends in an error.
EndOfStream ==
  /\ Hungry /\ peer.wire = <<>> /\ decoder.at # "response"
  /\ codec = "websocket" => peer.cut \/ decoder.counter = Len(peer.sizes)
  /\ reading' = IF codec = "dot" THEN "failed" ELSE "ended"
  /\ UNCHANGED <<codec, peer, decoder, got, writeVars>>

CutShort ==
  /\ reading = "open" /\ peer.wire # <<>>
  /\ peer' = [peer EXCEPT !.wire = <<>>, !.cut = TRUE]
  /\ UNCHANGED <<codec, decoder, reading, got, writeVars>>

(* Writing. *)
readVars == <<codec, peer, decoder, reading, got>>

\* The flow's copy buffer takes more while a write is pending.
Produce ==
  /\ Len(buffer) + told < MaxWrite /\ buffer' = Append(buffer, Byte(told + Len(buffer) + 1))
  /\ UNCHANGED <<readVars, writer, frames, out, told>>

\* Framed: a frame of at most MAX_CHUNK is begun when none is on its way.
BeginFrame ==
  /\ codec = "sealed" /\ buffer # <<>> /\ writer.pending = <<>>
  /\ LET take == Least(Len(buffer), MaxChunk) IN
     /\ writer' = [pending |-> Frame(writer.counter, SubSeq(buffer, 1, take)), taken |-> take,
                   counter |-> writer.counter + 2]
     /\ frames' = Append(frames, take)
  /\ UNCHANGED <<readVars, buffer, out, told>>

Finish(n) == buffer' = After(buffer, n) /\ told' = told + n

\* The inner stream takes some of it; once all is out, its payload is reported.
PushFrame(k) ==
  /\ writer.pending # <<>> /\ k \in 1..Len(writer.pending)
  /\ out' = out \o SubSeq(writer.pending, 1, k)
  /\ writer' = [writer EXCEPT !.pending = After(@, k)]
  /\ IF k = Len(writer.pending) THEN Finish(writer.taken) ELSE UNCHANGED <<buffer, told>>
  /\ UNCHANGED <<readVars, frames>>

\* In one call: verbatim as far as the stream takes it, HTTP/2 as far as its
\* window allows, a WebSocket or length-prefixed message whole.
WriteOnce(k) ==
  /\ out' = out \o Frame(0, SubSeq(buffer, 1, k))
  /\ frames' = Append(frames, k) /\ Finish(k)
  /\ UNCHANGED <<readVars, writer>>
WriteVerbatim(k) == codec = "header" /\ WriteOnce(k)
WriteGranted(k) == codec \in {"grpc", "raw"} /\ WriteOnce(k)
WriteWhole == codec \in {"websocket", "dot", "datagrams"} /\ buffer # <<>> /\ WriteOnce(Len(buffer))

ReadNext ==
  \/ Decode \/ TakeMessage \/ RefuseLength \/ ReadMessage \/ Respond \/ EndOfStream \/ CutShort
  \/ \E k \in 1..ReadChunk : ReadBytes(k)
  \/ \E k \in 1..Deliverable : Deliver(k)

WriteNext ==
  \/ Produce \/ BeginFrame \/ WriteWhole
  \/ \E k \in 1..Len(writer.pending) : PushFrame(k)
  \/ \E k \in 1..Len(buffer) : WriteVerbatim(k) \/ WriteGranted(k)

(* What a flow reads is the start of what its peer sent, byte for byte, and  *)
(* all of it when the stream ended where the peer ended it; a message is     *)
(* read whole and in its place or not at all. Nothing is read from a peer    *)
(* that refused, and nothing but a refusal, a length beyond the limit or the *)
(* end of a resolver's stream is an error, wherever reads fall.              *)
DecodedWhole ==
  LET sizes == peer.sizes
      messages == codec \in {"dot", "datagrams"}
      ended == reading = "ended" /\ ~peer.cut
  IN /\ ~messages => got = Bytes(0, Len(got)) /\ Len(got) <= Total(sizes)
     /\ messages => /\ \A i \in 1..Len(got) : got[i].place <= Len(sizes) /\ got[i].bytes = Part(sizes, got[i].place)
                    /\ \A i \in 2..Len(got) : got[i - 1].place < got[i].place
     /\ ended /\ ~messages => Len(got) = Total(sizes)
     /\ ended /\ messages => decoder.counter = Len(sizes)
     /\ got # <<>> => peer.honest \/ codec \in {"dot", "websocket"}
     /\ reading = "failed" => \/ ~peer.honest
                              \/ codec = "dot" /\ (peer.cut \/ peer.wire = <<>> \/ \E i \in 1..Len(sizes) : sizes[i] > MaxMessage)

(* The bytes on the wire, with the frame still going out, are exactly the    *)
(* frames begun, no frame is begun inside another, and a flow is told its    *)
(* bytes are written when, and only when, the frame that carries them is     *)
(* out: none is sent twice or skipped, though the buffer grew meanwhile.     *)
WireMatchesReports ==
  /\ out \o writer.pending = Encoded(frames, 2)
  /\ told = Total(frames) - (IF writer.pending = <<>> THEN 0 ELSE writer.taken)
  /\ buffer = Bytes(told, Len(buffer))

\* A byte stream keeps its bytes through every framing: what is decoded is
\* what the peer sent, and what was reported written is what is on the wire.
StreamsFramed == DecodedWhole /\ WireMatchesReports
=============================================================================
