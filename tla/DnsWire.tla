------------------------------- MODULE DnsWire -------------------------------
(* DNS names and records on the wire (src/policy/dns.rs): reading a name     *)
(* with its compression pointers, the question that is copied into every     *)
(* response, the removal of SvcParams from an HTTPS record, and a response   *)
(* written into a buffer of the client's size. Octets keep their meaning in  *)
(* a name: up to MaxLabel a label's length, Pointer a pointer's first octet, *)
(* anything else reserved. In a response a record is its kind and its size.  *)
EXTENDS Naturals, Sequences, FiniteSets, FiniteSetsExt, SequencesExt, Functions

CONSTANTS
  MessageBytes, \* octets that occur in messages
  MaxBytes,     \* bound: octets of a message
  NameAt,       \* where names start
  MaxLabel,     \* MAX_LABEL_LEN
  MaxName,      \* MAX_NAME_CHARS
  ParamKeys,    \* keys of SvcParams
  MaxParams,    \* bound: SvcParams of a record
  HeaderBytes,       \* octets of the header and the question
  MinResponse,  \* MIN_DNS_RESPONSE
  MaxResponse,  \* MAX_DNS_RESPONSE
  MaxU16,       \* the largest count of a header
  Requests,     \* what clients ask: counts, records, and whether the host is inspected
  Replies       \* what the upstream answers: head, count, records

ASSUME WireAssumption == HeaderBytes <= MinResponse /\ MinResponse <= MaxResponse

VARIABLES
  message, \* the octets, or the presentation form of a name
  reader,  \* at, name so far, bytes consumed, pointers since the last label
  status,  \* "reading", "read", or the error
  params,  \* of the upstream's record: [key, alpn]
  rewritten, \* the parameters of the client's record
  request, reply, \* the messages a response is made of
  response,  \* what the response holds: its flags, its count, its records, its length
  steered  \* addresses of the reply that will be inspected

responseVars == <<request, reply, response, steered>>
wireVars == <<message, reader, status, params, rewritten, responseVars>>

Dot == 46
Pointer == 192
Lower(octet) == IF octet \in 65..90 THEN octet + 32 ELSE octet
LowerAll(octets) == [i \in 1..Len(octets) |-> Lower(octets[i])]

(* Names: labels joined by a dot. *)
Joined(name, label) == IF name = <<>> THEN label ELSE name \o <<Dot>> \o label
IsRoot(name) == name = <<>>
WireLen(name) == IF IsRoot(name) THEN 1 ELSE Len(name) + 2

\* The labels of a name, as the places between its dots.
LabelsOf(name) ==
  LET dots == {0, Len(name) + 1} \cup {i \in 1..Len(name) : name[i] = Dot}
      ends == SetToSortSeq(dots, <)
  IN [i \in 1..(Len(ends) - 1) |-> SubSeq(name, ends[i] + 1, ends[i + 1] - 1)]

\* Presentation form: a final dot is dropped; an empty or long label refuses it.
NameOf(text) ==
  LET trimmed == IF text # <<>> /\ Last(text) = Dot THEN Front(text) ELSE text
      labels == LabelsOf(trimmed)
  IN IF \/ Len(trimmed) > MaxName
        \/ trimmed # <<>> /\ \E i \in 1..Len(labels) : labels[i] = <<>> \/ Len(labels[i]) > MaxLabel
     THEN [ok |-> FALSE, name |-> <<>>] ELSE [ok |-> TRUE, name |-> LowerAll(trimmed)]

WriteName(name) ==
  (IF IsRoot(name) THEN <<>>
   ELSE FlattenSeq([i \in 1..Len(LabelsOf(name)) |-> <<Len(LabelsOf(name)[i])>> \o LabelsOf(name)[i]]))
  \o <<0>>

Reader(at) == [at |-> at, start |-> at, name |-> <<>>, consumed |-> 0, jumps |-> 0]

Params == {[key |-> k, alpn |-> a] : k \in ParamKeys, a \in {"h2"}}
          \cup {[key |-> 1, alpn |-> a] : a \in {"h2", "h3", "empty"}}

NoMessage == [strip |-> FALSE, head |-> "whole", counts |-> <<0, 0, 0>>, records |-> <<>>]
Blank == [flags |-> {}, count |-> 0, records |-> <<>>, len |-> 0]

NoResponse == request = NoMessage /\ reply = NoMessage /\ response = Blank /\ steered = {}

WireInit ==
  /\ rewritten = <<>>
  /\ \/ /\ message \in UNION {[1..n -> MessageBytes] : n \in 0..MaxBytes}
        /\ reader \in {Reader(at) : at \in NameAt}
        /\ status = "reading" /\ params = <<>> /\ NoResponse
     \/ /\ params \in UNION {[1..n -> Params] : n \in 0..MaxParams}
        /\ message = <<>> /\ reader = Reader(0) /\ status = "record" /\ NoResponse
     \/ /\ request \in Requests /\ reply \in Replies
        /\ status = "answered" /\ response = Blank /\ steered = {}
        /\ message = <<>> /\ reader = Reader(0) /\ params = <<>>

\* The octet at the cursor, counted from zero, if there is one.
Held(n) == reader.at + n <= Len(message)
Length == message[reader.at + 1]

Ends ==
  /\ status = "reading" /\ Held(1) /\ Length = 0
  /\ status' = "read"
  /\ reader' = [reader EXCEPT !.at = @ + 1,
                              !.consumed = (IF @ = 0 THEN reader.at + 1 ELSE @) - reader.start]
  /\ UNCHANGED <<message, params, rewritten, responseVars>>

\* A label of this length; one that holds a dot is refused, and so is a name too long.
Label == SubSeq(message, reader.at + 2, reader.at + 1 + Length)
ReadDottedLabel ==
  /\ status = "reading" /\ Held(1) /\ Length \in 1..MaxLabel /\ Held(1 + Length)
  /\ Len(Joined(reader.name, Label)) <= MaxName
  /\ reader' = [reader EXCEPT !.at = @ + 1 + Length, !.name = Joined(@, LowerAll(Label)), !.jumps = 0]
  /\ UNCHANGED <<message, status, params, rewritten, responseVars>>

ReadLabel ==
  /\ status = "reading" /\ Held(1) /\ Length \in 1..MaxLabel /\ Held(1 + Length)
  /\ ~Contains(Label, Dot) /\ Len(Joined(reader.name, Label)) <= MaxName
  /\ reader' = [reader EXCEPT !.at = @ + 1 + Length, !.name = Joined(@, LowerAll(Label)), !.jumps = 0]
  /\ UNCHANGED <<message, status, params, rewritten, responseVars>>

\* A pointer to before itself; what was consumed ends at the first one.
FollowPointer ==
  /\ status = "reading" /\ Held(2) /\ Length = Pointer
  /\ message[reader.at + 2] < reader.at
  /\ reader' = [reader EXCEPT !.at = message[reader.at + 2], !.jumps = @ + 1,
                              !.consumed = IF @ = 0 THEN reader.at + 2 ELSE @]
  /\ UNCHANGED <<message, status, params, rewritten, responseVars>>

ReadError ==
  IF ~Held(1) THEN "Truncated"
  ELSE IF Length = 0 THEN "none"
  ELSE IF Length \in 1..MaxLabel
       THEN IF ~Held(1 + Length) THEN "Truncated"
            ELSE IF Contains(Label, Dot) THEN "SeparatorInLabel"
            ELSE IF Len(Joined(reader.name, Label)) > MaxName THEN "NameTooLong" ELSE "none"
  ELSE IF Length = Pointer
       THEN IF ~Held(2) THEN "Truncated"
            ELSE IF message[reader.at + 2] >= reader.at THEN "ForwardPointer" ELSE "none"
  ELSE "ReservedLabel"

Refuse ==
  /\ status = "reading" /\ ReadError # "none" /\ status' = ReadError
  /\ UNCHANGED <<message, reader, params, rewritten, responseVars>>

\* Message::parse: a question whose name takes other than its own length was compressed.
QuestionAccepted == status = "read" /\ reader.consumed = WireLen(reader.name)
QuestionBytes == SubSeq(message, reader.start + 1, reader.start + reader.consumed)

(* Records. Keys: 1 alpn, 2 no-default-alpn, 5 ech. *)
OffersH3(p) == p.key = 1 /\ p.alpn = "h3"
Malformed ==
  \/ \E i \in 2..Len(params) : params[i].key <= params[i - 1].key
  \/ \E i \in 1..Len(params) : params[i].key = 1 /\ params[i].alpn = "empty"

EchParam == {i \in 1..Len(params) : params[i].key = 5}

\* From the alpn parameter to the end of the no-default-alpn after it.
H3AlpnParam ==
  LET alpn == {i \in 1..Len(params) : OffersH3(params[i])}
      lone == {i \in 1..Len(params) : params[i].key = 2}
  IN IF alpn = {} THEN {}
     ELSE Max(alpn)..Max(alpn \cup {i \in lone : i > Max(alpn)})

\* write_response_aged on one record: both removed for an inspected host, or neither.
WithoutAll(strip) ==
  /\ status = "record"
  /\ IF Malformed THEN status' = "malformed" /\ UNCHANGED rewritten
     ELSE LET cut == IF strip THEN EchParam \cup H3AlpnParam ELSE {}
              kept == SetToSortSeq((1..Len(params)) \ cut, <)
          IN /\ rewritten' = [i \in 1..Len(kept) |-> params[kept[i]]]
             /\ status' = IF strip THEN "stripped" ELSE "kept"
  /\ UNCHANGED <<message, reader, params, responseVars>>

(* Responses. A message has the records of its three sections in a row; the  *)
(* header says how many each has, and where the records end is the end of    *)
(* the message. A record is [kind, size, cut]: cut of its octets are the     *)
(* parameters that an inspected host does not get.                           *)

\* Message::parse: the header is whole, a query, with one question.
Parses(m) == m.head = "whole"

\* Answers::read: the i-th record, if the message goes on that far.
IsRecord(m, i) == i <= Len(m.records)
AnswersReadable(m) == m.counts[1] <= Len(m.records)
AnswersOf(m) == SubSeq(m.records, 1, m.counts[1])

\* The class of the first OPT behind the answers and the authority, 0 for none.
UdpPayloadSize(m) ==
  LET skipped == m.counts[1] + m.counts[2]
      opts == {i \in (skipped + 1)..(skipped + m.counts[3]) :
                 IsRecord(m, i) /\ m.records[i].kind = "opt"}
  IN IF skipped > MaxU16 \/ skipped > Len(m.records) \/ opts = {} THEN 0
     ELSE m.records[Min(opts)].size

Limit ==
  LET asked == UdpPayloadSize(request)
  IN IF asked < MinResponse THEN MinResponse
     ELSE IF asked > MaxResponse THEN MaxResponse ELSE asked

\* Every response begins with the same header: no counts but the question's.
WriteHeaderAndQuestion(flags) == [flags |-> flags, count |-> 0, records |-> <<>>, len |-> HeaderBytes]
WriteTruncated == WriteHeaderAndQuestion({"TC"})
WriteFailure == WriteHeaderAndQuestion({"SERVFAIL"})

SizeOf(record, strip) == record.size - (IF strip THEN record.cut ELSE 0)
IsAddress(record) == record.kind = "address"
AnswerAddresses(m) == {i \in 1..m.counts[1] : IsAddress(m.records[i])}

\* A reply that cannot be read: the client hears of a failure.
AnswerFailure ==
  /\ response' = WriteFailure /\ steered' = {} /\ status' = "responded"
  /\ UNCHANGED <<message, reader, params, rewritten, request, reply>>

\* An inspected host's addresses are collected first, from the whole reply.
BeginResponse ==
  /\ status = "answered"
  /\ IF ~Parses(reply) \/ (request.strip /\ ~AnswersReadable(reply)) THEN AnswerFailure
     ELSE /\ steered' = IF request.strip THEN AnswerAddresses(reply) ELSE {}
          /\ response' = WriteHeaderAndQuestion({}) /\ status' = "writing"
          /\ UNCHANGED <<message, reader, params, rewritten, request, reply>>

Responding == status = "writing" /\ Len(response.records) < reply.counts[1]
NextRecord == reply.records[Len(response.records) + 1]
NextSize == SizeOf(NextRecord, request.strip)

\* Bounded: a write that does not fit writes nothing, nor does any after it.
HasRoom(octets) == response.len + octets <= Limit

WriteRecord ==
  /\ Responding /\ IsRecord(reply, Len(response.records) + 1)
  /\ NextRecord.kind # "malformed" /\ HasRoom(NextSize)
  /\ response' = [response EXCEPT
       !.records = Append(@, [NextRecord EXCEPT !.size = NextSize, !.cut = 0]),
       !.len = @ + NextSize]
  /\ UNCHANGED <<message, reader, status, params, rewritten, request, reply, steered>>

\* Out of room: the header once more over what was written, and nothing steered.
RecordOverflows ==
  /\ Responding /\ IsRecord(reply, Len(response.records) + 1)
  /\ NextRecord.kind # "malformed" /\ ~HasRoom(NextSize)
  /\ response' = WriteTruncated /\ steered' = {} /\ status' = "responded"
  /\ UNCHANGED <<message, reader, params, rewritten, request, reply>>

RecordUnreadable ==
  /\ Responding
  /\ IsRecord(reply, Len(response.records) + 1) => NextRecord.kind = "malformed"
  /\ AnswerFailure

\* ancount is written last.
PatchCount ==
  /\ status = "writing" /\ ~Responding
  /\ response' = [response EXCEPT !.count = Len(response.records)]
  /\ status' = "responded"
  /\ UNCHANGED <<message, reader, params, rewritten, request, reply, steered>>

WireNext ==
  \/ Ends \/ ReadLabel \/ FollowPointer \/ Refuse
  \/ \E strip \in BOOLEAN : WithoutAll(strip)
  \/ BeginResponse \/ WriteRecord \/ RecordOverflows \/ RecordUnreadable \/ PatchCount

(* Reading a name comes to an end, pointers or not: between two labels it    *)
(* follows fewer pointers than the message has octets. A name that was read  *)
(* is one that can be written, and reads back as itself; a question that is  *)
(* accepted is the name's own octets, so a response may copy them to any     *)
(* place; and a name accepted from text is one the wire can carry.           *)
NamesWhole ==
  /\ reader.jumps <= Len(message) /\ Len(reader.name) <= MaxName
  /\ status = "read" => NameOf(reader.name) = [ok |-> TRUE, name |-> reader.name]
  /\ QuestionAccepted => LowerAll(QuestionBytes) = WriteName(reader.name)
  /\ NameOf(message).ok =>
       LET name == NameOf(message).name IN
       /\ Len(WriteName(name)) = WireLen(name)
       /\ NameOf(name) = [ok |-> TRUE, name |-> name]

(* A record rewritten for an inspected host keeps every parameter but ECH    *)
(* and, when it offered HTTP/3, its alpn with the no-default-alpn that means *)
(* nothing without it: in order, none twice. Any other record is unchanged.  *)
StrippedExactly ==
  LET offered == \E i \in 1..Len(params) : OffersH3(params[i])
      gone == {5} \cup (IF offered THEN {1, 2} ELSE {})
  IN /\ status = "kept" => rewritten = params
     /\ status = "stripped" => rewritten = SelectSeq(params, LAMBDA p : p.key \notin gone)

(* A response is whole, or says that it is not: it has all the answers of    *)
(* the reply, or none with TC because the whole would exceed what the client *)
(* takes, or none with SERVFAIL because the reply cannot be read to its end. *)
(* Its count is the number of records in it, though it was written over an   *)
(* attempt that failed, and an address is steered only if the client got it. *)
ResponsesWhole ==
  LET whole == /\ Parses(reply) /\ AnswersReadable(reply)
               /\ \A i \in 1..reply.counts[1] : reply.records[i].kind # "malformed"
      sizes == [i \in 1..Len(AnswersOf(reply)) |-> SizeOf(AnswersOf(reply)[i], request.strip)]
      fits == HeaderBytes + SumFunction(sizes) <= Limit
      clean == response.flags = {}
  IN status = "responded" =>
       /\ response.count = Len(response.records) /\ response.len <= Limit
       /\ clean <=> whole /\ fits
       /\ clean => [i \in DOMAIN response.records |-> response.records[i].size] = sizes
       /\ "TC" \in response.flags => ~(whole /\ fits) /\ response.records = <<>>
       /\ "SERVFAIL" \in response.flags => ~whole /\ response.records = <<>>
       /\ steered = IF request.strip
                    THEN {i \in 1..response.count : IsAddress(response.records[i])} ELSE {}

\* A DNS message is read and rewritten exactly: a name is decoded whole or
\* refused, only the parameters to be stripped are gone, and a response has all
\* of the answers or none.
MessagesExact == NamesWhole /\ StrippedExactly /\ ResponsesWhole
=============================================================================
