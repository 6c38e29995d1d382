------------------------------- MODULE Exchange -------------------------------
(***************************************************************************)
(* One terminated connection of src/intercept/exchange.rs: the client's    *)
(* requests are filtered, stripped of what belongs to one hop and sent to  *)
(* the origin, over a sender they share; its answers are stripped, steered *)
(* away from HTTP/3 and handed back.  Requests of an h2 client run at once *)
(* and on several threads.                                                 *)
(*                                                                         *)
(* A message is its header fields, each [name, tokens] with the value      *)
(* split at its commas.                                                    *)
(***************************************************************************)
EXTENDS Naturals, Sequences, FiniteSets

CONSTANTS Requests,
          Asked,     \* the requests a client may make: [host, block, fields]
          Answers    \* the answers an origin may give: [status, fields]

\* None of these statuses is what this side says of itself.
ASSUME ExchangeAssumption ==
  \A answer \in Answers : answer.status \notin {"none", "421", "403", "502", "aborted"}

Wires == {"Http1", "Http2"}
None == "none"

VARIABLES wires,     \* <<client's, origin's>>
          phase,     \* handshake, serving, upgraded, over
          originUp,  \* the origin's connection still stands
          served,    \* the origin answered once
          sender,    \* who holds the h1 sender
          upgrade,   \* the request whose upgrade is pending
          driver,    \* the origin connection's task
          crossed,   \* VersionCrossings
          requests

exchangeVars ==
  <<wires, phase, originUp, served, sender, upgrade, driver, crossed, requests>>

Waiting == [pc |-> "idle", asked |-> [host |-> "own", block |-> FALSE, fields |-> <<>>],
            sent |-> <<>>, answer |-> [status |-> "none", fields |-> <<>>],
            status |-> "none", got |-> <<>>]

ExchangeInit ==
  /\ wires \in Wires \X Wires
  /\ phase = "handshake"
  /\ originUp = TRUE
  /\ served = FALSE
  /\ sender = None
  /\ upgrade = None
  /\ driver = "none"
  /\ crossed = 0
  /\ requests = [r \in Requests |-> Waiting]

-----------------------------------------------------------------------------
(* The header fields.                                                      *)

HopByHop == {"keep-alive", "proxy-authenticate", "proxy-authorization", "te", "trailer",
             "transfer-encoding"}

ElementsOf(s) == {s[i] : i \in DOMAIN s}

\* The tokens of every field of that name, in order.
Tokens(fields, name) ==
  LET named == SelectSeq(fields, LAMBDA f : f.name = name)
      upTo[i \in 0 .. Len(named)] == IF i = 0 THEN <<>> ELSE upTo[i - 1] \o named[i].tokens
  IN  upTo[Len(named)]

OffersUpgrade(fields) ==
  /\ "upgrade" \in ElementsOf(Tokens(fields, "connection"))
  /\ \E f \in ElementsOf(fields) : f.name = "upgrade"

\* Mutant: the fields the Connection field names are left in.
StrippedOfFixed(fields, upgrading) ==
  SelectSeq(fields, LAMBDA f : /\ f.name \notin HopByHop
                               /\ upgrading \/ f.name \notin {"connection", "upgrade"})

\* strip_hop_by_hop; an upgrade keeps Connection, Upgrade and the upgrade token.
Stripped(fields, upgrading) ==
  LET named == ElementsOf(Tokens(fields, "connection")) \ (IF upgrading THEN {"upgrade"} ELSE {})
      Discard(f) == \/ f.name \in HopByHop
                    \/ ~upgrading /\ f.name \in {"connection", "upgrade"}
                    \/ f.name \in named
  IN SelectSeq(fields, LAMBDA f : ~Discard(f))

\* advertises_h3: h3 and its drafts.
AdvertisesH3(alternative) == alternative \in {"h3", "h3-29"}

\* steer_alt_svc over the alternatives; a value of clear withdraws and adds none.
Alternatives(fields) ==
  SelectSeq(Tokens(fields, "alt-svc"), LAMBDA t : t # "clear")

Steered(fields) ==
  LET kept == SelectSeq(Alternatives(fields), LAMBDA t : ~AdvertisesH3(t))
      others == SelectSeq(fields, LAMBDA f : f.name # "alt-svc")
  IN IF Len(kept) = Len(Alternatives(fields)) THEN fields
     ELSE Append(others,
            [name |-> "alt-svc", tokens |-> IF kept = <<>> THEN <<"clear">> ELSE kept])

-----------------------------------------------------------------------------
(* run_exchange and Proxy::forward.                                        *)

\* The handshake of the origin's HTTP connection, and its driver task.
Handshake(ok) ==
  /\ phase = "handshake"
  /\ phase' = IF ok THEN "serving" ELSE "over"
  /\ driver' = IF ok THEN "running" ELSE "none"
  /\ UNCHANGED <<wires, originUp, served, sender, upgrade, crossed, requests>>

\* VersionCrossings::record.
Crossing == IF wires[1] # wires[2] THEN 1 ELSE 0

InService(r) == requests[r].pc \notin {"idle", "done"}

Replied(r, status) == [requests EXCEPT ![r].pc = "done", ![r].status = status]

\* A request arrives; an h1 client sends one at a time, h2 has no Connection field.  It is refused here, or
\* stripped and counted when the wires differ.
Receive(r, asked) ==
  LET strip == [Waiting EXCEPT !.pc = "ready", !.asked = asked,
                  !.sent = Stripped(asked.fields, OffersUpgrade(asked.fields))]
  IN /\ phase = "serving"
     /\ requests[r].pc = "idle"
     /\ wires[1] = "Http1" => \A q \in Requests : ~InService(q)
     /\ wires[1] = "Http2" => Tokens(asked.fields, "connection") = <<>>
     /\ IF asked.host = "other" \/ asked.block
        THEN /\ requests' = [requests EXCEPT ![r] = [Waiting EXCEPT !.pc = "done",
                  !.asked = asked, !.status = IF asked.host = "other" THEN "421" ELSE "403"]]
             /\ UNCHANGED crossed
        ELSE /\ requests' = [requests EXCEPT ![r] = strip]
             /\ crossed' = crossed + Crossing
     /\ UNCHANGED <<wires, phase, originUp, served, sender, upgrade, driver>>

\* Upstream::send: an h1 sender serves its lock holder only.
TakeSender(r) ==
  /\ requests[r].pc = "ready"
  /\ IF wires[2] = "Http1" THEN sender = None /\ sender' = r ELSE UNCHANGED sender
  /\ requests' = [requests EXCEPT ![r].pc = "sending"]
  /\ UNCHANGED <<wires, phase, originUp, served, upgrade, driver, crossed>>

Released(r) == IF sender = r THEN None ELSE sender

\* An answer ends send; 101 only answers an h1 upgrade.
OriginAnswers(r, answer) ==
  /\ requests[r].pc = "sending"
  /\ originUp /\ driver = "running"
  /\ answer.status = "101" => wires[2] = "Http1" /\ OffersUpgrade(requests[r].sent)
  /\ requests' = [requests EXCEPT ![r].pc = "answered", ![r].answer = answer]
  /\ sender' = Released(r)
  /\ UNCHANGED <<wires, phase, originUp, served, upgrade, driver, crossed>>

\* send fails: the connection ended, or an h2 origin reset this stream.
SendFails(r) ==
  /\ requests[r].pc = "sending"
  /\ ~originUp \/ driver # "running" \/ wires[2] = "Http2"
  /\ requests' = [requests EXCEPT ![r].pc = "failed"]
  /\ sender' = Released(r)
  /\ UNCHANGED <<wires, phase, originUp, served, upgrade, driver, crossed>>

\* The failure is told: nothing served yet, 502; else the client's connection (h1) or
\* stream (h2) is ended.
TellFailure(r) ==
  /\ requests[r].pc = "failed"
  /\ requests' = Replied(r, IF served THEN "aborted" ELSE "502")
  /\ phase' = IF served /\ wires[1] = "Http1" THEN "over" ELSE phase
  /\ driver' = IF served /\ wires[1] = "Http1" THEN "aborted" ELSE driver
  /\ UNCHANGED <<wires, originUp, served, sender, upgrade, crossed>>
\* Mutant: an answer does not mark the origin as having served.
TellAnswerUnmarked(r) ==
  /\ requests[r].pc = "answered"
  /\ requests' = [requests EXCEPT ![r].pc = "done", ![r].status = requests[r].answer.status,
       ![r].got = Steered(Stripped(requests[r].answer.fields, FALSE))]
  /\ UNCHANGED <<wires, phase, originUp, served, sender, upgrade, driver, crossed>>

\* The answer is shaped and handed back; a granted upgrade is parked, and ends
\* the client's HTTP connection.
TellAnswer(r) ==
  LET request == requests[r]
      granted == OffersUpgrade(request.asked.fields) /\ request.answer.status = "101"
      shaped == IF granted THEN request.answer.fields
                ELSE Steered(Stripped(request.answer.fields, FALSE))
  IN /\ request.pc = "answered"
     /\ served' = TRUE
     /\ requests' = [requests EXCEPT ![r].pc = "done", ![r].status = request.answer.status,
                                     ![r].got = shaped]
     /\ upgrade' = IF granted THEN r ELSE upgrade
     /\ phase' = IF granted THEN "upgraded" ELSE phase
     /\ UNCHANGED <<wires, originUp, sender, driver, crossed>>

OriginEnds ==
  /\ originUp
  /\ phase # "over"
  /\ originUp' = FALSE
  /\ UNCHANGED <<wires, phase, served, sender, upgrade, driver, crossed, requests>>

\* The client's connection ends: no upgrade is pending, so the driver is aborted.
ClientEnds ==
  /\ phase = "serving"
  /\ phase' = "over"
  /\ driver' = "aborted"
  /\ UNCHANGED <<wires, originUp, served, sender, upgrade, crossed, requests>>

\* splice_upgrade returned, or the client's leg ended in an error first.
UpgradeEnds ==
  /\ phase = "upgraded"
  /\ phase' = "over"
  /\ UNCHANGED <<wires, originUp, served, sender, upgrade, driver, crossed, requests>>

ExchangeNext ==
  \/ \E ok \in BOOLEAN : Handshake(ok)
  \/ \E r \in Requests :
       \/ \E asked \in Asked : Receive(r, asked)
       \/ TakeSender(r) \/ SendFails(r) \/ TellFailure(r) \/ TellAnswer(r)
       \/ \E answer \in Answers : OriginAnswers(r, answer)
  \/ OriginEnds \/ ClientEnds \/ UpgradeEnds

-----------------------------------------------------------------------------
HandedAnswer(r) == requests[r].pc = "done" /\ requests[r].status = requests[r].answer.status

\* served: once a client has been handed an answer of this origin, no failing request is told
\* 502 any more, whichever threads the requests run on ("instead of a 502 for every later request").
NoBadGatewayAfterAnswer ==
  [][\A r \in Requests :
       requests[r].status # "502" /\ requests'[r].status = "502" =>
         ~\E q \in Requests : HandedAnswer(q)]_exchangeVars

EndToEnd(from, f) ==
  f.name \notin HopByHop \union {"connection", "upgrade"} \union ElementsOf(Tokens(from, "connection"))

CrossesClean(from, to) ==
  /\ \A f \in ElementsOf(to) : EndToEnd(from, f)
  /\ ~\E t \in ElementsOf(Tokens(to, "alt-svc")) : AdvertisesH3(t)
  /\ SelectSeq(to, LAMBDA f : f.name # "alt-svc")
       = SelectSeq(from, LAMBDA f : EndToEnd(from, f) /\ f.name # "alt-svc")
  /\ \A t \in ElementsOf(Tokens(from, "alt-svc")) :
       (\E f \in ElementsOf(from) : f.name = "alt-svc" /\ EndToEnd(from, f)) /\ ~AdvertisesH3(t)
       /\ t # "clear" => t \in ElementsOf(Tokens(to, "alt-svc"))

\* strip_hop_by_hop and steer_response: what crosses is every end-to-end field, in order and
\* unchanged, and no field of one hop, none the Connection field names, no HTTP/3 alternative.
OnlyEndToEndCrosses ==
  \A r \in Requests :
    requests[r].status # "none" /\ requests[r].status \notin {"421", "403", "502", "aborted", "101"} =>
      CrossesClean(requests[r].answer.fields, requests[r].got)
==============================================================================
