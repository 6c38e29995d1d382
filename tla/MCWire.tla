-------------------------------- MODULE MCWire --------------------------------
(* What is read from and written to the wire, in parts side by side; a       *)
(* behaviour exercises one: a proxy negotiation, a stream's reading or its   *)
(* writing, a datagram association, a packet, a DNS message, or a filter     *)
(* list.                                                                     *)
EXTENDS Framing, Associations, Packets, DnsWire, Lists

CONSTANT Parts

VARIABLE part

codecVars == <<packetVars, wireVars, listVars>>
vars == <<part, negotiationVars, framingVars, assocVars, codecVars>>

\* Empty, single and several bytes; a length of two varint groups; one too long.
MCSizes == {<<2, 0, 1>>, <<3, 1>>, <<0, 3>>, <<1, 1, 2>>}

MCClamp == [v4 |-> 20, v6 |-> 18]
MCPayloads == {<<>>} \cup {<<a>> : a \in {0, 3, 7}} \cup {<<a, b>> : a \in {0, 6, 7}, b \in 0..7}
              \cup {<<7, a, b>> : a \in {0, 7}, b \in {1, 7}}

\* An OPT is its class, under, within and over the sizes a response may have.
Rr(kind, size, cut) == [kind |-> kind, size |-> size, cut |-> cut]
Upto(n, S) == UNION {[1..k -> S] : k \in 0..n}
MCRequests ==
  [strip : BOOLEAN, head : {"whole"}, counts : {0, 3} \X {0, 1} \X (0..2),
   records : Upto(2, {Rr("other", 1, 0), Rr("opt", 3, 0), Rr("opt", 5, 0), Rr("opt", 9, 0)})]
MCReplies ==
  [strip : {FALSE}, head : {"whole"}, counts : (0..3) \X {0} \X {0},
   records : Upto(2, {Rr("address", 1, 0), Rr("https", 3, 2), Rr("malformed", 1, 0)})]
  \cup {[NoMessage EXCEPT !.head = h] : h \in {"short", "notQuery", "noQuestion", "manyQuestions"}}

\* The parts a behaviour does not exercise are over, or never begin.
Init ==
  /\ part \in Parts
  /\ NegotiationInit
  /\ part # "negotiation" =>
       plan = [protocol |-> "upgrade", credentials |-> FALSE, eager |-> FALSE,
               replies |-> <<<<"403", "end">>>>, grants |-> FALSE]
  /\ FramingInit
  /\ part \notin {"reading", "writing"} => codec = "raw"
  /\ part # "reading" => peer.honest /\ peer.sizes = <<3, 1>>
  /\ AssocInit
  /\ part # "associations" => via = "direct"
  /\ IF part = "packets" THEN PacketInit
     ELSE packet = Plain /\ outcome = "failed" /\ sent = Plain /\ notice = NoNotice
  /\ IF part = "names" THEN WireInit
     ELSE /\ message = <<>> /\ reader = Reader(0) /\ status = "Truncated" /\ params = <<>>
          /\ rewritten = <<>> /\ NoResponse
  /\ IF part = "lists" THEN ListInit
     ELSE /\ list = <<>> /\ compiled = <<>> /\ rules = [allowed |-> {}, blocked |-> {}]
          /\ report = [c \in Counters |-> 0]

Next ==
  /\ UNCHANGED part
  /\ \/ part = "negotiation" /\ NegotiationNext /\ UNCHANGED <<framingVars, assocVars, codecVars>>
     \/ part = "reading" /\ ReadNext /\ UNCHANGED <<negotiationVars, assocVars, codecVars>>
     \/ part = "writing" /\ WriteNext /\ UNCHANGED <<negotiationVars, assocVars, codecVars>>
     \/ part = "associations" /\ AssocNext /\ UNCHANGED <<negotiationVars, framingVars, codecVars>>
     \/ /\ UNCHANGED <<negotiationVars, framingVars, assocVars>>
        /\ \/ part = "packets" /\ PacketNext /\ UNCHANGED <<wireVars, listVars>>
           \/ part = "names" /\ WireNext /\ UNCHANGED <<packetVars, listVars>>
           \/ part = "lists" /\ CompileLine /\ UNCHANGED <<packetVars, wireVars>>

Spec == Init /\ [][Next]_vars /\ AssocFairness
===============================================================================
