-------------------------------- MODULE Hello ---------------------------------
(* What a ClientHello says and what is made of it: read_hello and the        *)
(* originating TLS client of src/intercept/mirror.rs, and the acceptors of   *)
(* src/intercept/mitm.rs.  The origin is shaken hands with first, offered    *)
(* what this client offers; the client is then accepted on the origin's wire.*)
LOCAL INSTANCE Naturals
LOCAL INSTANCE Sequences
LOCAL INSTANCE SequencesExt

CONSTANTS
  Shown,         \* extensions hellos are made of: [kind, list, form], the form
                 \* "whole", "short" (the inner list does not fit its length)
                 \* or "cut" (the extension does not fit the hello)
  MaxExtensions  \* bound: extensions of one hello

VARIABLES
  extensions,  \* the client's, in order
  scanned,     \* how many read_hello has read
  hello,       \* the Hello read so far
  mirrored,    \* what the connector was built with, or nothing yet
  legs         \* the wire each handshake settled on

helloVars == <<extensions, scanned, hello, mirrored, legs>>

Grease == "grease"
KnownGroups == {"x25519", "p256"}                     \* group_name
WireNamed == [h2 |-> "Http2", http1 |-> "Http1"]      \* Wire::from_identifier

NoHostName == "none"
EmptyHello ==
  [host |-> NoHostName, groups |-> <<>>, sigalgs |-> <<>>, compression |-> <<>>,
   grease |-> FALSE, alpn |-> <<>>]

NotBuilt == [groups |-> <<>>, sigalgs |-> <<>>, brotli |-> FALSE, grease |-> FALSE,
             permute |-> FALSE, alpn |-> <<>>]

HelloInit ==
  /\ extensions \in SeqOf(Shown, MaxExtensions)
  /\ scanned = 0 /\ hello = EmptyHello /\ mirrored = NotBuilt
  /\ legs = [origin |-> "none", client |-> "none"]

-------------------------------------------------------------------------------
(* read_hello                                                                *)

\* codepoints, vector_u16().unwrap_or_default(): an unreadable list is empty.
Codepoints(e) == IF e.form = "short" THEN <<>> ELSE e.list

HasGrease(e) == Grease \in ToSet(Codepoints(e))

\* server_name: the first entry of type host_name, if DomainName takes it.
HostIn(e) ==
  LET hosts == SelectSeq(Codepoints(e), LAMBDA n : n # "other type")
  IN  IF hosts = <<>> \/ Head(hosts) = "no domain" THEN NoHostName ELSE Head(hosts)

\* Offer::read: the wires that can be terminated, each once.
OfferIn(e) ==
  LET wires == SelectSeq(Codepoints(e), LAMBDA n : n \in DOMAIN WireNamed)
  IN  FoldLeft(LAMBDA kept, n : IF WireNamed[n] \in ToSet(kept) THEN kept
                                ELSE Append(kept, WireNamed[n]), <<>>, wires)

KnownIn(e) == SelectSeq(Codepoints(e), LAMBDA g : g \in KnownGroups)

Ungreased(e) == SelectSeq(Codepoints(e), LAMBDA s : s # Grease)

\* One extension; a repeated one replaces what the earlier one said, but for a
\* compression list that cannot be read.
HelloWith(h, e) ==
  CASE e.kind = "server_name" -> [h EXCEPT !.host = HostIn(e)]
    [] e.kind = "groups" -> [h EXCEPT !.groups = KnownIn(e), !.grease = @ \/ HasGrease(e)]
    [] e.kind = "sigalgs" -> [h EXCEPT !.sigalgs = Ungreased(e), !.grease = @ \/ HasGrease(e)]
    [] e.kind = "alpn" -> [h EXCEPT !.alpn = OfferIn(e)]
    [] e.kind = "compress" -> IF e.form = "short" THEN h ELSE [h EXCEPT !.compression = e.list]
    [] e.kind = Grease -> [h EXCEPT !.grease = TRUE]
    [] OTHER -> h

ReadDone == scanned < Len(extensions) => extensions[scanned + 1].form = "cut"

ReadExtension ==
  /\ ~ReadDone
  /\ hello' = HelloWith(hello, extensions[scanned + 1])
  /\ scanned' = scanned + 1
  /\ UNCHANGED <<extensions, mirrored, legs>>

-------------------------------------------------------------------------------
(* The two handshakes                                                        *)

\* Offer::encode: the client's own offer, reduced.
Offered(h) == h.alpn

\* Originator::build: an empty field leaves the library's default.
Built(h) ==
  LET brotli == "brotli" \in ToSet(h.compression)
  IN  [groups |-> h.groups, sigalgs |-> h.sigalgs, brotli |-> brotli, grease |-> h.grease,
       permute |-> h.grease /\ brotli, alpn |-> Offered(h)]

\* Wire::from_alpn of what the origin selects: one of the offered, or nothing.
Selects(offered) == ToSet(offered) \union {"Http1"}

ConnectOrigin ==
  /\ ReadDone /\ legs.origin = "none" /\ hello.host # NoHostName
  /\ mirrored' = Built(hello)
  /\ \/ \E wire \in Selects(mirrored'.alpn) : legs' = [legs EXCEPT !.origin = wire]
     \/ legs' = [legs EXCEPT !.origin = "failed"]
  /\ UNCHANGED <<extensions, scanned, hello>>

OfKind(k) == SelectSeq(extensions, LAMBDA e : e.kind = k)

\* The accepting library refuses a hello it cannot read, or in which an
\* extension is repeated, and a hello that offers protocols but not this one.
Acceptable ==
  /\ \A i \in DOMAIN extensions : extensions[i].form = "whole"
  /\ \A i, j \in DOMAIN extensions : i # j => extensions[i].kind # extensions[j].kind

AcceptsOn(wire) ==
  IF OfKind("alpn") = <<>> THEN "Http1"
  ELSE IF \E n \in ToSet(OfKind("alpn")[1].list) \intersect DOMAIN WireNamed : WireNamed[n] = wire
  THEN wire ELSE "failed"

\* Interceptor::terminate, on the acceptor that advertises only the wire.
Terminate ==
  /\ legs.origin \in {"Http1", "Http2"} /\ legs.client = "none"
  /\ legs' = [legs EXCEPT !.client = IF Acceptable THEN AcceptsOn(legs.origin) ELSE "failed"]
  /\ UNCHANGED <<extensions, scanned, hello, mirrored>>

HelloNext == ReadExtension \/ ConnectOrigin \/ Terminate

-------------------------------------------------------------------------------
(* Properties                                                                *)

LastList(k) ==
  LET seen == SelectSeq(SubSeq(extensions, 1, scanned), LAMBDA e : e.kind = k)
  IN  IF seen = <<>> \/ Last(seen).form # "whole" THEN <<>> ELSE Last(seen).list

\* The origin is shown only what this client shows, in its order: the groups,
\* algorithms and protocols of its last such extensions, never a reserved
\* GREASE value; and when both handshakes succeed, both legs speak one wire,
\* so that no exchange is bridged between protocol versions.
HelloMirrored ==
  /\ legs.client \in {"Http1", "Http2"} => legs.client = legs.origin
  /\ mirrored # NotBuilt =>
       /\ mirrored.groups = SelectSeq(LastList("groups"), LAMBDA g : g \in KnownGroups)
       /\ mirrored.sigalgs = SelectSeq(LastList("sigalgs"), LAMBDA s : s # Grease)
       /\ \A w \in ToSet(mirrored.alpn) :
            \E n \in ToSet(LastList("alpn")) \intersect DOMAIN WireNamed : WireNamed[n] = w
       /\ IsInjective(mirrored.alpn)
       /\ mirrored.grease = \E i \in 1 .. scanned :
            \/ extensions[i].kind = Grease
            \/ /\ extensions[i].kind \in {"groups", "sigalgs"} /\ extensions[i].form = "whole"
               /\ Grease \in ToSet(extensions[i].list)
===============================================================================
