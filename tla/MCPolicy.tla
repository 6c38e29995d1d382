------------------------------- MODULE MCPolicy -------------------------------
(* Name resolution over shared connections and interception, in parts side *)
(* by side; a behaviour exercises one: the callers of a DNS upstream, the  *)
(* demotion table, the sessions that share it, a hello and its handshakes, *)
(* their caches, the requests of one connection, or one rewritten body.    *)
EXTENDS Upstream, Sessions, Hello, Forgery, Exchange, Rewriter, TLC

CONSTANTS c1, c2, h1, h2, q1, q2, Parts

VARIABLE part

mcVars ==
  <<part, vars, clock, tableVars, sessionVars, helloVars, forgeryVars, exchangeVars, rewriterVars>>

MCAsks == [q \in Callers |-> q]

MCClients ==
  {[kind |-> "tls", host |-> "a", need |-> 2, size |-> 2],
   [kind |-> "http", host |-> "a", need |-> 1, size |-> 2],
   [kind |-> "tls", host |-> "b", need |-> 1, size |-> 1],
   [kind |-> "tls", host |-> NoHost, need |-> 1, size |-> 1],
   [kind |-> "http", host |-> "elsewhere", need |-> 1, size |-> 1],
   [kind |-> "plain", host |-> NoHost, need |-> 1, size |-> 2],
   [kind |-> "tls", host |-> "a", need |-> 3, size |-> 3]}

MCTtl == [c \in Causes |-> IF c = "UpstreamUntrusted" THEN 1 ELSE 2]

Field(name, tokens) == [name |-> name, tokens |-> tokens]

MCAsked ==
  {[host |-> h, block |-> FALSE, fields |-> <<Field("x", <<"1">>)>>] : h \in {"own", "other"}}
  \union {[host |-> "own", block |-> TRUE, fields |-> <<>>],
          [host |-> "own", block |-> FALSE, fields |->
             <<Field("connection", <<"upgrade", "x">>), Field("upgrade", <<"ws">>), Field("x", <<"1">>)>>]}

MCAnswers ==
  {[status |-> "101", fields |-> <<Field("upgrade", <<"ws">>)>>],
   [status |-> "200", fields |->
      <<Field("connection", <<"x">>), Field("x", <<"1">>), Field("y", <<"1">>),
        Field("alt-svc", <<"h3", "h2">>), Field("te", <<"trailers">>), Field("y", <<"2">>)>>],
   [status |-> "200", fields |-> <<Field("alt-svc", <<"h3-29">>), Field("y", <<"1">>)>>],
   [status |-> "200", fields |-> <<Field("alt-svc", <<"clear">>), Field("alt-svc", <<"h2">>)>>]}

Directive(name, sources) == [name |-> name, sources |-> sources]

Sources == {{}, {"none"}, {"self"}, {"self", "unsafe-inline"}, {"nonce", "unsafe-inline"}, {"ours"}}

MCPolicies ==
  {<<>>} \union
  {<<<<Directive(n, s), Directive("img-src", {"self"})>>>> :
     n \in {"default-src", "style-src", "style-src-elem"}, s \in Sources}
  \union {<<<<Directive("default-src", s), Directive("style-src", t)>>,
            <<Directive("style-src-elem", s)>>>> : s, t \in Sources}

Extension(kind, lists) == [kind : {kind}, list : lists, form : {"whole"}]
MCShown ==
  Extension("server_name", {<<"other type", "a">>, <<"no domain">>})
  \union Extension("groups", {<<"grease", "p256", "unknown", "x25519">>, <<"x25519">>})
  \union Extension("sigalgs", {<<"rsa", "grease", "ecdsa">>})
  \union Extension("alpn", {<<"h3">>, <<"h2", "http1", "h2">>, <<"http1", "h3">>})
  \union Extension("compress", {<<"zlib", "brotli">>})
  \union Extension("grease", {<<>>})
  \union [kind : {"groups", "alpn", "compress"}, list : {<<>>}, form : {"short", "cut"}]

MCInit ==
  /\ part \in Parts
  /\ Init /\ SessionsInit /\ ForgeryInit
  /\ IF part = "hello" THEN HelloInit
     ELSE /\ extensions = <<>> /\ scanned = 0 /\ hello = EmptyHello /\ mirrored = NotBuilt
          /\ legs = [origin |-> "none", client |-> "none"]
  /\ ExchangeInit /\ (part # "exchange" => wires = <<"Http1", "Http1">>)
  /\ IF part = "rewriter" THEN RewriterInit /\ (policy.was = <<>> \/ coding = "Zstd")
     ELSE /\ coding = "Identity" /\ policy = [was |-> <<>>, is |-> <<>>] /\ inject = FALSE
          /\ stage = "Off" /\ undecoded = <<>> /\ held = <<>> /\ sink = <<>>
          /\ failures = 0 /\ arrived = 0 /\ inner = "open" /\ frames = <<>>

MCNext ==
  /\ UNCHANGED part
  /\ \/ part = "upstream" /\ Next
        /\ UNCHANGED <<clock, tableVars, sessionVars, helloVars, forgeryVars, exchangeVars, rewriterVars>>
     \/ part = "demotions" /\ DemotionsNext
        /\ UNCHANGED <<vars, sessionVars, helloVars, forgeryVars, exchangeVars, rewriterVars>>
     \/ part = "sessions" /\ SessionsNext
        /\ UNCHANGED <<vars, helloVars, forgeryVars, exchangeVars, rewriterVars>>
     \/ part = "hello" /\ HelloNext
        /\ UNCHANGED <<vars, clock, tableVars, sessionVars, forgeryVars, exchangeVars, rewriterVars>>
     \/ part = "forgery" /\ ForgeryNext
        /\ UNCHANGED <<vars, clock, tableVars, sessionVars, helloVars, exchangeVars, rewriterVars>>
     \/ part = "exchange" /\ ExchangeNext
        /\ UNCHANGED <<vars, clock, tableVars, sessionVars, helloVars, forgeryVars, rewriterVars>>
     \/ part = "rewriter" /\ RewriterNext
        /\ UNCHANGED <<vars, clock, tableVars, sessionVars, helloVars, forgeryVars, exchangeVars>>

MCSpec == MCInit /\ [][MCNext]_mcVars

Interchangeable ==
  Permutations(Callers) \union Permutations(Conns) \union Permutations(Handshakes)

\* Of what a client says, the origin is told only what may cross: its own offer
\* of protocols and algorithms, and the end-to-end fields both ways.
OnlyWhatMayCross == HelloMirrored /\ OnlyEndToEndCrosses
==============================================================================
