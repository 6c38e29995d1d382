------------------------------ MODULE Encrypted ------------------------------
(* Encrypted upstream DNS (policy/upstream.rs): DNS over HTTPS on one shared *)
(* HTTP/2 connection, or on kept HTTP/1.1 connections of one query each; and *)
(* DNS over QUIC, a stream for each query. Any query may run out of time.    *)
EXTENDS Naturals, Sequences, Functions

CONSTANTS
  Queries,  \* queries, each its own message and identifier
  MaxConns, \* bound: connections dialled
  MaxIdle   \* DOH_IDLE_CONNECTIONS

VARIABLES
  upstream, \* "doh" or "doq"
  shared,   \* Live: down, opening or up, and the connection
  conns,    \* connections in the order they were dialled
  idle,     \* HTTP/1.1 connections kept, the last used first
  queries   \* where each query is, and what it returned

encryptedVars == <<upstream, shared, conns, idle, queries>>

NoReply == [to |-> "nobody", id |-> "nobody"]
Unasked == [at |-> "new", conn |-> 0, retried |-> FALSE, reused |-> FALSE, reply |-> NoReply]

EncryptedInit ==
  /\ upstream \in {"doh", "doq"}
  /\ shared = [at |-> "down", conn |-> 0]
  /\ conns = <<>> /\ idle = <<>>
  /\ queries = [q \in Queries |-> Unasked]

\* Queries whose answers the resolver still owes on a connection, in order.
NewConn(kind) == [kind |-> kind, open |-> TRUE, owed |-> <<>>]
Dial(kind) == conns' = Append(conns, NewConn(kind))
CanDial == Len(conns) < MaxConns

Park(c) == idle' = IF Len(idle) < MaxIdle THEN Append(idle, c) ELSE idle

Alive(c) == conns[c].kind = "h1" \/ conns[c].open

To(q, r) == queries' = [queries EXCEPT ![q] = r]
At(q, at) == [queries[q] EXCEPT !.at = at]
Result(q, at, reply) == [queries[q] EXCEPT !.at = at, !.conn = 0, !.reply = reply]

\* connection() through Live::get; an HTTP/1.1 resolver is served from the pool.
Joined(r, c) == [r EXCEPT !.at = IF conns'[c].kind = "h1" THEN "over_h1" ELSE "ask", !.conn = c]
Connection(q) ==
  /\ queries[q].at \in {"new", "again"}
  /\ \/ /\ shared.at = "up" /\ Alive(shared.conn) /\ UNCHANGED <<shared, conns>>
        /\ To(q, Joined(queries[q], shared.conn))
     \/ /\ shared.at = "opening" /\ UNCHANGED <<shared, conns>> /\ To(q, At(q, "wait"))
     \/ /\ shared.at # "opening" /\ (shared.at = "up" => ~Alive(shared.conn)) /\ CanDial
        /\ shared' = [at |-> "opening", conn |-> 0]
        /\ UNCHANGED conns /\ To(q, At(q, "wait"))
  /\ UNCHANGED <<upstream, idle>>

\* The dial's task: TLS and its ALPN, or QUIC; every waiter learns how it ended.
Dialled ==
  /\ shared.at = "opening" /\ CanDial
  /\ \E kind \in IF upstream = "doh" THEN {"h1", "h2"} ELSE {"quic"} :
       /\ Dial(kind)
       /\ shared' = [at |-> "up", conn |-> Len(conns) + 1]
       /\ IF kind = "h1" THEN Park(Len(conns) + 1) ELSE UNCHANGED idle
  /\ queries' = [q \in Queries |->
       IF queries[q].at = "wait" THEN Joined(queries[q], Len(conns) + 1) ELSE queries[q]]
  /\ UNCHANGED upstream

DialRefused ==
  /\ shared.at = "opening" /\ shared' = [at |-> "down", conn |-> 0]
  /\ queries' = [q \in Queries |->
       IF queries[q].at = "wait" THEN Result(q, "failed", NoReply) ELSE queries[q]]
  /\ UNCHANGED <<upstream, conns, idle>>

\* exchange_h2, or a QUIC stream: the question goes out; QUIC carries identifier zero.
Ask(q) ==
  /\ queries[q].at = "ask" /\ conns[queries[q].conn].open
  /\ conns' = [conns EXCEPT ![queries[q].conn].owed = Append(@, q)]
  /\ To(q, At(q, "asked")) /\ UNCHANGED <<upstream, shared, idle>>

WireId(q, c) == IF conns[c].kind = "quic" THEN "zero" ELSE q
Restored(q, id, c) == IF conns[c].kind = "quic" THEN q ELSE id

\* The reply of the query's own stream; a status, a size or a length refuses it.
Replied(q) ==
  LET c == queries[q].conn IN
  /\ queries[q].at = "asked" /\ conns[c].open
  /\ conns' = [conns EXCEPT ![c].owed = SelectSeq(@, LAMBDA p : p # q)]
  /\ \/ To(q, Result(q, "answered", [to |-> q, id |-> Restored(q, WireId(q, c), c)]))
     \/ To(q, Result(q, "failed", NoReply))
  /\ UNCHANGED <<upstream, shared, idle>>

\* The connection ended under the query: once more over HTTP/2 when h2 itself failed.
ConnectionEnded(q) ==
  LET r == queries[q] IN
  /\ r.at \in {"ask", "asked"} /\ ~conns[r.conn].open
  /\ \/ To(q, Result(q, "failed", NoReply))
     \/ /\ conns[r.conn].kind = "h2" /\ ~r.retried
        /\ To(q, [r EXCEPT !.at = "again", !.conn = 0, !.retried = TRUE])
  /\ UNCHANGED <<upstream, shared, conns, idle>>

Popped(s) == SubSeq(s, 1, Len(s) - 1)

\* over_h1: the connection last kept, or a new one.
TakeKept(q) ==
  /\ queries[q].at = "over_h1" /\ idle # <<>>
  /\ To(q, [queries[q] EXCEPT !.at = "write", !.conn = idle[Len(idle)], !.reused = TRUE])
  /\ idle' = Popped(idle) /\ UNCHANGED <<upstream, shared, conns>>

DialH1(q) ==
  /\ queries[q].at = "again_h1" \/ (queries[q].at = "over_h1" /\ idle = <<>>)
  /\ \/ /\ CanDial /\ Dial("h1")
        /\ To(q, [queries[q] EXCEPT !.at = "write", !.conn = Len(conns) + 1, !.reused = FALSE])
     \/ To(q, Result(q, "failed", NoReply)) /\ UNCHANGED conns
  /\ UNCHANGED <<upstream, shared, idle>>

WriteH1(q) ==
  /\ queries[q].at = "write" /\ conns[queries[q].conn].open
  /\ conns' = [conns EXCEPT ![queries[q].conn].owed = Append(@, q)]
  /\ To(q, At(q, "read")) /\ UNCHANGED <<upstream, shared, idle>>

\* read_http_response: kept when a length framed the body and nothing asked to close.
ReadH1(q) ==
  LET c == queries[q].conn IN
  /\ queries[q].at = "read" /\ conns[c].open
  /\ conns' = [conns EXCEPT ![c].owed = Tail(@)]
  /\ To(q, Result(q, "answered", [to |-> Head(conns[c].owed), id |-> Head(conns[c].owed)]))
  /\ Park(c) \/ UNCHANGED idle
  /\ UNCHANGED <<upstream, shared>>

\* A failed exchange drops the connection; a kept one is tried once more on a new one.
H1Fails(q) ==
  LET r == queries[q] IN
  /\ r.at \in {"write", "read"}
  /\ IF r.reused THEN To(q, [r EXCEPT !.at = "again_h1", !.conn = 0])
                 ELSE To(q, Result(q, "failed", NoReply))
  /\ UNCHANGED <<upstream, shared, conns, idle>>

\* A connection put back when time runs out still owes an answer.
TimesOutParking(q) ==
  LET r == queries[q] IN
  /\ r.at \notin {"new", "answered", "failed"}
  /\ IF r.at = "read" THEN Park(r.conn) ELSE UNCHANGED idle
  /\ To(q, Result(q, "failed", NoReply)) /\ UNCHANGED <<upstream, shared, conns>>

\* The timeout drops the query where it is, and an HTTP/1.1 connection with it.
TimesOut(q) ==
  /\ queries[q].at \notin {"new", "answered", "failed"}
  /\ To(q, Result(q, "failed", NoReply)) /\ UNCHANGED <<upstream, shared, conns, idle>>

ResolverCloses(c) ==
  /\ conns[c].open /\ conns' = [conns EXCEPT ![c].open = FALSE]
  /\ UNCHANGED <<upstream, shared, idle, queries>>

EncryptedNext ==
  \/ Dialled \/ DialRefused \/ \E c \in DOMAIN conns : ResolverCloses(c)
  \/ \E q \in Queries : \/ Connection(q) \/ Ask(q) \/ Replied(q) \/ ConnectionEnded(q)
                        \/ TakeKept(q) \/ DialH1(q) \/ WriteH1(q) \/ ReadH1(q)
                        \/ H1Fails(q) \/ TimesOut(q)

\* An answer is to the query that gets it, under its own identifier, whichever way it
\* was carried and whoever gave up before; for a kept HTTP/1.1 connection owes no
\* answer and no query holds it (over_h1, park; DoqUpstream::query).
RepliesToTheirQueries ==
  /\ \A q \in Queries : queries[q].at = "answered" => queries[q].reply = [to |-> q, id |-> q]
  /\ IsInjective(idle)
  /\ \A c \in Range(idle) : conns[c].owed = <<>> /\ \A q \in Queries :
       queries[q].at \in {"write", "read"} => queries[q].conn # c
==============================================================================
