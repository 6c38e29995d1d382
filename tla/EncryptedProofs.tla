--------------------------- MODULE EncryptedProofs --------------------------
(* Every query over encrypted DNS gets its own answer, for any queries,      *)
(* connections dialled and connections kept.                                 *)
EXTENDS Encrypted, TLAPS

\* Connections, in the order they were dialled.
IsConns(cs) ==
  /\ \E S : cs \in Seq(S)
  /\ \A c \in DOMAIN cs : DOMAIN cs[c] = {"kind", "open", "owed"}

\* An HTTP/1.1 connection a query holds is its alone, and owes its answer or none.
QueryKept(q, r, cs, kept) ==
  /\ DOMAIN r = DOMAIN Unasked
  /\ r.at \in {"ask", "asked"} => r.conn \in DOMAIN cs /\ cs[r.conn].kind # "h1"
  /\ r.at \in {"write", "read"} =>
       /\ r.conn \in DOMAIN cs /\ cs[r.conn].kind = "h1" /\ r.conn \notin kept
       /\ cs[r.conn].owed = IF r.at = "read" THEN <<q>> ELSE <<>>
  /\ r.at = "answered" => r.reply = [to |-> q, id |-> q]

Holding(q) == queries[q].at \in {"write", "read"}

EncryptedInv ==
  /\ IsConns(conns)
  /\ idle \in Seq(DOMAIN conns) /\ IsInjective(idle)
  /\ \A c \in Range(idle) : conns[c].kind = "h1" /\ conns[c].owed = <<>>
  /\ shared.at = "up" => shared.conn \in DOMAIN conns
  /\ DOMAIN queries = Queries /\ \A q \in Queries : QueryKept(q, queries[q], conns, Range(idle))
  /\ \A p, q \in Queries : Holding(p) /\ Holding(q) /\ queries[p].conn = queries[q].conn => p = q

LEMMA EncryptedInvInit == EncryptedInit => EncryptedInv
  BY DEF EncryptedInit, EncryptedInv, IsConns, QueryKept, Unasked, Holding, IsInjective, Range

\* park() of a connection that is not kept keeps it at most once.
LEMMA ParkFacts ==
  ASSUME NEW S, NEW c \in S, idle \in Seq(S), IsInjective(idle), c \notin Range(idle), Park(c)
  PROVE  idle' \in Seq(S) /\ IsInjective(idle') /\ Range(idle') \subseteq Range(idle) \union {c}
<1>1. CASE idle' = idle
  BY <1>1
<1>2. CASE idle' = Append(idle, c)
  <2>1. /\ idle' \in Seq(S) /\ DOMAIN idle' = 1 .. Len(idle) + 1 /\ DOMAIN idle = 1 .. Len(idle)
        /\ Len(idle) \in Nat /\ idle'[Len(idle) + 1] = c
        /\ \A i \in 1 .. Len(idle) : idle'[i] = idle[i]
    BY <1>2
  <2> QED BY <2>1 DEF IsInjective, Range
<1> QED BY <1>1, <1>2 DEF Park

\* The connection last kept is not among the others.
LEMMA KeptFacts ==
  ASSUME NEW S, idle \in Seq(S), IsInjective(idle), idle # <<>>
  PROVE  /\ Popped(idle) \in Seq(S) /\ IsInjective(Popped(idle)) /\ Range(Popped(idle)) \subseteq Range(idle)
         /\ idle[Len(idle)] \in Range(idle) /\ idle[Len(idle)] \in S /\ idle[Len(idle)] \notin Range(Popped(idle))
<1>1. Len(idle) \in Nat \ {0} /\ DOMAIN idle = 1 .. Len(idle)
  OBVIOUS
<1>2. /\ Popped(idle) \in Seq(S) /\ DOMAIN Popped(idle) = 1 .. Len(idle) - 1
      /\ \A i \in 1 .. Len(idle) - 1 : Popped(idle)[i] = idle[i]
  BY <1>1 DEF Popped
<1> QED BY <1>1, <1>2 DEF IsInjective, Range

\* A step of one query: the connections of the others stay theirs and as they were.
LEMMA OneQuery ==
  ASSUME EncryptedInv, NEW q \in Queries, NEW r, To(q, r), shared'.at = "up" => shared'.conn \in DOMAIN conns',
         IsConns(conns'), DOMAIN conns \subseteq DOMAIN conns',
         \A c \in DOMAIN conns : conns'[c].kind = conns[c].kind,
         \A c \in DOMAIN conns : conns[c].kind = "h1" /\ ~(Holding(q) /\ c = queries[q].conn) =>
                                   conns'[c].owed = conns[c].owed,
         idle' \in Seq(DOMAIN conns'), IsInjective(idle'),
         \A c \in Range(idle') :
           \/ c \in Range(idle)
           \/ /\ conns'[c].kind = "h1" /\ conns'[c].owed = <<>>
              /\ \A p \in Queries \ {q} : Holding(p) => queries[p].conn # c,
         QueryKept(q, r, conns', Range(idle')),
         r.at \in {"write", "read"} =>
           \A p \in Queries \ {q} : Holding(p) => queries[p].conn # r.conn
  PROVE  EncryptedInv'
<1>1. DOMAIN queries' = Queries /\ queries'[q] = r /\ \A p \in Queries \ {q} : queries'[p] = queries[p]
  BY DEF To, EncryptedInv
<1>2. \A c \in Range(idle') : conns'[c].kind = "h1" /\ conns'[c].owed = <<>>
  <2>1. \A c \in Range(idle) : c \in DOMAIN conns /\ ~(Holding(q) /\ c = queries[q].conn)
    BY DEF EncryptedInv, Holding, QueryKept, Range
  <2> QED BY <2>1 DEF EncryptedInv
<1>3. ASSUME NEW p \in Queries \ {q} PROVE QueryKept(p, queries'[p], conns', Range(idle'))
  <2>1. QueryKept(p, queries[p], conns, Range(idle)) /\ queries'[p] = queries[p]
    BY <1>1 DEF EncryptedInv
  <2>2. CASE Holding(p)
    <3>1. ~(Holding(q) /\ queries[p].conn = queries[q].conn)
      BY <2>2 DEF EncryptedInv
    <3>2. /\ queries[p].conn \in DOMAIN conns /\ conns[queries[p].conn].kind = "h1"
          /\ queries[p].conn \notin Range(idle) /\ queries[p].at \in {"write", "read"}
      BY <2>1, <2>2 DEF QueryKept, Holding
    <3>3. queries[p].conn \notin Range(idle')
      BY <2>2, <3>2
    <3> QED BY <2>1, <3>1, <3>2, <3>3 DEF QueryKept
  <2>3. CASE ~Holding(p)
    BY <2>1, <2>3 DEF QueryKept, Holding
  <2> QED BY <2>2, <2>3
<1>4. \A p, o \in Queries : Holding(p)' /\ Holding(o)' /\ queries'[p].conn = queries'[o].conn => p = o
  <2>1. (Holding(q)' <=> r.at \in {"write", "read"}) /\ queries'[q].conn = r.conn
    BY <1>1 DEF Holding
  <2>2. \A p \in Queries \ {q} : (Holding(p)' <=> Holding(p)) /\ queries'[p].conn = queries[p].conn
    BY <1>1 DEF Holding
  <2>3. \A p, o \in Queries : Holding(p) /\ Holding(o) /\ queries[p].conn = queries[o].conn => p = o
    BY DEF EncryptedInv
  <2> QED BY <2>1, <2>2, <2>3
<1>5. QueryKept(q, queries'[q], conns', Range(idle'))
  BY <1>1
<1> QED BY <1>1, <1>2, <1>3, <1>4, <1>5 DEF EncryptedInv

LEMMA SeqWider ==
  ASSUME NEW S, NEW T, S \subseteq T, NEW s \in Seq(S) PROVE s \in Seq(T)
  OBVIOUS

LEMMA DialFacts ==
  ASSUME NEW cs, IsConns(cs), NEW kind
  PROVE  LET n == Len(cs) + 1
             new == Append(cs, NewConn(kind)) IN
         /\ IsConns(new) /\ n \in DOMAIN new /\ n \notin DOMAIN cs /\ DOMAIN cs \subseteq DOMAIN new
         /\ new[n].kind = kind /\ new[n].owed = <<>>
         /\ \A c \in DOMAIN cs : new[c] = cs[c]
         /\ DOMAIN new = DOMAIN cs \union {n}
<1> DEFINE n == Len(cs) + 1
           new == Append(cs, NewConn(kind))
<1>1. PICK S : cs \in Seq(S)
  BY DEF IsConns
<1>2. /\ new \in Seq(S \union {NewConn(kind)}) /\ DOMAIN new = 1 .. n /\ DOMAIN cs = 1 .. Len(cs)
      /\ Len(cs) \in Nat /\ new[n] = NewConn(kind) /\ \A c \in DOMAIN cs : new[c] = cs[c]
  BY <1>1
<1>3. \A c \in DOMAIN new : c = n \/ c \in DOMAIN cs
  BY <1>2
<1>4. DOMAIN NewConn(kind) = {"kind", "open", "owed"} /\ NewConn(kind).kind = kind /\ NewConn(kind).owed = <<>>
  BY DEF NewConn
<1> HIDE DEF new, n
<1>5. IsConns(new)
  BY <1>2, <1>3, <1>4 DEF IsConns
<1>6. n \in DOMAIN new /\ n \notin DOMAIN cs /\ DOMAIN cs \subseteq DOMAIN new
  BY <1>2 DEF n
<1> QED BY <1>2, <1>3, <1>4, <1>5, <1>6 DEF n, new

LEMMA OwedFacts ==
  ASSUME IsConns(conns), NEW c \in DOMAIN conns, NEW s, conns' = [conns EXCEPT ![c].owed = s]
  PROVE  /\ IsConns(conns') /\ DOMAIN conns' = DOMAIN conns /\ conns'[c].kind = conns[c].kind /\ conns'[c].owed = s
         /\ \A d \in DOMAIN conns \ {c} : conns'[d] = conns[d]
<1> DEFINE x == [conns[c] EXCEPT !.owed = s]
<1>0. conns' = [conns EXCEPT ![c] = x]
  OBVIOUS
<1>1. PICK S : conns \in Seq(S)
  BY DEF IsConns
<1>2. DOMAIN x = {"kind", "open", "owed"} /\ x.kind = conns[c].kind /\ x.owed = s
  BY DEF IsConns
<1> HIDE DEF x
<1>3. conns' \in Seq(S \union {x}) /\ DOMAIN conns' = DOMAIN conns /\ conns'[c] = x
      /\ \A d \in DOMAIN conns \ {c} : conns'[d] = conns[d]
  BY <1>0, <1>1
<1>4. IsConns(conns')
  BY <1>2, <1>3 DEF IsConns
<1> QED BY <1>2, <1>3, <1>4

\* A query that waits, asks, or is done holds no HTTP/1.1 connection; one that is done is answered rightly.
LEMMA QuietQuery ==
  ASSUME EncryptedInv, NEW q \in Queries, NEW r, To(q, r), UNCHANGED <<conns, idle>>,
         shared'.at = "up" => shared'.conn \in DOMAIN conns',
         DOMAIN r = DOMAIN Unasked, r.at \notin {"write", "read", "answered"},
         r.at \in {"ask", "asked"} => r.conn \in DOMAIN conns /\ conns[r.conn].kind # "h1"
  PROVE  EncryptedInv'
<1>1. QueryKept(q, r, conns', Range(idle'))
  BY DEF QueryKept
<1>2. idle' \in Seq(DOMAIN conns') /\ IsInjective(idle') /\ IsConns(conns') /\ Range(idle') = Range(idle)
      /\ conns' = conns
  BY DEF EncryptedInv
<1> QED BY <1>1, <1>2, OneQuery

LEMMA ResultFacts ==
  ASSUME EncryptedInv, NEW q \in Queries, NEW at, NEW reply
  PROVE  LET r == Result(q, at, reply) IN DOMAIN r = DOMAIN Unasked /\ r.at = at /\ r.reply = reply
  BY DEF EncryptedInv, QueryKept, Result, Unasked

LEMMA FailedKeeps ==
  ASSUME EncryptedInv, NEW q \in Queries, To(q, Result(q, "failed", NoReply)),
         UNCHANGED <<shared, conns, idle>>
  PROVE  EncryptedInv'
<1>1. shared'.at = "up" => shared'.conn \in DOMAIN conns'
  BY DEF EncryptedInv
<1> QED BY <1>1, ResultFacts, QuietQuery

LEMMA ConnectionKeeps ==
  ASSUME EncryptedInv, NEW q \in Queries, Connection(q) PROVE EncryptedInv'
<1>1. UNCHANGED <<conns, idle>>
  BY DEF Connection
<1>2. QueryKept(q, queries[q], conns, Range(idle))
  BY DEF EncryptedInv
<1>3. CASE /\ shared.at = "up" /\ UNCHANGED shared
           /\ To(q, Joined(queries[q], shared.conn))
  <2> DEFINE r == Joined(queries[q], shared.conn)
  <2>1. /\ DOMAIN r = DOMAIN Unasked /\ r.at \in {"over_h1", "ask"} /\ r.conn = shared.conn
        /\ r.at = "ask" => conns[r.conn].kind # "h1"
    BY <1>1, <1>2 DEF Joined, QueryKept, Unasked
  <2>2. shared.conn \in DOMAIN conns
    BY <1>3 DEF EncryptedInv
  <2> HIDE DEF r
  <2>3. To(q, r)
    BY <1>3 DEF r
  <2> QED BY <1>1, <1>3, <2>1, <2>2, <2>3, QuietQuery
<1>4. CASE To(q, At(q, "wait")) /\ (shared' = shared \/ shared' = [at |-> "opening", conn |-> 0])
  <2>1. DOMAIN At(q, "wait") = DOMAIN Unasked /\ At(q, "wait").at = "wait"
    BY <1>2 DEF At, QueryKept, Unasked
  <2>2. shared'.at = "up" => shared'.conn \in DOMAIN conns'
    BY <1>1, <1>4 DEF EncryptedInv
  <2> QED BY <1>1, <1>4, <2>1, <2>2, QuietQuery
<1> QED BY <1>3, <1>4 DEF Connection

\* A connection of several queries: what is owed on it is nobody's alone.
LEMMA SharedAsked ==
  ASSUME EncryptedInv, NEW q \in Queries, NEW r, NEW s, To(q, r), queries[q].at \in {"ask", "asked"},
         conns' = [conns EXCEPT ![queries[q].conn].owed = s], UNCHANGED <<shared, idle>>,
         DOMAIN r = DOMAIN Unasked,
         \/ r.at = "asked" /\ r.conn = queries[q].conn
         \/ r.at = "failed"
         \/ r.at = "answered" /\ r.reply = [to |-> q, id |-> q]
  PROVE  EncryptedInv'
<1> DEFINE c == queries[q].conn
<1>1. c \in DOMAIN conns /\ conns[c].kind # "h1" /\ ~Holding(q)
  BY DEF EncryptedInv, QueryKept, Holding
<1>2. /\ IsConns(conns') /\ DOMAIN conns' = DOMAIN conns /\ conns'[c].kind = conns[c].kind
      /\ \A d \in DOMAIN conns \ {c} : conns'[d] = conns[d]
  <2>1. IsConns(conns) /\ conns' = [conns EXCEPT ![c].owed = s]
    BY DEF EncryptedInv
  <2> HIDE DEF c
  <2> QED BY <1>1, <2>1, OwedFacts
<1>3. QueryKept(q, r, conns', Range(idle'))
  BY <1>1, <1>2 DEF QueryKept
<1>4. idle' \in Seq(DOMAIN conns') /\ IsInjective(idle') /\ Range(idle') = Range(idle)
      /\ (shared'.at = "up" => shared'.conn \in DOMAIN conns')
  BY <1>2 DEF EncryptedInv
<1> HIDE DEF c
<1> QED BY <1>1, <1>2, <1>3, <1>4, OneQuery

LEMMA AskKeeps ==
  ASSUME EncryptedInv, NEW q \in Queries, Ask(q) PROVE EncryptedInv'
<1>1. At(q, "asked").at = "asked" /\ At(q, "asked").conn = queries[q].conn
      /\ DOMAIN At(q, "asked") = DOMAIN Unasked
  BY DEF EncryptedInv, QueryKept, At, Unasked
<1>2. PICK s : conns' = [conns EXCEPT ![queries[q].conn].owed = s]
  BY DEF Ask
<1> QED BY <1>1, <1>2, SharedAsked DEF Ask

LEMMA RepliedKeeps ==
  ASSUME EncryptedInv, NEW q \in Queries, Replied(q) PROVE EncryptedInv'
<1> DEFINE c == queries[q].conn
           reply == [to |-> q, id |-> Restored(q, WireId(q, c), c)]
<1>1. reply = [to |-> q, id |-> q]
  BY DEF Restored, WireId
<1>2. PICK s : conns' = [conns EXCEPT ![queries[q].conn].owed = s]
  BY DEF Replied
<1>3. /\ To(q, Result(q, "answered", reply)) \/ To(q, Result(q, "failed", NoReply))
      /\ queries[q].at = "asked" /\ UNCHANGED <<shared, idle>>
  BY DEF Replied
<1> HIDE DEF reply
<1>4. CASE To(q, Result(q, "answered", reply))
  <2> DEFINE r == Result(q, "answered", reply)
  <2>1. DOMAIN r = DOMAIN Unasked /\ r.at = "answered" /\ r.reply = [to |-> q, id |-> q] /\ To(q, r)
    BY <1>1, <1>4, ResultFacts
  <2> HIDE DEF r
  <2> QED BY <1>2, <1>3, <2>1, SharedAsked
<1>5. CASE To(q, Result(q, "failed", NoReply))
  <2> DEFINE r == Result(q, "failed", NoReply)
  <2>1. DOMAIN r = DOMAIN Unasked /\ r.at = "failed" /\ To(q, r)
    BY <1>5, ResultFacts
  <2> HIDE DEF r
  <2> QED BY <1>2, <1>3, <2>1, SharedAsked
<1> QED BY <1>3, <1>4, <1>5

LEMMA ConnectionEndedKeeps ==
  ASSUME EncryptedInv, NEW q \in Queries, ConnectionEnded(q) PROVE EncryptedInv'
<1> DEFINE r == [queries[q] EXCEPT !.at = "again", !.conn = 0, !.retried = TRUE]
<1>1. CASE To(q, r)
  <2>1. DOMAIN r = DOMAIN Unasked /\ r.at = "again"
    BY DEF EncryptedInv, QueryKept, Unasked
  <2>2. UNCHANGED <<conns, idle>> /\ (shared'.at = "up" => shared'.conn \in DOMAIN conns')
    BY DEF ConnectionEnded, EncryptedInv
  <2> HIDE DEF r
  <2> QED BY <1>1, <2>1, <2>2, QuietQuery
<1> QED BY <1>1, FailedKeeps DEF ConnectionEnded

LEMMA TakeKeptKeeps ==
  ASSUME EncryptedInv, NEW q \in Queries, TakeKept(q) PROVE EncryptedInv'
<1> DEFINE c == idle[Len(idle)]
           r == [queries[q] EXCEPT !.at = "write", !.conn = c, !.reused = TRUE]
<1>1. To(q, r) /\ idle' = Popped(idle) /\ idle # <<>> /\ UNCHANGED <<shared, conns>>
  BY DEF TakeKept
<1>2. r.at = "write" /\ r.conn = c /\ DOMAIN r = DOMAIN Unasked
  BY DEF EncryptedInv, QueryKept, Unasked
<1>3. /\ idle' \in Seq(DOMAIN conns) /\ IsInjective(idle') /\ Range(idle') \subseteq Range(idle)
      /\ c \in Range(idle) /\ c \in DOMAIN conns /\ c \notin Range(idle')
  BY <1>1, KeptFacts DEF EncryptedInv
<1> HIDE DEF c, r
<1>4. /\ conns[c].kind = "h1" /\ conns[c].owed = <<>>
      /\ \A p \in Queries : Holding(p) => queries[p].conn # c
  BY <1>3 DEF EncryptedInv, Holding, QueryKept
<1>5. QueryKept(q, r, conns', Range(idle'))
  BY <1>1, <1>2, <1>3, <1>4 DEF QueryKept
<1>6. IsConns(conns') /\ conns' = conns /\ (shared'.at = "up" => shared'.conn \in DOMAIN conns')
  BY <1>1 DEF EncryptedInv
<1> QED BY <1>1, <1>2, <1>3, <1>4, <1>5, <1>6, OneQuery

LEMMA DialH1Keeps ==
  ASSUME EncryptedInv, NEW q \in Queries, DialH1(q) PROVE EncryptedInv'
<1>1. CASE To(q, Result(q, "failed", NoReply)) /\ UNCHANGED conns
  BY <1>1, FailedKeeps DEF DialH1
<1>2. CASE /\ Dial("h1")
           /\ To(q, [queries[q] EXCEPT !.at = "write", !.conn = Len(conns) + 1, !.reused = FALSE])
  <2> DEFINE c == Len(conns) + 1
             r == [queries[q] EXCEPT !.at = "write", !.conn = c, !.reused = FALSE]
  <2>1. r.at = "write" /\ r.conn = c /\ DOMAIN r = DOMAIN Unasked /\ To(q, r)
    BY <1>2 DEF EncryptedInv, QueryKept, Unasked
  <2>2. /\ IsConns(conns') /\ c \in DOMAIN conns' /\ c \notin DOMAIN conns /\ DOMAIN conns \subseteq DOMAIN conns'
        /\ conns'[c].kind = "h1" /\ conns'[c].owed = <<>>
        /\ \A d \in DOMAIN conns : conns'[d] = conns[d]
    BY <1>2, DialFacts DEF EncryptedInv, Dial
  <2> HIDE DEF c, r
  <2>3. /\ \A p \in Queries : Holding(p) => queries[p].conn # c
        /\ \A d \in Range(idle) : d # c
    <3>1. \A d \in Range(idle) : d \in DOMAIN conns
      BY DEF EncryptedInv, Range
    <3>2. \A p \in Queries : Holding(p) => queries[p].conn \in DOMAIN conns
      BY DEF EncryptedInv, Holding, QueryKept
    <3> QED BY <2>2, <3>1, <3>2
  <2>4. idle' = idle /\ idle' \in Seq(DOMAIN conns') /\ IsInjective(idle')
        /\ (shared'.at = "up" => shared'.conn \in DOMAIN conns')
    <3>1. idle' = idle /\ shared' = shared
      BY DEF DialH1
    <3> QED BY <2>2, <3>1, SeqWider DEF EncryptedInv
  <2>5. QueryKept(q, r, conns', Range(idle'))
    BY <2>1, <2>2, <2>3, <2>4 DEF QueryKept
  <2> QED BY <2>1, <2>2, <2>3, <2>4, <2>5, OneQuery
<1> QED BY <1>1, <1>2 DEF DialH1

\* The query alone uses the connection it holds: what it owes is its own answer.
LEMMA HeldConn ==
  ASSUME EncryptedInv, NEW q \in Queries, Holding(q), NEW s,
         conns' = [conns EXCEPT ![queries[q].conn].owed = s]
  PROVE  LET c == queries[q].conn IN
         /\ c \in DOMAIN conns /\ IsConns(conns') /\ DOMAIN conns' = DOMAIN conns
         /\ conns'[c].kind = "h1" /\ conns'[c].owed = s /\ c \notin Range(idle)
         /\ \A d \in DOMAIN conns \ {c} : conns'[d] = conns[d]
         /\ \A d \in DOMAIN conns : conns'[d].kind = conns[d].kind
         /\ \A p \in Queries \ {q} : Holding(p) => queries[p].conn # c
<1> DEFINE c == queries[q].conn
<1>1. c \in DOMAIN conns /\ conns[c].kind = "h1" /\ c \notin Range(idle)
  BY DEF EncryptedInv, QueryKept, Holding
<1>2. \A p \in Queries \ {q} : Holding(p) => queries[p].conn # c
  BY DEF EncryptedInv
<1>3. IsConns(conns) /\ conns' = [conns EXCEPT ![c].owed = s]
  BY DEF EncryptedInv
<1> HIDE DEF c
<1>4. /\ IsConns(conns') /\ DOMAIN conns' = DOMAIN conns
      /\ conns'[c].kind = conns[c].kind /\ conns'[c].owed = s
      /\ \A d \in DOMAIN conns \ {c} : conns'[d] = conns[d]
  BY <1>1, <1>3, OwedFacts
<1> QED BY <1>1, <1>2, <1>4 DEF c

LEMMA WriteH1Keeps ==
  ASSUME EncryptedInv, NEW q \in Queries, WriteH1(q) PROVE EncryptedInv'
<1> DEFINE c == queries[q].conn
           r == At(q, "read")
<1>1. Holding(q) /\ conns[c].owed = <<>>
  BY DEF WriteH1, EncryptedInv, QueryKept, Holding
<1>2. conns' = [conns EXCEPT ![c].owed = <<q>>] /\ To(q, r) /\ UNCHANGED <<shared, idle>>
  <2>1. conns' = [conns EXCEPT ![c].owed = Append(conns[c].owed, q)] /\ To(q, r) /\ UNCHANGED <<shared, idle>>
    BY DEF WriteH1
  <2>2. Append(conns[c].owed, q) = <<q>>
    BY <1>1
  <2> HIDE DEF c, r
  <2> QED BY <2>1, <2>2
<1>3. r.at = "read" /\ r.conn = c /\ DOMAIN r = DOMAIN Unasked
  BY DEF EncryptedInv, QueryKept, At, Unasked
<1>4. /\ c \in DOMAIN conns /\ IsConns(conns') /\ DOMAIN conns' = DOMAIN conns
      /\ conns'[c].kind = "h1" /\ conns'[c].owed = <<q>> /\ c \notin Range(idle)
      /\ \A d \in DOMAIN conns \ {c} : conns'[d] = conns[d]
      /\ \A d \in DOMAIN conns : conns'[d].kind = conns[d].kind
      /\ \A p \in Queries \ {q} : Holding(p) => queries[p].conn # c
  BY <1>1, <1>2, HeldConn
<1>5. idle' \in Seq(DOMAIN conns') /\ IsInjective(idle') /\ Range(idle') = Range(idle)
      /\ (shared'.at = "up" => shared'.conn \in DOMAIN conns')
  BY <1>2, <1>4 DEF EncryptedInv
<1>6. ASSUME NEW d \in DOMAIN conns, conns[d].kind = "h1", ~(Holding(q) /\ d = queries[q].conn)
      PROVE  conns'[d].owed = conns[d].owed
  BY <1>1, <1>4, <1>6
<1> HIDE DEF c, r
<1>7. QueryKept(q, r, conns', Range(idle'))
  BY <1>3, <1>4, <1>5 DEF QueryKept
<1> QED BY <1>2, <1>3, <1>4, <1>5, <1>6, <1>7, OneQuery

LEMMA ReadH1Keeps ==
  ASSUME EncryptedInv, NEW q \in Queries, ReadH1(q) PROVE EncryptedInv'
<1> DEFINE c == queries[q].conn
           r == Result(q, "answered", [to |-> q, id |-> q])
<1>1. Holding(q) /\ conns[c].owed = <<q>>
  BY DEF ReadH1, EncryptedInv, QueryKept, Holding
<1>2. conns' = [conns EXCEPT ![c].owed = <<>>] /\ To(q, r) /\ UNCHANGED shared
  <2>1. /\ conns' = [conns EXCEPT ![c].owed = Tail(conns[c].owed)] /\ UNCHANGED shared
        /\ To(q, Result(q, "answered", [to |-> Head(conns[c].owed), id |-> Head(conns[c].owed)]))
    BY DEF ReadH1
  <2>2. Tail(conns[c].owed) = <<>> /\ Head(conns[c].owed) = q
    BY <1>1
  <2> QED BY <2>1, <2>2
<1>3. r.at = "answered" /\ r.reply = [to |-> q, id |-> q] /\ DOMAIN r = DOMAIN Unasked
  BY ResultFacts
<1>4. /\ c \in DOMAIN conns /\ IsConns(conns') /\ DOMAIN conns' = DOMAIN conns
      /\ conns'[c].kind = "h1" /\ conns'[c].owed = <<>> /\ c \notin Range(idle)
      /\ \A d \in DOMAIN conns \ {c} : conns'[d] = conns[d]
      /\ \A d \in DOMAIN conns : conns'[d].kind = conns[d].kind
      /\ \A p \in Queries \ {q} : Holding(p) => queries[p].conn # c
  BY <1>1, <1>2, HeldConn
<1>5. idle' \in Seq(DOMAIN conns') /\ IsInjective(idle') /\ Range(idle') \subseteq Range(idle) \union {c}
  <2>1. Park(c) \/ UNCHANGED idle
    BY DEF ReadH1
  <2>2. idle \in Seq(DOMAIN conns) /\ IsInjective(idle)
    BY DEF EncryptedInv
  <2> HIDE DEF c
  <2> QED BY <1>4, <2>1, <2>2, ParkFacts
<1>6. ASSUME NEW d \in DOMAIN conns, conns[d].kind = "h1", ~(Holding(q) /\ d = queries[q].conn)
      PROVE  conns'[d].owed = conns[d].owed
  BY <1>1, <1>4, <1>6
<1>7. shared'.at = "up" => shared'.conn \in DOMAIN conns'
  BY <1>2, <1>4 DEF EncryptedInv
<1> HIDE DEF c, r
<1>8. QueryKept(q, r, conns', Range(idle'))
  BY <1>3 DEF QueryKept
<1>9. \A d \in Range(idle') :
        \/ d \in Range(idle)
        \/ /\ conns'[d].kind = "h1" /\ conns'[d].owed = <<>>
           /\ \A p \in Queries \ {q} : Holding(p) => queries[p].conn # d
  BY <1>4, <1>5
<1> QED BY <1>2, <1>3, <1>4, <1>5, <1>6, <1>7, <1>8, <1>9, OneQuery

LEMMA H1FailsKeeps ==
  ASSUME EncryptedInv, NEW q \in Queries, H1Fails(q) PROVE EncryptedInv'
<1> DEFINE r == [queries[q] EXCEPT !.at = "again_h1", !.conn = 0]
<1>1. CASE To(q, r)
  <2>1. DOMAIN r = DOMAIN Unasked /\ r.at = "again_h1"
    BY DEF EncryptedInv, QueryKept, Unasked
  <2>2. UNCHANGED <<conns, idle>> /\ (shared'.at = "up" => shared'.conn \in DOMAIN conns')
    BY DEF H1Fails, EncryptedInv
  <2> HIDE DEF r
  <2> QED BY <1>1, <2>1, <2>2, QuietQuery
<1> QED BY <1>1, FailedKeeps DEF H1Fails

LEMMA ResolverClosesKeeps ==
  ASSUME EncryptedInv, NEW c \in DOMAIN conns, ResolverCloses(c) PROVE EncryptedInv'
<1> DEFINE x == [conns[c] EXCEPT !.open = FALSE]
<1>1. conns' = [conns EXCEPT ![c] = x] /\ UNCHANGED <<shared, idle, queries>>
  BY DEF ResolverCloses
<1>2. PICK S : conns \in Seq(S)
  BY DEF EncryptedInv, IsConns
<1>3. DOMAIN x = {"kind", "open", "owed"} /\ x.kind = conns[c].kind /\ x.owed = conns[c].owed
  BY DEF EncryptedInv, IsConns
<1> HIDE DEF x
<1>4. /\ conns' \in Seq(S \union {x}) /\ DOMAIN conns' = DOMAIN conns /\ conns'[c] = x
      /\ \A d \in DOMAIN conns \ {c} : conns'[d] = conns[d]
  BY <1>1, <1>2
<1>5. IsConns(conns') /\ \A d \in DOMAIN conns : conns'[d].kind = conns[d].kind /\ conns'[d].owed = conns[d].owed
  BY <1>3, <1>4 DEF IsConns, EncryptedInv
<1>6. ASSUME NEW q \in Queries PROVE QueryKept(q, queries'[q], conns', Range(idle'))
  <2>1. QueryKept(q, queries[q], conns, Range(idle)) /\ queries'[q] = queries[q] /\ Range(idle') = Range(idle)
    BY <1>1 DEF EncryptedInv
  <2> QED BY <1>4, <1>5, <2>1 DEF QueryKept
<1>7. \A d \in Range(idle) : d \in DOMAIN conns
  BY DEF EncryptedInv, Range
<1>8. \A d \in Range(idle') : conns'[d].kind = "h1" /\ conns'[d].owed = <<>>
  BY <1>1, <1>5, <1>7 DEF EncryptedInv
<1> QED BY <1>1, <1>4, <1>5, <1>6, <1>8 DEF EncryptedInv, Holding

\* Every waiter joins the connection just made, and none holds it.
LEMMA DialledKeeps ==
  ASSUME EncryptedInv, Dialled PROVE EncryptedInv'
<1> DEFINE n == Len(conns) + 1
<1>1. PICK kind \in {"h1", "h2", "quic"} :
        /\ Dial(kind) /\ shared' = [at |-> "up", conn |-> n]
        /\ IF kind = "h1" THEN Park(n) ELSE UNCHANGED idle
  BY DEF Dialled
<1>2. queries' = [q \in Queries |-> IF queries[q].at = "wait" THEN Joined(queries[q], n) ELSE queries[q]]
  BY DEF Dialled
<1>3. /\ IsConns(conns') /\ n \in DOMAIN conns' /\ n \notin DOMAIN conns /\ DOMAIN conns \subseteq DOMAIN conns'
      /\ conns'[n].kind = kind /\ conns'[n].owed = <<>>
      /\ \A c \in DOMAIN conns : conns'[c] = conns[c]
  BY <1>1, DialFacts DEF EncryptedInv, Dial
<1> HIDE DEF n
<1>4. \A c \in Range(idle) : c \in DOMAIN conns
  BY DEF EncryptedInv, Range
<1>5. idle' \in Seq(DOMAIN conns') /\ IsInjective(idle') /\ Range(idle') \subseteq Range(idle) \union {n}
      /\ (kind # "h1" => idle' = idle)
  <2>1. idle \in Seq(DOMAIN conns') /\ IsInjective(idle) /\ n \notin Range(idle)
    BY <1>3, <1>4, SeqWider DEF EncryptedInv
  <2> QED BY <1>1, <1>3, <2>1, ParkFacts
<1>6. \A c \in Range(idle') : conns'[c].kind = "h1" /\ conns'[c].owed = <<>>
  <2>1. \A c \in Range(idle) : conns'[c].kind = "h1" /\ conns'[c].owed = <<>>
    BY <1>3, <1>4 DEF EncryptedInv
  <2> QED BY <1>3, <1>5, <2>1
<1>7. ASSUME NEW q \in Queries
      PROVE  /\ QueryKept(q, queries'[q], conns', Range(idle'))
             /\ Holding(q)' <=> Holding(q)
             /\ Holding(q) => queries'[q] = queries[q]
  <2>1. QueryKept(q, queries[q], conns, Range(idle))
    BY DEF EncryptedInv
  <2>2. CASE queries[q].at = "wait"
    <3>1. queries'[q] = Joined(queries[q], n)
      BY <1>2, <2>2
    <3>2. /\ DOMAIN queries'[q] = DOMAIN Unasked /\ queries'[q].conn = n
          /\ queries'[q].at \in {"over_h1", "ask"} /\ (queries'[q].at = "ask" => conns'[n].kind # "h1")
      BY <2>1, <3>1 DEF Joined, QueryKept, Unasked
    <3> QED BY <1>3, <2>2, <3>2 DEF QueryKept, Holding
  <2>3. CASE queries[q].at # "wait"
    <3>1. queries'[q] = queries[q]
      BY <1>2, <2>3
    <3>2. Holding(q) => queries[q].conn \in DOMAIN conns /\ queries[q].conn \notin Range(idle')
      BY <1>3, <1>5, <2>1 DEF QueryKept, Holding
    <3> QED BY <1>3, <2>1, <3>1, <3>2 DEF QueryKept, Holding
  <2> QED BY <2>2, <2>3
<1>8. \A p, q \in Queries : Holding(p)' /\ Holding(q)' /\ queries'[p].conn = queries'[q].conn => p = q
  BY <1>7 DEF EncryptedInv
<1> QED BY <1>1, <1>2, <1>3, <1>5, <1>6, <1>7, <1>8 DEF EncryptedInv

LEMMA DialRefusedKeeps ==
  ASSUME EncryptedInv, DialRefused PROVE EncryptedInv'
<1>1. /\ UNCHANGED <<conns, idle>> /\ shared' = [at |-> "down", conn |-> 0]
      /\ queries' = [q \in Queries |->
           IF queries[q].at = "wait" THEN Result(q, "failed", NoReply) ELSE queries[q]]
  BY DEF DialRefused
<1>2. ASSUME NEW q \in Queries
      PROVE  /\ QueryKept(q, queries'[q], conns', Range(idle'))
             /\ Holding(q)' <=> Holding(q)
             /\ Holding(q) => queries'[q] = queries[q]
  <2>1. CASE queries[q].at = "wait"
    <3>1. queries'[q] = Result(q, "failed", NoReply)
      BY <1>1, <2>1
    <3> QED BY <2>1, <3>1, ResultFacts DEF QueryKept, Holding
  <2>2. CASE queries[q].at # "wait"
    BY <1>1, <2>2 DEF EncryptedInv, Holding
  <2> QED BY <2>1, <2>2
<1>3. \A p, q \in Queries : Holding(p)' /\ Holding(q)' /\ queries'[p].conn = queries'[q].conn => p = q
  BY <1>2 DEF EncryptedInv
<1> QED BY <1>1, <1>2, <1>3 DEF EncryptedInv

LEMMA EncryptedInvNext == EncryptedInv /\ [EncryptedNext]_encryptedVars => EncryptedInv'
<1> SUFFICES ASSUME EncryptedInv, [EncryptedNext]_encryptedVars PROVE EncryptedInv'
  OBVIOUS
<1>1. CASE UNCHANGED encryptedVars
  BY <1>1 DEF EncryptedInv, encryptedVars, Holding
<1>2. CASE \E q \in Queries : Connection(q) \/ Ask(q) \/ Replied(q) \/ ConnectionEnded(q)
  BY <1>2, ConnectionKeeps, AskKeeps, RepliedKeeps, ConnectionEndedKeeps
<1>3. CASE \E q \in Queries : TakeKept(q) \/ DialH1(q) \/ WriteH1(q) \/ ReadH1(q)
  BY <1>3, TakeKeptKeeps, DialH1Keeps, WriteH1Keeps, ReadH1Keeps
<1>4. CASE \E q \in Queries : H1Fails(q) \/ TimesOut(q)
  BY <1>4, H1FailsKeeps, FailedKeeps DEF TimesOut
<1> QED BY <1>1, <1>2, <1>3, <1>4, DialledKeeps, DialRefusedKeeps, ResolverClosesKeeps DEF EncryptedNext

\* Every query gets its own answer for any number of queries, connections and kept connections.
THEOREM QueriesGetTheirReplies == EncryptedInit /\ [][EncryptedNext]_encryptedVars => []RepliesToTheirQueries
<1>1. EncryptedInv => RepliesToTheirQueries
  BY DEF EncryptedInv, QueryKept, RepliesToTheirQueries
<1> QED BY <1>1, EncryptedInvInit, EncryptedInvNext, PTL
=============================================================================
