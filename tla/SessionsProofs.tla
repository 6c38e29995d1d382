--------------------------- MODULE SessionsProofs ---------------------------
(* What the intercepting sessions promise, for any connections, clients,     *)
(* hosts, causes' lifetimes and thresholds.                                  *)
EXTENDS Sessions, FiniteSetTheorems, TLAPS

Numbered(s, n) == s \in Seq(Nat) /\ \A i \in 1 .. Len(s) : s[i] = n + i

\* Until the stream is handed on, what was peeked is all that was taken from it;
\* from then on it is what was read and what is left to replay, in that order.
Faithful(conn) ==
  /\ DOMAIN conn = {"pc", "client", "peeked", "taken", "prefix", "read", "leaf", "tier", "outcome"}
  /\ conn.client.kind \in Kinds /\ conn.taken \in Nat /\ conn.leaf \in BOOLEAN
  /\ Numbered(conn.read, 0) /\ Numbered(conn.prefix, Len(conn.read))
  /\ conn.pc \in {"peek", "dial", "origin", "spliceDial"} =>
       /\ Numbered(conn.peeked, 0) /\ Len(conn.peeked) = conn.taken
       /\ conn.read = <<>> /\ ~conn.leaf
  /\ conn.pc \in {"spliceDial", "copy", "client", "exchange"} =>
       Len(conn.read) + Len(conn.prefix) = conn.taken
  /\ conn.pc = "copy" => ~conn.leaf

SessionsInv == DOMAIN sessions = Conns /\ \A c \in Conns : Faithful(sessions[c])

LEMMA UnbornFaithful == Faithful(Unborn)
  BY DEF Faithful, Unborn, Numbered, Kinds

LEMMA OverFaithful ==
  ASSUME NEW conn, NEW outcome, Faithful(conn)
  PROVE  Faithful(Over(conn, outcome))
  BY UnbornFaithful DEF Faithful, Over, Unborn

LEMMA SplicedFaithful ==
  ASSUME NEW conn, NEW reason, Faithful(conn), conn.pc \in {"peek", "origin"}
  PROVE  Faithful(Spliced(conn, reason))
  BY DEF Faithful, Spliced, Numbered

LEMMA JudgedFaithful ==
  ASSUME NEW conn, Faithful(conn), conn.pc = "peek",
         NEW introduction \in {"Incomplete", "Plain", "Tls", "Http"}
  PROVE  Faithful(Judged(conn, introduction))
<1>1. ASSUME NEW tier PROVE Faithful([conn EXCEPT !.pc = "dial", !.tier = tier])
  BY DEF Faithful
<1> QED BY <1>1, SplicedFaithful DEF Judged

LEMMA IntroduceType ==
  ASSUME NEW client, client.kind \in Kinds, NEW peeked \in Seq(Nat)
  PROVE  Introduce(client, peeked) \in {"Incomplete", "Plain", "Tls", "Http"}
  BY DEF Introduce, Kinds

LEMMA AppendNumbered ==
  ASSUME NEW s, Numbered(s, 0)
  PROVE  /\ Len(s) \in Nat /\ Len(Append(s, Len(s) + 1)) = Len(s) + 1
         /\ Numbered(Append(s, Len(s) + 1), 0)
<1>1. s \in Seq(Nat) /\ Len(s) \in Nat
  BY DEF Numbered
<1>2. Append(s, Len(s) + 1) \in Seq(Nat) /\ Len(Append(s, Len(s) + 1)) = Len(s) + 1
  BY <1>1
<1>3. \A i \in 1 .. Len(s) + 1 : Append(s, Len(s) + 1)[i] = i
  BY <1>1 DEF Numbered
<1> QED BY <1>1, <1>2, <1>3 DEF Numbered

LEMMA TailNumbered ==
  ASSUME NEW s, NEW n \in Nat, Numbered(s, n), s # <<>>
  PROVE  /\ Head(s) = n + 1 /\ Len(Tail(s)) + 1 = Len(s) /\ Len(Tail(s)) \in Nat
         /\ Numbered(Tail(s), n + 1)
<1>1. s \in Seq(Nat) /\ Len(s) \in Nat /\ Len(s) > 0
  BY DEF Numbered
<1>2. Tail(s) \in Seq(Nat) /\ Len(Tail(s)) = Len(s) - 1 /\ Head(s) = s[1]
  BY <1>1
<1>3. \A i \in 1 .. Len(s) - 1 : Tail(s)[i] = s[i + 1]
  BY <1>1
<1> QED BY <1>1, <1>2, <1>3 DEF Numbered

LEMMA PeekedFaithful ==
  ASSUME NEW conn, Faithful(conn), conn.pc = "peek"
  PROVE  LET more == [conn EXCEPT !.peeked = Append(@, conn.taken + 1), !.taken = @ + 1]
         IN  Faithful(more) /\ more.pc = "peek" /\ more.peeked \in Seq(Nat)
<1> DEFINE peeked == Append(conn.peeked, conn.taken + 1)
           more == [conn EXCEPT !.peeked = Append(@, conn.taken + 1), !.taken = @ + 1]
<1>1. Numbered(peeked, 0) /\ Len(peeked) = conn.taken + 1
  BY AppendNumbered DEF Faithful
<1>2. /\ DOMAIN more = DOMAIN conn /\ more.peeked = peeked /\ more.taken = conn.taken + 1
      /\ \A x \in DOMAIN conn \ {"peeked", "taken"} : more[x] = conn[x]
  BY DEF Faithful
<1> HIDE DEF peeked, more
<1>3. more.pc = "peek" /\ more.client = conn.client /\ more.prefix = conn.prefix
      /\ more.read = conn.read /\ more.leaf = conn.leaf
  BY <1>2 DEF Faithful
<1>4. Faithful(more)
  BY <1>1, <1>2, <1>3 DEF Faithful
<1> QED BY <1>1, <1>2, <1>3, <1>4 DEF more, Numbered

LEMMA ReadFaithful ==
  ASSUME NEW conn, Faithful(conn), conn.pc \in {"copy", "client", "exchange"}
  PROVE  Faithful(PrefixedRead(conn))
<1>1. CASE conn.prefix # <<>>
  <2> DEFINE next == [conn EXCEPT !.read = Append(@, Head(conn.prefix)), !.prefix = Tail(@)]
  <2>1. /\ Len(conn.read) \in Nat /\ Numbered(conn.read, 0)
        /\ Len(conn.read) + Len(conn.prefix) = conn.taken
    BY AppendNumbered DEF Faithful
  <2>2. /\ Head(conn.prefix) = Len(conn.read) + 1 /\ Numbered(Tail(conn.prefix), Len(conn.read) + 1)
        /\ Len(Tail(conn.prefix)) \in Nat /\ Len(Tail(conn.prefix)) + 1 = Len(conn.prefix)
    BY <1>1, <2>1, TailNumbered DEF Faithful
  <2>3. /\ Numbered(Append(conn.read, Head(conn.prefix)), 0)
        /\ Len(Append(conn.read, Head(conn.prefix))) = Len(conn.read) + 1
    BY <2>1, <2>2, AppendNumbered
  <2>4. /\ DOMAIN next = DOMAIN conn /\ next.read = Append(conn.read, Head(conn.prefix))
        /\ next.prefix = Tail(conn.prefix) /\ next.pc = conn.pc /\ next.client = conn.client
        /\ next.taken = conn.taken /\ next.leaf = conn.leaf
    BY DEF Faithful
  <2>5. PrefixedRead(conn) = next
    BY <1>1 DEF PrefixedRead
  <2> HIDE DEF next
  <2>6. Numbered(next.read, 0) /\ Numbered(next.prefix, Len(next.read))
    BY <2>2, <2>3, <2>4
  <2>7. Len(next.read) + Len(next.prefix) = next.taken
    <3>1. Len(next.read) = Len(conn.read) + 1 /\ Len(next.prefix) = Len(Tail(conn.prefix))
      BY <2>3, <2>4
    <3>2. \A m, n \in Nat : (m + 1) + n = m + (n + 1)
      OBVIOUS
    <3>3. next.taken = Len(conn.read) + Len(conn.prefix)
      BY <2>1, <2>4
    <3> QED BY <2>1, <2>2, <3>1, <3>2, <3>3, Zenon
  <2> QED BY <2>4, <2>5, <2>6, <2>7 DEF Faithful
<1>2. CASE conn.prefix = <<>>
  <2> DEFINE next == [conn EXCEPT !.read = Append(@, conn.taken + 1), !.taken = @ + 1]
  <2>1. conn.taken = Len(conn.read) /\ Len(conn.read) \in Nat /\ Numbered(conn.read, 0)
    BY <1>2, AppendNumbered DEF Faithful
  <2>2. /\ Numbered(Append(conn.read, conn.taken + 1), 0)
        /\ Len(Append(conn.read, conn.taken + 1)) = conn.taken + 1
    BY <2>1, AppendNumbered
  <2>3. /\ DOMAIN next = DOMAIN conn /\ next.read = Append(conn.read, conn.taken + 1)
        /\ next.prefix = <<>> /\ next.pc = conn.pc /\ next.client = conn.client
        /\ next.taken = conn.taken + 1 /\ next.leaf = conn.leaf
    BY <1>2 DEF Faithful
  <2>4. PrefixedRead(conn) = next
    BY <1>2 DEF PrefixedRead
  <2>5. \A n : Numbered(<<>>, n) /\ Len(<<>>) = 0
    BY DEF Numbered
  <2> HIDE DEF next
  <2>6. Numbered(next.read, 0) /\ Numbered(next.prefix, Len(next.read))
    BY <2>2, <2>3, <2>5
  <2>7. Len(next.read) + Len(next.prefix) = next.taken /\ next.taken \in Nat
    BY <2>1, <2>2, <2>3, <2>5
  <2> QED BY <2>3, <2>4, <2>6, <2>7 DEF Faithful
<1> QED BY <1>1, <1>2

LEMMA HandedOn ==
  ASSUME NEW conn, Faithful(conn), conn.pc \in {"dial", "origin"}
  PROVE  /\ Numbered(conn.peeked, Len(conn.read))
         /\ Len(conn.read) + Len(conn.peeked) = conn.taken
<1>1. Numbered(conn.peeked, 0) /\ Len(conn.peeked) = conn.taken /\ conn.read = <<>>
      /\ conn.taken \in Nat
  BY DEF Faithful
<1>2. Len(conn.read) = 0
  BY <1>1
<1> QED BY <1>1, <1>2

LEMMA GoneFaithful ==
  ASSUME NEW conn, Faithful(conn)
  PROVE  Faithful([conn EXCEPT !.pc = "gone"])
  BY DEF Faithful

LEMMA StepFaithful ==
  ASSUME SessionsInv, NEW c \in Conns, NEW conn, Faithful(conn),
         sessions' = [sessions EXCEPT ![c] = conn]
  PROVE  SessionsInv'
  BY DEF SessionsInv

LEMMA NextSessionsInv == SessionsInv /\ [SessionsNext]_<<clock, tableVars, sessionVars>> => SessionsInv'
<1> SUFFICES ASSUME SessionsInv, [SessionsNext]_<<clock, tableVars, sessionVars>> PROVE SessionsInv'
  OBVIOUS
<1>1. CASE UNCHANGED sessions
  BY <1>1 DEF SessionsInv
<1>2. ASSUME NEW c \in Conns, NEW client \in Clients, Accept(c, client) PROVE SessionsInv'
  <2>1. Faithful([Unborn EXCEPT !.pc = "peek", !.client = client])
    BY UnbornFaithful, SessionsAssumption DEF Faithful, Unborn, Numbered
  <2> QED BY <1>2, <2>1, StepFaithful DEF Accept
<1>3. ASSUME NEW c \in Conns, PeekRead(c) PROVE SessionsInv'
  <2> DEFINE conn == sessions[c]
             more == [conn EXCEPT !.peeked = Append(@, conn.taken + 1), !.taken = @ + 1]
  <2>1. Faithful(more) /\ more.pc = "peek" /\ more.peeked \in Seq(Nat)
    BY <1>3, PeekedFaithful DEF PeekRead, SessionsInv
  <2>2. more.client.kind \in Kinds
    BY <2>1 DEF Faithful
  <2>3. \/ sessions' = [sessions EXCEPT ![c] = more]
        \/ sessions' = [sessions EXCEPT ![c] = Judged(more, Introduce(more.client, more.peeked))]
    BY <1>3 DEF PeekRead
  <2> HIDE DEF more
  <2>4. Faithful(Judged(more, Introduce(more.client, more.peeked)))
    BY <2>1, <2>2, IntroduceType, JudgedFaithful
  <2> QED BY <2>1, <2>3, <2>4, StepFaithful
<1>4. ASSUME NEW c \in Conns, PeekEnd(c) PROVE SessionsInv'
  <2> DEFINE conn == sessions[c]
  <2>1. Faithful(conn) /\ conn.pc = "peek" /\ conn.client.kind \in Kinds /\ conn.peeked \in Seq(Nat)
    BY <1>4 DEF PeekEnd, SessionsInv, Faithful, Numbered
  <2>2. Faithful(Judged(conn, Introduce(conn.client, conn.peeked)))
    BY <2>1, IntroduceType, JudgedFaithful
  <2> QED BY <1>4, <2>2, StepFaithful DEF PeekEnd, SessionsInv
<1>5. ASSUME NEW c \in Conns, NEW ok \in BOOLEAN, Dialled(c, ok) PROVE SessionsInv'
  <2> DEFINE conn == sessions[c]
  <2>1. Faithful(conn) /\ conn.pc = "dial"
    BY <1>5 DEF Dialled, SessionsInv
  <2>2. Faithful([conn EXCEPT !.pc = "origin"])
    BY <2>1 DEF Faithful
  <2>3. Faithful([conn EXCEPT !.pc = "exchange", !.prefix = conn.peeked])
    BY <2>1, HandedOn DEF Faithful
  <2> QED BY <1>5, <2>1, <2>2, <2>3, OverFaithful, StepFaithful DEF Dialled
<1>6. ASSUME NEW c \in Conns, OriginShaken(c) PROVE SessionsInv'
  <2> DEFINE conn == sessions[c]
             next == [conn EXCEPT !.pc = "client", !.prefix = conn.peeked, !.leaf = TRUE]
  <2>1. Faithful(conn) /\ conn.pc = "origin"
    BY <1>6 DEF OriginShaken, SessionsInv
  <2>2. Faithful(next)
    BY <2>1, HandedOn DEF Faithful
  <2>3. sessions' = [sessions EXCEPT ![c] = next]
    BY <1>6 DEF OriginShaken
  <2> QED BY <2>2, <2>3, StepFaithful
<1>7. ASSUME NEW c \in Conns, NEW failure \in Failures, OriginFailed(c, failure) PROVE SessionsInv'
  <2>1. Faithful(sessions[c]) /\ sessions[c].pc = "origin"
    BY <1>7 DEF OriginFailed, SessionsInv
  <2> QED BY <1>7, <2>1, SplicedFaithful, StepFaithful DEF OriginFailed
<1>8. ASSUME NEW c \in Conns, ClientShaken(c) PROVE SessionsInv'
  <2>1. Faithful([sessions[c] EXCEPT !.pc = "exchange"])
    BY <1>8 DEF ClientShaken, SessionsInv, Faithful
  <2> QED BY <1>8, <2>1, StepFaithful DEF ClientShaken
<1>9. ASSUME NEW c \in Conns, NEW failure \in Failures, ClientFailed(c, failure) PROVE SessionsInv'
  <2>1. PICK outcome : sessions' = [sessions EXCEPT ![c] = Over(sessions[c], outcome)]
    BY <1>9 DEF ClientFailed
  <2> QED BY <2>1, OverFaithful, StepFaithful DEF SessionsInv
<1>10. ASSUME NEW c \in Conns, NEW exhausted \in BOOLEAN, ExchangeOver(c, exhausted) PROVE SessionsInv'
  BY <1>10, OverFaithful, StepFaithful DEF ExchangeOver, SessionsInv
<1>11. ASSUME NEW c \in Conns, NEW ok \in BOOLEAN, SpliceDialled(c, ok) PROVE SessionsInv'
  <2>1. Faithful(sessions[c]) /\ Faithful([sessions[c] EXCEPT !.pc = "copy"])
    BY <1>11 DEF SpliceDialled, SessionsInv, Faithful
  <2> QED BY <1>11, <2>1, OverFaithful, StepFaithful DEF SpliceDialled
<1>12. ASSUME NEW c \in Conns, ReadOn(c) PROVE SessionsInv'
  BY <1>12, ReadFaithful, StepFaithful DEF ReadOn, SessionsInv
<1>13. ASSUME NEW c \in Conns, CopyOver(c) PROVE SessionsInv'
  BY <1>13, OverFaithful, StepFaithful DEF CopyOver, SessionsInv
<1>14. ASSUME NEW c \in Conns, ChildCancelled(c) PROVE SessionsInv'
  <2>1. Faithful([Over(sessions[c], "cancelled") EXCEPT !.pc = "gone"])
    BY OverFaithful, GoneFaithful DEF SessionsInv
  <2> QED BY <1>14, <2>1, StepFaithful DEF ChildCancelled
<1>15. Cancel \/ StopAdmission \/ RunnerDone \/ SessionsTick => UNCHANGED sessions
  BY DEF Cancel, StopAdmission, RunnerDone, SessionsTick, sessionVars
<1>16. UNCHANGED <<clock, tableVars, sessionVars>> => UNCHANGED sessions
  BY DEF sessionVars
<1> QED BY <1>1, <1>2, <1>3, <1>4, <1>5, <1>6, <1>7, <1>8, <1>9, <1>10, <1>11, <1>12, <1>13,
           <1>14, <1>15, <1>16 DEF SessionsNext

\* Every consumer of a client's stream reads it whole, and a client that was shown a
\* forged leaf is never spliced, for any number of sessions, clients and failures.
THEOREM StreamsStayWhole ==
  SessionsInit /\ [][SessionsNext]_<<clock, tableVars, sessionVars>> => []StreamReplayedWhole
<1>1. SessionsInit => SessionsInv
  BY UnbornFaithful DEF SessionsInit, SessionsInv
<1>2. SessionsInv => StreamReplayedWhole
  <2> SUFFICES ASSUME SessionsInv, NEW c \in Conns
               PROVE  /\ sessions[c].read = [i \in 1 .. Len(sessions[c].read) |-> i]
                      /\ sessions[c].pc \in {"spliceDial", "copy"} => ~sessions[c].leaf
    BY DEF StreamReplayedWhole
  <2>1. Faithful(sessions[c])
    BY DEF SessionsInv
  <2>2. ASSUME NEW s, Numbered(s, 0) PROVE s = [i \in 1 .. Len(s) |-> i]
    <3>1. s \in Seq(Nat) /\ \A i \in 1 .. Len(s) : s[i] = i
      BY <2>2 DEF Numbered
    <3> QED BY <3>1
  <2> QED BY <2>1, <2>2 DEF Faithful
<1> QED BY <1>1, <1>2, NextSessionsInv, PTL

-----------------------------------------------------------------------------
(* The demotion table against the strikes ever recorded.                   *)

Strike == [count : 0 .. CountMax, expiry : Nat]
Entries == [at : Nat, by : Conns]

Times(log) == [i \in 1 .. Len(log) |-> log[i].at]

\* What a strike of the table tells of its host and cause, struck n times at the times
\* at: either nothing, and the last of them has lapsed; or the length of the longest
\* chain of strikes that ends the record, as far as the counter goes.
Tells(count, expiry, at, n, ttl, t) ==
  \/ /\ count = 0 /\ expiry = 0
     /\ n > 0 => at[n] + ttl <= t
  \/ /\ count \in 1 .. n /\ expiry = at[n] + ttl
     /\ \A i \in n - count + 1 .. n - 1 : at[i + 1] < at[i] + ttl
     /\ count = CountMax \/ count = n \/ at[n - count + 1] >= at[n - count] + ttl

Told(strike, h, c) ==
  Tells(strike.count, strike.expiry, Times(recorded[h][c]), Len(recorded[h][c]), Ttl[c], clock)

TableInv ==
  /\ clock \in Nat
  /\ strikes \in [Hosts -> [Causes -> Strike]]
  /\ recorded \in [Hosts -> [Causes -> Seq(Entries)]]
  /\ \A h \in Hosts : h \notin listed => strikes[h] = [c \in Causes |-> NoStrike]
  /\ \A h \in Hosts, c \in Causes : Told(strikes[h][c], h, c)

LEMMA AppendFacts ==
  ASSUME NEW S, NEW s \in Seq(S), NEW x \in S
  PROVE  /\ Append(s, x) \in Seq(S) /\ Len(s) \in Nat /\ Len(Append(s, x)) = Len(s) + 1
         /\ Append(s, x)[Len(s) + 1] = x
         /\ \A i \in 1 .. Len(s) : Append(s, x)[i] = s[i] /\ s[i] \in S
  OBVIOUS

LEMMA TimesType ==
  ASSUME NEW log \in Seq(Entries)
  PROVE  Len(log) \in Nat /\ Times(log) \in [1 .. Len(log) -> Nat]
<1>1. Len(log) \in Nat /\ \A i \in 1 .. Len(log) : log[i] \in Entries
  OBVIOUS
<1>2. \A e \in Entries : e.at \in Nat
  BY DEF Entries
<1> QED BY <1>1, <1>2 DEF Times

\* A strike that tells its record counts as live exactly when the chain is long enough.
LEMMA TellsStanding ==
  ASSUME NEW count \in 0 .. CountMax, NEW expiry \in Nat, NEW n \in Nat, NEW at \in [1 .. n -> Nat],
         NEW ttl \in Nat \ {0}, NEW t \in Nat, Tells(count, expiry, at, n, ttl, t)
  PROVE  count >= Strikes /\ expiry > t <=>
           /\ n >= Strikes
           /\ \A i \in n - Strikes + 1 .. n - 1 : at[i + 1] < at[i] + ttl
           /\ t < at[n] + ttl
<1> DEFINE chained == \A i \in n - Strikes + 1 .. n - 1 : at[i + 1] < at[i] + ttl
<1>1. count \in 0 .. 255 /\ Strikes \in 1 .. 255
  BY DemotionsAssumption DEF CountMax
<1>2. CASE count = 0 /\ expiry = 0 /\ (n > 0 => at[n] + ttl <= t)
  BY <1>1, <1>2
<1>3. CASE ~(count = 0 /\ expiry = 0 /\ (n > 0 => at[n] + ttl <= t))
  <2>1. count \in 1 .. n /\ expiry = at[n] + ttl
    BY <1>3 DEF Tells
  <2>2. \A i \in n - count + 1 .. n - 1 : at[i + 1] < at[i] + ttl
    BY <1>3 DEF Tells
  <2>3. count = 255 \/ count = n \/ at[n - count + 1] >= at[n - count] + ttl
    BY <1>3 DEF Tells, CountMax
  <2>4. ASSUME count >= Strikes, expiry > t PROVE n >= Strikes /\ chained /\ t < at[n] + ttl
    <3>1. n >= Strikes /\ \A i \in n - Strikes + 1 .. n - 1 : i \in n - count + 1 .. n - 1
      BY <1>1, <2>1, <2>4
    <3> QED BY <2>1, <2>2, <2>4, <3>1
  <2>5. ASSUME n >= Strikes, chained, count < Strikes PROVE FALSE
    <3>1. /\ n - count \in n - Strikes + 1 .. n - 1
          /\ n - count \in 1 .. n /\ n - count + 1 \in 1 .. n
          /\ count # 255 /\ count # n
      BY <1>1, <2>1, <2>5
    <3>2. at[n - count + 1] < at[n - count] + ttl
      BY <2>5, <3>1
    <3> QED BY <2>3, <3>1, <3>2
  <2> QED BY <1>1, <2>1, <2>4, <2>5
<1> QED BY <1>2, <1>3

\* more is the count of a strike at t that follows one of this count and expiry, and
\* new are the n + 1 times that at and t make.
Follows(more, count, expiry, t) ==
  /\ expiry > t /\ count # 255 => more = count + 1
  /\ expiry > t /\ count = 255 => more = 255
  /\ ~(expiry > t) => more = 1

Prolongs(new, at, n, t) == new[n + 1] = t /\ \A i \in 1 .. n : new[i] = at[i]

\* One more strike tells the longer record.
LEMMA MoreTells ==
  ASSUME NEW count \in 0 .. 255, NEW expiry \in Nat, NEW n \in Nat, NEW at \in [1 .. n -> Nat],
         NEW ttl \in Nat \ {0}, NEW t \in Nat, Tells(count, expiry, at, n, ttl, t),
         NEW more \in 1 .. 255, Follows(more, count, expiry, t),
         NEW new, Prolongs(new, at, n, t)
  PROVE  Tells(more, t + ttl, new, n + 1, ttl, t)
<1> USE DEF Follows, Prolongs
<1>1. count \in 0 .. 255 /\ more \in 1 .. 255
  OBVIOUS
<1>2. ASSUME n > 0 => at[n] + ttl <= t, more = 1 PROVE Tells(more, t + ttl, new, n + 1, ttl, t)
  BY <1>2 DEF Tells
<1>3. CASE count = 0 /\ expiry = 0 /\ (n > 0 => at[n] + ttl <= t)
  BY <1>1, <1>2, <1>3
<1>4. CASE ~(count = 0 /\ expiry = 0 /\ (n > 0 => at[n] + ttl <= t))
  <2>1. count \in 1 .. n /\ expiry = at[n] + ttl
    BY <1>4 DEF Tells
  <2>2. \A i \in n - count + 1 .. n - 1 : at[i + 1] < at[i] + ttl
    BY <1>4 DEF Tells
  <2>3. count = 255 \/ count = n \/ at[n - count + 1] >= at[n - count] + ttl
    BY <1>4 DEF Tells, CountMax
  <2>4. CASE expiry <= t
    BY <1>1, <1>2, <2>1, <2>4
  <2>5. CASE expiry > t
    <3>1. more <= count + 1 /\ (count # 255 => more = count + 1) /\ (count = 255 => more = 255)
      BY <1>1, <2>5
    <3>2. ASSUME NEW i \in n + 1 - more + 1 .. n + 1 - 1
          PROVE  new[i + 1] < new[i] + ttl
      <4>1. CASE i = n
        BY <2>1, <2>5, <4>1
      <4>2. CASE i # n
        <5>1. i \in n - count + 1 .. n - 1 /\ i \in 1 .. n /\ i + 1 \in 1 .. n
          BY <1>1, <2>1, <3>1, <3>2, <4>2
        <5> QED BY <2>2, <5>1
      <4> QED BY <4>1, <4>2
    <3>3. more = 255 \/ more = n + 1 \/ new[n + 1 - more + 1] >= new[n + 1 - more] + ttl
      <4>1. CASE count = 255 \/ count = n
        BY <3>1, <4>1
      <4>2. CASE count # 255 /\ count # n
        <5>1. /\ n + 1 - more = n - count
              /\ n - count \in 1 .. n /\ n - count + 1 \in 1 .. n
          BY <1>1, <2>1, <3>1, <4>2
        <5> QED BY <2>3, <4>2, <5>1
      <4> QED BY <4>1, <4>2
    <3>4. more \in 1 .. n + 1
      BY <1>1, <2>1, <3>1
    <3> QED BY <3>2, <3>3, <3>4 DEF Tells, CountMax
  <2> QED BY <2>1, <2>4, <2>5
<1> QED BY <1>3, <1>4

LEMMA StruckCount ==
  ASSUME NEW strike \in Strike, NEW cause \in Causes, clock \in Nat
  PROVE  /\ Struck(strike, cause) \in Strike
         /\ Struck(strike, cause).count \in 1 .. 255
         /\ Struck(strike, cause).expiry = clock + Ttl[cause]
         /\ Follows(Struck(strike, cause).count, strike.count, strike.expiry, clock)
<1>1. PICK count \in 0 .. 255 : count = strike.count
  BY DEF Strike, CountMax
<1>2. PICK ttl \in Nat : ttl = Ttl[cause]
  BY DemotionsAssumption
<1> DEFINE more == IF strike.expiry > clock THEN IF count < 255 THEN count + 1 ELSE 255 ELSE 1
<1>3. more \in 1 .. 255
  OBVIOUS
<1>4. Struck(strike, cause) = [count |-> more, expiry |-> clock + ttl]
  BY <1>1, <1>2 DEF Struck, Expiry, Unlapsed, CountMax
<1>5. clock + ttl \in Nat
  OBVIOUS
<1> HIDE DEF more
<1>6. Struck(strike, cause) \in Strike
  BY <1>3, <1>4, <1>5 DEF Strike, CountMax
<1>7. Struck(strike, cause).count = more /\ Struck(strike, cause).expiry = clock + ttl
  BY <1>4
<1> QED BY <1>1, <1>2, <1>3, <1>6, <1>7 DEF more, Follows

\* A strike that has lapsed may be forgotten, and stays so.
LEMMA ForgottenTells ==
  ASSUME NEW count, NEW expiry \in Nat, NEW at, NEW n, NEW ttl, NEW t \in Nat,
         Tells(count, expiry, at, n, ttl, t), ~(expiry > t)
  PROVE  Tells(0, 0, at, n, ttl, t)
  BY DEF Tells

LEMMA TellsLater ==
  ASSUME NEW count, NEW expiry, NEW n \in Nat, NEW at \in [1 .. n -> Nat], NEW ttl \in Nat,
         NEW t \in Nat, Tells(count, expiry, at, n, ttl, t)
  PROVE  Tells(count, expiry, at, n, ttl, t + 1)
  BY DEF Tells

LEMMA RecordTable ==
  ASSUME TableInv, NEW host \in Hosts, NEW cause \in Causes, NEW by \in Conns,
         Record(host, cause, by), clock' = clock
  PROVE  TableInv'
<1> DEFINE none == [c \in Causes |-> NoStrike]
           kept(h) == IF h \in ListedAfter(host) THEN strikes[h] ELSE none
           entry == [at |-> clock, by |-> by]
<1>1. /\ clock \in Nat /\ strikes \in [Hosts -> [Causes -> Strike]]
      /\ recorded \in [Hosts -> [Causes -> Seq(Entries)]]
      /\ NoStrike \in Strike /\ entry \in Entries
  <2>1. NoStrike \in Strike /\ (clock \in Nat => entry \in Entries)
    BY DEF NoStrike, Strike, CountMax, Entries
  <2> HIDE DEF entry
  <2> QED BY <2>1 DEF TableInv
<1>2. ASSUME NEW h \in Hosts
      PROVE  /\ kept(h) \in [Causes -> Strike]
             /\ \A c \in Causes : Told(kept(h)[c], h, c)
  <2>1. CASE h \in ListedAfter(host)
    BY <1>1, <2>1 DEF TableInv, Told
  <2>2. CASE h \notin ListedAfter(host)
    <3>1. kept(h) = none /\ none \in [Causes -> Strike]
      BY <1>1, <2>2
    <3> SUFFICES ASSUME NEW c \in Causes PROVE Told(NoStrike, h, c)
      BY <3>1
    <3>2. strikes[h][c] \in Strike /\ Told(strikes[h][c], h, c)
      BY <1>1 DEF TableInv, Told
    <3>3. CASE h \notin listed
      BY <3>2, <3>3 DEF TableInv
    <3>4. CASE h \in listed
      <4>1. ~HasEvidence(h)
        BY <2>2, <3>4 DEF ListedAfter
      <4>2. strikes[h][c].expiry \in Nat /\ ~(strikes[h][c].expiry > clock)
        BY <3>2, <4>1 DEF HasEvidence, Unlapsed, Strike
      <4>3. NoStrike.count = 0 /\ NoStrike.expiry = 0
        BY DEF NoStrike
      <4> QED BY <1>1, <3>2, <4>2, <4>3, ForgottenTells DEF Told
    <3> QED BY <3>3, <3>4
  <2> QED BY <2>1, <2>2
<1>3. strikes' = [h \in Hosts |-> IF h = host THEN [kept(host) EXCEPT ![cause] = Struck(@, cause)]
                                              ELSE kept(h)]
  BY DEF Record, Entry
<1>4. recorded' = [recorded EXCEPT ![host][cause] = Append(@, entry)]
  BY DEF Record
<1>5. listed' = ListedAfter(host) \union {host}
  BY DEF Record
<1>6. ASSUME NEW h \in Hosts, h \notin listed' PROVE strikes'[h] = none
  BY <1>3, <1>5, <1>6
<1> HIDE DEF kept, none, entry
<1>7. /\ Struck(kept(host)[cause], cause) \in Strike
      /\ LET new == Append(recorded[host][cause], entry)
             struck == Struck(kept(host)[cause], cause)
         IN Tells(struck.count, struck.expiry, Times(new), Len(new), Ttl[cause], clock)
  <2>1. kept(host)[cause] \in Strike /\ recorded[host][cause] \in Seq(Entries)
    BY <1>1, <1>2
  <2>2. Told(kept(host)[cause], host, cause)
    BY <1>2
  <2>3. Append(recorded[host][cause], entry) \in Seq(Entries)
    BY <1>1, <2>1, AppendFacts
  <2>4. LET log == recorded[host][cause]
            new == Append(log, entry)
        IN  /\ Len(log) \in Nat /\ Len(new) = Len(log) + 1 /\ new[Len(log) + 1].at = clock
            /\ \A i \in 1 .. Len(log) : new[i] = log[i]
    BY <1>1, <2>1, AppendFacts DEF entry
  <2> DEFINE log == recorded[host][cause]
             new == Append(log, entry)
  <2> HIDE DEF log, new
  <2>5. Prolongs(Times(new), Times(log), Len(log), clock)
    BY <2>4 DEF log, new, Times, Prolongs
  <2>6. /\ Len(log) \in Nat /\ Times(log) \in [1 .. Len(log) -> Nat]
        /\ Len(new) = Len(log) + 1
    BY <2>1, <2>4, TimesType DEF log, new
  <2> DEFINE strike == kept(host)[cause]
             struck == Struck(strike, cause)
  <2>7. Tells(strike.count, strike.expiry, Times(log), Len(log), Ttl[cause], clock)
    BY <2>2 DEF log, Told
  <2>8. /\ struck \in Strike /\ struck.count \in 1 .. 255
        /\ struck.expiry = clock + Ttl[cause]
        /\ Follows(struck.count, strike.count, strike.expiry, clock)
    BY <1>1, <2>1, StruckCount
  <2>9. strike.count \in 0 .. 255 /\ strike.expiry \in Nat /\ Ttl[cause] \in Nat \ {0}
    BY <2>1, DemotionsAssumption DEF Strike, CountMax
  <2> HIDE DEF strike, struck
  <2>10. Tells(struck.count, clock + Ttl[cause], Times(new), Len(log) + 1, Ttl[cause], clock)
    <3>1. PICK count \in 0 .. 255, expiry \in Nat, more \in 1 .. 255, t \in Nat, n \in Nat,
               ttl \in Nat \ {0}, at \in [1 .. Len(log) -> Nat] :
            /\ count = strike.count /\ expiry = strike.expiry /\ more = struck.count
            /\ t = clock /\ n = Len(log) /\ ttl = Ttl[cause] /\ at = Times(log)
      BY <1>1, <2>6, <2>8, <2>9
    <3>2. /\ Tells(count, expiry, at, n, ttl, t) /\ Follows(more, count, expiry, t)
          /\ Prolongs(Times(new), at, n, t) /\ at \in [1 .. n -> Nat]
      BY <2>5, <2>7, <2>8, <3>1
    <3>3. Tells(more, t + ttl, Times(new), n + 1, ttl, t)
      BY <3>2, MoreTells, ZenonT(60)
    <3> QED BY <3>1, <3>3
  <2> QED BY <2>6, <2>8, <2>10 DEF log, new, strike, struck
<1>8. strikes' \in [Hosts -> [Causes -> Strike]]
  BY <1>2, <1>3, <1>7
<1>9. recorded' \in [Hosts -> [Causes -> Seq(Entries)]]
  BY <1>1, <1>4
<1>10. ASSUME NEW h \in Hosts, NEW c \in Causes
       PROVE  Told(strikes[h][c], h, c)'
  <2>1. CASE h = host /\ c = cause
    <3>1. strikes'[h][c] = Struck(kept(host)[cause], cause)
      BY <1>2, <1>3, <2>1
    <3>2. recorded'[h][c] = Append(recorded[host][cause], entry)
      BY <1>1, <1>4, <2>1
    <3> QED BY <1>7, <2>1, <3>1, <3>2 DEF Told
  <2>2. CASE ~(h = host /\ c = cause)
    <3>1. strikes'[h][c] = kept(h)[c]
      BY <1>2, <1>3, <2>2
    <3>2. recorded'[h][c] = recorded[h][c]
      BY <1>1, <1>4, <2>2
    <3> QED BY <1>2, <3>1, <3>2 DEF Told
  <2> QED BY <2>1, <2>2
<1> QED BY <1>1, <1>6, <1>8, <1>9, <1>10 DEF TableInv, Told, none
LEMMA ElapseTable ==
  ASSUME TableInv, Elapse
  PROVE  TableInv'
<1>1. clock' = clock + 1 /\ UNCHANGED tableVars /\ clock \in Nat
  BY DEF Elapse, TableInv
<1>2. ASSUME NEW h \in Hosts, NEW c \in Causes PROVE Told(strikes[h][c], h, c)'
  <2>1. recorded[h][c] \in Seq(Entries) /\ Ttl[c] \in Nat /\ Told(strikes[h][c], h, c)
    BY DemotionsAssumption DEF TableInv
  <2>2. Len(recorded[h][c]) \in Nat /\ Times(recorded[h][c]) \in [1 .. Len(recorded[h][c]) -> Nat]
    BY <2>1, TimesType
  <2>3. Tells(strikes[h][c].count, strikes[h][c].expiry, Times(recorded[h][c]),
              Len(recorded[h][c]), Ttl[c], clock + 1)
    BY <1>1, <2>1, <2>2, TellsLater, Zenon DEF Told
  <2> QED BY <1>1, <2>3 DEF Told, tableVars
<1> QED BY <1>1, <1>2 DEF TableInv, tableVars

\* The table's standing is what its strikes tell of the record.
LEMMA TableStanding == TableInv => StandingMatchesHistory
<1> SUFFICES ASSUME TableInv, NEW h \in Hosts, NEW c \in Causes
             PROVE  c \in LiveCauses(h, clock) <=> c \in OwedCauses(h, clock)
  BY DEF StandingMatchesHistory, LiveCauses, OwedCauses
<1> DEFINE log == recorded[h][c]
           strike == strikes[h][c]
<1>1. log \in Seq(Entries) /\ strike \in Strike /\ clock \in Nat /\ Ttl[c] \in Nat \ {0}
  BY DemotionsAssumption DEF TableInv
<1>2. Len(log) \in Nat /\ Times(log) \in [1 .. Len(log) -> Nat]
  BY <1>1, TimesType
<1>3. strike.count \in 0 .. CountMax /\ strike.expiry \in Nat
  BY <1>1 DEF Strike
<1>4. Tells(strike.count, strike.expiry, Times(log), Len(log), Ttl[c], clock)
  BY DEF TableInv, Told
<1>5. strike.count >= Strikes /\ strike.expiry > clock <=>
        /\ Len(log) >= Strikes
        /\ \A i \in Len(log) - Strikes + 1 .. Len(log) - 1 : Times(log)[i + 1] < Times(log)[i] + Ttl[c]
        /\ clock < Times(log)[Len(log)] + Ttl[c]
  <2> HIDE DEF log, strike
  <2> QED BY <1>1, <1>2, <1>3, <1>4, TellsStanding, Zenon
<1>6. Live(strike, clock) <=> Chained(log, Strikes, Ttl[c], clock)
  <2> HIDE DEF log, strike
  <2>1. Strikes \in Nat \ {0}
    BY DemotionsAssumption
  <2>2. ASSUME Len(log) >= Strikes, NEW i \in Len(log) - Strikes + 1 .. Len(log) - 1
        PROVE  Times(log)[i + 1] = log[i + 1].at /\ Times(log)[i] = log[i].at
    <3>1. i \in 1 .. Len(log) /\ i + 1 \in 1 .. Len(log)
      BY <1>2, <2>1, <2>2
    <3> QED BY <3>1 DEF Times
  <2>3. Len(log) >= Strikes => Times(log)[Len(log)] = log[Len(log)].at
    BY <1>2, <2>1 DEF Times
  <2> QED BY <1>5, <2>2, <2>3 DEF Live, Enough, Unlapsed, Chained
<1>7. h \notin listed => ~Live(strike, clock)
  <2>1. Strikes \in Nat \ {0}
    BY DemotionsAssumption
  <2> QED BY <2>1 DEF TableInv, NoStrike, Live, Enough
<1> QED BY <1>6, <1>7 DEF LiveCauses, OwedCauses

-----------------------------------------------------------------------------
(* Whose strikes they are.                                                 *)

\* Where a session has recorded what it ever records.
Settled == {"spliceDial", "copy", "over", "gone"}

\* A connection that is intercepted names a host the policy allows.
Named(conn) == conn.pc \in {"dial", "origin", "client", "exchange"} => conn.client.host \in Hosts

\* No connection strikes twice: whoever is in a record is settled, and no two strikes
\* of a record are one connection's.
StandingInv ==
  /\ TableInv
  /\ \A c \in Conns : Named(sessions[c])
  /\ \A h \in Hosts, cause \in Causes : LET log == recorded[h][cause] IN
       /\ \A i \in 1 .. Len(log) : sessions[log[i].by].pc \in Settled
       /\ \A i, j \in 1 .. Len(log) : log[i].by = log[j].by => i = j

\* What a step makes of a connection.
Onward(old, new) == Named(new) /\ (old.pc \in Settled => new.pc \in Settled)

LEMMA OverNamed ==
  ASSUME NEW conn, NEW outcome, Named(conn)
  PROVE  Named(Over(conn, outcome)) /\ Over(conn, outcome).pc = "over"
  BY DEF Named, Over, Unborn

LEMMA SplicedNamed ==
  ASSUME NEW conn, NEW reason, Named(conn), Faithful(conn)
  PROVE  Named(Spliced(conn, reason)) /\ Spliced(conn, reason).pc = "spliceDial"
  BY DEF Named, Spliced, Faithful

LEMMA JudgedNamed ==
  ASSUME NEW conn, Named(conn), Faithful(conn),
         NEW introduction \in {"Incomplete", "Plain", "Tls", "Http"}
  PROVE  Named(Judged(conn, introduction))
<1>1. ASSUME NEW tier, Intercepts(conn.client.host)
      PROVE  Named([conn EXCEPT !.pc = "dial", !.tier = tier])
  BY <1>1, SessionsAssumption DEF Named, Faithful, Intercepts
<1> QED BY <1>1, SplicedNamed DEF Judged

LEMMA OneOnward ==
  ASSUME SessionsInv, \A d \in Conns : Named(sessions[d]), NEW c \in Conns, NEW new,
         sessions' = [sessions EXCEPT ![c] = new], Onward(sessions[c], new)
  PROVE  \A d \in Conns : Onward(sessions[d], sessions'[d])
  BY DEF SessionsInv, Onward

\* Every step takes connections onward, and the table stands, ages, or takes a strike of
\* a connection that the same step settles.
LEMMA StepOnward ==
  ASSUME SessionsInv, \A d \in Conns : Named(sessions[d]), SessionsNext
  PROVE  /\ \A d \in Conns : Onward(sessions[d], sessions'[d])
         /\ \/ UNCHANGED <<clock, tableVars>>
            \/ Elapse
            \/ \E c \in Conns, h \in Hosts, cause \in Causes :
                 /\ sessions[c].pc \notin Settled /\ sessions'[c].pc \in Settled
                 /\ Record(h, cause, c) /\ clock' = clock
<1> DEFINE Goal == /\ \A d \in Conns : Onward(sessions[d], sessions'[d])
                   /\ \/ UNCHANGED <<clock, tableVars>>
                      \/ Elapse
                      \/ \E c \in Conns, h \in Hosts, cause \in Causes :
                           /\ sessions[c].pc \notin Settled /\ sessions'[c].pc \in Settled
                           /\ Record(h, cause, c) /\ clock' = clock
<1>1. ASSUME UNCHANGED sessions, UNCHANGED <<clock, tableVars>> \/ Elapse PROVE Goal
  BY <1>1 DEF Onward
<1>2. ASSUME NEW c \in Conns, NEW new, sessions' = [sessions EXCEPT ![c] = new],
             Onward(sessions[c], new), UNCHANGED <<clock, tableVars>>
      PROVE  Goal
  BY <1>2, OneOnward
<1>3. ASSUME NEW c \in Conns, NEW new, sessions' = [sessions EXCEPT ![c] = new],
             sessions[c].pc \in {"origin", "client", "exchange"}, Named(new), new.pc \in Settled,
             NEW cause \in Causes, Record(sessions[c].client.host, cause, c), clock' = clock
      PROVE  Goal
  <2>1. sessions[c].client.host \in Hosts /\ sessions[c].pc \notin Settled
    BY <1>3 DEF Named, Settled
  <2>2. sessions'[c].pc \in Settled
    BY <1>3 DEF SessionsInv
  <2>3. \A d \in Conns : Onward(sessions[d], sessions'[d])
    BY <1>3, OneOnward DEF Onward
  <2> QED BY <1>3, <2>1, <2>2, <2>3
<1> HIDE DEF Goal
<1>4. ASSUME NEW c \in Conns PROVE Named(sessions[c]) /\ Faithful(sessions[c])
  BY DEF SessionsInv
<1>5. ASSUME NEW c \in Conns, NEW client \in Clients, Accept(c, client) PROVE Goal
  <2>1. Onward(sessions[c], [Unborn EXCEPT !.pc = "peek", !.client = client])
    BY <1>5 DEF Accept, Onward, Named, Unborn, Settled
  <2> QED BY <1>2, <1>5, <2>1 DEF Accept
<1>6. ASSUME NEW c \in Conns, PeekRead(c) PROVE Goal
  <2> DEFINE conn == sessions[c]
             more == [conn EXCEPT !.peeked = Append(@, conn.taken + 1), !.taken = @ + 1]
  <2>1. Faithful(more) /\ more.pc = "peek" /\ more.peeked \in Seq(Nat)
    BY <1>6, PeekedFaithful DEF PeekRead, SessionsInv
  <2>2. more.client.kind \in Kinds
    BY <2>1 DEF Faithful
  <2>3. Named(more)
    BY <1>4 DEF Named, Faithful
  <2>4. conn.pc = "peek" /\ UNCHANGED <<clock, tableVars>>
    BY <1>6 DEF PeekRead
  <2>5. \/ sessions' = [sessions EXCEPT ![c] = more]
        \/ sessions' = [sessions EXCEPT ![c] = Judged(more, Introduce(more.client, more.peeked))]
    BY <1>6 DEF PeekRead
  <2> HIDE DEF more
  <2>6. Named(Judged(more, Introduce(more.client, more.peeked)))
    BY <2>1, <2>2, <2>3, IntroduceType, JudgedNamed
  <2>7. ASSUME NEW new, Named(new) PROVE Onward(conn, new)
    BY <2>4, <2>7 DEF Onward, Settled
  <2> QED BY <1>2, <2>3, <2>4, <2>5, <2>6, <2>7
<1>7. ASSUME NEW c \in Conns, PeekEnd(c) PROVE Goal
  <2> DEFINE conn == sessions[c]
             new == Judged(conn, Introduce(conn.client, conn.peeked))
  <2>1. Faithful(conn) /\ conn.pc = "peek" /\ conn.client.kind \in Kinds /\ conn.peeked \in Seq(Nat)
    BY <1>7 DEF PeekEnd, SessionsInv, Faithful, Numbered
  <2>2. Named(new)
    BY <1>4, <2>1, IntroduceType, JudgedNamed
  <2>3. Onward(conn, new)
    BY <2>1, <2>2 DEF Onward, Settled
  <2>4. sessions' = [sessions EXCEPT ![c] = new] /\ UNCHANGED <<clock, tableVars>>
    BY <1>7 DEF PeekEnd, SessionsInv
  <2> HIDE DEF new
  <2> QED BY <1>2, <2>3, <2>4
<1>8. ASSUME NEW c \in Conns, NEW ok \in BOOLEAN, Dialled(c, ok) PROVE Goal
  <2> DEFINE conn == sessions[c]
  <2>1. conn.pc = "dial" /\ conn.pc \notin Settled /\ UNCHANGED <<clock, tableVars>>
    BY <1>8 DEF Dialled, Settled
  <2>2. /\ Onward(conn, Over(conn, "Upstream")) /\ Onward(conn, [conn EXCEPT !.pc = "origin"])
        /\ Onward(conn, [conn EXCEPT !.pc = "exchange", !.prefix = conn.peeked])
    <3>1. Onward(conn, Over(conn, "Upstream"))
      BY <1>4, <2>1, OverNamed DEF Onward
    <3> QED BY <1>4, <2>1, <3>1 DEF Onward, Named, Faithful
  <2>3. \/ sessions' = [sessions EXCEPT ![c] = Over(conn, "Upstream")]
        \/ sessions' = [sessions EXCEPT ![c] = [conn EXCEPT !.pc = "origin"]]
        \/ sessions' = [sessions EXCEPT ![c] = [conn EXCEPT !.pc = "exchange", !.prefix = conn.peeked]]
    BY <1>8 DEF Dialled
  <2> QED BY <1>2, <2>1, <2>2, <2>3
<1>9. ASSUME NEW c \in Conns, NEW ok \in BOOLEAN, SpliceDialled(c, ok) PROVE Goal
  <2> DEFINE conn == sessions[c]
  <2>1. Onward(conn, [conn EXCEPT !.pc = "copy"]) /\ Onward(conn, Over(conn, "Upstream"))
    <3>1. Onward(conn, Over(conn, "Upstream"))
      BY <1>4, OverNamed DEF Onward, Settled
    <3> QED BY <1>4, <3>1 DEF Onward, Named, Faithful, Settled
  <2>2. /\ UNCHANGED <<clock, tableVars>>
        /\ \/ sessions' = [sessions EXCEPT ![c] = [conn EXCEPT !.pc = "copy"]]
           \/ sessions' = [sessions EXCEPT ![c] = Over(conn, "Upstream")]
    BY <1>9 DEF SpliceDialled, SessionsInv
  <2> QED BY <1>2, <2>1, <2>2
<1>10. ASSUME NEW c \in Conns, OriginShaken(c) PROVE Goal
  <2> DEFINE conn == sessions[c]
             new == [conn EXCEPT !.pc = "client", !.prefix = conn.peeked, !.leaf = TRUE]
  <2>1. Onward(conn, new)
    BY <1>4, <1>10 DEF OriginShaken, Onward, Named, Faithful, Settled
  <2>2. sessions' = [sessions EXCEPT ![c] = new] /\ UNCHANGED <<clock, tableVars>>
    BY <1>10 DEF OriginShaken, SessionsInv
  <2> HIDE DEF new
  <2> QED BY <1>2, <2>1, <2>2
<1>11. ASSUME NEW c \in Conns, ClientShaken(c) PROVE Goal
  <2> DEFINE conn == sessions[c]
             new == [conn EXCEPT !.pc = "exchange"]
  <2>1. Onward(conn, new)
    BY <1>4, <1>11 DEF ClientShaken, Onward, Named, Faithful, Settled
  <2>2. sessions' = [sessions EXCEPT ![c] = new] /\ UNCHANGED <<clock, tableVars>>
    BY <1>11 DEF ClientShaken, SessionsInv
  <2> HIDE DEF new
  <2> QED BY <1>2, <2>1, <2>2
<1>12. ASSUME NEW leg \in {"Client", "Upstream"}, NEW failure \in Failures
       PROVE  Classify(leg, failure) \in Causes \union {NoCause}
  BY DEF Classify, Terminating, Originating, Causes, NoCause, Failures
<1>13. ASSUME NEW c \in Conns, NEW failure \in Failures, OriginFailed(c, failure) PROVE Goal
  <2> DEFINE conn == sessions[c]
             cause == Classify("Upstream", failure)
             new == Spliced(conn, "OriginHandshake")
  <2>1. Named(new) /\ new.pc \in Settled /\ Onward(conn, new)
    BY <1>4, SplicedNamed DEF Onward, Settled
  <2>2. /\ conn.pc = "origin" /\ sessions' = [sessions EXCEPT ![c] = new] /\ clock' = clock
        /\ IF cause = NoCause THEN UNCHANGED tableVars ELSE Record(conn.client.host, cause, c)
    BY <1>13 DEF OriginFailed
  <2>3. cause \in Causes \union {NoCause}
    BY <1>12
  <2> HIDE DEF new, cause
  <2>4. CASE cause = NoCause
    BY <1>2, <2>1, <2>2, <2>4
  <2>5. CASE cause # NoCause
    BY <1>3, <2>1, <2>2, <2>3, <2>5
  <2> QED BY <2>4, <2>5
<1>14. ASSUME NEW c \in Conns, NEW failure \in Failures, ClientFailed(c, failure) PROVE Goal
  <2> DEFINE conn == sessions[c]
             cause == Classify("Client", failure)
  <2>1. ASSUME NEW outcome
        PROVE  /\ Named(Over(conn, outcome)) /\ Over(conn, outcome).pc \in Settled
               /\ Onward(conn, Over(conn, outcome))
    BY <1>4, OverNamed DEF Onward, Settled
  <2>2. cause \in Causes \union {NoCause}
    BY <1>12
  <2>3. CASE cause = NoCause
    <3>1. sessions' = [sessions EXCEPT ![c] = Over(conn, "ClientHandshake")] /\ UNCHANGED <<clock, tableVars>>
      BY <1>14, <2>3 DEF ClientFailed
    <3> QED BY <1>2, <2>1, <3>1
  <2>4. CASE cause # NoCause
    <3>1. /\ conn.pc = "client" /\ Record(conn.client.host, cause, c) /\ clock' = clock
          /\ \E outcome : sessions' = [sessions EXCEPT ![c] = Over(conn, outcome)]
      BY <1>14, <2>4 DEF ClientFailed
    <3> HIDE DEF cause
    <3> QED BY <1>3, <2>1, <2>2, <2>4, <3>1
  <2> QED BY <2>3, <2>4
<1>15. ASSUME NEW c \in Conns, NEW exhausted \in BOOLEAN, ExchangeOver(c, exhausted) PROVE Goal
  <2> DEFINE conn == sessions[c]
             new == Over(conn, "Intercepted")
  <2>1. Named(new) /\ new.pc \in Settled /\ Onward(conn, new)
    BY <1>4, OverNamed DEF Onward, Settled
  <2>2. /\ conn.pc = "exchange" /\ sessions' = [sessions EXCEPT ![c] = new] /\ clock' = clock
        /\ UNCHANGED tableVars \/ Record(conn.client.host, "RewriteExhausted", c)
    BY <1>15 DEF ExchangeOver
  <2>3. "RewriteExhausted" \in Causes
    BY DEF Causes
  <2> HIDE DEF new
  <2> QED BY <1>2, <1>3, <2>1, <2>2, <2>3
<1>16. ASSUME NEW c \in Conns, ReadOn(c) PROVE Goal
  <2> DEFINE conn == sessions[c]
             new == PrefixedRead(conn)
  <2>1. new.pc = conn.pc /\ new.client = conn.client
    BY <1>4 DEF PrefixedRead, Faithful
  <2>2. sessions' = [sessions EXCEPT ![c] = new] /\ UNCHANGED <<clock, tableVars>>
    BY <1>16 DEF ReadOn
  <2> HIDE DEF new
  <2>3. Onward(conn, new)
    BY <1>4, <2>1 DEF Onward, Named
  <2> QED BY <1>2, <2>2, <2>3
<1>17. ASSUME NEW c \in Conns, CopyOver(c) PROVE Goal
  <2> DEFINE conn == sessions[c]
             new == Over(conn, conn.outcome)
  <2>1. Onward(conn, new)
    BY <1>4, OverNamed DEF Onward, Settled
  <2>2. sessions' = [sessions EXCEPT ![c] = new] /\ UNCHANGED <<clock, tableVars>>
    BY <1>17 DEF CopyOver, SessionsInv
  <2> HIDE DEF new
  <2> QED BY <1>2, <2>1, <2>2
<1>18. ASSUME NEW c \in Conns, ChildCancelled(c) PROVE Goal
  <2> DEFINE conn == sessions[c]
             new == [Over(conn, "cancelled") EXCEPT !.pc = "gone"]
  <2>1. Onward(conn, new)
    BY <1>4 DEF Onward, Settled, Over, Unborn, Named
  <2>2. sessions' = [sessions EXCEPT ![c] = new] /\ UNCHANGED <<clock, tableVars>>
    BY <1>18 DEF ChildCancelled, SessionsInv
  <2> HIDE DEF new
  <2> QED BY <1>2, <2>1, <2>2
<1>19. ASSUME Cancel \/ StopAdmission \/ RunnerDone \/ SessionsTick PROVE Goal
  <2>1. UNCHANGED sessions /\ (UNCHANGED <<clock, tableVars>> \/ Elapse)
    BY <1>19 DEF Cancel, StopAdmission, RunnerDone, SessionsTick, sessionVars
  <2> QED BY <1>1, <2>1
<1>20. Goal
  BY <1>5, <1>6, <1>7, <1>8, <1>9, <1>10, <1>11, <1>13, <1>14, <1>15, <1>16, <1>17, <1>18, <1>19
     DEF SessionsNext
<1> QED BY <1>20 DEF Goal

LEMMA StandingInit == SessionsInit => StandingInv
<1> SUFFICES ASSUME SessionsInit PROVE StandingInv
  OBVIOUS
<1>1. /\ clock = 0 /\ strikes = [h \in Hosts |-> [c \in Causes |-> NoStrike]]
      /\ recorded = [h \in Hosts |-> [c \in Causes |-> <<>>]]
      /\ sessions = [c \in Conns |-> Unborn]
  BY DEF SessionsInit, DemotionsInit
<1>2. NoStrike \in Strike /\ NoStrike.count = 0 /\ NoStrike.expiry = 0 /\ Named(Unborn)
  BY DEF NoStrike, Strike, CountMax, Named, Unborn
<1>3. ASSUME NEW h \in Hosts, NEW c \in Causes PROVE Told(strikes[h][c], h, c) /\ recorded[h][c] = <<>>
  BY <1>1, <1>2 DEF Told, Tells
<1>4. TableInv
  BY <1>1, <1>2, <1>3 DEF TableInv
<1> QED BY <1>1, <1>2, <1>3, <1>4 DEF StandingInv

LEMMA StandingNext == SessionsInv /\ StandingInv /\ [SessionsNext]_<<clock, tableVars, sessionVars>> => StandingInv'
<1> SUFFICES ASSUME SessionsInv, StandingInv, [SessionsNext]_<<clock, tableVars, sessionVars>>
             PROVE  StandingInv'
  OBVIOUS
<1>1. CASE UNCHANGED <<clock, tableVars, sessionVars>>
  BY <1>1 DEF StandingInv, TableInv, Told, Named, tableVars, sessionVars
<1>2. CASE SessionsNext
  <2>1. /\ TableInv /\ recorded \in [Hosts -> [Causes -> Seq(Entries)]]
        /\ \A d \in Conns : Named(sessions[d])
    BY DEF StandingInv, TableInv
  <2>2. /\ \A d \in Conns : Onward(sessions[d], sessions'[d])
        /\ \/ UNCHANGED <<clock, tableVars>>
           \/ Elapse
           \/ \E c \in Conns, h \in Hosts, cause \in Causes :
                /\ sessions[c].pc \notin Settled /\ sessions'[c].pc \in Settled
                /\ Record(h, cause, c) /\ clock' = clock
    BY <1>2, <2>1, StepOnward
  <2>3. \A d \in Conns : Named(sessions[d])'
    BY <2>2 DEF Onward, Named
  <2>4. ASSUME NEW h \in Hosts, NEW cause \in Causes, NEW i \in 1 .. Len(recorded[h][cause])
        PROVE  /\ recorded[h][cause][i].by \in Conns
               /\ sessions[recorded[h][cause][i].by].pc \in Settled
               /\ sessions'[recorded[h][cause][i].by].pc \in Settled
    <3>1. recorded[h][cause] \in Seq(Entries)
      BY <2>1
    <3>2. recorded[h][cause][i] \in Entries
      BY <3>1, <2>4
    <3>3. recorded[h][cause][i].by \in Conns
      BY <3>2 DEF Entries
    <3> QED BY <2>2, <2>4, <3>3 DEF StandingInv, Onward
  <2>5. ASSUME UNCHANGED <<clock, tableVars>> \/ Elapse PROVE StandingInv'
    <3>1. UNCHANGED recorded
      BY <2>5 DEF tableVars, Elapse
    <3>2. TableInv'
      BY <2>1, <2>5, ElapseTable DEF TableInv, Told, tableVars
    <3> QED BY <2>3, <2>4, <3>1, <3>2 DEF StandingInv
  <2>6. ASSUME NEW c \in Conns, NEW host \in Hosts, NEW cause \in Causes,
               sessions[c].pc \notin Settled, sessions'[c].pc \in Settled,
               Record(host, cause, c), clock' = clock
        PROVE  StandingInv'
    <3>1. TableInv'
      BY <2>1, <2>6, RecordTable
    <3> DEFINE entry == [at |-> clock, by |-> c]
    <3>2. recorded' = [recorded EXCEPT ![host][cause] = Append(@, entry)]
      BY <2>6 DEF Record
    <3>3. entry \in Entries /\ entry.by = c
      BY <2>1 DEF TableInv, Entries
    <3> HIDE DEF entry
    <3>4. ASSUME NEW h \in Hosts, NEW d \in Causes
          PROVE  /\ \A i \in 1 .. Len(recorded'[h][d]) : sessions'[recorded'[h][d][i].by].pc \in Settled
                 /\ \A i, j \in 1 .. Len(recorded'[h][d]) :
                      recorded'[h][d][i].by = recorded'[h][d][j].by => i = j
      <4>1. CASE h = host /\ d = cause
        <5> DEFINE log == recorded[h][d]
                   new == recorded'[h][d]
        <5>1. new = Append(log, entry) /\ log \in Seq(Entries)
          BY <2>1, <3>2, <4>1
        <5>2. /\ Len(log) \in Nat /\ Len(new) = Len(log) + 1 /\ new[Len(log) + 1] = entry
              /\ \A i \in 1 .. Len(log) : new[i] = log[i]
          BY <3>3, <5>1, AppendFacts
        <5>3. \A i \in 1 .. Len(log) : log[i].by # c /\ sessions'[log[i].by].pc \in Settled
          BY <2>4, <2>6
        <5>4. \A i, j \in 1 .. Len(log) : log[i].by = log[j].by => i = j
          BY DEF StandingInv
        <5> HIDE DEF log, new
        <5>5. \A i \in 1 .. Len(new) : i \in 1 .. Len(log) \/ i = Len(log) + 1
          BY <5>2
        <5> QED BY <2>6, <3>3, <5>2, <5>3, <5>4, <5>5 DEF new
      <4>2. CASE ~(h = host /\ d = cause)
        <5>1. recorded'[h][d] = recorded[h][d]
          BY <2>1, <3>2, <4>2
        <5> QED BY <2>4, <5>1 DEF StandingInv
      <4> QED BY <4>1, <4>2
    <3> QED BY <2>3, <3>1, <3>4 DEF StandingInv
  <2> QED BY <2>2, <2>5, <2>6
<1> QED BY <1>1, <1>2

\* A live cause has enough strikes, and each is another connection's.
LEMMA SeparateStrikes == StandingInv => DemotedBySeparateConnections
<1> SUFFICES ASSUME StandingInv, NEW h \in Hosts, NEW cause \in LiveCauses(h, clock)
             PROVE  Cardinality({recorded[h][cause][i].by : i \in 1 .. Len(recorded[h][cause])}) >= Strikes
  BY DEF DemotedBySeparateConnections
<1> DEFINE log == recorded[h][cause]
           whose == {log[i].by : i \in 1 .. Len(log)}
           strikeOf == [i \in 1 .. Len(log) |-> log[i].by]
<1>1. cause \in Causes /\ log \in Seq(Entries) /\ Len(log) \in Nat
  BY DEF LiveCauses, StandingInv, TableInv
<1>2. Len(log) >= Strikes
  BY TableStanding DEF StandingInv, StandingMatchesHistory, OwedCauses, Chained
<1>3. strikeOf \in Bijection(1 .. Len(log), whose)
  <2>1. \A i, j \in 1 .. Len(log) : log[i].by = log[j].by => i = j
    BY <1>1 DEF StandingInv
  <2> HIDE DEF log
  <2> QED BY <2>1 DEF Bijection, Injection, Surjection, IsInjective
<1>4. IsFiniteSet(1 .. Len(log)) /\ Cardinality(1 .. Len(log)) = Len(log)
  <2> HIDE DEF log
  <2> QED BY <1>1, FS_Interval
<1> HIDE DEF log, whose, strikeOf
<1>5. Cardinality(whose) = Len(log)
  BY <1>3, <1>4, FS_Bijection DEF ExistsBijection
<1> USE DEF log, whose
<1> QED BY <1>2, <1>5

\* Through sweeps, lapses, resets and a saturated count, the table limits a host exactly
\* by what the recorded strikes say, and only on the word of enough connections, for any
\* hosts, lifetimes and thresholds: the demotion table of demote.rs as the sessions use it.
THEOREM StandingStaysSound ==
  SessionsInit /\ [][SessionsNext]_<<clock, tableVars, sessionVars>> => []StandingSound
<1>1. SessionsInit => SessionsInv /\ StandingInv
  BY UnbornFaithful, StandingInit DEF SessionsInit, SessionsInv
<1>2. SessionsInv /\ StandingInv /\ [SessionsNext]_<<clock, tableVars, sessionVars>>
        => (SessionsInv /\ StandingInv)'
  BY NextSessionsInv, StandingNext
<1>3. StandingInv => StandingSound
  BY TableStanding, SeparateStrikes DEF StandingSound, StandingInv
<1> QED BY <1>1, <1>2, <1>3, PTL
==============================================================================
