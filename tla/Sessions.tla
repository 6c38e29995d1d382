------------------------------- MODULE Sessions -------------------------------
(***************************************************************************)
(* The intercepting sessions of src/intercept/session.rs: every accepted   *)
(* connection is peeked at, then spliced to the address the client asked   *)
(* for or terminated and filtered, by the policy and by the host's         *)
(* standing in the demotion table that all sessions share.                 *)
(*                                                                         *)
(* A client is [kind, host, need, size]: what its first bytes are, the     *)
(* host they name, how many units of them decide, how many it sends.  The  *)
(* units of its stream are numbered from 1.                                *)
(***************************************************************************)
EXTENDS Naturals, Sequences, FiniteSets

LOCAL INSTANCE Functions

CONSTANTS Hosts,
          Ttl,       \* cause -> how long a strike stays, Demotion::ttl
          Strikes,   \* STRIKES
          PruneAt,   \* PRUNE_AT
          MaxClock,  \* bound: how far the clock runs
          MaxStrikes, \* bound: strikes ever recorded
          Conns,
          Clients,
          Allowed,   \* hosts InterceptPolicy decides to intercept
          MaxRecord  \* MAX_RECORD, in units

-----------------------------------------------------------------------------
(* The per-host demotion table of src/policy/demote.rs: failures of        *)
(* interception are recorded as strikes, enough strikes of one cause cap   *)
(* what the host may be subjected to, and a sweep drops hosts whose        *)
(* evidence has lapsed when the table is full and a new host arrives.      *)
(*                                                                         *)
(* recorded is a history variable: when and by whom each strike was        *)
(* recorded, whatever the table has pruned or forgotten since.             *)

Causes == {"LeafRejected", "UpstreamRefusedProxy", "UpstreamUntrusted",
           "ProtocolRefused", "RewriteExhausted"}

ASSUME DemotionsAssumption ==
  /\ Ttl \in [Causes -> Nat \ {0}]
  /\ Strikes \in 1 .. 255
  /\ PruneAt \in Nat

\* The tiers by rank, so that meet is the minimum.
Splice == 0
Inspect == 1
Rewrite == 2

CauseTier(cause) == IF cause = "RewriteExhausted" THEN Inspect ELSE Splice

\* Position in Demotion::ALL, which breaks ties between causes of one tier.
Slot(cause) ==
  CASE cause = "LeafRejected" -> 0
    [] cause = "UpstreamRefusedProxy" -> 1
    [] cause = "UpstreamUntrusted" -> 2
    [] cause = "ProtocolRefused" -> 3
    [] cause = "RewriteExhausted" -> 4

Unrestricted == "Unrestricted"

StandingTier(standing) ==
  IF standing = Unrestricted THEN Rewrite ELSE CauseTier(standing)

\* permits: the standing lets a connection be terminated at StandingTier.
Permits(standing) == StandingTier(standing) # Splice

-----------------------------------------------------------------------------
(* Handshake failures as evidence.                                         *)

\* What a failed handshake carries.  Transport: no TLS evidence at all.
Failures == {"Transport", "NoProtocol", "Untrusted", "Conclusive", "Inconclusive"}
NoCause == "none"

Terminating(failure) ==
  CASE failure = "NoProtocol" -> "ProtocolRefused"
    [] failure = "Conclusive" -> "LeafRejected"
    [] OTHER -> NoCause

Originating(failure) ==
  CASE failure = "NoProtocol" -> "ProtocolRefused"
    [] failure = "Untrusted" -> "UpstreamUntrusted"
    [] failure = "Conclusive" -> "UpstreamRefusedProxy"
    [] OTHER -> NoCause

Classify(leg, failure) ==
  IF leg = "Client" THEN Terminating(failure) ELSE Originating(failure)

-----------------------------------------------------------------------------
(* The table: the hosts it lists and, for each of them, a strike per cause *)
(* (count 0 and expiry 0 where none was recorded).                         *)

VARIABLES clock, listed, strikes, pruneAt, recorded

tableVars == <<listed, strikes, pruneAt, recorded>>

NoStrike == [count |-> 0, expiry |-> 0]
CountMax == 255

Unlapsed(strike, t) == strike.expiry > t
Enough(strike) == strike.count >= Strikes
Live(strike, t) == Enough(strike) /\ Unlapsed(strike, t)
Expiry(cause) == clock + Ttl[cause]

\* The live cause of lowest tier, the first of them in Demotion::ALL.
Limiting(live) ==
  IF live = {} THEN Unrestricted
  ELSE CHOOSE c \in live : \A d \in live :
         \/ CauseTier(c) < CauseTier(d)
         \/ CauseTier(c) = CauseTier(d) /\ Slot(c) <= Slot(d)

LiveCauses(host, t) ==
  IF host \in listed THEN {c \in Causes : Live(strikes[host][c], t)} ELSE {}

Standing(host, t) == Limiting(LiveCauses(host, t))

DemotionsInit ==
  /\ clock = 0
  /\ listed = {}
  /\ strikes = [h \in Hosts |-> [c \in Causes |-> NoStrike]]
  /\ pruneAt = PruneAt
  /\ recorded = [h \in Hosts |-> [c \in Causes |-> <<>>]]

HasEvidence(host) == \E c \in Causes : Unlapsed(strikes[host][c], clock)

MustPrune(host) == Cardinality(listed) >= pruneAt /\ host \notin listed
\* Mutant: the sweep keeps only hosts whose cause already counts.
SweptOfStrikes(host) ==
  IF MustPrune(host) THEN {h \in listed : \E c \in Causes : Live(strikes[h][c], clock)}
  ELSE listed

\* The hosts left when a strike for host has made room.
ListedAfter(host) == IF MustPrune(host) THEN {h \in listed : HasEvidence(h)} ELSE listed

Larger(a, b) == IF a >= b THEN a ELSE b

Raised(host) ==
  IF MustPrune(host) THEN Larger(PruneAt, 2 * Cardinality(ListedAfter(host))) ELSE pruneAt

\* One more strike; evidence past its TTL counts for nothing.
Struck(strike, cause) ==
  LET count == IF Unlapsed(strike, clock) THEN strike.count ELSE 0
  IN [count |-> IF count < CountMax THEN count + 1 ELSE CountMax,
      expiry |-> Expiry(cause)]

\* An entry the sweep dropped starts over from no strikes.
Entry(host) ==
  IF host \in ListedAfter(host) THEN strikes[host] ELSE [c \in Causes |-> NoStrike]

Record(host, cause, by) ==
  /\ listed' = ListedAfter(host) \union {host}
  /\ pruneAt' = Raised(host)
  /\ strikes' = [h \in Hosts |->
       IF h = host THEN [Entry(host) EXCEPT ![cause] = Struck(@, cause)]
       ELSE IF h \in ListedAfter(host) THEN strikes[h] ELSE [c \in Causes |-> NoStrike]]
  /\ recorded' = [recorded EXCEPT ![host][cause] = Append(@, [at |-> clock, by |-> by])]

\* Time passing between two calls.
Elapse ==
  /\ clock < MaxClock
  /\ clock' = clock + 1
  /\ UNCHANGED tableVars

RecordedCount == SumFunction([h \in Hosts |-> SumFunction([c \in Causes |-> Len(recorded[h][c])])])

\* The table on its own, whoever records.
DemotionsNext ==
  \/ /\ RecordedCount < MaxStrikes
     /\ \E host \in Hosts, cause \in Causes : Record(host, cause, RecordedCount + 1)
     /\ UNCHANGED clock
  \/ Elapse

-----------------------------------------------------------------------------
\* Each of the last n strikes came before the one before it had lapsed, and the last
\* has not lapsed at t: what the table promises to remember, told from the history.
Chained(log, n, ttl, t) ==
  /\ Len(log) >= n
  /\ \A i \in Len(log) - n + 1 .. Len(log) - 1 : log[i + 1].at < log[i].at + ttl
  /\ t < log[Len(log)].at + ttl

\* The causes three strikes hold against a host, from the history alone.
OwedCauses(host, t) ==
  {c \in Causes : Chained(recorded[host][c], Strikes, Ttl[c], t)}

\* Standing: neither a sweep, nor the reset of a lapsed count, nor a saturated counter ever
\* loses or invents a demotion: the table limits every host to what the recorded strikes say.
StandingMatchesHistory ==
  \A h \in Hosts : LiveCauses(h, clock) = OwedCauses(h, clock)

-----------------------------------------------------------------------------
(* The sessions. *)

NoHost == "no host"
Kinds == {"plain", "tls", "http"}

ASSUME SessionsAssumption ==
  /\ Allowed \subseteq Hosts
  /\ \A client \in Clients : client.kind \in Kinds

VARIABLES sessions, runner, cancelled

sessionVars == <<sessions, runner, cancelled>>

Unborn ==
  [pc |-> "unborn", client |-> [kind |-> "plain", host |-> NoHost, need |-> 1, size |-> 0],
   peeked |-> <<>>, taken |-> 0, prefix |-> <<>>, read |-> <<>>, leaf |-> FALSE,
   tier |-> Splice, outcome |-> "none"]

Ended == {"unborn", "over", "gone"}

SessionsInit ==
  /\ DemotionsInit
  /\ sessions = [c \in Conns |-> Unborn]
  /\ runner = "running"
  /\ cancelled = FALSE

-----------------------------------------------------------------------------
(* What the first bytes show.                                              *)

Introduce(client, peeked) ==
  CASE Len(peeked) = 0 -> "Incomplete"
    [] client.kind = "plain" -> "Plain"
    [] Len(peeked) < client.need -> "Incomplete"
    [] client.kind = "tls" -> "Tls"
    [] client.kind = "http" -> "Http"
\* Mutant: what was peeked is not replayed.
SplicedUnreplayed(conn, reason) == [conn EXCEPT !.pc = "spliceDial", !.outcome = reason]

Intercepts(host) == host \in Allowed

\* The connection goes on to splice, replaying what was peeked.
Spliced(conn, reason) ==
  [conn EXCEPT !.pc = "spliceDial", !.outcome = reason, !.prefix = conn.peeked]

\* The connection is closed, and its buffers with it.
Over(conn, outcome) ==
  [Unborn EXCEPT !.pc = "over", !.client = conn.client, !.outcome = outcome]

\* serve_session from the introduction to the dial.
Judged(conn, introduction) ==
  LET host == conn.client.host
      standing == Standing(host, clock)
  IN CASE introduction = "Incomplete" -> Spliced(conn, "Undecided")
       [] introduction = "Plain" -> Spliced(conn, "NotTls")
       [] introduction \in {"Tls", "Http"} ->
            IF host = NoHost THEN Spliced(conn, "Unnamed")
            ELSE IF ~Intercepts(host) THEN Spliced(conn, "NotAllowlisted")
            ELSE IF ~Permits(standing) THEN Spliced(conn, "Demoted")
            ELSE [conn EXCEPT !.pc = "dial", !.tier = StandingTier(standing)]

\* run_sessions takes an accepted connection and spawns its session, which peeks at
\* nothing yet.
Accept(c, client) ==
  /\ runner = "running"
  /\ sessions[c].pc = "unborn"
  /\ sessions' = [sessions EXCEPT ![c] = [Unborn EXCEPT !.pc = "peek", !.client = client]]
  /\ UNCHANGED <<clock, tableVars, runner, cancelled>>

\* peek reads a unit more: enough to judge, too many to go on, or another round.
PeekRead(c) ==
  LET conn == sessions[c]
      more == [conn EXCEPT !.peeked = Append(@, conn.taken + 1), !.taken = @ + 1]
      introduction == Introduce(more.client, more.peeked)
  IN /\ conn.pc = "peek"
     /\ conn.taken < conn.client.size
     /\ sessions' = [sessions EXCEPT ![c] =
          IF introduction = "Incomplete" /\ Len(more.peeked) < MaxRecord THEN more
          ELSE Judged(more, introduction)]
     /\ UNCHANGED <<clock, tableVars, runner, cancelled>>

\* The peek's deadline, the client's end of stream or a read error.
PeekEnd(c) ==
  /\ sessions[c].pc = "peek"
  /\ sessions' = [sessions EXCEPT ![c] = Judged(@, Introduce(@.client, @.peeked))]
  /\ UNCHANGED <<clock, tableVars, runner, cancelled>>

-----------------------------------------------------------------------------
(* Interception: dial the host, shake hands with it, then with the client. *)

\* The egress connects, or refuses, or takes longer than Wait::ProxyDial.
Dialled(c, ok) ==
  LET conn == sessions[c]
  IN /\ conn.pc = "dial"
     /\ sessions' = [sessions EXCEPT ![c] =
          IF ~ok THEN Over(conn, "Upstream")
          ELSE IF conn.client.kind = "tls" THEN [conn EXCEPT !.pc = "origin"]
          ELSE [conn EXCEPT !.pc = "exchange", !.prefix = conn.peeked]]
     /\ UNCHANGED <<clock, tableVars, runner, cancelled>>

\* The origin completed the handshake: replay the hello and send the forged leaf.
OriginShaken(c) ==
  /\ sessions[c].pc = "origin"
  /\ sessions' = [sessions EXCEPT ![c].pc = "client", ![c].prefix = sessions[c].peeked,
                            ![c].leaf = TRUE]
  /\ UNCHANGED <<clock, tableVars, runner, cancelled>>

\* The origin's handshake failed, before the client saw a leaf.
OriginFailed(c, failure) ==
  LET conn == sessions[c]
      cause == Classify("Upstream", failure)
  IN /\ conn.pc = "origin"
     /\ IF cause = NoCause THEN UNCHANGED tableVars ELSE Record(conn.client.host, cause, c)
     /\ sessions' = [sessions EXCEPT ![c] = Spliced(conn, "OriginHandshake")]
     /\ UNCHANGED <<clock, runner, cancelled>>

ClientShaken(c) ==
  /\ sessions[c].pc = "client"
  /\ sessions' = [sessions EXCEPT ![c].pc = "exchange"]
  /\ UNCHANGED <<clock, tableVars, runner, cancelled>>

\* learn: the client refused the leaf, so the connection is lost; the host is reported
\* demoted only when the strike completes a demotion to Splice.
ClientFailed(c, failure) ==
  LET conn == sessions[c]
      host == conn.client.host
      cause == Classify("Client", failure)
  IN /\ conn.pc = "client"
     /\ IF cause = NoCause
        THEN /\ UNCHANGED tableVars
             /\ sessions' = [sessions EXCEPT ![c] = Over(conn, "ClientHandshake")]
        ELSE /\ Record(host, cause, c)
             /\ sessions' = [sessions EXCEPT ![c] = Over(conn,
                  IF Permits(Limiting({d \in Causes : Live(strikes'[host][d], clock)}))
                  THEN "ClientHandshake" ELSE "DemotedHost")]
     /\ UNCHANGED <<clock, runner, cancelled>>

\* The exchange ended; a rewrite that failed in it, which takes the Rewrite tier, is a strike.
ExchangeOver(c, exhausted) ==
  LET conn == sessions[c]
  IN /\ conn.pc = "exchange"
     /\ exhausted => conn.tier = Rewrite
     /\ IF exhausted THEN Record(conn.client.host, "RewriteExhausted", c) ELSE UNCHANGED tableVars
     /\ sessions' = [sessions EXCEPT ![c] = Over(conn, "Intercepted")]
     /\ UNCHANGED <<clock, runner, cancelled>>

-----------------------------------------------------------------------------
(* Splicing, and what every consumer of the client's stream reads.         *)

SpliceDialled(c, ok) ==
  /\ sessions[c].pc = "spliceDial"
  /\ sessions' = [sessions EXCEPT ![c] =
       IF ok THEN [@ EXCEPT !.pc = "copy"] ELSE Over(@, "Upstream")]
  /\ UNCHANGED <<clock, tableVars, runner, cancelled>>

\* Prefixed: the peeked bytes first, then the stream.
PrefixedRead(conn) ==
  IF conn.prefix # <<>>
  THEN [conn EXCEPT !.read = Append(@, Head(conn.prefix)), !.prefix = Tail(@)]
  ELSE [conn EXCEPT !.read = Append(@, conn.taken + 1), !.taken = @ + 1]

ReadOn(c) ==
  LET conn == sessions[c]
  IN /\ conn.pc \in {"copy", "client", "exchange"}
     /\ conn.prefix # <<>> \/ conn.taken < conn.client.size
     /\ sessions' = [sessions EXCEPT ![c] = PrefixedRead(conn)]
     /\ UNCHANGED <<clock, tableVars, runner, cancelled>>

\* copy_until_idle returned: both sides closed, or an error, or idle for too long.
CopyOver(c) ==
  /\ sessions[c].pc = "copy"
  /\ sessions' = [sessions EXCEPT ![c] = Over(@, @.outcome)]
  /\ UNCHANGED <<clock, tableVars, runner, cancelled>>

-----------------------------------------------------------------------------
(* run_sessions.                                                           *)

Cancel ==
  /\ ~cancelled
  /\ cancelled' = TRUE
  /\ UNCHANGED <<clock, tableVars, sessions, runner>>

\* Cancelled, or the terminator is gone: no more admissions, every child is cancelled.
StopAdmission ==
  /\ runner = "running"
  /\ runner' = "waiting"
  /\ cancelled' = TRUE
  /\ UNCHANGED <<clock, tableVars, sessions>>

ChildCancelled(c) ==
  /\ cancelled
  /\ sessions[c].pc \notin Ended
  /\ sessions' = [sessions EXCEPT ![c] = [Over(@, "cancelled") EXCEPT !.pc = "gone"]]
  /\ UNCHANGED <<clock, tableVars, runner, cancelled>>

RunnerDone ==
  /\ runner = "waiting"
  /\ \A c \in Conns : sessions[c].pc \in Ended
  /\ runner' = "done"
  /\ UNCHANGED <<clock, tableVars, sessions, cancelled>>

SessionsTick == Elapse /\ UNCHANGED sessionVars

SessionsNext ==
  \/ \E c \in Conns :
       \/ \E client \in Clients : Accept(c, client)
       \/ PeekRead(c) \/ PeekEnd(c)
       \/ \E ok \in BOOLEAN : Dialled(c, ok) \/ SpliceDialled(c, ok)
       \/ OriginShaken(c) \/ ClientShaken(c)
       \/ \E failure \in Failures : OriginFailed(c, failure) \/ ClientFailed(c, failure)
       \/ \E exhausted \in BOOLEAN : ExchangeOver(c, exhausted)
       \/ ReadOn(c) \/ CopyOver(c) \/ ChildCancelled(c)
  \/ Cancel \/ StopAdmission \/ RunnerDone
  \/ SessionsTick

-----------------------------------------------------------------------------
\* Prefixed, splice and terminate: whoever takes over the client's stream reads it from its
\* first byte, each byte once, and a connection that was shown a forged leaf is never spliced.
StreamReplayedWhole ==
  \A c \in Conns :
    /\ sessions[c].read = [i \in 1 .. Len(sessions[c].read) |-> i]
    /\ sessions[c].pc \in {"spliceDial", "copy"} => ~sessions[c].leaf

\* STRIKES: "three from separate connections is a host that really refuses".  Whatever sessions
\* run at once, a host is limited by a cause only on the word of that many connections.
DemotedBySeparateConnections ==
  \A h \in Hosts : \A cause \in LiveCauses(h, clock) :
    Cardinality({recorded[h][cause][i].by : i \in 1 .. Len(recorded[h][cause])}) >= Strikes

\* A demotion rests on the strikes of enough separate connections, and every
\* such record of strikes is a demotion, through sweeps, lapses and resets.
StandingSound == StandingMatchesHistory /\ DemotedBySeparateConnections
==============================================================================
