------------------------------- MODULE Resolver -------------------------------
(***************************************************************************)
(* The resolver task of src/host/shell.rs with the reply cache of          *)
(* src/policy/cache.rs and the host policy of src/policy/dns.rs.  Queries  *)
(* wait in a bounded channel; the loop takes one, waits for a permit,      *)
(* snapshots the policy and spawns a task, so that queries, reloads and    *)
(* the passing of time interleave with every task's wait on the upstream.  *)
(* A name is the sequence of its labels.                                   *)
(***************************************************************************)
EXTENDS Naturals, Sequences, FiniteSets, FiniteSetsExt, Memo

CONSTANTS
  Queries,        \* the questions the client asks, each once
  Question,       \* Question[q]: [name, kind, room]
  Policies,       \* the rule sets a reload may install
  Replies,        \* what an upstream may answer
  MaxInflight,    \* MAX_INFLIGHT_QUERIES
  Depth,          \* CHANNEL_DEPTH
  CacheEntries,   \* DNS_CACHE_ENTRIES
  MinTtl, MaxTtl, NegativeTtl,
  MaxReloads, MaxNow

\* A record's TTL is a number, and ech and h3 stand for what an inspected
\* answer must not carry.
ASSUME ResolverAssumption ==
  /\ MinTtl \in Nat /\ MaxTtl \in Nat /\ MinTtl <= MaxTtl /\ NegativeTtl \in Nat
  /\ \A q \in Queries : Question[q].name \in Seq(STRING)
  /\ \A reply \in Replies :
       /\ reply.soa \in Nat /\ reply.records \in Seq({reply.records[i] : i \in DOMAIN reply.records})
       /\ \A i \in DOMAIN reply.records :
            /\ DOMAIN reply.records[i] = {"ttl", "svc", "addr"}
            /\ reply.records[i].ttl \in Nat /\ reply.records[i].svc \subseteq {"ech", "h3"}

VARIABLES
  now,
  policy,     \* the value of the policy watch channel
  reloads,    \* how often it was sent: its version
  seen,       \* the version the resolver's receiver has seen
  cache,      \* DnsCache
  pending,    \* the query channel
  loop,       \* where resolver_loop is: [at, query]
  tasks,      \* the state of each question
  answers,    \* the answer channel
  cancelled   \* the shutdown token

resolverVars == <<now, policy, reloads, seen, cache, pending, loop, tasks, answers, cancelled>>

-----------------------------------------------------------------------------
(* HostPolicy *)

Suffixes(name) == [i \in 1..Len(name) |-> SubSeq(name, i, Len(name))]

\* The first, so the most specific, suffix of the name among the rules.
Matching(rules, name) == {i \in 1..Len(name) : Suffixes(name)[i] \in rules}
First(rules, name) == Suffixes(name)[Min(Matching(rules, name))]

Judgment(verdict, matched) == [verdict |-> verdict, matched |-> matched]
NoRule == <<>>

\* Mutant: the most specific rule of all decides, exceptions included.
JudgeUnexcepted(rules, name) ==
  LET decided == rules.blocked \union rules.inspected \union rules.allowed
      matched == First(decided, name)
  IN IF Matching(decided, name) = {} THEN Judgment("allowed", NoRule)
     ELSE Judgment(IF matched \in rules.blocked THEN "blocked"
                   ELSE IF matched \in rules.inspected THEN "inspected" ELSE "allowed", matched)

Judge(rules, name) ==
  LET decided == rules.blocked \union rules.inspected
      matched == First(decided, name)
  IN IF Matching(rules.allowed, name) # {}
     THEN Judgment("allowed", First(rules.allowed, name))
     ELSE IF Matching(decided, name) = {} THEN Judgment("allowed", NoRule)
     ELSE Judgment(IF matched \in rules.blocked THEN "blocked" ELSE "inspected", matched)

\* answer_policy: both removals, or neither.
Strips(verdict) == IF verdict = "inspected" THEN {"ech", "h3"} ELSE {}
Steers(verdict) == "h3" \in Strips(verdict)

-----------------------------------------------------------------------------
(* The reply cache.  A reply is [rcode, records, soa, form]: form tells a  *)
(* well-formed one from one whose records do not parse and from noise;     *)
(* soa is 0 when the authority section holds none.                         *)

Clamp(t, low, high) == IF t < low THEN low ELSE IF t > high THEN high ELSE t

Ttls(reply) == {reply.records[i].ttl : i \in DOMAIN reply.records}

NegativeLifetime(reply) == IF reply.soa = 0 THEN NegativeTtl ELSE reply.soa

Keeps(reply) == reply.form = "whole" /\ reply.rcode \in {"NoError", "NameError"}

Lifetime(reply) ==
  Clamp(IF reply.rcode = "NoError" /\ reply.records # <<>> THEN Min(Ttls(reply))
        ELSE NegativeLifetime(reply), MinTtl, MaxTtl)

\* get: an entry whose lifetime has passed is not served.
Remembered(memo, name, t) == HasKey(memo, name) /\ memo.entries[name].expires > t

AgeOf(entry, t) == IF t > entry.admitted THEN t - entry.admitted ELSE 0

\* admit: replies that cannot be parsed or report a failure are not kept.
\* The entry also notes when the reply came and under which rules, for the
\* properties alone.
Admit(memo, name, reply, t, version) ==
  IF ~Keeps(reply) THEN memo
  ELSE Insert(memo, CacheEntries, name,
              [reply |-> reply, admitted |-> t, expires |-> t + Lifetime(reply),
               came |-> now, version |-> version])

-----------------------------------------------------------------------------
(* The answer: write_response_aged and the local responses *)

Aged(record, verdict, age) ==
  [record EXCEPT !.ttl = IF @ > age THEN @ - age ELSE 0, !.svc = @ \ Strips(verdict)]

Addresses(reply) == {reply.records[i].addr : i \in DOMAIN reply.records} \ {"none"}

Answered(rcode, provenance, rule, records, steered) ==
  [rcode |-> rcode, provenance |-> provenance, rule |-> rule,
   records |-> records, steered |-> steered]

NoReply == [rcode |-> "none", records |-> <<>>, soa |-> 0, form |-> "noise"]

FormatError == Answered("FormatError", "none", NoRule, <<>>, {})
Refusal(rule) == Answered("NameError", "policy", rule, <<>>, {})
Failure(provenance) == Answered("ServerFailure", provenance, NoRule, <<>>, {})

\* The reply rewritten under the task's verdict; a reply too large for the
\* client is cut to its header, and neither that nor a failure steers.
Rewrite(reply, verdict, age, provenance, room) ==
  IF reply.form # "whole" THEN Failure(provenance)
  ELSE IF Len(reply.records) > room THEN Answered(reply.rcode, provenance, NoRule, <<>>, {})
  ELSE Answered(reply.rcode, provenance, NoRule,
                [i \in DOMAIN reply.records |-> Aged(reply.records[i], verdict, age)],
                IF Steers(verdict) THEN Addresses(reply) ELSE {})

-----------------------------------------------------------------------------
Idle == [at |-> "idle", rules |-> [allowed |-> {}, blocked |-> {}, inspected |-> {}],
         version |-> 0, since |-> 0, asked |-> FALSE, answer |-> FormatError,
         source |-> [reply |-> NoReply, came |-> 0, served |-> 0, version |-> 0]]

ResolverInit ==
  /\ now = 0 /\ reloads = 0 /\ seen = 0 /\ cancelled = FALSE
  /\ policy \in Policies
  /\ cache = EmptyMemo
  /\ pending = <<>> /\ answers = <<>>
  /\ loop = [at |-> "select", query |-> "none"]
  /\ tasks = [q \in Queries |-> Idle]

\* drain offers the query without waiting; a full or closed channel drops it.
Ask(q) ==
  /\ tasks[q].at = "idle"
  /\ IF Len(pending) < Depth /\ loop.at \in {"select", "permit", "snapshot"}
     THEN /\ pending' = Append(pending, q)
          /\ tasks' = [tasks EXCEPT ![q].at = "queued"]
     ELSE /\ tasks' = [tasks EXCEPT ![q].at = "done"]
          /\ UNCHANGED pending
  /\ UNCHANGED <<now, policy, reloads, seen, cache, loop, answers, cancelled>>

\* The select is unbiased: a query may be taken although the token is cancelled.
Take ==
  /\ loop.at = "select" /\ pending # <<>>
  /\ pending' = Tail(pending)
  /\ loop' = [at |-> "permit", query |-> Head(pending)]
  /\ UNCHANGED <<now, policy, reloads, seen, cache, tasks, answers, cancelled>>

Running == {q \in Queries : tasks[q].at \in {"spawned", "asking"}}

\* With a permit: a reload since the last snapshot clears the cache.
Check ==
  /\ loop.at = "permit" /\ Cardinality(Running) < MaxInflight
  /\ cache' = IF reloads # seen THEN EmptyMemo ELSE cache
  /\ loop' = [loop EXCEPT !.at = "snapshot"]
  /\ UNCHANGED <<now, policy, reloads, seen, pending, tasks, answers, cancelled>>

\* The snapshot a reload may still precede, and the task.
Spawn ==
  /\ loop.at = "snapshot"
  /\ seen' = reloads
  /\ tasks' = [tasks EXCEPT ![loop.query].at = "spawned", ![loop.query].rules = policy,
                            ![loop.query].version = reloads]
  /\ loop' = [at |-> "select", query |-> "none"]
  /\ UNCHANGED <<now, policy, reloads, cache, pending, answers, cancelled>>

\* answers.try_send: a saturated reactor loses the answer.
Answer(q, answer, reply, came, version) ==
  IF Len(answers) < Depth
  THEN /\ answers' = Append(answers, q)
       /\ tasks' = [tasks EXCEPT ![q].at = "answered", ![q].answer = answer, ![q].since = 0,
                     ![q].source = [reply |-> reply, came |-> came, served |-> now,
                                    version |-> version]]
  ELSE /\ tasks' = [tasks EXCEPT ![q] = [Idle EXCEPT !.at = "done"]]
       /\ UNCHANGED answers

\* No pool slice, or a query too short for a header to answer: no answer.
Discard(q) ==
  /\ tasks[q].at = "spawned"
  /\ tasks' = [tasks EXCEPT ![q] = [Idle EXCEPT !.at = "done"]]
  /\ UNCHANGED <<now, policy, reloads, seen, cache, pending, loop, answers, cancelled>>

Verdict(q) == Judge(tasks[q].rules, Question[q].name)

\* The synchronous part of resolve: malformed, refused, remembered, or ask.
Begin(q) ==
  /\ tasks[q].at = "spawned"
  /\ LET name == Question[q].name
         verdict == Verdict(q).verdict
     IN \/ /\ Question[q].kind = "malformed"
           /\ Answer(q, FormatError, NoReply, now, tasks[q].version)
        \/ /\ Question[q].kind = "query" /\ verdict = "blocked"
           /\ Answer(q, Refusal(Verdict(q).matched), NoReply, now, tasks[q].version)
        \/ /\ Question[q].kind = "query" /\ verdict # "blocked"
           /\ Remembered(cache, name, now)
           /\ Answer(q, Rewrite(cache.entries[name].reply, verdict,
                                AgeOf(cache.entries[name], now), "cached", Question[q].room),
                     cache.entries[name].reply, cache.entries[name].came,
                     cache.entries[name].version)
        \/ /\ Question[q].kind = "query" /\ verdict # "blocked"
           /\ ~Remembered(cache, name, now)
           /\ tasks' = [tasks EXCEPT ![q].at = "asking", ![q].since = now, ![q].asked = TRUE]
           /\ UNCHANGED answers
  /\ UNCHANGED <<now, policy, reloads, seen, cache, pending, loop, cancelled>>

\* The upstream's reply is remembered as of the time the question was asked.
Reply(q, reply) ==
  /\ tasks[q].at = "asking"
  /\ cache' = Admit(cache, Question[q].name, reply, tasks[q].since, tasks[q].version)
  /\ Answer(q, Rewrite(reply, Verdict(q).verdict, 0, "upstream", Question[q].room),
            reply, now, tasks[q].version)
  /\ UNCHANGED <<now, policy, reloads, seen, pending, loop, cancelled>>

\* The upstream fails, its own deadline included.
Fail(q) ==
  /\ tasks[q].at = "asking"
  /\ Answer(q, Failure("upstream"), NoReply, now, tasks[q].version)
  /\ UNCHANGED <<now, policy, reloads, seen, cache, pending, loop, cancelled>>

\* The reactor takes an answer.
Collect ==
  /\ answers # <<>>
  /\ answers' = Tail(answers)
  /\ tasks' = [tasks EXCEPT ![Head(answers)] = [Idle EXCEPT !.at = "done"]]
  /\ UNCHANGED <<now, policy, reloads, seen, cache, pending, loop, cancelled>>

Reload ==
  /\ reloads < MaxReloads
  /\ policy' \in Policies \ {policy}
  /\ reloads' = reloads + 1
  /\ UNCHANGED <<now, seen, cache, pending, loop, tasks, answers, cancelled>>

Pass ==
  /\ now < MaxNow
  /\ now' = now + 1
  /\ UNCHANGED <<policy, reloads, seen, cache, pending, loop, tasks, answers, cancelled>>

Cancel ==
  /\ ~cancelled
  /\ cancelled' = TRUE
  /\ UNCHANGED <<now, policy, reloads, seen, cache, pending, loop, tasks, answers>>

\* Leaving the loop drops what is still queued; then the tasks are joined.
Leave ==
  /\ loop.at = "select" /\ cancelled
  /\ loop' = [at |-> "joining", query |-> "none"]
  /\ pending' = <<>>
  /\ tasks' = [q \in Queries |-> IF tasks[q].at = "queued" THEN [Idle EXCEPT !.at = "done"]
                                 ELSE tasks[q]]
  /\ UNCHANGED <<now, policy, reloads, seen, cache, answers, cancelled>>

Join ==
  /\ loop.at = "joining" /\ Running = {}
  /\ loop' = [at |-> "ended", query |-> "none"]
  /\ UNCHANGED <<now, policy, reloads, seen, cache, pending, tasks, answers, cancelled>>

TaskStep == \E q \in Queries : Discard(q) \/ Begin(q) \/ Fail(q) \/ (\E r \in Replies : Reply(q, r))

ResolverNext ==
  \/ \E q \in Queries : Ask(q)
  \/ Take \/ Check \/ Spawn \/ Leave \/ Join
  \/ TaskStep
  \/ Collect \/ Reload \/ Pass \/ Cancel

\* The runtime polls the loop and its tasks, and an upstream query ends by
\* its own deadline; nothing is assumed of the client, the host or time.
ResolverFairness ==
  /\ WF_resolverVars(Check \/ Spawn \/ Leave \/ Join)
  /\ \A q \in Queries : WF_resolverVars(Discard(q) \/ Begin(q) \/ Fail(q))

-----------------------------------------------------------------------------
(* Properties *)

SuffixOf(rule, name) == \E i \in 1..Len(name) : SubSeq(name, i, Len(name)) = rule
RulesFor(rules, name) == {r \in rules : SuffixOf(r, name)}

\* The rules that stop a name: a block rule, no exception, and no inspection
\* rule strictly more specific.
Refused(rules, name) ==
  /\ RulesFor(rules.allowed, name) = {}
  /\ \E b \in RulesFor(rules.blocked, name) :
       \A i \in RulesFor(rules.inspected, name) : Len(i) <= Len(b)

Inspected(rules, name) ==
  /\ RulesFor(rules.allowed, name) = {}
  /\ \E i \in RulesFor(rules.inspected, name) :
       \A b \in RulesFor(rules.blocked, name) : Len(b) < Len(i)

\* Every answer follows the rules its query was spawned under, whatever was
\* reloaded, remembered or still in flight since: a refused name was never
\* asked of the upstream nor served from its replies, an inspected one
\* carries neither ECH nor HTTP/3 and steers exactly the addresses it hands
\* out, and any other is left as published.
AnswersAsJudged ==
  \A q \in Queries : tasks[q].at = "answered" /\ Question[q].kind = "query" =>
    LET a == tasks[q].answer
        name == Question[q].name
        given == {a.records[i].addr : i \in DOMAIN a.records} \ {"none"}
        carried == UNION {a.records[i].svc : i \in DOMAIN a.records}
    IN /\ (a.provenance = "policy") = Refused(tasks[q].rules, name)
       /\ a.provenance = "policy" => ~tasks[q].asked /\ a.rule \in tasks[q].rules.blocked
       /\ Inspected(tasks[q].rules, name) => carried = {} /\ a.steered = given
       /\ ~Inspected(tasks[q].rules, name) => a.steered = {}

\* What is served from the cache is never given for longer than the upstream
\* gave it: no record's remaining TTL reaches past the instant its own TTL
\* ends, and nothing is served once the longest lifetime has passed since the
\* reply came, however long the question that fetched it took.
ServedNoLongerThanGiven ==
  \A q \in Queries : tasks[q].at = "answered" /\ tasks[q].answer.provenance = "cached" =>
    LET s == tasks[q].source
        given == tasks[q].answer.records
    IN /\ s.served < s.came + MaxTtl
       /\ \A i \in DOMAIN given :
            given[i].ttl > 0 => s.served + given[i].ttl <= s.came + s.reply.records[i].ttl

\* Once the token is cancelled the resolver ends, although the wait for a
\* permit is not raced against the token.
ResolverEnds == cancelled ~> (loop.at = "ended")

\* What a client is answered is what the rules of its query say, for no longer
\* than the upstream gave it.
AnswersHold == AnswersAsJudged /\ ServedNoLongerThanGiven
=============================================================================
