--------------------------- MODULE ResolverProofs ---------------------------
(* What the resolver answers with, for any rules, names, replies, lifetimes, *)
(* capacities and interleavings of its tasks.                                *)
EXTENDS Resolver, Tunnel, WellFoundedInduction, TLAPS

-----------------------------------------------------------------------------
(* The resolver: which rule decides.                                       *)

LEMMA LeastNat ==
  ASSUME NEW S \in SUBSET Nat, S # {}
  PROVE  Min(S) \in S /\ \A t \in S : Min(S) <= t
<1>1. IsWellFoundedOn(OpToRel(<, Nat), Nat)
  BY NatLessThanWellFounded
<1>2. PICK s \in S : \A t \in S : ~(<<t, s>> \in OpToRel(<, Nat))
  BY <1>1, WFMin
<1>3. \A t \in S : ~(t < s)
  BY <1>2 DEF OpToRel
<1>4. \A t \in S : s <= t
  BY <1>3
<1> QED BY <1>4 DEF Min

SuffixAt(name, i) == SubSeq(name, i, Len(name))

LEMMA SuffixLen ==
  ASSUME NEW name \in Seq(STRING), NEW i \in 1 .. Len(name)
  PROVE  Len(SuffixAt(name, i)) = Len(name) - i + 1 /\ Len(name) \in Nat /\ Suffixes(name)[i] = SuffixAt(name, i)
  BY DEF SuffixAt, Suffixes

LEMMA RulesMatching ==
  ASSUME NEW rules, NEW name \in Seq(STRING)
  PROVE  /\ Matching(rules, name) = {i \in 1 .. Len(name) : SuffixAt(name, i) \in rules}
         /\ \A r : r \in RulesFor(rules, name) <=> \E i \in Matching(rules, name) : r = SuffixAt(name, i)
<1>1. Matching(rules, name) = {i \in 1 .. Len(name) : SuffixAt(name, i) \in rules}
  BY SuffixLen DEF Matching
<1> QED BY <1>1 DEF RulesFor, SuffixOf, SuffixAt

\* HostPolicy::judge: the most specific rule decides among block and inspection rules, the
\* block rule on a tie, and an exception decides over both.
LEMMA JudgedRight ==
  ASSUME NEW rules, NEW name \in Seq(STRING)
  PROVE  /\ Judge(rules, name).verdict = "blocked" <=> Refused(rules, name)
         /\ Judge(rules, name).verdict = "inspected" <=> Inspected(rules, name)
         /\ Judge(rules, name).verdict = "blocked" => Judge(rules, name).matched \in rules.blocked
         /\ Judge(rules, name).verdict \in {"allowed", "blocked", "inspected"}
<1> DEFINE A == rules.allowed
           B == rules.blocked
           I == rules.inspected
           J == Judge(rules, name)
<1>1. CASE Matching(A, name) # {}
  <2>1. J.verdict = "allowed"
    BY <1>1 DEF Judge, Judgment
  <2>2. RulesFor(A, name) # {}
    BY <1>1, RulesMatching
  <2> QED BY <2>1, <2>2 DEF Refused, Inspected
<1>2. CASE Matching(A, name) = {} /\ Matching(B \union I, name) = {}
  <2>1. J.verdict = "allowed"
    BY <1>2 DEF Judge, Judgment
  <2>2. RulesFor(B, name) = {} /\ RulesFor(I, name) = {}
    BY <1>2, RulesMatching
  <2> QED BY <2>1, <2>2 DEF Refused, Inspected
<1>3. CASE Matching(A, name) = {} /\ Matching(B \union I, name) # {}
  <2> DEFINE M == Matching(B \union I, name)
             m == Min(M)
             r == SuffixAt(name, m)
             n == Len(name)
  <2>1. M = {i \in 1 .. n : SuffixAt(name, i) \in B \union I} /\ n \in Nat
    BY RulesMatching
  <2>2. m \in M /\ \A i \in M : m <= i
    <3> HIDE DEF M
    <3>1. M \in SUBSET Nat
      BY <2>1
    <3> QED BY <1>3, <3>1, LeastNat DEF M
  <2>3. m \in 1 .. n /\ r \in B \union I /\ First(B \union I, name) = r
    BY <2>1, <2>2, SuffixLen DEF First
  <2>4. J.verdict = (IF r \in B THEN "blocked" ELSE "inspected") /\ J.matched = r
    BY <1>3, <2>3 DEF Judge, Judgment
  <2>5. RulesFor(A, name) = {}
    BY <1>3, RulesMatching
  <2> HIDE DEF M, m
  <2>6. ASSUME NEW x \in RulesFor(B, name) \union RulesFor(I, name)
        PROVE  \E i \in M : x = SuffixAt(name, i) /\ Len(x) = n - i + 1 /\ (x \in B \/ x \in I)
                            /\ i \in Nat /\ n - i + 1 \in Nat
    <3>1. PICK i \in 1 .. n : x = SuffixAt(name, i) /\ x \in B \union I
      BY RulesMatching
    <3> QED BY <2>1, <3>1, SuffixLen
  <2>7. Len(r) = n - m + 1 /\ m \in Nat
    BY <2>1, <2>3, SuffixLen
  <2>8. \A x \in RulesFor(B, name) \union RulesFor(I, name) : Len(x) <= Len(r) /\ Len(x) \in Nat /\ (Len(x) = Len(r) => x = r)
    BY <2>1, <2>2, <2>6, <2>7
  <2>9. r \in B => r \in RulesFor(B, name)
    BY <2>3, RulesMatching
  <2>10. r \in I => r \in RulesFor(I, name)
    BY <2>3, RulesMatching
  <2>11. RulesFor(B, name) \subseteq B
    BY DEF RulesFor
  <2>12. Len(r) \in Nat
    BY <2>1, <2>3, <2>7
  <2> HIDE DEF r, n
  <2>13. CASE r \in B
    <3>1. Refused(rules, name)
      BY <2>5, <2>8, <2>9, <2>13 DEF Refused
    <3>2. ~Inspected(rules, name)
      BY <2>8, <2>9, <2>12, <2>13 DEF Inspected
    <3> QED BY <2>4, <2>13, <3>1, <3>2
  <2>14. CASE r \notin B
    <3>1. r \in RulesFor(I, name)
      BY <2>3, <2>10, <2>14
    <3>2. \A b \in RulesFor(B, name) : Len(b) < Len(r)
      BY <2>8, <2>11, <2>12, <2>14
    <3>3. Inspected(rules, name)
      BY <2>5, <3>1, <3>2 DEF Inspected
    <3>4. ~Refused(rules, name)
      BY <2>8, <2>12, <3>1, <3>2 DEF Refused
    <3> QED BY <2>4, <2>14, <3>3, <3>4
  <2> QED BY <2>13, <2>14
<1> QED BY <1>1, <1>2, <1>3

-----------------------------------------------------------------------------
(* The resolver: what is answered and what is remembered.                  *)

JudgedAnswer(question, rules, asked, a) ==
  question.kind = "query" =>
    LET name == question.name
        given == {a.records[i].addr : i \in DOMAIN a.records} \ {"none"}
        carried == UNION {a.records[i].svc : i \in DOMAIN a.records}
    IN /\ (a.provenance = "policy") = Refused(rules, name)
       /\ a.provenance = "policy" => ~asked /\ a.rule \in rules.blocked
       /\ Inspected(rules, name) => carried = {} /\ a.steered = given
       /\ ~Inspected(rules, name) => a.steered = {}

TimelyAnswer(a, s) ==
  a.provenance = "cached" =>
    /\ s.served < s.came + MaxTtl
    /\ \A i \in DOMAIN a.records :
         a.records[i].ttl > 0 => s.served + a.records[i].ttl <= s.came + s.reply.records[i].ttl

LEMMA RefusalJudged ==
  ASSUME NEW q \in Queries, NEW rules, Judge(rules, Question[q].name).verdict = "blocked", NEW asked, ~asked
  PROVE  JudgedAnswer(Question[q], rules, asked, Refusal(Judge(rules, Question[q].name).matched))
<1> DEFINE name == Question[q].name
           a == Refusal(Judge(rules, name).matched)
<1>1. name \in Seq(STRING)
  BY ResolverAssumption
<1>2. a.provenance = "policy" /\ a.rule = Judge(rules, name).matched /\ a.records = <<>> /\ a.steered = {}
  BY DEF Refusal, Answered
<1>3. /\ Refused(rules, name) /\ ~Inspected(rules, name) /\ a.rule \in rules.blocked
  BY <1>1, <1>2, JudgedRight
<1> QED BY <1>2, <1>3 DEF JudgedAnswer

\* Of a name that is not refused, an answer from a reply or none.
LEMMA ReplyJudged ==
  ASSUME NEW q \in Queries, NEW rules, NEW verdict, verdict = Judge(rules, Question[q].name).verdict,
         verdict # "blocked", NEW asked, NEW a, a.provenance # "policy",
         verdict = "inspected" => /\ \A i \in DOMAIN a.records : a.records[i].svc = {}
                                  /\ a.steered = {a.records[i].addr : i \in DOMAIN a.records} \ {"none"},
         verdict # "inspected" => a.steered = {}
  PROVE  JudgedAnswer(Question[q], rules, asked, a)
<1> DEFINE name == Question[q].name
<1>1. name \in Seq(STRING)
  BY ResolverAssumption
<1>2. ~Refused(rules, name) /\ (verdict = "inspected" <=> Inspected(rules, name))
  BY <1>1, JudgedRight
<1>3. ASSUME verdict = "inspected" PROVE UNION {a.records[i].svc : i \in DOMAIN a.records} = {}
  BY <1>3
<1>4. Refused(rules, name) = FALSE
  <2>1. Refused(rules, name) \in BOOLEAN
    BY DEF Refused
  <2> QED BY <1>2, <2>1
<1>5. (a.provenance = "policy") = Refused(rules, name)
  BY <1>4
<1> QED BY <1>2, <1>3, <1>5 DEF JudgedAnswer

\* What write_response_aged makes of a reply: its records aged, or none.
Rewritten(a, reply, verdict, age, provenance) ==
  /\ a.provenance = provenance
  /\ \/ a.records = <<>> /\ a.steered = {}
     \/ /\ DOMAIN a.records = DOMAIN reply.records
        /\ \A i \in DOMAIN reply.records : a.records[i] = Aged(reply.records[i], verdict, age)
        /\ a.steered = IF Steers(verdict) THEN Addresses(reply) ELSE {}

LEMMA RewriteFields ==
  ASSUME NEW reply, NEW verdict, NEW age, NEW provenance, NEW room
  PROVE  Rewritten(Rewrite(reply, verdict, age, provenance, room), reply, verdict, age, provenance)
<1> DEFINE aged == [i \in DOMAIN reply.records |-> Aged(reply.records[i], verdict, age)]
<1>1. \A rcode, records, steered :
        /\ Answered(rcode, provenance, NoRule, records, steered).provenance = provenance
        /\ Answered(rcode, provenance, NoRule, records, steered).records = records
        /\ Answered(rcode, provenance, NoRule, records, steered).steered = steered
  BY DEF Answered
<1>2. DOMAIN aged = DOMAIN reply.records /\ \A i \in DOMAIN reply.records : aged[i] = Aged(reply.records[i], verdict, age)
  OBVIOUS
<1> HIDE DEF aged
<1> QED BY <1>1, <1>2 DEF Rewrite, Failure, Rewritten, aged

LEMMA AgedFields ==
  ASSUME NEW record, DOMAIN record = {"ttl", "svc", "addr"}, record.svc \subseteq {"ech", "h3"},
         NEW verdict, NEW age
  PROVE  /\ Aged(record, verdict, age).addr = record.addr
         /\ verdict = "inspected" => Aged(record, verdict, age).svc = {}
         /\ Aged(record, verdict, age).ttl = IF record.ttl > age THEN record.ttl - age ELSE 0
  BY DEF Aged, Strips

LEMMA RewriteJudged ==
  ASSUME NEW q \in Queries, NEW rules, NEW verdict, verdict = Judge(rules, Question[q].name).verdict,
         verdict # "blocked", NEW asked, NEW reply \in Replies, NEW age, NEW provenance,
         provenance # "policy", NEW room
  PROVE  JudgedAnswer(Question[q], rules, asked, Rewrite(reply, verdict, age, provenance, room))
<1> DEFINE a == Rewrite(reply, verdict, age, provenance, room)
           R == reply.records
<1>1. Rewritten(a, reply, verdict, age, provenance)
  BY RewriteFields
<1>2. \A i \in DOMAIN R : DOMAIN R[i] = {"ttl", "svc", "addr"} /\ R[i].svc \subseteq {"ech", "h3"}
  BY ResolverAssumption
<1>3. \A i \in DOMAIN R : /\ Aged(R[i], verdict, age).addr = R[i].addr
                          /\ verdict = "inspected" => Aged(R[i], verdict, age).svc = {}
  BY <1>2, AgedFields
<1>4. Steers(verdict) <=> verdict = "inspected"
  BY DEF Steers, Strips
<1> HIDE DEF a
<1>5. Addresses(reply) = {R[i].addr : i \in DOMAIN R} \ {"none"}
  BY DEF Addresses
<1> HIDE DEF R
<1>0. a.provenance # "policy"
  BY <1>1 DEF Rewritten
<1>6. CASE a.records = <<>> /\ a.steered = {}
  <2>1. DOMAIN a.records = {}
    BY <1>6
  <2> QED BY <1>0, <1>6, <2>1, ReplyJudged DEF a
<1>7. CASE /\ DOMAIN a.records = DOMAIN R
           /\ \A i \in DOMAIN R : a.records[i] = Aged(R[i], verdict, age)
           /\ a.steered = IF Steers(verdict) THEN Addresses(reply) ELSE {}
  <2>1. \A i \in DOMAIN a.records : a.records[i].addr = R[i].addr /\ (verdict = "inspected" => a.records[i].svc = {})
    BY <1>3, <1>7
  <2>2. {a.records[i].addr : i \in DOMAIN a.records} = {R[i].addr : i \in DOMAIN R}
    BY <1>7, <2>1
  <2> QED BY <1>0, <1>4, <1>5, <1>7, <2>1, <2>2, ReplyJudged DEF a
<1> QED BY <1>1, <1>6, <1>7 DEF Rewritten, R

LEMMA FailureJudged ==
  ASSUME NEW q \in Queries, NEW rules, Judge(rules, Question[q].name).verdict # "blocked", NEW asked
  PROVE  JudgedAnswer(Question[q], rules, asked, Failure("upstream"))
<1>1. /\ Failure("upstream").provenance = "upstream" /\ Failure("upstream").records = <<>>
      /\ Failure("upstream").steered = {}
  BY DEF Failure, Answered
<1>2. DOMAIN Failure("upstream").records = {}
  BY <1>1
<1> QED BY <1>1, <1>2, ReplyJudged

\* A remembered reply: one of the upstream's, no older than its question and kept for no
\* longer than the longest lifetime.
EntryKept(e) ==
  /\ e.reply \in Replies /\ e.admitted \in Nat /\ e.came \in Nat /\ e.admitted <= e.came
  /\ e.expires \in Nat /\ e.expires <= e.admitted + MaxTtl

LEMMA LifetimeBounded == ASSUME NEW reply \in Replies PROVE Lifetime(reply) \in Nat /\ Lifetime(reply) <= MaxTtl
<1> DEFINE R == reply.records
           x == IF reply.rcode = "NoError" /\ R # <<>> THEN Min(Ttls(reply)) ELSE NegativeLifetime(reply)
<1>1. x \in Nat
  <2>1. NegativeLifetime(reply) \in Nat
    BY ResolverAssumption DEF NegativeLifetime
  <2>2. ASSUME R # <<>> PROVE Min(Ttls(reply)) \in Nat
    <3>1. R \in Seq({R[i] : i \in DOMAIN R}) /\ \A i \in DOMAIN R : R[i].ttl \in Nat
      BY ResolverAssumption
    <3>2. 1 \in DOMAIN R
      BY <2>2, <3>1
    <3>3. Ttls(reply) \in SUBSET Nat /\ Ttls(reply) # {}
      BY <3>1, <3>2 DEF Ttls
    <3> QED BY <3>3, LeastNat
  <2> QED BY <2>1, <2>2
<1>2. Lifetime(reply) = Clamp(x, MinTtl, MaxTtl)
  BY DEF Lifetime
<1> HIDE DEF x
<1> QED BY <1>1, <1>2, ResolverAssumption DEF Clamp

LEMMA CachedTimely ==
  ASSUME NEW e, EntryKept(e), NEW t \in Nat, e.expires > t, NEW verdict, NEW room, NEW s,
         s.served = t, s.came = e.came, s.reply = e.reply
  PROVE  TimelyAnswer(Rewrite(e.reply, verdict, AgeOf(e, t), "cached", room), s)
<1> DEFINE age == AgeOf(e, t)
           R == e.reply.records
           a == Rewrite(e.reply, verdict, age, "cached", room)
<1>1. /\ e.reply \in Replies /\ e.admitted \in Nat /\ e.came \in Nat /\ e.admitted <= e.came
      /\ e.expires \in Nat /\ e.expires <= e.admitted + MaxTtl /\ MaxTtl \in Nat
  BY ResolverAssumption DEF EntryKept
<1>2. t < e.came + MaxTtl
  BY <1>1
<1>3. \/ a.records = <<>>
      \/ DOMAIN a.records = DOMAIN R /\ \A i \in DOMAIN R : a.records[i] = Aged(R[i], verdict, age)
  <2>1. Rewritten(a, e.reply, verdict, age, "cached")
    BY RewriteFields
  <2> HIDE DEF a, age
  <2> QED BY <2>1 DEF Rewritten
<1>4. \A i \in DOMAIN R : R[i].ttl \in Nat /\ Aged(R[i], verdict, age).ttl = IF R[i].ttl > age THEN R[i].ttl - age ELSE 0
  <2>1. \A i \in DOMAIN R : /\ DOMAIN R[i] = {"ttl", "svc", "addr"} /\ R[i].svc \subseteq {"ech", "h3"}
                            /\ R[i].ttl \in Nat
    BY <1>1, ResolverAssumption
  <2> HIDE DEF R, age
  <2> QED BY <2>1, AgedFields
<1>5. age \in Nat /\ t - age <= e.came
  BY <1>1 DEF AgeOf
<1> HIDE DEF a, R, age
<1>6. ASSUME NEW i \in DOMAIN a.records, a.records[i].ttl > 0
      PROVE  t + a.records[i].ttl <= e.came + R[i].ttl
  <2>1. a.records # <<>>
    BY <1>6
  <2>2. i \in DOMAIN R /\ a.records[i] = Aged(R[i], verdict, age)
    BY <1>3, <1>6, <2>1
  <2>3. R[i].ttl \in Nat /\ a.records[i].ttl = IF R[i].ttl > age THEN R[i].ttl - age ELSE 0
    BY <1>4, <2>2
  <2>4. a.records[i].ttl = R[i].ttl - age
    BY <1>6, <2>3
  <2> QED BY <1>1, <1>5, <2>3, <2>4
<1> QED BY <1>2, <1>6 DEF TimelyAnswer, a, R, age

-----------------------------------------------------------------------------
(* The resolver: the invariant.                                            *)

TaskKept(question, task, t) ==
  /\ DOMAIN task = DOMAIN Idle
  /\ task.at \notin {"asking", "answered"} => ~task.asked
  /\ task.at = "asking" => /\ question.kind = "query" /\ Judge(task.rules, question.name).verdict # "blocked"
                           /\ task.since \in 0 .. t
  /\ task.at = "answered" => /\ JudgedAnswer(question, task.rules, task.asked, task.answer)
                             /\ TimelyAnswer(task.answer, task.source)

\* A query that waits waits once, and its task has not begun.
QueueKept(queue, taken) ==
  /\ queue \in Seq(Queries)
  /\ \A i, j \in 1 .. Len(queue) : queue[i] = queue[j] => i = j
  /\ \A i \in 1 .. Len(queue) : tasks[queue[i]].at \in {"queued", "done"}
  /\ taken.at \in {"permit", "snapshot"} =>
       /\ taken.query \in Queries /\ tasks[taken.query].at \in {"queued", "done"}
       /\ \A i \in 1 .. Len(queue) : queue[i] # taken.query

CacheKept(memo) ==
  DOMAIN memo = {"entries", "order"} /\ \A name \in Keys(memo) : EntryKept(memo.entries[name])

TasksKept == DOMAIN tasks = Queries /\ \A q \in Queries : TaskKept(Question[q], tasks[q], now)

ResolverInv ==
  /\ now \in Nat /\ TasksKept /\ CacheKept(cache)
  /\ QueueKept(pending, loop) /\ DOMAIN loop = {"at", "query"}

LEMMA IdleKept ==
  ASSUME NEW question, NEW t, NEW at, at \notin {"asking", "answered"}
  PROVE  TaskKept(question, [Idle EXCEPT !.at = at], t)
<1>1. /\ DOMAIN [Idle EXCEPT !.at = at] = DOMAIN Idle /\ [Idle EXCEPT !.at = at].at = at
      /\ [Idle EXCEPT !.at = at].asked = FALSE
  BY DEF Idle
<1> QED BY <1>1 DEF TaskKept

\* insert: an entry is the new one or was there.
LEMMA AdmitKept ==
  ASSUME CacheKept(cache), NEW name, NEW reply \in Replies, now \in Nat, NEW t \in 0 .. now, NEW version
  PROVE  CacheKept(Admit(cache, name, reply, t, version))
<1> DEFINE e == [reply |-> reply, admitted |-> t, expires |-> t + Lifetime(reply),
                 came |-> now, version |-> version]
           room == IF Cardinality(Keys(cache)) >= CacheEntries /\ cache.order # <<>>
                   THEN Evicted(cache) ELSE cache
           out == Insert(cache, CacheEntries, name, e)
<1>1. EntryKept(e)
  <2>1. Lifetime(reply) \in Nat /\ Lifetime(reply) <= MaxTtl
    BY LifetimeBounded
  <2> QED BY <2>1, ResolverAssumption DEF EntryKept
<1> HIDE DEF e
<1>2. /\ DOMAIN out = {"entries", "order"}
      /\ out.entries = Stored(IF HasKey(cache, name) THEN cache ELSE room, name, e)
  BY DEF Insert, CacheKept
<1>3. Keys(room) \subseteq Keys(cache) /\ \A k \in Keys(room) : room.entries[k] = cache.entries[k]
  BY DEF Keys, Evicted, Without
<1> HIDE DEF out, room
<1>4. /\ \A k \in Keys(out) : k # name => k \in Keys(cache) /\ out.entries[k] = cache.entries[k]
      /\ out.entries[name] = e
  BY <1>2, <1>3 DEF Keys, Stored
<1>5. CacheKept(out)
  BY <1>1, <1>2, <1>4 DEF CacheKept
<1> QED BY <1>5 DEF Admit, out, e

\* One task moves; the others, and what waits, are left.
LEMMA OneTaskKept ==
  ASSUME ResolverInv, NEW q \in Queries, NEW new, TaskKept(Question[q], new, now),
         tasks' = [tasks EXCEPT ![q] = new], now' = now
  PROVE  TasksKept'
  BY DEF ResolverInv, TasksKept

LEMMA QueueLeft ==
  ASSUME QueueKept(pending, loop), DOMAIN tasks = Queries, NEW q \in Queries, NEW new,
         tasks' = [tasks EXCEPT ![q] = new],
         tasks[q].at \notin {"queued", "done"} \/ new.at = "done", UNCHANGED <<pending, loop>>
  PROVE  QueueKept(pending, loop)'
<1>1. \A p \in Queries : tasks[p].at \in {"queued", "done"} => tasks'[p].at \in {"queued", "done"}
  OBVIOUS
<1>2. \A i \in 1 .. Len(pending) : pending[i] \in Queries
  BY DEF QueueKept
<1> QED BY <1>1, <1>2 DEF QueueKept

LEMMA AnswerKept ==
  ASSUME ResolverInv, NEW q \in Queries, NEW answer, NEW reply, NEW came, NEW version,
         tasks[q].at \in {"spawned", "asking"},
         Answer(q, answer, reply, came, version), UNCHANGED <<now, pending, loop>>,
         JudgedAnswer(Question[q], tasks[q].rules, tasks[q].asked, answer),
         TimelyAnswer(answer, [reply |-> reply, came |-> came, served |-> now, version |-> version])
  PROVE  TasksKept' /\ QueueKept(pending, loop)'
<1> DEFINE source == [reply |-> reply, came |-> came, served |-> now, version |-> version]
           told == [tasks[q] EXCEPT !.at = "answered", !.answer = answer, !.since = 0, !.source = source]
           done == [Idle EXCEPT !.at = "done"]
<1>1. DOMAIN tasks = Queries /\ DOMAIN tasks[q] = DOMAIN Idle /\ QueueKept(pending, loop)
  BY DEF ResolverInv, TasksKept, TaskKept
<1>2. PICK new \in {told, done} : tasks' = [tasks EXCEPT ![q] = new]
  BY <1>1 DEF Answer
<1>3. TaskKept(Question[q], told, now)
  <2>1. DOMAIN Idle = {"at", "rules", "version", "since", "asked", "answer", "source"}
    BY DEF Idle
  <2>2. /\ DOMAIN told = DOMAIN Idle /\ told.at = "answered" /\ told.answer = answer
        /\ told.source = source /\ told.rules = tasks[q].rules /\ told.asked = tasks[q].asked
    BY <1>1, <2>1
  <2> HIDE DEF told, source
  <2> QED BY <2>2 DEF TaskKept, source
<1>4. TaskKept(Question[q], done, now)
  BY IdleKept
<1>5. TaskKept(Question[q], new, now)
  BY <1>2, <1>3, <1>4
<1>6. TasksKept'
  BY <1>2, <1>5, OneTaskKept
<1>7. QueueKept(pending, loop)'
  BY <1>1, <1>2, QueueLeft
<1> QED BY <1>6, <1>7

LEMMA ResolverInvInit == ResolverInit => ResolverInv
<1> SUFFICES ASSUME ResolverInit PROVE ResolverInv
  OBVIOUS
<1>1. ASSUME NEW q \in Queries PROVE TaskKept(Question[q], tasks[q], now)
  <2>1. tasks[q] = Idle /\ Idle.at = "idle" /\ Idle.asked = FALSE
    BY DEF ResolverInit, Idle
  <2> QED BY <2>1 DEF TaskKept
<1>2. CacheKept(cache)
  BY DEF ResolverInit, CacheKept, Keys, EmptyMemo
<1>3. pending = <<>> /\ loop.at = "select" /\ DOMAIN loop = {"at", "query"}
  BY DEF ResolverInit
<1>4. QueueKept(pending, loop)
  BY <1>3 DEF QueueKept
<1> QED BY <1>1, <1>2, <1>3, <1>4 DEF ResolverInit, ResolverInv, TasksKept

\* The client asks, the loop takes a query, snapshots the policy, or leaves.
LEMMA LoopKeeps ==
  ASSUME ResolverInv, (\E q \in Queries : Ask(q)) \/ Take \/ Check \/ Spawn \/ Leave \/ Join
  PROVE  ResolverInv'
<1>1. /\ now \in Nat /\ DOMAIN tasks = Queries /\ \A q \in Queries : TaskKept(Question[q], tasks[q], now)
      /\ CacheKept(cache) /\ QueueKept(pending, loop) /\ DOMAIN loop = {"at", "query"}
  BY DEF ResolverInv, TasksKept
<1>2. /\ pending \in Seq(Queries) /\ Len(pending) \in Nat
      /\ \A i \in 1 .. Len(pending) : pending[i] \in Queries
  BY <1>1 DEF QueueKept
<1>3. DOMAIN Idle = {"at", "rules", "version", "since", "asked", "answer", "source"}
  BY DEF Idle
<1>4. ASSUME NEW q \in Queries, Ask(q) PROVE ResolverInv'
  <2>1. tasks[q].at = "idle" /\ UNCHANGED <<now, cache, loop>>
    BY <1>4 DEF Ask
  <2>2. ASSUME NEW at, at \in {"queued", "done"} PROVE TaskKept(Question[q], [tasks[q] EXCEPT !.at = at], now)
    <3>1. /\ DOMAIN [tasks[q] EXCEPT !.at = at] = DOMAIN Idle /\ [tasks[q] EXCEPT !.at = at].at = at
          /\ [tasks[q] EXCEPT !.at = at].asked = tasks[q].asked
      BY <1>1, <1>3 DEF TaskKept
    <3>2. ~tasks[q].asked
      BY <1>1, <2>1 DEF TaskKept
    <3> QED BY <2>2, <3>1, <3>2 DEF TaskKept
  <2>3. PICK at \in {"queued", "done"} : tasks' = [tasks EXCEPT ![q] = [tasks[q] EXCEPT !.at = at]]
    BY <1>1, <1>4 DEF Ask
  <2>4. TasksKept'
    BY <2>1, <2>2, <2>3, OneTaskKept
  <2>5. /\ \A p \in Queries : tasks[p].at \in {"queued", "done"} => tasks'[p].at \in {"queued", "done"}
        /\ tasks'[q].at \in {"queued", "done"}
    BY <1>1, <1>3, <2>3 DEF TaskKept
  <2>6. QueueKept(pending, loop)'
    <3>1. CASE pending' = pending
      BY <1>1, <1>2, <2>1, <2>5, <3>1 DEF QueueKept
    <3>2. CASE pending' = Append(pending, q)
      <4> DEFINE n == Len(pending)
      <4>1. /\ pending' \in Seq(Queries) /\ Len(pending') = n + 1 /\ pending'[n + 1] = q
            /\ \A i \in 1 .. n : pending'[i] = pending[i]
        BY <1>2, <3>2
      <4>2. \A i \in 1 .. n : pending[i] # q
        BY <1>1, <2>1 DEF QueueKept
      <4>3. \A i, j \in 1 .. n : pending[i] = pending[j] => i = j
        BY <1>1 DEF QueueKept
      <4>4. loop.at \in {"permit", "snapshot"} => loop.query # q /\ loop.query \in Queries
                /\ tasks'[loop.query].at \in {"queued", "done"} /\ \A i \in 1 .. n : pending[i] # loop.query
        BY <1>1, <2>1, <2>5 DEF QueueKept
      <4>5. \A i \in 1 .. n : tasks'[pending[i]].at \in {"queued", "done"}
        BY <1>1, <1>2, <2>5 DEF QueueKept
      <4> HIDE DEF n
      <4>6. \A i \in 1 .. n + 1 : i \in 1 .. n \/ i = n + 1
        BY <1>2 DEF n
      <4>7. \A i, j \in 1 .. n + 1 : pending'[i] = pending'[j] => i = j
        BY <4>1, <4>2, <4>3, <4>6
      <4>8. \A i \in 1 .. n + 1 : /\ tasks'[pending'[i]].at \in {"queued", "done"}
                                  /\ loop.at \in {"permit", "snapshot"} => pending'[i] # loop.query
        BY <2>5, <4>1, <4>4, <4>5, <4>6
      <4> QED BY <2>1, <4>1, <4>4, <4>7, <4>8 DEF QueueKept
    <3> QED BY <1>4, <3>1, <3>2 DEF Ask
  <2> QED BY <1>1, <2>1, <2>4, <2>6 DEF ResolverInv
<1>5. CASE Take
  <2> DEFINE n == Len(pending)
  <2>1. /\ pending # <<>> /\ pending' = Tail(pending) /\ loop' = [at |-> "permit", query |-> Head(pending)]
        /\ UNCHANGED <<now, cache, tasks>>
    BY <1>5 DEF Take
  <2>2. /\ Len(pending') = n - 1 /\ pending' \in Seq(Queries) /\ n \in Nat \ {0} /\ Head(pending) = pending[1]
        /\ \A i \in 1 .. n - 1 : pending'[i] = pending[i + 1]
    BY <1>2, <2>1
  <2>3. \A i \in 1 .. n - 1 : i \in Nat /\ i + 1 \in 1 .. n /\ i + 1 # 1
    BY <2>2
  <2>4. 1 \in 1 .. n
    BY <2>2
  <2>5. /\ \A i, j \in 1 .. n : pending[i] = pending[j] => i = j
        /\ \A i \in 1 .. n : pending[i] \in Queries /\ tasks[pending[i]].at \in {"queued", "done"}
    BY <1>1, <1>2 DEF QueueKept
  <2> HIDE DEF n
  <2>6. \A i \in 1 .. n - 1 : pending'[i] # pending[1] /\ tasks[pending'[i]].at \in {"queued", "done"}
    BY <2>2, <2>3, <2>4, <2>5
  <2>7. ASSUME NEW i \in 1 .. n - 1, NEW j \in 1 .. n - 1, pending'[i] = pending'[j] PROVE i = j
    <3>1. i + 1 = j + 1
      BY <2>2, <2>3, <2>5, <2>7
    <3> QED BY <2>3, <3>1
  <2>8. loop'.at = "permit" /\ loop'.query = pending[1] /\ DOMAIN loop' = {"at", "query"}
    BY <2>1, <2>2
  <2>9. QueueKept(pending, loop)'
    BY <2>1, <2>2, <2>4, <2>5, <2>6, <2>7, <2>8 DEF QueueKept
  <2> QED BY <1>1, <2>1, <2>8, <2>9 DEF ResolverInv, TasksKept
<1>6. CASE Check
  <2>1. UNCHANGED <<now, pending, tasks>> /\ loop' = [loop EXCEPT !.at = "snapshot"] /\ loop.at = "permit"
        /\ cache' \in {EmptyMemo, cache}
    BY <1>6 DEF Check
  <2>2. DOMAIN loop' = {"at", "query"} /\ loop'.at = "snapshot" /\ loop'.query = loop.query
    BY <1>1, <2>1
  <2>3. QueueKept(pending, loop)'
    BY <1>1, <2>1, <2>2 DEF QueueKept
  <2>4. CacheKept(cache)'
    BY <1>1, <2>1 DEF CacheKept, Keys, EmptyMemo
  <2> QED BY <1>1, <2>1, <2>2, <2>3, <2>4 DEF ResolverInv, TasksKept
<1>7. CASE Spawn
  <2> DEFINE q == loop.query
             new == [tasks[q] EXCEPT !.at = "spawned", !.rules = policy, !.version = reloads]
  <2>1. /\ q \in Queries /\ tasks[q].at \in {"queued", "done"} /\ \A i \in 1 .. Len(pending) : pending[i] # q
    BY <1>1, <1>7 DEF Spawn, QueueKept
  <2>2. tasks' = [tasks EXCEPT ![q] = new] /\ UNCHANGED <<now, cache, pending>>
        /\ loop' = [at |-> "select", query |-> "none"]
    BY <1>7 DEF Spawn
  <2>3. TaskKept(Question[q], new, now)
    <3>1. DOMAIN new = DOMAIN Idle /\ new.at = "spawned" /\ new.asked = tasks[q].asked
      BY <1>1, <1>3, <2>1 DEF TaskKept
    <3>2. ~tasks[q].asked
      BY <1>1, <2>1 DEF TaskKept
    <3> HIDE DEF new
    <3> QED BY <3>1, <3>2 DEF TaskKept
  <2> HIDE DEF new
  <2>4. TasksKept'
    BY <2>1, <2>2, <2>3, OneTaskKept
  <2>5. loop'.at = "select" /\ DOMAIN loop' = {"at", "query"}
    BY <2>2
  <2>6. \A i \in 1 .. Len(pending) : tasks'[pending[i]] = tasks[pending[i]]
    BY <1>1, <1>2, <2>1, <2>2
  <2>7. QueueKept(pending, loop)'
    BY <1>1, <2>2, <2>5, <2>6 DEF QueueKept
  <2> QED BY <1>1, <2>2, <2>4, <2>5, <2>7 DEF ResolverInv
<1>8. CASE Leave
  <2>1. /\ pending' = <<>> /\ loop' = [at |-> "joining", query |-> "none"] /\ UNCHANGED <<now, cache>>
        /\ tasks' = [q \in Queries |-> IF tasks[q].at = "queued" THEN [Idle EXCEPT !.at = "done"] ELSE tasks[q]]
    BY <1>8 DEF Leave
  <2>2. TasksKept'
    BY <1>1, <2>1, IdleKept DEF TasksKept
  <2>3. loop'.at = "joining" /\ DOMAIN loop' = {"at", "query"}
    BY <2>1
  <2>4. QueueKept(pending, loop)'
    BY <2>1, <2>3 DEF QueueKept
  <2> QED BY <1>1, <2>1, <2>2, <2>3, <2>4 DEF ResolverInv
<1>9. CASE Join
  <2>1. loop' = [at |-> "ended", query |-> "none"] /\ UNCHANGED <<now, cache, pending, tasks>>
    BY <1>9 DEF Join
  <2>2. loop'.at = "ended" /\ DOMAIN loop' = {"at", "query"}
    BY <2>1
  <2>3. QueueKept(pending, loop)'
    BY <1>1, <2>1, <2>2 DEF QueueKept
  <2> QED BY <1>1, <2>1, <2>2, <2>3 DEF ResolverInv, TasksKept
<1> QED BY <1>4, <1>5, <1>6, <1>7, <1>8, <1>9

\* A task is answered, fails or waits for the upstream.
LEMMA TaskKeeps ==
  ASSUME ResolverInv, NEW q \in Queries,
         Discard(q) \/ Begin(q) \/ Fail(q) \/ \E r \in Replies : Reply(q, r)
  PROVE  ResolverInv'
<1> DEFINE name == Question[q].name
           rules == tasks[q].rules
           verdict == Verdict(q).verdict
<1>1. /\ now \in Nat /\ DOMAIN tasks = Queries /\ TaskKept(Question[q], tasks[q], now)
      /\ CacheKept(cache) /\ QueueKept(pending, loop) /\ DOMAIN loop = {"at", "query"}
  BY DEF ResolverInv, TasksKept
<1>2. UNCHANGED <<now, pending, loop>> /\ tasks[q].at \in {"spawned", "asking"}
  BY DEF Discard, Begin, Fail, Reply
<1>3. Verdict(q) = Judge(rules, name)
  BY DEF Verdict
<1>4. DOMAIN Idle = {"at", "rules", "version", "since", "asked", "answer", "source"}
  BY DEF Idle
<1>5. ASSUME NEW new, tasks' = [tasks EXCEPT ![q] = new], TaskKept(Question[q], new, now), cache' = cache
      PROVE  ResolverInv'
  <2>1. TasksKept'
    BY <1>2, <1>5, OneTaskKept
  <2>2. QueueKept(pending, loop)'
    BY <1>1, <1>2, <1>5, QueueLeft
  <2> QED BY <1>1, <1>2, <1>5, <2>1, <2>2 DEF ResolverInv
<1>6. ASSUME NEW answer, NEW reply, NEW came, NEW version, Answer(q, answer, reply, came, version),
             JudgedAnswer(Question[q], rules, tasks[q].asked, answer),
             TimelyAnswer(answer, [reply |-> reply, came |-> came, served |-> now, version |-> version]),
             CacheKept(cache')
      PROVE  ResolverInv'
  <2> HIDE DEF rules
  <2>1. TasksKept' /\ QueueKept(pending, loop)'
    BY <1>2, <1>6, AnswerKept DEF rules
  <2> QED BY <1>1, <1>2, <1>6, <2>1 DEF ResolverInv
<1>7. CASE Discard(q)
  <2>1. tasks' = [tasks EXCEPT ![q] = [Idle EXCEPT !.at = "done"]] /\ cache' = cache
    BY <1>7 DEF Discard
  <2>2. TaskKept(Question[q], [Idle EXCEPT !.at = "done"], now)
    BY IdleKept
  <2> QED BY <1>5, <2>1, <2>2
<1>8. CASE Begin(q)
  <2>1. cache' = cache /\ tasks[q].at = "spawned"
    BY <1>8 DEF Begin
  <2>2. ~tasks[q].asked
    BY <1>1, <2>1 DEF TaskKept
  <2>3. CASE Question[q].kind = "malformed" /\ Answer(q, FormatError, NoReply, now, tasks[q].version)
    <3>1. FormatError.provenance = "none"
      BY DEF FormatError, Answered
    <3>2. /\ JudgedAnswer(Question[q], rules, tasks[q].asked, FormatError)
          /\ TimelyAnswer(FormatError, [reply |-> NoReply, came |-> now, served |-> now, version |-> tasks[q].version])
      BY <2>3, <3>1 DEF JudgedAnswer, TimelyAnswer
    <3> QED BY <1>1, <1>6, <2>1, <2>3, <3>2
  <2>4. CASE verdict = "blocked" /\ Answer(q, Refusal(Verdict(q).matched), NoReply, now, tasks[q].version)
    <3>1. Refusal(Verdict(q).matched).provenance = "policy"
      BY DEF Refusal, Answered
    <3>2. TimelyAnswer(Refusal(Verdict(q).matched),
                       [reply |-> NoReply, came |-> now, served |-> now, version |-> tasks[q].version])
      BY <3>1 DEF TimelyAnswer
    <3>3. JudgedAnswer(Question[q], rules, tasks[q].asked, Refusal(Verdict(q).matched))
      BY <1>3, <2>2, <2>4, RefusalJudged
    <3> QED BY <1>1, <1>6, <2>1, <2>4, <3>2, <3>3
  <2>5. CASE /\ verdict # "blocked" /\ Remembered(cache, name, now)
             /\ Answer(q, Rewrite(cache.entries[name].reply, verdict, AgeOf(cache.entries[name], now),
                                  "cached", Question[q].room),
                       cache.entries[name].reply, cache.entries[name].came, cache.entries[name].version)
    <3> DEFINE e == cache.entries[name]
               s == [reply |-> e.reply, came |-> e.came, served |-> now, version |-> e.version]
               a == Rewrite(e.reply, verdict, AgeOf(e, now), "cached", Question[q].room)
    <3>1. EntryKept(e) /\ e.expires > now
      BY <1>1, <2>5 DEF CacheKept, Remembered, HasKey, Keys
    <3>2. s.served = now /\ s.came = e.came /\ s.reply = e.reply
      OBVIOUS
    <3>3. e.reply \in Replies
      BY <3>1 DEF EntryKept
    <3> HIDE DEF s, e
    <3>4. TimelyAnswer(a, s)
      BY <1>1, <3>1, <3>2, CachedTimely
    <3>5. JudgedAnswer(Question[q], rules, tasks[q].asked, a)
      BY <1>3, <2>5, <3>3, RewriteJudged
    <3> HIDE DEF a
    <3> QED BY <1>1, <1>6, <2>1, <2>5, <3>4, <3>5 DEF a, e, s
  <2>6. CASE /\ Question[q].kind = "query" /\ verdict # "blocked"
             /\ tasks' = [tasks EXCEPT ![q].at = "asking", ![q].since = now, ![q].asked = TRUE]
    <3> DEFINE new == [tasks[q] EXCEPT !.at = "asking", !.since = now, !.asked = TRUE]
    <3>1. tasks' = [tasks EXCEPT ![q] = new]
      BY <1>1, <2>6
    <3>2. DOMAIN new = DOMAIN Idle /\ new.at = "asking" /\ new.since = now /\ new.rules = rules
      BY <1>1, <1>4 DEF TaskKept
    <3> HIDE DEF new
    <3>3. now \in 0 .. now
      <4>1. now \in Nat
        BY <1>1
      <4> QED BY <4>1
    <3>4. TaskKept(Question[q], new, now)
      BY <1>3, <2>6, <3>2, <3>3 DEF TaskKept
    <3> QED BY <1>5, <2>1, <3>1, <3>4
  <2> QED BY <1>8, <2>3, <2>4, <2>5, <2>6 DEF Begin
<1>9. ASSUME tasks[q].at = "asking"
      PROVE  verdict # "blocked" /\ tasks[q].since \in 0 .. now
  BY <1>1, <1>3, <1>9 DEF TaskKept
<1>10. CASE Fail(q)
  <2>1. tasks[q].at = "asking" /\ cache' = cache /\ Answer(q, Failure("upstream"), NoReply, now, tasks[q].version)
    BY <1>10 DEF Fail
  <2>2. Failure("upstream").provenance = "upstream"
    BY DEF Failure, Answered
  <2>3. TimelyAnswer(Failure("upstream"), [reply |-> NoReply, came |-> now, served |-> now, version |-> tasks[q].version])
    BY <2>2 DEF TimelyAnswer
  <2>4. JudgedAnswer(Question[q], rules, tasks[q].asked, Failure("upstream"))
    BY <1>3, <1>9, <2>1, FailureJudged
  <2> QED BY <1>1, <1>6, <2>1, <2>3, <2>4
<1>11. ASSUME NEW r \in Replies, Reply(q, r) PROVE ResolverInv'
  <2> DEFINE a == Rewrite(r, verdict, 0, "upstream", Question[q].room)
  <2>1. /\ tasks[q].at = "asking" /\ Answer(q, a, r, now, tasks[q].version)
        /\ cache' = Admit(cache, name, r, tasks[q].since, tasks[q].version)
    BY <1>11 DEF Reply
  <2>2. a.provenance = "upstream"
    <3>1. Rewritten(a, r, verdict, 0, "upstream")
      BY RewriteFields
    <3> HIDE DEF a
    <3> QED BY <3>1 DEF Rewritten
  <2>3. TimelyAnswer(a, [reply |-> r, came |-> now, served |-> now, version |-> tasks[q].version])
    BY <2>2 DEF TimelyAnswer
  <2>4. JudgedAnswer(Question[q], rules, tasks[q].asked, a)
    BY <1>3, <1>9, <2>1, RewriteJudged
  <2>5. CacheKept(cache')
    BY <1>1, <1>9, <2>1, AdmitKept
  <2> HIDE DEF a
  <2> QED BY <1>6, <2>1, <2>3, <2>4, <2>5
<1> QED BY <1>7, <1>8, <1>10, <1>11

\* Every answer follows the rules its query was spawned under and lasts no longer than the
\* upstream gave it, whatever reloads, clears and replies come between (resolver_loop and
\* resolve of shell.rs, DnsCache, HostPolicy::judge), for any rules, names and lifetimes.
THEOREM AnswersStayGood == ResolverInit /\ [][ResolverNext]_resolverVars => []AnswersHold
<1>1. ResolverInv /\ [ResolverNext]_resolverVars => ResolverInv'
  <2> SUFFICES ASSUME ResolverInv, [ResolverNext]_resolverVars PROVE ResolverInv'
    OBVIOUS
  <2>1. CASE (\E q \in Queries : Ask(q)) \/ Take \/ Check \/ Spawn \/ Leave \/ Join
    BY <2>1, LoopKeeps
  <2>2. CASE TaskStep
    BY <2>2, TaskKeeps DEF TaskStep
  <2>3. CASE Collect
    <3> DEFINE q == Head(answers)
               done == [Idle EXCEPT !.at = "done"]
    <3>1. tasks' = [tasks EXCEPT ![q] = done] /\ UNCHANGED <<now, cache, pending, loop>>
      BY <2>3 DEF Collect
    <3>2. /\ now \in Nat /\ DOMAIN tasks = Queries /\ CacheKept(cache) /\ QueueKept(pending, loop)
          /\ DOMAIN loop = {"at", "query"}
      BY DEF ResolverInv, TasksKept
    <3>3. CASE q \in Queries
      <4>1. TaskKept(Question[q], done, now) /\ done.at = "done"
        BY IdleKept DEF Idle
      <4> HIDE DEF done, q
      <4>2. TasksKept'
        BY <3>1, <3>3, <4>1, OneTaskKept
      <4>3. QueueKept(pending, loop)'
        BY <3>1, <3>2, <3>3, <4>1, QueueLeft
      <4> QED BY <3>1, <3>2, <4>2, <4>3 DEF ResolverInv
    <3>4. CASE q \notin Queries
      <4>1. DOMAIN tasks' = Queries /\ \A p \in Queries : tasks'[p] = tasks[p]
        BY <3>1, <3>2, <3>4
      <4>2. TasksKept'
        BY <3>1, <4>1 DEF ResolverInv, TasksKept
      <4>3. \A i \in 1 .. Len(pending) : pending[i] \in Queries
        BY <3>2 DEF QueueKept
      <4>4. QueueKept(pending, loop)'
        BY <3>1, <3>2, <4>1, <4>3 DEF QueueKept
      <4> QED BY <3>1, <3>2, <4>2, <4>4 DEF ResolverInv
    <3> QED BY <3>3, <3>4
  <2>4. CASE Pass
    <3>1. now' = now + 1 /\ UNCHANGED <<cache, pending, loop, tasks>>
      BY <2>4 DEF Pass
    <3>2. now \in Nat /\ now' \in Nat /\ 0 .. now \subseteq 0 .. now'
      BY <3>1 DEF ResolverInv
    <3>3. TasksKept'
      BY <3>1, <3>2 DEF ResolverInv, TasksKept, TaskKept
    <3> QED BY <3>1, <3>2, <3>3 DEF ResolverInv, QueueKept
  <2>5. CASE Reload \/ Cancel \/ UNCHANGED resolverVars
    BY <2>5 DEF Reload, Cancel, resolverVars, ResolverInv, TasksKept, QueueKept
  <2> QED BY <2>1, <2>2, <2>3, <2>4, <2>5 DEF ResolverNext
<1>2. ResolverInv => AnswersHold
  <2> SUFFICES ASSUME ResolverInv PROVE AnswersHold
    OBVIOUS
  <2>1. ASSUME NEW q \in Queries, tasks[q].at = "answered"
        PROVE  /\ JudgedAnswer(Question[q], tasks[q].rules, tasks[q].asked, tasks[q].answer)
               /\ TimelyAnswer(tasks[q].answer, tasks[q].source)
    BY <2>1 DEF ResolverInv, TasksKept, TaskKept
  <2>2. AnswersAsJudged
    BY <2>1 DEF AnswersAsJudged, JudgedAnswer
  <2>3. ServedNoLongerThanGiven
    BY <2>1 DEF ServedNoLongerThanGiven, TimelyAnswer
  <2> QED BY <2>2, <2>3 DEF AnswersHold
<1> QED BY <1>1, <1>2, ResolverInvInit, PTL

-----------------------------------------------------------------------------
(* The tunnel's calls.                                                     *)

\* A lock holder reads events, and the driver leaves its loop only behind the tasks, and is
\* gone only behind the reactor too.
StopInv ==
  /\ DOMAIN calls = Threads
  /\ \A t \in Threads : /\ DOMAIN calls[t] = {"op", "at"}
                        /\ calls[t].at = "holding" => calls[t].op = "event"
  /\ driver.at \in {"shell", "gone"} => workers = "ended"
  /\ driver.at = "gone" => reactor = "ended"

LEMMA StopInvInit == TunnelInit => StopInv
  BY DEF TunnelInit, StopInv, NoCall

LEMMA StopInvHost == StopInv /\ HostStep => StopInv'
<1> SUFFICES ASSUME StopInv, NEW t \in Threads,
                    (\E op \in Ops : Call(t, op)) \/ Lock(t) \/ NextEvent(t) \/ Submit(t)
             PROVE  StopInv'
  BY DEF HostStep
<1>1. ASSUME NEW op \in Ops, Call(t, op) PROVE StopInv'
  BY <1>1 DEF StopInv, Call
<1>2. CASE Lock(t)
  BY <1>2 DEF StopInv, Lock
<1>3. CASE NextEvent(t)
  BY <1>3 DEF StopInv, NextEvent, Return, NoCall
<1>4. CASE Submit(t)
  <2>1. CASE calls' = [calls EXCEPT ![t].at = "asked"]
    BY <1>4, <2>1 DEF StopInv, Submit
  <2>2. CASE Return(t)
    BY <1>4, <2>2 DEF StopInv, Submit, Return, NoCall
  <2> QED BY <1>4, <2>1, <2>2 DEF Submit
<1> QED BY <1>1, <1>2, <1>3, <1>4

LEMMA StopInvDriver == StopInv /\ DriverStep => StopInv'
<1> SUFFICES ASSUME StopInv, DriverStep PROVE StopInv'
  OBVIOUS
<1>1. CASE DriverTakes
  BY <1>1 DEF StopInv, DriverTakes
<1>2. CASE DriverSends
  BY <1>2 DEF StopInv, DriverSends
<1>3. CASE DriverAnswers
  BY <1>3 DEF StopInv, DriverAnswers, Return, NoCall
<1>4. CASE DriverStops
  BY <1>4 DEF StopInv, DriverStops
<1>5. CASE DriverStopsShell
  BY <1>5 DEF StopInv, DriverStopsShell
<1>6. CASE DriverGone
  BY <1>6 DEF StopInv, DriverGone, NoCall
<1> QED BY <1>1, <1>2, <1>3, <1>4, <1>5, <1>6 DEF DriverStep

LEMMA StopInvNext == StopInv /\ [TunnelNext]_tunnelVars => StopInv'
<1> SUFFICES ASSUME StopInv, [TunnelNext]_tunnelVars PROVE StopInv'
  OBVIOUS
<1>1. CASE TasksEnd \/ ReactorExit \/ Observes
  BY <1>1 DEF StopInv, TasksEnd, ReactorExit, Observes
<1>2. CASE Free
  BY <1>2 DEF StopInv, Free
<1>3. CASE UNCHANGED tunnelVars
  BY <1>3 DEF StopInv, tunnelVars
<1> QED BY <1>1, <1>2, <1>3, StopInvHost, StopInvDriver DEF TunnelNext

\* boreas_tunnel_shutdown: for any number of calling threads and any depth of the channels, a
\* call of it returns only behind the end of the tasks and of the reactor, whichever of several
\* calls, a queue that is dropped or the reactor's own end made the driver stop.
THEOREM ShutdownReturnsLast == TunnelInit /\ [][TunnelNext]_tunnelVars => ShutdownMeansStopped
<1>1. ASSUME StopInv, StopInv', TunnelNext, NEW t \in Threads, calls[t].op = "shutdown", calls'[t] = NoCall
      PROVE  workers' = "ended" /\ reactor' = "ended"
  <2>1. NoCall.op = "none"
    BY DEF NoCall
  <2>2. calls'[t] # calls[t]
    BY <1>1, <2>1
  <2>3. /\ DOMAIN calls = Threads /\ DOMAIN calls[t] = {"op", "at"} /\ calls[t].op = "shutdown"
        /\ calls[t].at # "holding" /\ calls'[t].op = "none"
    BY <1>1, <2>1 DEF StopInv
  <2>4. CASE HostStep
    <3>1. PICK u \in Threads : (\E op \in Ops : Call(u, op)) \/ Lock(u) \/ NextEvent(u) \/ Submit(u)
      BY <2>4 DEF HostStep
    <3>2. u = t
      BY <1>1, <2>2, <3>1 DEF StopInv, Call, Lock, NextEvent, Submit, Return
    <3>3. ~NextEvent(t)
      BY <2>3 DEF NextEvent
    <3>4. ~Lock(t)
      BY <1>1 DEF Lock
    <3>5. ~\E op \in Ops : Call(t, op)
      BY <1>1, <2>1 DEF Call, Ops, StopInv
    <3>6. Submit(t)
      BY <3>1, <3>2, <3>3, <3>4, <3>5
    <3>7. CASE driver.at # "gone" /\ calls' = [calls EXCEPT ![t].at = "asked"]
      <4>1. calls'[t].op = calls[t].op
        BY <2>3, <3>7
      <4> QED BY <2>3, <4>1
    <3>8. CASE driver.at = "gone"
      BY <1>1, <3>6, <3>8 DEF StopInv, Submit
    <3> QED BY <3>6, <3>7, <3>8 DEF Submit
  <2>5. CASE DriverAnswers
    BY <1>1, <2>2, <2>5 DEF StopInv, DriverAnswers, Return
  <2>6. CASE DriverGone
    BY <1>1, <2>6 DEF StopInv, DriverGone
  <2> QED BY <1>1, <2>2, <2>4, <2>5, <2>6
      DEF TunnelNext, DriverStep, DriverTakes, DriverSends, DriverStops, DriverStopsShell,
          TasksEnd, ReactorExit, Observes, Free
<1>2. StopInv /\ StopInv' /\ [TunnelNext]_tunnelVars =>
        [\A t \in Threads : calls[t].op = "shutdown" /\ calls'[t] = NoCall
           => workers' = "ended" /\ reactor' = "ended"]_tunnelVars
  BY <1>1
<1> QED BY <1>2, StopInvInit, StopInvNext, PTL DEF ShutdownMeansStopped
==============================================================================
