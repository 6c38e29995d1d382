--------------------------- MODULE UpstreamProofs ---------------------------
(***************************************************************************)
(* For any number of callers, sockets, ids and connections: callers share  *)
(* one connection per slot, a retry never lands on the connection that     *)
(* ended, nobody waits for a sender that is gone, and every answer is to   *)
(* the question asked.                                                     *)
(***************************************************************************)
EXTENDS Upstream, FiniteSetTheorems, TLAPS

\* Live's state and the progress of the dials agree: what is running is what
\* its slot is opening, and what is alive is what its slot has up.
LiveMatches ==
  /\ \A s \in Slots :
       /\ live[s].state = "Opening" =>
            /\ live[s].conn \in Dials /\ conns[live[s].conn].dial = "running"
            /\ conns[live[s].conn].slot = s
       /\ live[s].state = "Up" => live[s].conn \in Dials
  /\ \A d \in Dials :
       /\ conns[d].dial = "running" => live[conns[d].slot] = Opening(d)
       /\ conns[d].alive => live[conns[d].slot] = Up(d) /\ conns[d].driver = "running"
       /\ conns[d].dial \in {"none", "running"} => conns[d].driver = "none"
       /\ conns[d].dial \in {"up", "opened"} => conns[d].driver # "none"

\* A caller has a connection exactly while it waits for it or uses it.
CallersPlaced ==
  \A q \in Callers :
    /\ callers[q].pc \in {"wait", "send", "await"} => callers[q].conn \in Dials
    /\ callers[q].pc \notin {"wait", "send", "await"} => callers[q].conn = NoDial
    /\ callers[q].pc \in {"send", "await"} => conns[callers[q].conn].driver # "none"

\* A connection once left behind stays over.
LeftIsOver ==
  \A q \in Callers :
    callers[q].left # NoDial => conns[callers[q].left].driver \in {"ending", "gone"}

WaitersAsk ==
  \A d \in Dials :
    /\ \A i \in DOMAIN conns[d].queue :
         conns[d].queue[i].question = Asks[conns[d].queue[i].caller]
    /\ \A id \in DOMAIN conns[d].pending :
         conns[d].pending[id].question = Asks[conns[d].pending[id].caller]

IInv ==
  /\ TypeOK /\ LiveMatches /\ CallersPlaced /\ LeftIsOver /\ RetryIsFresh
  /\ WaitersAsk /\ AnswersItsQuestion /\ NoWaiterLost

-----------------------------------------------------------------------------
(* Constants                                                               *)

LEMMA SlotFacts ==
  /\ Stream \in Slots /\ Sockets \subseteq Slots /\ 0 \in Sockets
  /\ \A r \in Sockets : (r + 1) % SourcePorts \in Sockets
  BY UpstreamAssumption DEF Slots, Sockets, Stream

LEMMA DialFacts == NoDial \notin Dials
  BY DEF NoDial, Dials

LEMMA StateFacts ==
  \A d : /\ Opening(d).state = "Opening" /\ Opening(d).conn = d
         /\ Up(d).state = "Up" /\ Up(d).conn = d
  BY DEF Opening, Up

LEMMA IdFacts == 0 \in Ids /\ \A n \in Nat : n % IdSpace \in Ids
  BY DemuxAssumption DEF Ids

LEMMA AnswerFacts ==
  /\ Nothing \in Answer /\ EndedReply \in Answer /\ Failed \in Answer /\ TimedOut \in Answer
  /\ \A a \in {Nothing, EndedReply, Failed, TimedOut} : a.kind # "reply"
  /\ Nothing # EndedReply
  /\ \A question \in Questions, t \in BOOLEAN :
       Reply(question, t) \in Answer /\ Reply(question, t).question = question
         /\ Reply(question, t) # Nothing
  BY DEF Answer, Nothing, EndedReply, Failed, TimedOut, Reply

-----------------------------------------------------------------------------
(* The table of waiters                                                    *)

LEMMA TableFacts ==
  ASSUME NEW p \in Tables
  PROVE  /\ p \in [DOMAIN p -> Waiter] /\ DOMAIN p \subseteq Ids
  BY DEF Tables

LEMMA TableIntro ==
  ASSUME NEW S \in SUBSET Ids, NEW p \in [S -> Waiter]
  PROVE  p \in Tables
  BY DEF Tables

\* Sweeping keeps every open waiter under its id, and invents none.
LEMMA SweepFacts ==
  ASSUME NEW p \in Tables
  PROVE  /\ Sweep(p) \in Tables
         /\ DOMAIN Sweep(p) = {id \in DOMAIN p : p[id].open}
         /\ \A id \in DOMAIN Sweep(p) : id \in DOMAIN p /\ Sweep(p)[id] = p[id]
<1> DEFINE S == {id \in DOMAIN p : p[id].open}
<1>1. Sweep(p) = [id \in S |-> p[id]]
  BY DEF Sweep, Restrict
<1>2. Sweep(p) \in [S -> Waiter] /\ S \in SUBSET Ids
  BY <1>1, TableFacts
<1> QED BY <1>1, <1>2, TableIntro

LEMMA SweptFacts ==
  ASSUME NEW p \in Tables
  PROVE  /\ Swept(p) \in Tables
         /\ \A id \in DOMAIN Swept(p) : id \in DOMAIN p /\ Swept(p)[id] = p[id]
         /\ \A id \in DOMAIN p : p[id].open => id \in DOMAIN Swept(p)
<1>1. /\ Sweep(p) \in Tables
      /\ DOMAIN Sweep(p) = {id \in DOMAIN p : p[id].open}
      /\ \A id \in DOMAIN Sweep(p) : id \in DOMAIN p /\ Sweep(p)[id] = p[id]
  BY SweepFacts
<1>2. Swept(p) = Sweep(p) \/ Swept(p) = p
  BY DEF Swept
<1> QED BY <1>1, <1>2

LEMMA AdmittedFacts ==
  ASSUME NEW p \in Tables, NEW id \in Ids, NEW w \in Waiter
  PROVE  /\ Admitted(p, id, w) \in Tables
         /\ DOMAIN Admitted(p, id, w) = DOMAIN p \union {id}
         /\ Admitted(p, id, w)[id] = w
         /\ \A i \in DOMAIN p : i # id => Admitted(p, id, w)[i] = p[i]
<1>1. Admitted(p, id, w) \in [DOMAIN p \union {id} -> Waiter]
  BY TableFacts DEF Admitted
<1>2. DOMAIN p \union {id} \in SUBSET Ids
  BY TableFacts
<1>3. Admitted(p, id, w) \in Tables
  BY <1>1, <1>2, TableIntro
<1> QED BY <1>1, <1>3 DEF Admitted

LEMMA UnclaimedFacts ==
  ASSUME NEW p \in Tables, NEW id
  PROVE  /\ Unclaimed(p, id) \in Tables
         /\ DOMAIN Unclaimed(p, id) = DOMAIN p \ {id}
         /\ \A i \in DOMAIN p \ {id} : Unclaimed(p, id)[i] = p[i]
<1> DEFINE S == DOMAIN p \ {id}
<1>1. Unclaimed(p, id) = [i \in S |-> p[i]]
  BY DEF Unclaimed, Restrict
<1>2. Unclaimed(p, id) \in [S -> Waiter] /\ S \in SUBSET Ids
  BY <1>1, TableFacts
<1> QED BY <1>1, <1>2, TableIntro

\* A reply takes at most the waiter it answers.
LEMMA KeptFacts ==
  ASSUME NEW p \in Tables, NEW m
  PROVE  /\ KeptBy(p, m) \in Tables
         /\ \A id \in DOMAIN KeptBy(p, m) : id \in DOMAIN p /\ KeptBy(p, m)[id] = p[id]
         /\ \A id \in DOMAIN p : id \in DOMAIN KeptBy(p, m) \/ (Claims(p, m) /\ id = m.id)
<1>1. CASE Claims(p, m)
  <2>1. KeptBy(p, m) = Unclaimed(p, m.id)
    BY <1>1 DEF KeptBy
  <2>2. /\ Unclaimed(p, m.id) \in Tables
        /\ DOMAIN Unclaimed(p, m.id) = DOMAIN p \ {m.id}
        /\ \A i \in DOMAIN p \ {m.id} : Unclaimed(p, m.id)[i] = p[i]
    BY UnclaimedFacts
  <2> QED BY <1>1, <2>1, <2>2
<1>2. CASE ~ Claims(p, m)
  BY <1>2 DEF KeptBy
<1> QED BY <1>1, <1>2

\* A fresh id is an id, and no open waiter has it.
LEMMA FreshFacts ==
  ASSUME NEW p \in Tables, NEW next \in Ids, NEW id \in FreshIds(p, next)
  PROVE  id \in Ids /\ (id \in DOMAIN p => ~ p[id].open)
<1>1. PICK k \in Ids : id = (next + k) % IdSpace /\ IsFree(p, id)
  BY DEF FreshIds
<1>2. next + k \in Nat
  BY <1>1 DEF Ids
<1> QED BY <1>1, <1>2, IdFacts DEF IsFree

-----------------------------------------------------------------------------
(* Where a caller goes                                                     *)

\* What a caller's record must satisfy when the connections are f.
Sound(f, q, c) ==
  /\ c \in Caller
  /\ c.pc \in {"wait", "send", "await"} => c.conn \in Dials
  /\ c.pc \notin {"wait", "send", "await"} => c.conn = NoDial
  /\ c.pc \in {"send", "await"} => f[c.conn].driver # "none"
  /\ c.left # NoDial => f[c.left].driver \in {"ending", "gone"} /\ c.conn # c.left
  /\ \A a \in {c.inbox, c.held, c.result} : a.kind = "reply" => a.question = Asks[q]

HeldBy(conn, q) ==
  \/ \E i \in DOMAIN conn.queue : OpenFor(q, conn.queue[i])
  \/ \E id \in DOMAIN conn.pending : OpenFor(q, conn.pending[id])

Covered(f, q, c) == c.pc = "await" /\ c.inbox = Nothing => HeldBy(f[c.conn], q)

\* A connection whose waiters have their callers' questions.
Honest(conn) ==
  /\ conn \in Conn
  /\ \A i \in DOMAIN conn.queue : conn.queue[i].question = Asks[conn.queue[i].caller]
  /\ \A id \in DOMAIN conn.pending : conn.pending[id].question = Asks[conn.pending[id].caller]

LiveStates == [state : {"Down", "Opening", "Up"}, conn : Dials \union {NoDial}]

\* The invariant, caller by caller and connection by connection.
Parts ==
  /\ rotation \in Sockets
  /\ live \in [Slots -> LiveStates]
  /\ conns \in [Dials -> Conn]
  /\ callers \in [Callers -> Caller]
  /\ LiveMatches
  /\ \A d \in Dials : Honest(conns[d])
  /\ \A q \in Callers : Sound(conns, q, callers[q]) /\ Covered(conns, q, callers[q])

LEMMA ByParts == (IInv => Parts) /\ (Parts => IInv)
  BY DEF Parts, IInv, TypeOK, CallersPlaced, LeftIsOver, RetryIsFresh, AnswersItsQuestion,
         WaitersAsk, NoWaiterLost, Sound, Covered, HeldBy, Honest, LiveStates

LEMMA IdleSound ==
  ASSUME NEW f, NEW q \in Callers
  PROVE  Sound(f, q, Idle) /\ Idle.pc = "idle"
  BY SlotFacts, AnswerFacts, DialFacts DEF Sound, Idle, Caller

LEMMA AttemptSound ==
  ASSUME NEW f, NEW q \in Callers, NEW c, Sound(f, q, c), NEW s \in Slots,
         NEW stage \in {"first", "second", "stream"}
  PROVE  Sound(f, q, Attempt(c, stage, s)) /\ Attempt(c, stage, s).pc = "get"
  BY AnswerFacts, DialFacts, ZenonT(60) DEF Sound, Attempt, Caller

LEMMA DoneSound ==
  ASSUME NEW f, NEW q \in Callers, NEW a \in Answer, a.kind = "reply" => a.question = Asks[q]
  PROVE  Sound(f, q, Done(a)) /\ Done(a).pc = "done"
  BY SlotFacts, AnswerFacts, DialFacts DEF Sound, Done, Idle, Caller

LEMMA DoneFailedSound ==
  ASSUME NEW f, NEW q \in Callers, NEW c, Sound(f, q, c)
  PROVE  Sound(f, q, DoneFailed(c)) /\ DoneFailed(c).pc = "done"
<1>1. c.held \in Answer /\ (c.held.kind = "reply" => c.held.question = Asks[q])
  BY DEF Sound, Caller
<1> QED BY <1>1, DoneSound, AnswerFacts DEF DoneFailed

LEMMA AnsweredSound ==
  ASSUME NEW f, NEW q \in Callers, NEW c, Sound(f, q, c), NEW a \in Answer,
         a.kind = "reply" => a.question = Asks[q]
  PROVE  Sound(f, q, Answered(c, a)) /\ Answered(c, a).pc \in {"get", "done"}
<1> DEFINE b == Attempt(c, "stream", Stream)
<1>1. Sound(f, q, b) /\ b.pc = "get"
  BY AttemptSound, SlotFacts
<1> HIDE DEF b
<1>2. Sound(f, q, [b EXCEPT !.held = a]) /\ [b EXCEPT !.held = a].pc = "get"
  BY <1>1 DEF Sound, Caller
<1> QED BY <1>2, DoneSound DEF Answered, b

LEMMA RetriedSound ==
  ASSUME NEW q \in Callers, NEW c, Sound(conns, q, c), conns \in [Dials -> Conn],
         c.pc \in {"send", "await"}
  PROVE  Sound(conns, q, Retried(c)) /\ Retried(c).pc \in {"get", "done"}
<1>1. CASE c.retried
  BY <1>1, DoneFailedSound DEF Retried
<1>2. CASE ~ c.retried
  <2> DEFINE l == IF conns[c.conn].driver = "running" THEN c.left ELSE c.conn
             b == [c EXCEPT !.pc = "get", !.retried = TRUE, !.inbox = Nothing,
                            !.left = l, !.conn = NoDial]
  <2>1. c.conn \in Dials /\ conns[c.conn].driver \in {"running", "ending", "gone"}
    BY DEF Sound, Conn
  <2>2. /\ l \in Dials \union {NoDial}
        /\ l # NoDial => conns[l].driver \in {"ending", "gone"}
    BY <2>1 DEF Sound, Caller
  <2> HIDE DEF l
  <2>3. Sound(conns, q, b) /\ b.pc = "get"
    BY <2>2, AnswerFacts, DialFacts, ZenonT(60) DEF Sound, Caller
  <2> QED BY <1>2, <2>3 DEF Retried, l
<1> QED BY <1>1, <1>2 DEF Sound, Caller

-----------------------------------------------------------------------------
(* What a step leaves alone                                                *)

\* A driver only ever starts, ends and goes.
Onward(conn, next) ==
  /\ conn.driver # "none" => next.driver # "none"
  /\ conn.driver \in {"ending", "gone"} => next.driver \in {"ending", "gone"}

LEMMA SoundOnward ==
  ASSUME NEW f, NEW g, \A d \in Dials : Onward(f[d], g[d]),
         NEW q \in Callers, NEW c, Sound(f, q, c)
  PROVE  Sound(g, q, c)
  BY DialFacts DEF Sound, Onward, Caller

\* Neither the dial nor the slot of a connection changes as Live sees them, and
\* if its driver does, it is by ending.
Steady(conn, next) ==
  /\ next.slot = conn.slot
  /\ (next.dial = "running") = (conn.dial = "running")
  /\ next.dial \in {"none", "running"} => conn.dial \in {"none", "running"}
  /\ next.dial \in {"up", "opened"} => conn.dial \in {"up", "opened"}
  /\ next.alive => conn.alive
  /\ \/ next.driver = conn.driver
     \/ conn.driver \in {"running", "ending"} /\ next.driver \in {"ending", "gone"} /\ ~ next.alive

LEMMA SteadyOnward ==
  ASSUME NEW c, NEW d, Steady(c, d)
  PROVE  Onward(c, d)
  BY DEF Steady, Onward

LEMMA LiveKept ==
  ASSUME Parts, live' = live, conns' \in [Dials -> Conn],
         \A d \in Dials : Steady(conns[d], conns'[d])
  PROVE  LiveMatches'
<1>1. ASSUME NEW s \in Slots
      PROVE  /\ live'[s].state = "Opening" =>
                  /\ live'[s].conn \in Dials /\ conns'[live'[s].conn].dial = "running"
                  /\ conns'[live'[s].conn].slot = s
             /\ live'[s].state = "Up" => live'[s].conn \in Dials
  BY DEF Parts, LiveMatches, Steady
<1>2. ASSUME NEW d \in Dials
      PROVE  /\ conns'[d].dial = "running" => live'[conns'[d].slot] = Opening(d)
             /\ conns'[d].alive => live'[conns'[d].slot] = Up(d) /\ conns'[d].driver = "running"
             /\ conns'[d].dial \in {"none", "running"} => conns'[d].driver = "none"
             /\ conns'[d].dial \in {"up", "opened"} => conns'[d].driver # "none"
  <2>1. Steady(conns[d], conns'[d])
    OBVIOUS
  <2> QED BY <2>1 DEF Parts, LiveMatches, Steady
<1> QED BY <1>1, <1>2 DEF LiveMatches

\* A step keeps the invariant when every caller it does not move keeps the
\* waiters it has.
LEMMA StepKeeps ==
  ASSUME Parts, rotation' \in Sockets, live' \in [Slots -> LiveStates], LiveMatches',
         conns' \in [Dials -> Conn], callers' = [p \in Callers |-> callers'[p]],
         \A d \in Dials : Onward(conns[d], conns'[d]) /\ Honest(conns'[d]),
         \A p \in Callers :
           \/ /\ callers'[p] = callers[p]
              /\ \A d \in Dials : HeldBy(conns[d], p) => HeldBy(conns'[d], p)
           \/ Sound(conns', p, callers'[p]) /\ Covered(conns', p, callers'[p])
  PROVE  Parts'
<1>1. ASSUME NEW p \in Callers
      PROVE  Sound(conns', p, callers'[p]) /\ Covered(conns', p, callers'[p])
  <2>1. CASE /\ callers'[p] = callers[p]
             /\ \A d \in Dials : HeldBy(conns[d], p) => HeldBy(conns'[d], p)
    <3>1. Sound(conns, p, callers[p]) /\ Covered(conns, p, callers[p])
      BY DEF Parts
    <3>2. Sound(conns', p, callers[p])
      BY <3>1, SoundOnward
    <3>3. Covered(conns', p, callers[p])
      BY <2>1, <3>1 DEF Covered, Sound
    <3> QED BY <2>1, <3>2, <3>3
  <2> QED BY <2>1
<1>2. \A p \in Callers : callers'[p] \in Caller
  BY <1>1 DEF Sound
<1>3. callers' \in [Callers -> Caller]
  BY <1>2
<1> QED BY <1>1, <1>3 DEF Parts

\* A step of one caller, over connections that stay what Live takes them for.
LEMMA CallerStepKeeps ==
  ASSUME Parts, NEW q \in Callers, NEW c,
         callers' = [callers EXCEPT ![q] = c], rotation' \in Sockets, live' = live,
         conns' \in [Dials -> Conn],
         \A d \in Dials : Steady(conns[d], conns'[d]) /\ Honest(conns'[d]),
         \A d \in Dials, p \in Callers : p # q /\ HeldBy(conns[d], p) => HeldBy(conns'[d], p),
         Sound(conns', q, c), Covered(conns', q, c)
  PROVE  Parts'
<1>1. LiveMatches' /\ live' \in [Slots -> LiveStates]
  BY LiveKept DEF Parts
<1>2. \A d \in Dials : Onward(conns[d], conns'[d])
  BY SteadyOnward
<1>3. callers' = [p \in Callers |-> callers'[p]] /\ callers'[q] = c
  BY DEF Parts
<1>4. \A p \in Callers : p # q => callers'[p] = callers[p]
  BY DEF Parts
<1> QED BY <1>1, <1>2, <1>3, <1>4, StepKeeps

\* A step of one driver, which tells some callers their answer.
LEMMA DriverStepKeeps ==
  ASSUME Parts, NEW d \in Dials, NEW c, NEW a \in Answer, NEW told \in SUBSET Callers,
         conns' = [conns EXCEPT ![d] = c], rotation' = rotation, live' = live,
         callers' = [p \in Callers |-> IF p \in told THEN [callers[p] EXCEPT !.inbox = a]
                                       ELSE callers[p]],
         Steady(conns[d], c), Honest(c),
         a # Nothing, \A p \in told : a.kind = "reply" => a.question = Asks[p],
         \A p \in Callers : p \notin told /\ HeldBy(conns[d], p) => HeldBy(c, p)
  PROVE  Parts'
<1>1. conns' \in [Dials -> Conn] /\ conns'[d] = c
  BY DEF Parts, Honest
<1>2. ASSUME NEW e \in Dials
      PROVE  Steady(conns[e], conns'[e]) /\ Honest(conns'[e])
  <2>1. CASE e = d
    BY <1>1, <2>1
  <2>2. CASE e # d
    BY <2>2 DEF Parts, Steady
  <2> QED BY <2>1, <2>2
<1>3. LiveMatches' /\ live' \in [Slots -> LiveStates] /\ rotation' \in Sockets
  BY <1>1, <1>2, LiveKept DEF Parts
<1>4. \A e \in Dials : Onward(conns[e], conns'[e])
  BY <1>2, SteadyOnward
<1>5. ASSUME NEW p \in Callers, p \in told
      PROVE  Sound(conns', p, callers'[p]) /\ Covered(conns', p, callers'[p])
  <2>1. Sound(conns, p, callers[p])
    BY DEF Parts
  <2>2. Sound(conns', p, callers[p])
    BY <1>4, <2>1, SoundOnward
  <2>3. callers'[p] = [callers[p] EXCEPT !.inbox = a]
    BY <1>5
  <2> QED BY <1>5, <2>2, <2>3 DEF Sound, Covered, Caller
<1>6. ASSUME NEW p \in Callers, p \notin told
      PROVE  /\ callers'[p] = callers[p]
             /\ \A e \in Dials : HeldBy(conns[e], p) => HeldBy(conns'[e], p)
  <2>1. \A e \in Dials : e # d => conns'[e] = conns[e]
    BY DEF Parts
  <2> QED BY <1>1, <1>6, <2>1
<1>7. callers' = [p \in Callers |-> callers'[p]]
  OBVIOUS
<1> QED BY <1>1, <1>2, <1>3, <1>4, <1>5, <1>6, <1>7, StepKeeps

\* A step of one driver that tells nobody anything.
LEMMA SilentStepKeeps ==
  ASSUME Parts, NEW d \in Dials, NEW c,
         conns' = [conns EXCEPT ![d] = c], rotation' = rotation, live' = live,
         callers' = callers, Steady(conns[d], c), Honest(c),
         \A p \in Callers : HeldBy(conns[d], p) => HeldBy(c, p)
  PROVE  Parts'
<1> DEFINE told == {p \in Callers : FALSE}
<1>1. callers' = [p \in Callers |-> IF p \in told THEN [callers[p] EXCEPT !.inbox = EndedReply]
                                    ELSE callers[p]]
  BY DEF Parts
<1>2. EndedReply \in Answer /\ EndedReply # Nothing
  BY AnswerFacts
<1>3. told \in SUBSET Callers /\ \A p \in told : EndedReply.kind = "reply" => EndedReply.question = Asks[p]
  OBVIOUS
<1>4. \A p \in Callers : p \notin told /\ HeldBy(conns[d], p) => HeldBy(c, p)
  OBVIOUS
<1> HIDE DEF told
<1> QED BY <1>1, <1>2, <1>3, <1>4, DriverStepKeeps

LEMMA ConnsAlone ==
  ASSUME Parts, conns' = conns
  PROVE  /\ conns' \in [Dials -> Conn]
         /\ \A d \in Dials : Steady(conns[d], conns'[d]) /\ Honest(conns'[d])
         /\ \A d \in Dials, p \in Callers : HeldBy(conns[d], p) => HeldBy(conns'[d], p)
  BY DEF Parts, Steady

\* A caller that drops its end closes its own waiters and nobody else's.
LEMMA LetGoFacts ==
  ASSUME Parts, NEW q \in Callers
  PROVE  /\ LetGo(q) \in [Dials -> Conn]
         /\ \A d \in Dials : Steady(conns[d], LetGo(q)[d]) /\ Honest(LetGo(q)[d])
         /\ \A d \in Dials, p \in Callers :
              p # q /\ HeldBy(conns[d], p) => HeldBy(LetGo(q)[d], p)
<1>1. ASSUME NEW w \in Waiter
      PROVE  /\ Shut(q, w) \in Waiter /\ Shut(q, w).caller = w.caller
             /\ Shut(q, w).question = w.question
             /\ \A p \in Callers : p # q /\ OpenFor(p, w) => OpenFor(p, Shut(q, w))
  BY DEF Shut, Waiter, OpenFor
<1>2. ASSUME NEW d \in Dials
      PROVE  /\ LetGo(q)[d] \in Conn /\ Honest(LetGo(q)[d]) /\ Steady(conns[d], LetGo(q)[d])
             /\ \A p \in Callers : p # q /\ HeldBy(conns[d], p) => HeldBy(LetGo(q)[d], p)
  <2> DEFINE queue == [i \in DOMAIN conns[d].queue |-> Shut(q, conns[d].queue[i])]
             pending == [id \in DOMAIN conns[d].pending |-> Shut(q, conns[d].pending[id])]
  <2>1. conns[d] \in Conn /\ Honest(conns[d])
    BY DEF Parts
  <2>2. conns[d].queue \in Seq(Waiter) /\ conns[d].pending \in Tables
    BY <2>1 DEF Conn
  <2>3. \A i \in DOMAIN conns[d].queue : conns[d].queue[i] \in Waiter
    BY <2>2
  <2>4. queue \in Seq(Waiter) /\ DOMAIN queue = DOMAIN conns[d].queue
    BY <1>1, <2>2, <2>3
  <2>5. pending \in [DOMAIN conns[d].pending -> Waiter] /\ DOMAIN conns[d].pending \in SUBSET Ids
    BY <1>1, <2>2, TableFacts
  <2>6. pending \in Tables
    BY <2>5, TableIntro
  <2>7. \A id \in DOMAIN conns[d].pending : conns[d].pending[id] \in Waiter
    BY <2>2, TableFacts
  <2>8. /\ \A i \in DOMAIN queue : queue[i] = Shut(q, conns[d].queue[i])
        /\ \A id \in DOMAIN pending : pending[id] = Shut(q, conns[d].pending[id])
        /\ DOMAIN pending = DOMAIN conns[d].pending
    OBVIOUS
  <2>9. LetGo(q)[d] = [conns[d] EXCEPT !.queue = queue, !.pending = pending]
    BY <2>1 DEF LetGo
  <2> HIDE DEF queue, pending
  <2>10. LetGo(q)[d] \in Conn /\ LetGo(q)[d].queue = queue /\ LetGo(q)[d].pending = pending
    BY <2>1, <2>4, <2>6, <2>9 DEF Conn
  <2>11. Steady(conns[d], LetGo(q)[d])
    BY <2>1, <2>9 DEF Conn, Steady
  <2>12. Honest(LetGo(q)[d])
    BY <1>1, <2>1, <2>3, <2>4, <2>7, <2>8, <2>10 DEF Honest
  <2>13. ASSUME NEW p \in Callers, p # q, HeldBy(conns[d], p)
         PROVE  HeldBy(LetGo(q)[d], p)
    BY <1>1, <2>3, <2>4, <2>7, <2>8, <2>10, <2>13 DEF HeldBy
  <2> QED BY <2>10, <2>11, <2>12, <2>13
<1>3. LetGo(q) = [d \in Dials |-> LetGo(q)[d]]
  BY DEF LetGo
<1> QED BY <1>2, <1>3

-----------------------------------------------------------------------------
(* The callers' steps                                                      *)

LEMMA QueryKeeps ==
  ASSUME Parts, NEW q \in Callers, Query(q)
  PROVE  Parts'
<1> DEFINE c == Attempt(callers[q], "first", rotation)
<1>1. Sound(conns, q, c) /\ c.pc = "get"
  BY AttemptSound, SlotFacts DEF Parts
<1>2. callers' = [callers EXCEPT ![q] = c] /\ rotation' \in Sockets
  BY SlotFacts DEF Query, Rotate, Parts
<1> HIDE DEF c
<1>3. live' = live /\ conns' = conns
  BY DEF Query
<1> QED BY <1>1, <1>2, <1>3, ConnsAlone, CallerStepKeeps DEF Covered

LEMMA RetransmitKeeps ==
  ASSUME Parts, NEW q \in Callers, Retransmit(q)
  PROVE  Parts'
<1> DEFINE c == Attempt(callers[q], "second", rotation)
<1>1. \A f : Sound(f, q, callers[q]) => Sound(f, q, c) /\ c.pc = "get"
  BY AttemptSound, SlotFacts DEF Parts
<1>2. callers' = [callers EXCEPT ![q] = c] /\ rotation' \in Sockets
  BY SlotFacts DEF Retransmit, Rotate, Parts
<1> HIDE DEF c
<1>3. live' = live /\ conns' = LetGo(q)
  BY DEF Retransmit
<1>4. \A d \in Dials : Onward(conns[d], conns'[d])
  BY <1>3, LetGoFacts, SteadyOnward
<1>5. Sound(conns', q, callers[q])
  BY <1>4, SoundOnward DEF Parts
<1> QED BY <1>1, <1>2, <1>3, <1>5, LetGoFacts, CallerStepKeeps DEF Covered

LEMMA TimeOutKeeps ==
  ASSUME Parts, NEW q \in Callers, TimeOut(q)
  PROVE  Parts'
<1> DEFINE c == Done(TimedOut)
<1>1. Sound(conns', q, c) /\ c.pc = "done"
  BY DoneSound, AnswerFacts
<1>2. callers' = [callers EXCEPT ![q] = c] /\ rotation' \in Sockets
  BY DEF TimeOut, Parts
<1> HIDE DEF c
<1>3. live' = live /\ conns' = LetGo(q)
  BY DEF TimeOut
<1> QED BY <1>1, <1>2, <1>3, LetGoFacts, CallerStepKeeps DEF Covered

LEMMA GetUpKeeps ==
  ASSUME Parts, NEW q \in Callers, GetUp(q)
  PROVE  Parts'
<1> DEFINE d == live[callers[q].slot].conn
           c == [callers[q] EXCEPT !.pc = "send", !.conn = d]
<1>1. Sound(conns, q, callers[q]) /\ callers[q].slot \in Slots
  BY DEF Parts, Caller
<1>2. d \in Dials /\ conns[d].driver = "running"
  BY <1>1 DEF Parts, LiveMatches, GetUp, Usable
<1>3. callers' = [callers EXCEPT ![q] = c]
  BY <1>1 DEF GetUp, Parts, Sound, Caller
<1>4. Sound(conns, q, c) /\ c.pc = "send"
  BY <1>1, <1>2 DEF Sound, Caller
<1> HIDE DEF c, d
<1>5. live' = live /\ conns' = conns /\ rotation' \in Sockets
  BY DEF GetUp, Parts
<1> QED BY <1>3, <1>4, <1>5, ConnsAlone, CallerStepKeeps DEF Covered

LEMMA GetOpeningKeeps ==
  ASSUME Parts, NEW q \in Callers, GetOpening(q)
  PROVE  Parts'
<1> DEFINE d == live[callers[q].slot].conn
           c == [callers[q] EXCEPT !.pc = "wait", !.conn = d]
<1>1. Sound(conns, q, callers[q]) /\ callers[q].slot \in Slots
  BY DEF Parts, Caller
<1>2. d \in Dials /\ conns[d].driver = "none"
  BY <1>1 DEF Parts, LiveMatches, GetOpening, Joins
<1>3. callers' = [callers EXCEPT ![q] = c]
  BY <1>1 DEF GetOpening, Parts, Sound, Caller
<1>4. Sound(conns, q, c) /\ c.pc = "wait"
  BY <1>1, <1>2 DEF Sound, Caller
<1> HIDE DEF c, d
<1>5. live' = live /\ conns' = conns /\ rotation' \in Sockets
  BY DEF GetOpening, Parts
<1> QED BY <1>3, <1>4, <1>5, ConnsAlone, CallerStepKeeps DEF Covered

LEMMA WaitedKeeps ==
  ASSUME Parts, NEW q \in Callers, Waited(q)
  PROVE  Parts'
<1>1. Sound(conns, q, callers[q]) /\ callers[q].conn \in Dials
  BY DEF Parts, Sound, Waited
<1>2. live' = live /\ conns' = conns /\ rotation' \in Sockets
  BY DEF Waited, Parts
<1>3. PICK c : callers' = [callers EXCEPT ![q] = c] /\ Sound(conns, q, c) /\ c.pc # "await"
  <2>1. CASE conns[callers[q].conn].dial = "opened" /\ callers' = [callers EXCEPT ![q].pc = "send"]
    <3> DEFINE b == [callers[q] EXCEPT !.pc = "send"]
    <3>1. Sound(conns, q, b) /\ b.pc # "await"
      BY <1>1, <2>1 DEF Sound, Caller, Parts, LiveMatches, Waited
    <3>2. callers' = [callers EXCEPT ![q] = b]
      BY <2>1 DEF Parts
    <3> QED BY <3>1, <3>2
  <2>2. CASE callers' = [callers EXCEPT ![q] = DoneFailed(callers[q])]
    BY <1>1, <2>2, DoneFailedSound
  <2> QED BY <2>1, <2>2 DEF Waited
<1> QED BY <1>2, <1>3, ConnsAlone, CallerStepKeeps DEF Covered

LEMMA ResumeKeeps ==
  ASSUME Parts, NEW q \in Callers, Resume(q)
  PROVE  Parts'
<1> DEFINE c == IF callers[q].inbox = EndedReply THEN Retried(callers[q])
                ELSE Answered(callers[q], callers[q].inbox)
<1>1. Sound(conns, q, callers[q]) /\ callers[q].pc = "await" /\ conns \in [Dials -> Conn]
  BY DEF Parts, Resume
<1>2. /\ callers[q].inbox \in Answer
      /\ callers[q].inbox.kind = "reply" => callers[q].inbox.question = Asks[q]
  BY <1>1 DEF Sound, Caller
<1>3. Sound(conns, q, c) /\ c.pc # "await"
  BY <1>1, <1>2, RetriedSound, AnsweredSound
<1>4. callers' = [callers EXCEPT ![q] = c]
  BY DEF Resume, Parts
<1> HIDE DEF c
<1>5. live' = live /\ conns' = conns /\ rotation' \in Sockets
  BY DEF Resume, Parts
<1> QED BY <1>3, <1>4, <1>5, ConnsAlone, CallerStepKeeps DEF Covered

LEMMA SendKeeps ==
  ASSUME Parts, NEW q \in Callers, Send(q)
  PROVE  Parts'
<1> DEFINE d == callers[q].conn
           w == WaiterOf(q)
<1>1. /\ Sound(conns, q, callers[q]) /\ callers[q].pc = "send" /\ d \in Dials
      /\ live' = live /\ rotation' \in Sockets /\ conns \in [Dials -> Conn]
  BY DEF Parts, Send, Sound
<1>2. CASE /\ conns' = [conns EXCEPT ![d].queue = Append(conns[d].queue, w)]
           /\ callers' = [callers EXCEPT ![q].pc = "await"]
  <2> DEFINE queue == Append(conns[d].queue, w)
             conn == [conns[d] EXCEPT !.queue = queue]
             c == [callers[q] EXCEPT !.pc = "await"]
  <2>1. w \in Waiter /\ w.question = Asks[w.caller] /\ OpenFor(q, w)
    BY DEF WaiterOf, Waiter, Questions, OpenFor
  <2>2. conns[d] \in Conn /\ conns[d].queue \in Seq(Waiter) /\ Honest(conns[d])
    BY <1>1 DEF Parts, Conn
  <2> HIDE DEF w, d
  <2>3. /\ queue \in Seq(Waiter) /\ DOMAIN queue = 1 .. Len(conns[d].queue) + 1
        /\ queue[Len(conns[d].queue) + 1] = w
        /\ \A i \in DOMAIN conns[d].queue : i \in DOMAIN queue /\ queue[i] = conns[d].queue[i]
        /\ \A i \in DOMAIN queue : queue[i] = w \/ i \in DOMAIN conns[d].queue
    BY <2>1, <2>2
  <2>4. Len(conns[d].queue) + 1 \in DOMAIN queue
    BY <2>2, <2>3
  <2> HIDE DEF queue
  <2>5. conn \in Conn /\ conn.queue = queue /\ conn.pending = conns[d].pending
    BY <2>2, <2>3 DEF Conn
  <2>6. Steady(conns[d], conn)
    BY <2>2 DEF Conn, Steady
  <2>7. Honest(conn)
    BY <2>1, <2>2, <2>3, <2>5 DEF Honest
  <2>8. HeldBy(conn, q) /\ \A p \in Callers : HeldBy(conns[d], p) => HeldBy(conn, p)
    BY <2>1, <2>3, <2>4, <2>5 DEF HeldBy
  <2>9. conns' = [conns EXCEPT ![d] = conn]
    BY <1>1, <1>2 DEF queue, w
  <2> HIDE DEF conn
  <2>10. \A e \in Dials : conns'[e] = IF e = d THEN conn ELSE conns[e]
    BY <1>1, <2>9
  <2>11. conns' \in [Dials -> Conn]
    BY <1>1, <2>5, <2>9
  <2>12. \A e \in Dials : Steady(conns[e], conns'[e]) /\ Honest(conns'[e])
    BY <2>6, <2>7, <2>10 DEF Parts, Steady
  <2>13. \A e \in Dials, p \in Callers : HeldBy(conns[e], p) => HeldBy(conns'[e], p)
    BY <2>8, <2>10
  <2>14. \A e \in Dials : Onward(conns[e], conns'[e])
    BY <2>12, SteadyOnward
  <2>15. Sound(conns', q, callers[q])
    BY <1>1, <2>14, SoundOnward
  <2>16. Sound(conns', q, c) /\ c.conn = d
    BY <1>1, <2>15 DEF Sound, Caller, d
  <2>17. Covered(conns', q, c)
    BY <1>1, <2>8, <2>10, <2>16 DEF Covered
  <2>18. callers' = [callers EXCEPT ![q] = c]
    BY <1>2 DEF Parts, d
  <2> HIDE DEF c
  <2> QED BY <1>1, <2>11, <2>12, <2>13, <2>16, <2>17, <2>18, CallerStepKeeps
<1>3. CASE callers' = [callers EXCEPT ![q] = Retried(callers[q])] /\ UNCHANGED conns
  <2>1. Sound(conns, q, Retried(callers[q])) /\ Retried(callers[q]).pc # "await"
    BY <1>1, RetriedSound
  <2> QED BY <1>1, <1>3, <2>1, ConnsAlone, CallerStepKeeps DEF Covered
<1> QED BY <1>2, <1>3 DEF Send

-----------------------------------------------------------------------------
(* Steps that change what a slot holds                                     *)

LEMMA GetDialKeeps ==
  ASSUME Parts, NEW q \in Callers, GetDial(q)
  PROVE  Parts'
<1> DEFINE s == callers[q].slot
           c(d) == [callers[q] EXCEPT !.pc = "wait", !.conn = d]
           conn(d) == [conns[d] EXCEPT !.dial = "running", !.slot = s]
<1>1. /\ Sound(conns, q, callers[q]) /\ callers[q].pc = "get" /\ s \in Slots
      /\ conns \in [Dials -> Conn] /\ live \in [Slots -> LiveStates]
      /\ rotation' \in Sockets /\ Starts(live[s])
  BY DEF Parts, GetDial, Caller
<1>2. PICK d \in Dials :
        /\ conns[d].dial = "none"
        /\ conns' = [conns EXCEPT ![d].dial = "running", ![d].slot = s]
        /\ live' = [live EXCEPT ![s] = Opening(d)]
        /\ callers' = [callers EXCEPT ![q].pc = "wait", ![q].conn = d]
  BY DEF GetDial
<1>3. conns[d] \in Conn /\ Honest(conns[d]) /\ conns[d].driver = "none" /\ ~ conns[d].alive
  BY <1>1, <1>2 DEF Parts, LiveMatches, Conn
<1>4. conns' = [conns EXCEPT ![d] = conn(d)]
  BY <1>1, <1>2
<1>5. callers' = [callers EXCEPT ![q] = c(d)]
  BY <1>2 DEF Parts
<1>6. /\ conn(d) \in Conn /\ conn(d).dial = "running" /\ conn(d).slot = s
      /\ conn(d).driver = "none" /\ ~ conn(d).alive
      /\ conn(d).queue = conns[d].queue /\ conn(d).pending = conns[d].pending
  BY <1>1, <1>3 DEF Conn
<1>7. Sound(conns, q, c(d)) /\ c(d).pc = "wait"
  BY <1>1, <1>3 DEF Sound, Caller
<1> HIDE DEF c, conn
<1>8. \A e \in Dials : conns'[e] = IF e = d THEN conn(d) ELSE conns[e]
  BY <1>1, <1>4
<1>9. conns' \in [Dials -> Conn]
  BY <1>1, <1>4, <1>6
<1>10. \A e \in Dials : Onward(conns[e], conns'[e]) /\ Honest(conns'[e])
  <2>1. Onward(conns[d], conn(d)) /\ Honest(conn(d))
    BY <1>3, <1>6 DEF Onward, Honest
  <2>2. \A e \in Dials : Onward(conns[e], conns[e]) /\ Honest(conns[e])
    BY DEF Parts, Onward
  <2> QED BY <1>8, <2>1, <2>2
<1>11. \A e \in Dials, p \in Callers : HeldBy(conns[e], p) => HeldBy(conns'[e], p)
  BY <1>6, <1>8 DEF HeldBy
<1>12. live' \in [Slots -> LiveStates] /\ \A t \in Slots : live'[t] = IF t = s THEN Opening(d) ELSE live[t]
  BY <1>1, <1>2 DEF LiveStates, Opening
<1>13. LiveMatches'
  <2>1. ASSUME NEW t \in Slots
        PROVE  /\ live'[t].state = "Opening" =>
                    /\ live'[t].conn \in Dials /\ conns'[live'[t].conn].dial = "running"
                    /\ conns'[live'[t].conn].slot = t
               /\ live'[t].state = "Up" => live'[t].conn \in Dials
    BY <1>2, <1>6, <1>8, <1>12 DEF Parts, LiveMatches, Opening
  <2>2. ASSUME NEW e \in Dials
        PROVE  /\ conns'[e].dial = "running" => live'[conns'[e].slot] = Opening(e)
               /\ conns'[e].alive => live'[conns'[e].slot] = Up(e) /\ conns'[e].driver = "running"
               /\ conns'[e].dial \in {"none", "running"} => conns'[e].driver = "none"
               /\ conns'[e].dial \in {"up", "opened"} => conns'[e].driver # "none"
    <3>1. CASE e = d
      BY <1>1, <1>6, <1>8, <1>12, <3>1
    <3>2. CASE e # d
      <4>1. conns[e].slot \in Slots /\ conns'[e] = conns[e]
        BY <1>1, <1>8, <3>2 DEF Conn
      <4>2. conns[e].dial = "running" => conns[e].slot # s
        <5>1. conns[e].dial = "running" => live[conns[e].slot] = Opening(e)
          BY DEF Parts, LiveMatches
        <5>2. live[s].state # "Opening"
          BY <1>1 DEF Starts, Joins
        <5>3. Opening(e).state = "Opening"
          BY StateFacts
        <5> QED BY <5>1, <5>2, <5>3
      <4>3. conns[e].alive => conns[e].slot # s
        <5>1. conns[e].alive => live[conns[e].slot] = Up(e)
          BY DEF Parts, LiveMatches
        <5>2. ~ (live[s].state = "Up" /\ conns[live[s].conn].alive)
          BY <1>1 DEF Starts, Usable
        <5>3. Up(e).state = "Up" /\ Up(e).conn = e
          BY StateFacts
        <5> QED BY <5>1, <5>2, <5>3
      <4>4. /\ conns[e].dial = "running" => live[conns[e].slot] = Opening(e)
            /\ conns[e].alive => live[conns[e].slot] = Up(e) /\ conns[e].driver = "running"
            /\ conns[e].dial \in {"none", "running"} => conns[e].driver = "none"
            /\ conns[e].dial \in {"up", "opened"} => conns[e].driver # "none"
        BY DEF Parts, LiveMatches
      <4>5. conns[e].slot # s => live'[conns[e].slot] = live[conns[e].slot]
        BY <1>12, <4>1
      <4> QED BY <4>1, <4>2, <4>3, <4>4, <4>5
    <3> QED BY <3>1, <3>2
  <2> QED BY <2>1, <2>2 DEF LiveMatches
<1>14. Sound(conns', q, c(d)) /\ Covered(conns', q, c(d))
  BY <1>7, <1>10, SoundOnward DEF Covered
<1>15. /\ callers' = [p \in Callers |-> callers'[p]] /\ callers'[q] = c(d)
       /\ \A p \in Callers : p # q => callers'[p] = callers[p]
  BY <1>5 DEF Parts
<1> QED BY <1>1, <1>9, <1>10, <1>11, <1>12, <1>13, <1>14, <1>15, StepKeeps

\* A dial that finishes, whichever way, empties or fills its own slot.
LEMMA DialEndKeeps ==
  ASSUME Parts, NEW d \in Dials, conns[d].dial = "running", NEW c \in Conn, NEW l \in {Up(d), Down},
         conns' = [conns EXCEPT ![d] = c], live' = [live EXCEPT ![conns[d].slot] = l],
         rotation' = rotation, callers' = callers,
         c.slot = conns[d].slot, c.queue = conns[d].queue, c.pending = conns[d].pending,
         \/ l = Up(d) /\ c.dial = "up" /\ c.driver = "running"
         \/ l = Down /\ c.dial = "down" /\ ~ c.alive
  PROVE  Parts'
<1>1. /\ conns \in [Dials -> Conn] /\ conns[d].slot \in Slots /\ Honest(conns[d])
      /\ live \in [Slots -> LiveStates] /\ conns[d].driver = "none"
  BY DEF Parts, Conn, LiveMatches
<1>2. \A e \in Dials : conns'[e] = IF e = d THEN c ELSE conns[e]
  BY <1>1
<1>3. conns' \in [Dials -> Conn]
  BY <1>1
<1>4. \A e \in Dials : Onward(conns[e], conns'[e]) /\ Honest(conns'[e])
  BY <1>1, <1>2, ZenonT(60) DEF Parts, Onward, Honest
<1>5. \A e \in Dials, p \in Callers : HeldBy(conns[e], p) => HeldBy(conns'[e], p)
  BY <1>2 DEF HeldBy
<1>6. /\ live' \in [Slots -> LiveStates]
      /\ \A t \in Slots : live'[t] = IF t = conns[d].slot THEN l ELSE live[t]
  BY <1>1 DEF LiveStates, Up, Down
<1>7. LiveMatches'
  <2>1. ASSUME NEW t \in Slots
        PROVE  /\ live'[t].state = "Opening" =>
                    /\ live'[t].conn \in Dials /\ conns'[live'[t].conn].dial = "running"
                    /\ conns'[live'[t].conn].slot = t
               /\ live'[t].state = "Up" => live'[t].conn \in Dials
    <3>1. CASE t = conns[d].slot
      BY <1>6, <3>1 DEF Up, Down
    <3>2. CASE t # conns[d].slot
      <4>1. live'[t] = live[t]
        BY <1>6, <3>2
      <4>2. live[t].state = "Opening" =>
              /\ live[t].conn \in Dials /\ conns[live[t].conn].dial = "running"
              /\ conns[live[t].conn].slot = t
        BY DEF Parts, LiveMatches
      <4>3. live[t].state = "Opening" => live[t].conn # d
        BY <3>2, <4>2
      <4> QED BY <1>2, <4>1, <4>2, <4>3 DEF Parts, LiveMatches
    <3> QED BY <3>1, <3>2
  <2>2. ASSUME NEW e \in Dials
        PROVE  /\ conns'[e].dial = "running" => live'[conns'[e].slot] = Opening(e)
               /\ conns'[e].alive => live'[conns'[e].slot] = Up(e) /\ conns'[e].driver = "running"
               /\ conns'[e].dial \in {"none", "running"} => conns'[e].driver = "none"
               /\ conns'[e].dial \in {"up", "opened"} => conns'[e].driver # "none"
    <3>1. CASE e = d
      BY <1>1, <1>2, <1>6, <3>1
    <3>2. CASE e # d
      <4>1. conns[e].slot \in Slots /\ conns'[e] = conns[e] /\ live[conns[d].slot] = Opening(d)
        BY <1>1, <1>2, <3>2, ZenonT(60) DEF Conn, Parts, LiveMatches
      <4>2. conns[e].dial = "running" \/ conns[e].alive => conns[e].slot # conns[d].slot
        BY <3>2, <4>1, StateFacts DEF Parts, LiveMatches
      <4> QED BY <1>6, <4>1, <4>2 DEF Parts, LiveMatches
    <3> QED BY <3>1, <3>2
  <2> QED BY <2>1, <2>2 DEF LiveMatches
<1>8. rotation' \in Sockets /\ callers' = [p \in Callers |-> callers'[p]]
  BY DEF Parts
<1> QED BY <1>3, <1>4, <1>5, <1>6, <1>7, <1>8, StepKeeps

LEMMA DialStepKeeps ==
  ASSUME Parts, NEW d \in Dials, DialStep(d)
  PROVE  Parts'
<1>1. conns[d] \in Conn /\ conns \in [Dials -> Conn] /\ Honest(conns[d])
  BY DEF Parts
<1>2. CASE DialOpened(d)
  <2>1. PICK id \in Ids :
          conns' = [conns EXCEPT ![d].dial = "up", ![d].driver = "running",
                                 ![d].alive = TRUE, ![d].next = id]
    BY <1>2 DEF DialOpened
  <2> DEFINE c == [conns[d] EXCEPT !.dial = "up", !.driver = "running",
                                   !.alive = TRUE, !.next = id]
  <2>2. conns' = [conns EXCEPT ![d] = c]
    BY <1>1, <2>1
  <2>3. /\ c \in Conn /\ c.slot = conns[d].slot /\ c.dial = "up" /\ c.driver = "running"
        /\ c.queue = conns[d].queue /\ c.pending = conns[d].pending
    BY <1>1 DEF Conn
  <2> HIDE DEF c
  <2>4. /\ conns[d].dial = "running" /\ live' = [live EXCEPT ![conns[d].slot] = Up(d)]
        /\ rotation' = rotation /\ callers' = callers
    BY <1>2 DEF DialOpened
  <2> QED BY <2>2, <2>3, <2>4, DialEndKeeps
<1>3. CASE DialFailed(d)
  <2> DEFINE c == [conns[d] EXCEPT !.dial = "down"]
  <2>1. conns' = [conns EXCEPT ![d] = c]
    BY <1>1, <1>3 DEF DialFailed
  <2>2. ~ conns[d].alive
    BY <1>3 DEF DialFailed, Parts, LiveMatches
  <2>3. /\ c \in Conn /\ c.slot = conns[d].slot /\ c.dial = "down" /\ ~ c.alive
        /\ c.queue = conns[d].queue /\ c.pending = conns[d].pending
    BY <1>1, <2>2 DEF Conn
  <2> HIDE DEF c
  <2>4. /\ conns[d].dial = "running" /\ live' = [live EXCEPT ![conns[d].slot] = Down]
        /\ rotation' = rotation /\ callers' = callers
    BY <1>3 DEF DialFailed
  <2> QED BY <2>1, <2>3, <2>4, DialEndKeeps
<1>4. CASE DialReport(d)
  <2>1. PICK to \in {"opened", "refused"} :
          /\ conns' = [conns EXCEPT ![d].dial = to]
          /\ conns[d].dial = IF to = "opened" THEN "up" ELSE "down"
    BY <1>4 DEF DialReport
  <2> DEFINE c == [conns[d] EXCEPT !.dial = to]
  <2>2. conns' = [conns EXCEPT ![d] = c]
    BY <1>1, <2>1
  <2>3. Steady(conns[d], c)
    BY <1>1, <2>1 DEF Conn, Steady
  <2>4. c \in Conn /\ c.queue = conns[d].queue /\ c.pending = conns[d].pending
    BY <1>1 DEF Conn
  <2>5. Honest(c) /\ \A p \in Callers : HeldBy(conns[d], p) => HeldBy(c, p)
    BY <1>1, <2>4 DEF Honest, HeldBy
  <2> HIDE DEF c
  <2>6. rotation' = rotation /\ live' = live /\ callers' = callers
    BY <1>4 DEF DialReport
  <2> QED BY <2>2, <2>3, <2>5, <2>6, SilentStepKeeps
<1> QED BY <1>2, <1>3, <1>4 DEF DialStep

-----------------------------------------------------------------------------
(* The driver's steps                                                      *)

\* A request leaves the queue: refused, or pending under a fresh id.
LEMMA RequestKeeps ==
  ASSUME Parts, NEW d \in Dials, DriveRequest(d)
  PROVE  Parts'
<1> DEFINE q == conns[d].queue
           w == Head(q)
           p == Swept(conns[d].pending)
           taken == [conns[d] EXCEPT !.queue = Tail(q), !.pending = p]
<1>1. /\ conns[d] \in Conn /\ conns \in [Dials -> Conn] /\ Honest(conns[d])
      /\ conns[d].driver = "running" /\ conns[d].next \in Ids
      /\ conns[d].pending \in Tables /\ q \in Seq(Waiter) /\ q # <<>>
      /\ rotation' = rotation /\ live' = live
  BY DEF Parts, DriveRequest, Running, Conn
<1>2. /\ w \in Waiter /\ w = q[1] /\ 1 \in DOMAIN q /\ Tail(q) \in Seq(Waiter)
      /\ DOMAIN Tail(q) = 1 .. Len(q) - 1
      /\ \A i \in DOMAIN Tail(q) : i + 1 \in DOMAIN q /\ Tail(q)[i] = q[i + 1]
      /\ \A i \in DOMAIN q : i # 1 => i - 1 \in DOMAIN Tail(q) /\ Tail(q)[i - 1] = q[i]
  BY <1>1
<1>3. w.question = Asks[w.caller] /\ w.caller \in Callers /\ w.question \in Questions
  BY <1>1, <1>2 DEF Honest, Waiter
<1>4. /\ p \in Tables
      /\ \A id \in DOMAIN p : id \in DOMAIN conns[d].pending /\ p[id] = conns[d].pending[id]
      /\ \A id \in DOMAIN conns[d].pending : conns[d].pending[id].open => id \in DOMAIN p
  BY <1>1, SweptFacts
<1>5. taken \in Conn /\ taken.queue = Tail(q) /\ taken.pending = p
  BY <1>1, <1>2, <1>4 DEF Conn
<1>6. Steady(conns[d], taken) /\ taken.driver = "running"
  BY <1>1 DEF Conn, Steady
<1>7. Honest(taken)
  BY <1>1, <1>2, <1>4, <1>5 DEF Honest
<1> DEFINE Sent(id) ==
             [taken EXCEPT !.pending = Admitted(taken.pending, id, w), !.next = (id + 1) % IdSpace,
                           !.wire = taken.wire \union {[id |-> id, question |-> w.question]}]
<1>8. \/ conns' = [conns EXCEPT ![d] = taken] /\ callers' = Told({w}, EndedReply)
      \/ /\ \E id \in FreshIds(taken.pending, conns[d].next) :
              \/ conns' = [conns EXCEPT ![d] = Sent(id)]
              \/ conns' = [conns EXCEPT ![d] = Broken(Sent(id))]
         /\ callers' = callers
  BY <1>1 DEF DriveRequest
<1>9. ASSUME NEW x \in Callers, HeldBy(conns[d], x)
      PROVE  OpenFor(x, w) \/ HeldBy(taken, x)
  <2>1. CASE \E i \in DOMAIN q : OpenFor(x, q[i])
    <3>1. PICK i \in DOMAIN q : OpenFor(x, q[i])
      BY <2>1
    <3> QED BY <1>2, <1>5, <3>1, ZenonT(60) DEF HeldBy
  <2>2. CASE \E id \in DOMAIN conns[d].pending : OpenFor(x, conns[d].pending[id])
    BY <1>4, <1>5, <2>2 DEF HeldBy, OpenFor
  <2> QED BY <1>9, <2>1, <2>2 DEF HeldBy
<1> HIDE DEF taken, w, p, q
<1>10. CASE conns' = [conns EXCEPT ![d] = taken] /\ callers' = Told({w}, EndedReply)
  <2> DEFINE told == {x \in Callers : OpenFor(x, w)}
  <2>1. callers' = [x \in Callers |-> IF x \in told THEN [callers[x] EXCEPT !.inbox = EndedReply]
                                      ELSE callers[x]]
    BY <1>10 DEF Told
  <2>2. told \in SUBSET Callers /\ \A x \in Callers : x \notin told => ~ OpenFor(x, w)
    OBVIOUS
  <2>3. \A x \in Callers : x \notin told /\ HeldBy(conns[d], x) => HeldBy(taken, x)
    BY <1>9, <2>2
  <2>4. EndedReply \in Answer /\ EndedReply # Nothing /\ EndedReply.kind # "reply"
    BY AnswerFacts
  <2> HIDE DEF told
  <2> QED BY <1>1, <1>6, <1>7, <1>10, <2>1, <2>2, <2>3, <2>4, DriverStepKeeps
<1>11. ASSUME NEW id \in FreshIds(taken.pending, conns[d].next), callers' = callers,
              \/ conns' = [conns EXCEPT ![d] = Sent(id)]
              \/ conns' = [conns EXCEPT ![d] = Broken(Sent(id))]
       PROVE  Parts'
  <2> DEFINE t == Admitted(p, id, w)
             m == [id |-> id, question |-> w.question]
             n == (id + 1) % IdSpace
             sent == Sent(id)
             broken == Broken(sent)
  <2>1. id \in Ids /\ (id \in DOMAIN p => ~ p[id].open)
    BY <1>1, <1>4, <1>5, <1>11, FreshFacts
  <2>2. /\ t \in Tables /\ DOMAIN t = DOMAIN p \union {id} /\ t[id] = w
        /\ \A i \in DOMAIN p : i # id => t[i] = p[i]
    <3>1. w \in Waiter /\ p \in Tables
      BY <1>2, <1>4
    <3> QED BY <2>1, <3>1, AdmittedFacts
  <2>3. n \in Ids /\ m \in Message
    <3>1. id + 1 \in Nat
      BY <2>1 DEF Ids
    <3> QED BY <1>3, <2>1, <3>1, IdFacts DEF Message
  <2> HIDE DEF t, m, n
  <2>4. sent = [taken EXCEPT !.pending = t, !.next = n, !.wire = taken.wire \union {m}]
    BY <1>5 DEF t, m, n
  <2> HIDE DEF sent
  <2>5. /\ sent \in Conn /\ sent.pending = t /\ sent.queue = taken.queue /\ sent.slot = taken.slot
        /\ sent.dial = taken.dial /\ sent.driver = taken.driver /\ sent.alive = taken.alive
    BY <1>5, <2>2, <2>3, <2>4 DEF Conn
  <2>6. Steady(conns[d], sent) /\ Honest(sent)
    <3>1. Steady(conns[d], sent)
      BY <1>6, <2>5 DEF Steady
    <3>2. \A i \in DOMAIN t : t[i] = w \/ (i \in DOMAIN p /\ t[i] = p[i])
      BY <2>2
    <3> QED BY <1>3, <1>5, <1>7, <2>5, <3>1, <3>2 DEF Honest
  <2>7. ASSUME NEW x \in Callers, HeldBy(conns[d], x)
        PROVE  HeldBy(sent, x)
    <3>1. CASE OpenFor(x, w)
      BY <2>2, <2>5, <3>1 DEF HeldBy
    <3>2. CASE HeldBy(taken, x)
      BY <1>5, <2>1, <2>2, <2>5, <3>2 DEF HeldBy, OpenFor
    <3> QED BY <1>9, <2>7, <3>1, <3>2
  <2>8. /\ broken \in Conn /\ broken.pending = sent.pending /\ broken.queue = sent.queue
        /\ Steady(conns[d], broken)
    BY <1>1, <1>6, <2>5, <2>6 DEF Conn, Broken, Steady
  <2> HIDE DEF broken
  <2>9. Honest(broken) /\ \A x \in Callers : HeldBy(conns[d], x) => HeldBy(broken, x)
    BY <2>6, <2>7, <2>8 DEF Honest, HeldBy
  <2>10. CASE conns' = [conns EXCEPT ![d] = sent]
    BY <1>1, <1>11, <2>6, <2>7, <2>10, SilentStepKeeps
  <2>11. CASE conns' = [conns EXCEPT ![d] = broken]
    BY <1>1, <1>11, <2>8, <2>9, <2>11, SilentStepKeeps
  <2> QED BY <1>11, <2>10, <2>11 DEF sent, broken
<1> QED BY <1>8, <1>10, <1>11

LEMMA ReplyKeeps ==
  ASSUME Parts, NEW d \in Dials, DriveReply(d)
  PROVE  Parts'
<1>1. /\ conns[d] \in Conn /\ conns \in [Dials -> Conn] /\ Honest(conns[d])
      /\ conns[d].pending \in Tables /\ conns[d].wire \in SUBSET Message
      /\ rotation' = rotation /\ live' = live
  BY DEF Parts, DriveReply, Conn
<1>2. PICK m \in conns[d].wire, truncated \in BOOLEAN :
        /\ conns' = [conns EXCEPT ![d].pending = KeptBy(conns[d].pending, m)]
        /\ callers' = IF Claims(conns[d].pending, m)
                      THEN Told({conns[d].pending[m.id]}, Reply(m.question, truncated))
                      ELSE callers
  BY <1>1 DEF DriveReply
<1>3. m.question \in Questions
  BY <1>1 DEF Message
<1> DEFINE p == conns[d].pending
           kept == KeptBy(p, m)
           w == p[m.id]
           a == Reply(m.question, truncated)
           c == [conns[d] EXCEPT !.pending = kept]
<1>4. conns' = [conns EXCEPT ![d] = c]
  BY <1>1, <1>2
<1>5. /\ kept \in Tables
      /\ \A id \in DOMAIN kept : id \in DOMAIN p /\ kept[id] = p[id]
      /\ \A id \in DOMAIN p : id \in DOMAIN kept \/ (Claims(p, m) /\ id = m.id)
  BY <1>1, KeptFacts
<1> HIDE DEF kept
<1>6. c \in Conn /\ c.queue = conns[d].queue /\ c.pending = kept /\ Steady(conns[d], c)
  BY <1>1, <1>5 DEF Conn, Steady
<1> HIDE DEF c
<1>7. Honest(c)
  BY <1>1, <1>5, <1>6 DEF Honest
<1>8. ASSUME NEW x \in Callers, HeldBy(conns[d], x)
      PROVE  HeldBy(c, x) \/ (Claims(p, m) /\ OpenFor(x, w))
  BY <1>5, <1>6, <1>8 DEF HeldBy
<1>9. CASE Claims(p, m)
  <2> DEFINE told == {x \in Callers : OpenFor(x, w)}
  <2>1. a \in Answer /\ a # Nothing /\ a.question = m.question
    BY <1>3, AnswerFacts
  <2>2. w.question = m.question /\ w.question = Asks[w.caller]
    BY <1>1, <1>9 DEF Claims, Honest
  <2> HIDE DEF a, w
  <2>3. callers' = [x \in Callers |-> IF x \in told THEN [callers[x] EXCEPT !.inbox = a]
                                      ELSE callers[x]]
    BY <1>2, <1>9 DEF Told, a, w
  <2>4. \A x \in told : a.kind = "reply" => a.question = Asks[x]
    BY <2>1, <2>2 DEF OpenFor
  <2>5. \A x \in Callers : x \notin told /\ HeldBy(conns[d], x) => HeldBy(c, x)
    BY <1>8
  <2> QED BY <1>1, <1>4, <1>6, <1>7, <2>1, <2>3, <2>4, <2>5, DriverStepKeeps
<1>10. CASE ~ Claims(p, m)
  BY <1>1, <1>2, <1>4, <1>6, <1>7, <1>8, <1>10, SilentStepKeeps
<1> QED BY <1>9, <1>10

LEMMA SweepKeeps ==
  ASSUME Parts, NEW d \in Dials, DriveSweep(d)
  PROVE  Parts'
<1> DEFINE kept == Sweep(conns[d].pending)
           c == [conns[d] EXCEPT !.pending = kept]
<1>1. /\ conns[d] \in Conn /\ conns \in [Dials -> Conn] /\ Honest(conns[d])
      /\ conns[d].pending \in Tables
      /\ rotation' = rotation /\ live' = live /\ callers' = callers
  BY DEF Parts, DriveSweep, Conn
<1>2. conns' = [conns EXCEPT ![d] = c]
  BY <1>1 DEF DriveSweep
<1>3. /\ kept \in Tables
      /\ \A id \in DOMAIN kept : id \in DOMAIN conns[d].pending /\ kept[id] = conns[d].pending[id]
      /\ \A id \in DOMAIN conns[d].pending : conns[d].pending[id].open => id \in DOMAIN kept
  <2>1. kept \in Tables /\ DOMAIN kept = {id \in DOMAIN conns[d].pending : conns[d].pending[id].open}
    BY <1>1, SweepFacts
  <2>2. \A id \in DOMAIN kept : id \in DOMAIN conns[d].pending /\ kept[id] = conns[d].pending[id]
    BY <1>1, SweepFacts
  <2> QED BY <2>1, <2>2
<1> HIDE DEF kept
<1>4. c \in Conn /\ c.queue = conns[d].queue /\ c.pending = kept /\ Steady(conns[d], c)
  BY <1>1, <1>3 DEF Conn, Steady
<1> HIDE DEF c
<1>5. Honest(c) /\ \A x \in Callers : HeldBy(conns[d], x) => HeldBy(c, x)
  BY <1>1, <1>3, <1>4 DEF Honest, HeldBy, OpenFor
<1> QED BY <1>1, <1>2, <1>4, <1>5, SilentStepKeeps

LEMMA EndKeeps ==
  ASSUME Parts, NEW d \in Dials, End(d)
  PROVE  Parts'
<1> DEFINE c == Broken(conns[d])
<1>1. /\ conns[d] \in Conn /\ Honest(conns[d]) /\ conns[d].driver = "running"
      /\ rotation' = rotation /\ live' = live /\ callers' = callers
      /\ conns' = [conns EXCEPT ![d] = c]
  BY DEF Parts, End, Running
<1>2. /\ c \in Conn /\ c.queue = conns[d].queue /\ c.pending = conns[d].pending
      /\ Steady(conns[d], c)
  BY <1>1 DEF Conn, Broken, Steady
<1> HIDE DEF c
<1>3. Honest(c) /\ \A x \in Callers : HeldBy(conns[d], x) => HeldBy(c, x)
  BY <1>1, <1>2 DEF Honest, HeldBy
<1> QED BY <1>1, <1>2, <1>3, SilentStepKeeps

LEMMA DropKeeps ==
  ASSUME Parts, NEW d \in Dials, DriveDrop(d)
  PROVE  Parts'
<1> DEFINE c == [conns[d] EXCEPT !.driver = "gone", !.queue = <<>>,
                                 !.pending = NoWaiters, !.next = 0, !.wire = {}]
           told == {x \in Callers : \E w \in WaitersOf(d) : OpenFor(x, w)}
<1>1. /\ conns[d] \in Conn /\ conns \in [Dials -> Conn] /\ conns[d].driver = "ending"
      /\ conns[d].queue \in Seq(Waiter) /\ rotation' = rotation /\ live' = live
  BY DEF Parts, DriveDrop, Conn
<1>2. conns' = [conns EXCEPT ![d] = c]
  BY <1>1 DEF DriveDrop
<1>3. NoWaiters \in Tables /\ DOMAIN NoWaiters = {} /\ <<>> \in Seq(Waiter) /\ 0 \in Ids
  BY IdFacts DEF NoWaiters, Tables
<1>4. ~ conns[d].alive
  BY <1>1 DEF Parts, LiveMatches
<1>5. c \in Conn /\ c.queue = <<>> /\ c.pending = NoWaiters /\ Steady(conns[d], c)
  BY <1>1, <1>3, <1>4 DEF Conn, Steady
<1>6. callers' = [x \in Callers |-> IF x \in told THEN [callers[x] EXCEPT !.inbox = EndedReply]
                                    ELSE callers[x]]
  BY DEF DriveDrop, Told
<1>7. ASSUME NEW x \in Callers, HeldBy(conns[d], x)
      PROVE  x \in told
  BY <1>7 DEF HeldBy, WaitersOf, Range
<1> HIDE DEF c, told
<1>8. Honest(c)
  BY <1>3, <1>5 DEF Honest
<1>9. told \in SUBSET Callers
  BY DEF told
<1> QED BY <1>1, <1>2, <1>5, <1>6, <1>7, <1>8, <1>9, AnswerFacts, DriverStepKeeps

-----------------------------------------------------------------------------
(* The inductive invariant                                                 *)

LEMMA InitParts == Init => Parts
<1> SUFFICES ASSUME Init PROVE Parts
  OBVIOUS
<1>1. /\ rotation = 0 /\ live = [s \in Slots |-> Down]
      /\ conns = [d \in Dials |-> Undialled] /\ callers = [q \in Callers |-> Idle]
  BY DEF Init
<1>2. NoWaiters \in Tables /\ DOMAIN NoWaiters = {} /\ <<>> \in Seq(Waiter) /\ 0 \in Ids
  <2>1. DOMAIN NoWaiters = {} /\ <<>> \in Seq(Waiter)
    BY DEF NoWaiters
  <2>2. NoWaiters \in [{} -> Waiter]
    BY DEF NoWaiters
  <2>3. NoWaiters \in Tables
    BY <2>2, TableIntro
  <2> QED BY <2>1, <2>3, IdFacts
<1>3. Undialled \in Conn /\ Honest(Undialled)
  <2>1. Undialled \in Conn
    BY <1>2, SlotFacts DEF Undialled, Conn
  <2>2. DOMAIN Undialled.queue = {} /\ DOMAIN Undialled.pending = {}
    BY <1>2 DEF Undialled
  <2> QED BY <2>1, <2>2 DEF Honest
<1>4. conns \in [Dials -> Conn] /\ \A d \in Dials : Honest(conns[d])
  BY <1>1, <1>3
<1>5. live \in [Slots -> LiveStates] /\ rotation \in Sockets
  BY <1>1, SlotFacts DEF LiveStates, Down
<1>6. LiveMatches
  BY <1>1 DEF LiveMatches, Down, Undialled
<1>7. \A q \in Callers : Sound(conns, q, callers[q]) /\ Covered(conns, q, callers[q])
  BY <1>1, IdleSound DEF Covered
<1>8. callers \in [Callers -> Caller]
  <2>1. \A q \in Callers : Idle \in Caller
    BY IdleSound DEF Sound
  <2> QED BY <1>1, <2>1
<1> QED BY <1>4, <1>5, <1>6, <1>7, <1>8 DEF Parts

LEMMA NextParts == Parts /\ [Next]_vars => Parts'
<1> SUFFICES ASSUME Parts, [Next]_vars PROVE Parts'
  OBVIOUS
<1>1. ASSUME NEW q \in Callers, Query(q) \/ Retransmit(q) \/ TimeOut(q) \/ CallerStep(q)
      PROVE  Parts'
  BY <1>1, QueryKeeps, RetransmitKeeps, TimeOutKeeps, GetUpKeeps, GetOpeningKeeps, GetDialKeeps,
     WaitedKeeps, SendKeeps, ResumeKeeps DEF CallerStep
<1>2. ASSUME NEW d \in Dials, DialStep(d)
      PROVE  Parts'
  BY <1>2, DialStepKeeps
<1>3. ASSUME NEW d \in Dials, DriverStep(d)
      PROVE  Parts'
  BY <1>3, RequestKeeps, ReplyKeeps, SweepKeeps, EndKeeps, DropKeeps
     DEF DriverStep, DriveFail, DriveIdle
<1>4. CASE UNCHANGED vars
  BY <1>4 DEF vars, Parts, LiveMatches
<1> QED BY <1>1, <1>2, <1>3, <1>4 DEF Next

LEMMA Invariance == Spec => []Parts
  BY InitParts, NextParts, PTL DEF Spec

\* The strengthened invariant holds throughout, for any number of callers,
\* sockets, ids and dials.
THEOREM InductiveInvariant == Spec => []IInv
  BY Invariance, ByParts, PTL

\* State is well typed: Live's states, connections, tables and callers.
THEOREM TypeCorrect == Spec => []TypeOK
<1>1. IInv => TypeOK
  BY DEF IInv
<1> QED BY <1>1, InductiveInvariant, PTL

LEMMA AtMostOne ==
  ASSUME NEW S, \A x, y \in S : x = y
  PROVE  Cardinality(S) <= 1
<1>1. CASE S = {}
  BY <1>1, FS_EmptySet
<1>2. CASE S # {}
  <2>1. PICK x \in S : S = {x}
    BY <1>2
  <2> QED BY <2>1, FS_Singleton
<1> QED BY <1>1, <1>2

\* Live's promise that concurrent callers share one attempt: at no time has a
\* slot two dials under way, two live connections, or one of each.
THEOREM OneConnection == Spec => []OneConnectionPerSlot
<1>1. IInv => OneConnectionPerSlot
  <2> SUFFICES ASSUME IInv, NEW s \in Slots
               PROVE  Cardinality({d \in Dials : conns[d].slot = s
                                     /\ (conns[d].dial = "running" \/ conns[d].alive)}) <= 1
    BY DEF OneConnectionPerSlot
  <2> DEFINE S == {d \in Dials : conns[d].slot = s /\ (conns[d].dial = "running" \/ conns[d].alive)}
  <2>1. \A d \in S : live[s] = Opening(d) \/ live[s] = Up(d)
    BY DEF IInv, LiveMatches
  <2>2. \A d \in S : live[s].conn = d
    BY <2>1, StateFacts
  <2>3. \A d, e \in S : d = e
    BY <2>2
  <2> HIDE DEF S
  <2> QED BY <2>3, AtMostOne DEF S
<1> QED BY <1>1, InductiveInvariant, PTL

\* on_connection's retry: the second connection of a query is never the one
\* that ended under it.
THEOREM FreshRetry == Spec => []RetryIsFresh
<1>1. IInv => RetryIsFresh
  BY DEF IInv
<1> QED BY <1>1, InductiveInvariant, PTL

\* drive and claim: a reply reaches the caller that asked its question, though
\* ids are reused and replies come late, twice and out of order.
THEOREM RightAnswer == Spec => []AnswersItsQuestion
<1>1. IInv => AnswersItsQuestion
  BY DEF IInv
<1> QED BY <1>1, InductiveInvariant, PTL

\* admit, sweep and drive never drop the waiter of a caller that still waits
\* without telling it.
THEOREM WaiterKept == Spec => []NoWaiterLost
<1>1. IInv => NoWaiterLost
  BY DEF IInv
<1> QED BY <1>1, InductiveInvariant, PTL

\* ask, admit and drive: whoever asks is told, and told the right answer.
THEOREM WaitersStayAnswered == Spec => []WaitersAnswered
  BY RightAnswer, WaiterKept, PTL DEF WaitersAnswered

\* get, dial and the retry of ask: one connection per slot, another for a retry.
THEOREM ConnectionsStayFresh == Spec => []ConnectionsFresh
  BY OneConnection, FreshRetry, PTL DEF ConnectionsFresh
=============================================================================
