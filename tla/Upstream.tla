------------------------------- MODULE Upstream -------------------------------
(***************************************************************************)
(* Plain DNS to one resolver as src/policy/upstream.rs asks it: a query    *)
(* goes out on the next of several UDP sockets, once more on the one after *)
(* when it stays unanswered, and over TCP when the reply was truncated.    *)
(* Each socket, and the TCP stream, is a connection shared by its callers: *)
(* opened by a task of its own (src/live.rs) and driven by another that    *)
(* multiplexes the queries (src/policy/demux.rs).  A caller may stop       *)
(* waiting at any point; a connection may end under its callers.           *)
(*                                                                         *)
(* The connection a dial opens has the number of the dial.  Messages keep  *)
(* their question, their id on the wire and the truncation flag.           *)
(***************************************************************************)
EXTENDS Naturals, FiniteSets, Functions, Sequences

CONSTANTS IdSpace,       \* ids on the wire, 2^16 in the code
          MaxPending,    \* MAX_PENDING, 1024 in the code
          Callers,
          Asks,          \* the question of each caller
          SourcePorts,   \* UDP sockets taken in turn, SOURCE_PORTS
          Depth,         \* requests a driver queues, DEPTH
          MaxDials       \* bound: connections ever dialled

Questions == {Asks[q] : q \in Callers}

ASSUME DemuxAssumption == MaxPending \in Nat /\ IdSpace \in Nat /\ MaxPending < IdSpace

ASSUME UpstreamAssumption ==
  SourcePorts \in Nat \ {0} /\ Depth \in Nat \ {0} /\ MaxDials \in Nat

-----------------------------------------------------------------------------
\* The table of demux.rs: waiters keyed by the id their query has on the wire.  A
\* waiter names its caller and the question, and is open until the caller drops its
\* end of the reply channel.
Ids == 0 .. IdSpace - 1

NoWaiters == <<>>

Sweep(pending) ==
  Restrict(pending, {id \in DOMAIN pending : pending[id].open})

\* The table admit works on: at its limit it drops the abandoned first.
Swept(pending) ==
  IF Cardinality(DOMAIN pending) >= MaxPending THEN Sweep(pending) ELSE pending

Refused(pending) == Cardinality(DOMAIN Swept(pending)) >= MaxPending

\* An id whose caller stopped waiting counts as free.
IsFree(pending, id) == id \notin DOMAIN pending \/ ~ pending[id].open

\* The first free id from next on, around the end of the id space.
FreshIds(pending, next) ==
  {(next + k) % IdSpace : k \in {n \in Ids :
     /\ IsFree(pending, (next + n) % IdSpace)
     /\ \A m \in 0 .. n - 1 : ~ IsFree(pending, (next + m) % IdSpace)}}

Admitted(pending, id, waiter) ==
  [i \in DOMAIN pending \union {id} |-> IF i = id THEN waiter ELSE pending[i]]

\* The waiter a reply answers: same id, same question.
ClaimsById(pending, reply) == reply.id \in DOMAIN pending
Claims(pending, reply) ==
  reply.id \in DOMAIN pending /\ pending[reply.id].question = reply.question

Unclaimed(pending, id) == Restrict(pending, DOMAIN pending \ {id})

-----------------------------------------------------------------------------
Sockets == 0 .. SourcePorts - 1
Stream == SourcePorts
Slots == Sockets \union {Stream}
Dials == 1 .. MaxDials
NoDial == 0

VARIABLES rotation,  \* next: the socket the next attempt takes
          live,      \* slot -> Live's state
          conns,     \* dial -> its progress and the connection it opened
          callers    \* caller -> where its query is

vars == <<rotation, live, conns, callers>>

Down == [state |-> "Down", conn |-> NoDial]
Opening(d) == [state |-> "Opening", conn |-> d]
Up(d) == [state |-> "Up", conn |-> d]

Nothing == [kind |-> "nothing"]
EndedReply == [kind |-> "ended"]
Failed == [kind |-> "failed"]
TimedOut == [kind |-> "timeout"]
Reply(question, truncated) ==
  [kind |-> "reply", question |-> question, truncated |-> truncated]

Undialled ==
  [slot |-> Stream, dial |-> "none", driver |-> "none", alive |-> FALSE,
   queue |-> <<>>, pending |-> NoWaiters, next |-> 0, wire |-> {}]

\* left: the last connection that ended under this query.
Idle ==
  [pc |-> "idle", stage |-> "first", slot |-> Stream, conn |-> NoDial, left |-> NoDial,
   retried |-> FALSE, inbox |-> Nothing, held |-> Nothing, result |-> Nothing]

-----------------------------------------------------------------------------
(* A caller's own steps                                                    *)

Active(q) == callers[q].pc \notin {"idle", "done"}

\* An attempt over the connection in slot s, from the top of on_connection.
Attempt(c, stage, s) ==
  [c EXCEPT !.pc = "get", !.stage = stage, !.slot = s, !.conn = NoDial, !.left = NoDial,
            !.retried = FALSE, !.inbox = Nothing]

Rotate == rotation' = (rotation + 1) % SourcePorts

Done(result) == [Idle EXCEPT !.pc = "done", !.result = result]

\* on_connection fails: over TCP the truncated reply is still an answer.
DoneFailed(c) ==
  Done(IF c.stage = "stream" THEN c.held ELSE Failed)

\* on_connection answers: a truncated datagram is asked again over TCP.
Answered(c, reply) ==
  IF c.stage # "stream" /\ reply.truncated
  THEN [Attempt(c, "stream", Stream) EXCEPT !.held = reply]
  ELSE Done(reply)

\* A connection ended under the query: once, it is asked again.
Retried(c) ==
  IF c.retried THEN DoneFailed(c)
  ELSE [c EXCEPT !.pc = "get", !.retried = TRUE, !.inbox = Nothing,
                 !.left = IF conns[c.conn].driver = "running" THEN @ ELSE c.conn,
                 !.conn = NoDial]

\* A waiter is open while its caller holds the other end of the channel.
OpenFor(q, waiter) == waiter.caller = q /\ waiter.open

Shut(q, waiter) == IF waiter.caller = q THEN [waiter EXCEPT !.open = FALSE] ELSE waiter

\* The connections once this caller has dropped its end.
LetGo(q) ==
  [d \in Dials |->
     [conns[d] EXCEPT !.queue = [i \in DOMAIN @ |-> Shut(q, @[i])],
                      !.pending = [id \in DOMAIN @ |-> Shut(q, @[id])]]]

Query(q) ==
  /\ callers[q].pc = "idle"
  /\ callers' = [callers EXCEPT ![q] = Attempt(@, "first", rotation)]
  /\ Rotate /\ UNCHANGED <<live, conns>>

\* UDP_RETRANSMIT passes: the first attempt is dropped where it stands.
Retransmit(q) ==
  /\ Active(q) /\ callers[q].stage = "first"
  /\ callers' = [callers EXCEPT ![q] = Attempt(@, "second", rotation)]
  /\ conns' = LetGo(q)
  /\ Rotate /\ UNCHANGED live

TimeOut(q) ==
  /\ Active(q)
  /\ callers' = [callers EXCEPT ![q] = Done(TimedOut)]
  /\ conns' = LetGo(q)
  /\ UNCHANGED <<rotation, live>>

Usable(l) == l.state = "Up" /\ conns[l.conn].alive

\* Live::get under its lock: the connection that is up, ...
GetUp(q) ==
  /\ callers[q].pc = "get" /\ Usable(live[callers[q].slot])
  /\ callers' = [callers EXCEPT ![q].pc = "send", ![q].conn = live[callers[q].slot].conn]
  /\ UNCHANGED <<rotation, live, conns>>

Joins(l) == l.state = "Opening"

\* ... the dial that is under way, ...
GetOpening(q) ==
  /\ callers[q].pc = "get" /\ Joins(live[callers[q].slot])
  /\ callers' = [callers EXCEPT ![q].pc = "wait", ![q].conn = live[callers[q].slot].conn]
  /\ UNCHANGED <<rotation, live, conns>>

Starts(l) == ~ Usable(l) /\ ~ Joins(l)

\* ... or a dial of its own, on a task of its own.
GetDial(q) ==
  LET s == callers[q].slot
  IN  /\ callers[q].pc = "get" /\ Starts(live[s])
      /\ \E d \in Dials :
           /\ conns[d].dial = "none" /\ \A e \in Dials : e < d => conns[e].dial # "none"
           /\ conns' = [conns EXCEPT ![d].dial = "running", ![d].slot = s]
           /\ live' = [live EXCEPT ![s] = Opening(d)]
           /\ callers' = [callers EXCEPT ![q].pc = "wait", ![q].conn = d]
      /\ UNCHANGED rotation

Waited(q) ==
  LET d == callers[q].conn
  IN  /\ callers[q].pc = "wait"
      /\ \/ /\ conns[d].dial = "opened"
            /\ callers' = [callers EXCEPT ![q].pc = "send"]
         \/ /\ conns[d].dial = "refused"
            /\ callers' = [callers EXCEPT ![q] = DoneFailed(@)]
      /\ UNCHANGED <<rotation, live, conns>>

WaiterOf(q) == [caller |-> q, question |-> Asks[q], open |-> TRUE]

\* Demux::query: the request is queued, or the driver's end is already gone.
Send(q) ==
  LET d == callers[q].conn
  IN  /\ callers[q].pc = "send"
      /\ \/ /\ conns[d].driver # "gone" /\ Len(conns[d].queue) < Depth
            /\ conns' = [conns EXCEPT ![d].queue = Append(@, WaiterOf(q))]
            /\ callers' = [callers EXCEPT ![q].pc = "await"]
         \/ /\ conns[d].driver = "gone"
            /\ callers' = [callers EXCEPT ![q] = Retried(@)]
            /\ UNCHANGED conns
      /\ UNCHANGED <<rotation, live>>

Resume(q) ==
  /\ callers[q].pc = "await" /\ callers[q].inbox # Nothing
  /\ callers' = [callers EXCEPT ![q] = IF @.inbox = EndedReply THEN Retried(@)
                                       ELSE Answered(@, @.inbox)]
  /\ UNCHANGED <<rotation, live, conns>>

-----------------------------------------------------------------------------
(* Live's dial                                                             *)

\* The handshake is over: the state first, under the lock, the report after.
DialOpened(d) ==
  /\ conns[d].dial = "running"
  /\ \E id \in Ids :
       conns' = [conns EXCEPT ![d].dial = "up", ![d].driver = "running",
                              ![d].alive = TRUE, ![d].next = id]
  /\ live' = [live EXCEPT ![conns[d].slot] = Up(d)]
  /\ UNCHANGED <<rotation, callers>>

DialFailed(d) ==
  /\ conns[d].dial = "running"
  /\ conns' = [conns EXCEPT ![d].dial = "down"]
  /\ live' = [live EXCEPT ![conns[d].slot] = Down]
  /\ UNCHANGED <<rotation, callers>>

DialReport(d) ==
  /\ \/ conns[d].dial = "up" /\ conns' = [conns EXCEPT ![d].dial = "opened"]
     \/ conns[d].dial = "down" /\ conns' = [conns EXCEPT ![d].dial = "refused"]
  /\ UNCHANGED <<rotation, live, callers>>

-----------------------------------------------------------------------------
(* The driver of a connection                                              *)

WaitersOf(d) == Range(conns[d].queue) \union Range(conns[d].pending)

\* What the callers behind these waiters find when they resume.
Told(waiters, answer) ==
  [q \in Callers |->
     IF \E w \in waiters : OpenFor(q, w) THEN [callers[q] EXCEPT !.inbox = answer]
     ELSE callers[q]]

\* The loop is left: no new caller joins, and then the tables go.
BrokenStillAlive(conn) == [conn EXCEPT !.driver = "ending"]
Broken(conn) == [conn EXCEPT !.driver = "ending", !.alive = FALSE]

Running(d) == conns[d].driver = "running"

\* A request is refused, or admitted and sent, or lost with the connection.
DriveRequest(d) ==
  LET c == conns[d]
      w == Head(c.queue)
      taken == [c EXCEPT !.queue = Tail(@), !.pending = Swept(@)]
      Sent(id) ==
        [taken EXCEPT !.pending = Admitted(@, id, w), !.next = (id + 1) % IdSpace,
                      !.wire = @ \union {[id |-> id, question |-> w.question]}]
  IN  /\ Running(d) /\ c.queue # <<>>
      /\ IF Refused(c.pending)
         THEN /\ conns' = [conns EXCEPT ![d] = taken]
              /\ callers' = Told({w}, EndedReply)
         ELSE /\ \E id \in FreshIds(taken.pending, c.next) :
                   \/ conns' = [conns EXCEPT ![d] = Sent(id)]
                   \/ conns' = [conns EXCEPT ![d] = Broken(Sent(id))]
              /\ UNCHANGED callers
      /\ UNCHANGED <<rotation, live>>

\* A reply that names no waiter, or another question, stays unclaimed.
KeptBy(pending, reply) ==
  IF Claims(pending, reply) THEN Unclaimed(pending, reply.id) ELSE pending

\* A reply to a query this connection sent, however late and however often.
DriveReply(d) ==
  /\ Running(d)
  /\ \E m \in conns[d].wire, truncated \in BOOLEAN :
       /\ conns' = [conns EXCEPT ![d].pending = KeptBy(@, m)]
       /\ callers' = IF Claims(conns[d].pending, m)
                     THEN Told({conns[d].pending[m.id]}, Reply(m.question, truncated))
                     ELSE callers
  /\ UNCHANGED <<rotation, live>>

DriveSweep(d) ==
  /\ Running(d)
  /\ conns' = [conns EXCEPT ![d].pending = Sweep(@)]
  /\ UNCHANGED <<rotation, live, callers>>

End(d) ==
  /\ Running(d)
  /\ conns' = [conns EXCEPT ![d] = Broken(@)]
  /\ UNCHANGED <<rotation, live, callers>>

\* recv fails.  The queue itself never closes: Live keeps a handle of the
\* connection that is up, for as long as the upstream exists.
DriveFail(d) == End(d)

\* Nothing was in flight for UPSTREAM_IDLE.
DriveIdle(d) == conns[d].pending = NoWaiters /\ End(d)

DriveDrop(d) ==
  /\ conns[d].driver = "ending"
  /\ callers' = Told(WaitersOf(d), EndedReply)
  /\ conns' = [conns EXCEPT ![d].driver = "gone", ![d].queue = <<>>,
                            ![d].pending = NoWaiters, ![d].next = 0, ![d].wire = {}]
  /\ UNCHANGED <<rotation, live>>

-----------------------------------------------------------------------------
Init ==
  /\ rotation = 0
  /\ live = [s \in Slots |-> Down]
  /\ conns = [d \in Dials |-> Undialled]
  /\ callers = [q \in Callers |-> Idle]

CallerStep(q) ==
  \/ GetUp(q) \/ GetOpening(q) \/ GetDial(q) \/ Waited(q) \/ Send(q) \/ Resume(q)

DialStep(d) == DialOpened(d) \/ DialFailed(d) \/ DialReport(d)

DriverStep(d) ==
  \/ DriveRequest(d) \/ DriveReply(d) \/ DriveSweep(d)
  \/ DriveFail(d) \/ DriveIdle(d) \/ DriveDrop(d)

Next ==
  \/ \E q \in Callers : Query(q) \/ Retransmit(q) \/ TimeOut(q) \/ CallerStep(q)
  \/ \E d \in Dials : DialStep(d) \/ DriverStep(d)

Spec == Init /\ [][Next]_vars

-----------------------------------------------------------------------------
(* Properties                                                              *)

Waiter == [caller : Callers, question : Questions, open : BOOLEAN]

\* Tables of waiters, keyed by any set of ids.
Tables == UNION {[S -> Waiter] : S \in SUBSET Ids}

Message == [id : Ids, question : Questions]

Conn ==
  [slot : Slots, dial : {"none", "running", "up", "down", "opened", "refused"},
   driver : {"none", "running", "ending", "gone"}, alive : BOOLEAN,
   queue : Seq(Waiter), pending : Tables, next : Ids, wire : SUBSET Message]

Answer ==
  {Nothing, EndedReply, Failed, TimedOut}
    \union [kind : {"reply"}, question : Questions, truncated : BOOLEAN]

Caller ==
  [pc : {"idle", "get", "wait", "send", "await", "done"},
   stage : {"first", "second", "stream"}, slot : Slots, conn : Dials \union {NoDial},
   left : Dials \union {NoDial}, retried : BOOLEAN, inbox : Answer, held : Answer,
   result : Answer]

TypeOK ==
  /\ rotation \in Sockets
  /\ live \in [Slots -> [state : {"Down", "Opening", "Up"}, conn : Dials \union {NoDial}]]
  /\ conns \in [Dials -> Conn]
  /\ callers \in [Callers -> Caller]

\* Concurrent callers share one attempt: a slot never has two dials under way,
\* two connections in use, or one of each.
OneConnectionPerSlot ==
  \A s \in Slots :
    Cardinality({d \in Dials : conns[d].slot = s /\ (conns[d].dial = "running" \/ conns[d].alive)}) <= 1

\* Nobody waits for a sender that no longer exists: whoever awaits a reply
\* has an open waiter, queued or pending on the connection it asked, until it
\* is told.  An id is therefore never given away while its caller still waits.
NoWaiterLost ==
  \A q \in Callers :
    callers[q].pc = "await" /\ callers[q].inbox = Nothing =>
      LET c == conns[callers[q].conn]
      IN  \/ \E i \in DOMAIN c.queue : OpenFor(q, c.queue[i])
          \/ \E id \in DOMAIN c.pending : OpenFor(q, c.pending[id])

\* A caller is answered on the question it asked, though ids are reused and
\* replies come late, twice and out of order.
AnswersItsQuestion ==
  \A q \in Callers :
    \A a \in {callers[q].inbox, callers[q].held, callers[q].result} :
      a.kind = "reply" => a.question = Asks[q]

\* "A connection that ends under a query is replaced": the retry never lands
\* on the connection that ended.
RetryIsFresh ==
  \A q \in Callers : callers[q].left # NoDial => callers[q].conn # callers[q].left

\* Whoever asks is told: no waiter is dropped unheard, and what it hears is the
\* answer to its own question.
WaitersAnswered == NoWaiterLost /\ AnswersItsQuestion

\* Callers share one live connection per slot, and a retry gets another.
ConnectionsFresh == OneConnectionPerSlot /\ RetryIsFresh
==============================================================================
