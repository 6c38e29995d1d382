------------------------------ MODULE Terminator -----------------------------
(***************************************************************************)
(* run_terminator of src/l4/terminate.rs: the task that owns a LocalStack  *)
(* and joins each of its connections to a task through the bridge of       *)
(* src/bridge.rs.  One pass of `service' is a sequence of steps, because   *)
(* the tasks that hold the streams run on other threads and observe the    *)
(* channels between any two of them.                                       *)
(*                                                                         *)
(* Each client connects once, so a client also names its stream.           *)
(***************************************************************************)
EXTENDS LocalStack

CONSTANTS Depth,     \* DEPTH, the capacity of a bridge channel in chunks
          ChunkSize, \* bound: units in a chunk a task writes
          MaxWrites, \* bound: chunks one task writes
          MaxBurst,  \* bound: packets taken between two passes
          MayEnd     \* whether cancellation and the reactor's end occur

ASSUME TerminatorAssumption == Depth \in Nat \ {0} /\ ChunkSize \in Nat \ {0}

VARIABLES pc,       \* where the terminator is in its loop
          cur,      \* the connection being pumped
          todo,     \* connections this pass has still to pump
          conns,    \* handle -> its plumbing, NoPlumbing where there is none
          stream,   \* client -> the two channels and the flag of its bridge
          task,     \* client -> the task that holds the stream
          sent,     \* client -> units handed to its socket
          arrived,  \* client -> units its socket took, and how it ended
          opened,   \* clients that have sent their SYN
          reactor,  \* the reactor still takes replies
          cancelled,
          last      \* the pass after the loop

bridgeVars == <<conns, stream, task, sent>>
vars == <<stackVars, bridgeVars, pc, todo, cur, arrived, opened, reactor, cancelled, last>>

NoPlumbing == [stream |-> NoClient, pendingOut |-> <<>>, finished |-> FALSE]

PlumbingOf(c) == [NoPlumbing EXCEPT !.stream = c]

\* inbound: chunks toward the task, open while to_task is held.
\* outbound: chunks from the task, writable while its sender is held and
\* driven while the terminator holds the receiver.
NewStream == [inbound |-> <<>>, open |-> TRUE, reset |-> FALSE,
              outbound |-> <<>>, writable |-> TRUE, driven |-> TRUE]

NoTask == [state |-> "none", got |-> <<>>, wrote |-> 0, saw |-> "nothing"]

\* The plumbing is dropped; a reset marks the stream before its sender goes.
DroppedReceiverOnly(s, reset) == [s EXCEPT !.driven = FALSE, !.reset = @ \/ reset]
Dropped(s, reset) ==
  [s EXCEPT !.open = FALSE, !.driven = FALSE, !.reset = @ \/ reset]

Pumped == {h \in DOMAIN conns : conns[h] # NoPlumbing}

Units(k, n) == [i \in 1 .. n |-> k + i]

\* The units of the chunks in a channel.
Joined(chunks) ==
  LET upTo[i \in 0 .. Len(chunks)] == IF i = 0 THEN <<>> ELSE upTo[i - 1] \o chunks[i]
  IN  upTo[Len(chunks)]

-----------------------------------------------------------------------------
(* The task's half: BridgedStream                                          *)

Live(c) == task[c].state = "live"

\* poll_read: a chunk, or the end of a channel whose sender is gone.
Read(c) ==
  /\ Live(c)
  /\ \/ /\ stream[c].inbound # <<>>
        /\ task' = [task EXCEPT ![c].got = @ \o Head(stream[c].inbound)]
        /\ stream' = [stream EXCEPT ![c].inbound = Tail(@)]
     \/ /\ stream[c].inbound = <<>> /\ ~ stream[c].open
        /\ task[c].saw # (IF stream[c].reset THEN "reset" ELSE "end")
        /\ task' = [task EXCEPT ![c].saw = IF stream[c].reset THEN "reset" ELSE "end"]
        /\ UNCHANGED stream
  /\ UNCHANGED <<stackVars, conns, sent, pc, todo, cur, arrived, opened, reactor, cancelled, last>>

Write(c) ==
  /\ Live(c) /\ stream[c].writable /\ stream[c].driven
  /\ Len(stream[c].outbound) < Depth
  /\ task[c].wrote < MaxWrites * ChunkSize
  /\ stream' = [stream EXCEPT ![c].outbound =
                  Append(@, Units(task[c].wrote, ChunkSize))]
  /\ task' = [task EXCEPT ![c].wrote = @ + ChunkSize]
  /\ UNCHANGED <<stackVars, conns, sent, pc, todo, cur, arrived, opened, reactor, cancelled, last>>

Shutdown(c) ==
  /\ Live(c) /\ stream[c].writable
  /\ stream' = [stream EXCEPT ![c].writable = FALSE]
  /\ UNCHANGED <<stackVars, conns, task, sent, pc, todo, cur, arrived, opened, reactor, cancelled, last>>

\* Dropping the stream closes both channels from the task's side.
DropStream(c) ==
  /\ Live(c)
  /\ stream' = [stream EXCEPT ![c].writable = FALSE, ![c].inbound = <<>>]
  /\ task' = [task EXCEPT ![c].state = "dropped"]
  /\ UNCHANGED <<stackVars, conns, sent, pc, todo, cur, arrived, opened, reactor, cancelled, last>>

-----------------------------------------------------------------------------
(* The terminator's loop                                                   *)

\* The reactor queued packets; take_pending moves all of them.  The stack is
\* polled first thing in `service', so the bound on the burst is on `inbound'.
Client(p) == p.kind = "SYN" => p.client \notin opened

TakePacket ==
  /\ pc = "select"
  /\ Len(inbound) < MaxBurst
  /\ \E p \in Packet :
       /\ Client(p)
       /\ Push(p)
       /\ opened' = IF p.kind = "SYN" THEN opened \union {p.client} ELSE opened
  /\ UNCHANGED <<bridgeVars, pc, todo, cur, arrived, reactor, cancelled, last>>

\* A packet, a wake-up or the timer: at most 250 ms pass.
Wake ==
  /\ pc = "select"
  /\ pc' = "poll"
  /\ UNCHANGED <<stackVars, bridgeVars, todo, cur, arrived, opened, reactor, cancelled, last>>

\* shutdown, or the reactor's end of `packets' is gone: one more pass.
Break ==
  /\ pc = "select" /\ (cancelled \/ ~ reactor)
  /\ pc' = "poll" /\ last' = TRUE
  /\ UNCHANGED <<stackVars, bridgeVars, todo, cur, arrived, opened, reactor, cancelled>>

Cancel ==
  /\ MayEnd /\ ~ cancelled /\ cancelled' = TRUE
  /\ UNCHANGED <<stackVars, bridgeVars, pc, todo, cur, arrived, opened, reactor, last>>

ReactorGone ==
  /\ MayEnd /\ reactor /\ reactor' = FALSE
  /\ UNCHANGED <<stackVars, bridgeVars, pc, todo, cur, arrived, opened, cancelled, last>>

\* What the sockets took in this poll, kept past the reaping of the socket.
ArrivedAfter(n, late) ==
  [c \in Clients |->
     LET mine == {h \in Handles : Driven(n, late)[h].client = c}
     IN  IF mine = {} THEN arrived[c]
         ELSE LET s == Driven(n, late)[Min(mine)]
              IN [units |-> s.units, fin |-> s.fin, torn |-> s.torn]]

PollThen(n, late, next) ==
  /\ Poll(n, late)
  /\ arrived' = ArrivedAfter(n, late)
  /\ pc' = next
  /\ UNCHANGED <<bridgeVars, todo, cur, opened, reactor, cancelled, last>>

FirstPoll ==
  /\ pc = "poll"
  /\ SomePoll(LAMBDA n, late : PollThen(n, late, "accept"))

\* poll_accept: the stream is offered with try_send; refused, the connection
\* is aborted and gets no plumbing.  Inserting drops what the slot held.
Accept ==
  /\ pc = "accept" /\ PollAccept
  /\ LET h == Head(accepted).id
         c == Head(accepted).client
     IN  \/ /\ conns' = [conns EXCEPT ![h] = PlumbingOf(c)]
            /\ stream' = [s \in Clients |->
                            IF s = c THEN NewStream
                            ELSE IF s = conns[h].stream THEN Dropped(stream[s], FALSE)
                            ELSE stream[s]]
            /\ task' = [task EXCEPT ![c].state = "live"]
            /\ UNCHANGED <<sockets, closing>>
         \/ /\ Abort(h)
            /\ UNCHANGED <<conns, stream, task>>
  /\ UNCHANGED <<inbound, wanted, listeners, established, closed, sent, pc, todo,
                 cur, arrived, opened, reactor, cancelled, last>>

AcceptDone ==
  /\ pc = "accept" /\ accepted = <<>>
  /\ pc' = "pump" /\ todo' = Pumped
  /\ UNCHANGED <<stackVars, bridgeVars, cur, arrived, opened, reactor, cancelled, last>>

-----------------------------------------------------------------------------
(* pump: one iteration of each of its two loops per step                   *)

\* A permit of the bounded channel, refused when it is full or the task has
\* dropped its end.
Permit(c) == Live(c) /\ Len(stream[c].inbound) < Depth

PumpNext ==
  /\ pc = "pump"
  /\ \E h \in todo : cur' = h /\ todo' = todo \ {h}
  /\ pc' = "pumpIn"
  /\ UNCHANGED <<stackVars, bridgeVars, arrived, opened, reactor, cancelled, last>>

\* recv takes one chunk out of the socket and leaves the rest.
LeftAfterRecvNothing(rx) == <<>>
LeftAfterRecv(rx) == Tail(rx)

PumpIn ==
  LET c == conns[cur].stream
      result == RecvResult(cur)
      reading == stream[c].open /\ Permit(c)
  IN  /\ pc = "pumpIn"
      /\ \/ /\ reading /\ result = "Data"
            /\ stream' = [stream EXCEPT ![c].inbound = Append(@, <<Head(sockets[cur].rx)>>)]
            /\ sockets' = [sockets EXCEPT ![cur].rx = LeftAfterRecv(@)]
            /\ UNCHANGED pc
         \/ /\ reading /\ result \in {"Closed", "Unknown"}
            /\ stream' = [stream EXCEPT ![c].open = FALSE]
            /\ pc' = "pumpOut"
            /\ UNCHANGED sockets
         \/ /\ reading /\ result = "Reset"
            /\ stream' = [stream EXCEPT ![c].open = FALSE, ![c].reset = TRUE]
            /\ pc' = "pumpOut"
            /\ UNCHANGED sockets
         \/ /\ ~ reading \/ result = "WouldBlock"
            /\ pc' = "pumpOut"
            /\ UNCHANGED <<stream, sockets>>
      /\ UNCHANGED <<inbound, wanted, listeners, established, closing, accepted, closed,
                     conns, task, sent, todo, cur, arrived, opened, reactor, cancelled, last>>

\* The chunk left from the last sweep comes before what the task queued.
Chunk(h) ==
  IF conns[h].pendingOut # <<>> THEN conns[h].pendingOut
  ELSE Head(stream[conns[h].stream].outbound)

\* send took k units of the chunk; the tail waits for the next sweep.
TailAfter(chunk, k) == SubSeq(chunk, k + 1, Len(chunk))

PumpChunk ==
  LET c == conns[cur].stream
      chunk == Chunk(cur)
  IN  /\ pc = "pumpOut"
      /\ conns[cur].pendingOut # <<>> \/ stream[c].outbound # <<>>
      /\ stream' = IF conns[cur].pendingOut # <<>> THEN stream
                   ELSE [stream EXCEPT ![c].outbound = Tail(@)]
      /\ \/ /\ SendResult(cur) = "Ok"
            /\ \E k \in 0 .. Len(chunk) :
                 /\ sent' = [sent EXCEPT ![c] = @ \o SubSeq(chunk, 1, k)]
                 /\ conns' = [conns EXCEPT ![cur].pendingOut = TailAfter(chunk, k)]
                 /\ pc' = IF k = Len(chunk) THEN pc ELSE "pump"
         \/ /\ SendResult(cur) # "Ok"
            /\ conns' = [conns EXCEPT ![cur].pendingOut = <<>>]
            /\ pc' = "pump"
            /\ UNCHANGED sent
      /\ UNCHANGED <<stackVars, task, todo, cur, arrived, opened, reactor, cancelled, last>>

\* Nothing queued: close once the task's sender is gone.
Drained(h) ==
  conns[h].pendingOut = <<>> /\ stream[conns[h].stream].outbound = <<>>

PumpEnd ==
  LET c == conns[cur].stream
  IN  /\ pc = "pumpOut"
      /\ Drained(cur)
      /\ IF ~ stream[c].writable /\ ~ conns[cur].finished
         THEN Close(cur) /\ conns' = [conns EXCEPT ![cur].finished = TRUE]
         ELSE UNCHANGED <<sockets, closing, conns>>
      /\ pc' = "pump"
      /\ UNCHANGED <<inbound, wanted, listeners, established, accepted, closed, stream,
                     task, sent, todo, cur, arrived, opened, reactor, cancelled, last>>

-----------------------------------------------------------------------------
(* The end of a pass                                                       *)

SecondPoll ==
  /\ pc = "pump" /\ todo = {}
  /\ SomePoll(LAMBDA n, late : PollThen(n, late, "replies"))

\* replies.send is awaited; a pass ends early when the reactor is gone.
RepliesSent ==
  /\ pc = "replies"
  /\ pc' = "closed"
  /\ UNCHANGED <<stackVars, bridgeVars, todo, cur, arrived, opened, reactor, cancelled, last>>

RepliesRefused ==
  /\ pc = "replies" /\ ~ reactor
  /\ pc' = "end"
  /\ UNCHANGED <<stackVars, bridgeVars, todo, cur, arrived, opened, reactor, cancelled, last>>

Reap ==
  /\ pc = "closed" /\ PollClosed
  /\ LET h == Head(closed).id
         c == conns[h].stream
     IN  IF conns[h] = NoPlumbing THEN UNCHANGED <<conns, stream>>
         ELSE /\ conns' = [conns EXCEPT ![h] = NoPlumbing]
              /\ stream' = [stream EXCEPT ![c] = Dropped(@, Head(closed).reset)]
  /\ UNCHANGED <<inbound, sockets, wanted, listeners, established, closing, accepted,
                 task, sent, pc, todo, cur, arrived, opened, reactor, cancelled, last>>

ReapDone ==
  /\ pc = "closed" /\ closed = <<>>
  /\ pc' = "end"
  /\ UNCHANGED <<stackVars, bridgeVars, todo, cur, arrived, opened, reactor, cancelled, last>>

EndPass ==
  /\ pc = "end" /\ ~ last
  /\ pc' = "select"
  /\ UNCHANGED <<stackVars, bridgeVars, todo, cur, arrived, opened, reactor, cancelled, last>>

\* Returning from run_terminator drops every plumbing with the map.
Stop ==
  /\ pc = "end" /\ last
  /\ pc' = "stopped"
  /\ conns' = [h \in Handles |-> NoPlumbing]
  /\ stream' = [c \in Clients |->
                  IF \E h \in Pumped : conns[h].stream = c
                  THEN Dropped(stream[c], FALSE) ELSE stream[c]]
  /\ UNCHANGED <<stackVars, task, sent, todo, cur, arrived, opened, reactor, cancelled, last>>

-----------------------------------------------------------------------------
Init ==
  /\ StackInit
  /\ pc = "select" /\ todo = {} /\ cur = 0 /\ last = FALSE
  /\ conns = [h \in Handles |-> NoPlumbing]
  /\ stream = [c \in Clients |-> [NewStream EXCEPT !.open = FALSE, !.driven = FALSE]]
  /\ task = [c \in Clients |-> NoTask]
  /\ sent = [c \in Clients |-> <<>>]
  /\ arrived = [c \in Clients |-> [units |-> 0, fin |-> FALSE, torn |-> FALSE]]
  /\ opened = {} /\ reactor = TRUE /\ cancelled = FALSE

Service ==
  \/ FirstPoll \/ Accept \/ AcceptDone \/ PumpNext \/ PumpIn \/ PumpChunk \/ PumpEnd
  \/ SecondPoll \/ RepliesSent \/ RepliesRefused \/ Reap \/ ReapDone \/ EndPass \/ Stop

Tasks == \E c \in Clients : Read(c) \/ Write(c) \/ Shutdown(c) \/ DropStream(c)

Next == TakePacket \/ Wake \/ Break \/ Cancel \/ ReactorGone \/ Service \/ Tasks

Spec == Init /\ [][Next]_vars

-----------------------------------------------------------------------------
(* Properties                                                              *)

\* The plumbing in a slot belongs to the connection in it, not to an earlier
\* one whose end is still to be reaped.
Plumbed(h) == h \in established /\ conns[h].stream = sockets[h].client

\* pump moves client bytes without loss: while a connection lives and its task
\* reads, what the task got, the channel and the socket hold together are the
\* bytes the client sent, in order and once each.
InboundLossless ==
  \A h \in Handles :
    LET c == sockets[h].client
    IN  Plumbed(h) /\ Live(c) /\ stream[c].open =>
          task[c].got \o Joined(stream[c].inbound) \o sockets[h].rx
            = Units(0, sockets[h].units)

\* The same toward the client: partial sends and the retained tail lose and
\* repeat nothing, and never reorder.
OutboundLossless ==
  \A h \in Handles :
    LET c == sockets[h].client
    IN  Plumbed(h) => sent[c] \o conns[h].pendingOut \o Joined(stream[c].outbound)
                        = Units(0, task[c].wrote)

\* A FIN never overtakes bytes: when this side has closed a connection that a
\* task holds, every byte the task wrote is in the socket.
FinAfterBytes ==
  \A h \in closing :
    LET c == sockets[h].client
    IN  Plumbed(h) => sent[c] = Units(0, task[c].wrote)

\* Slots are reused while the terminator still holds plumbing.  Pumping never
\* meets a slot whose connection is not its plumbing's; between passes no
\* plumbing outlives its connection, and every connection not refused has its
\* plumbing or waits to be accepted.
PlumbingMatchesSocket ==
  /\ pc \in {"pump", "pumpIn", "pumpOut"} => Pumped \intersect established \subseteq {h \in Handles : Plumbed(h)}
  /\ pc = "select" =>
       /\ \A h \in Pumped : Plumbed(h)
       /\ \A h \in established :
            h \in Pumped \/ h \in closing \/ \E i \in 1 .. Len(accepted) : accepted[i].id = h

\* While the reactor takes replies, pump loses, repeats and reorders nothing in
\* either direction, closes the client's side only behind the last byte, and
\* never moves bytes between one connection's streams and the socket of another.
Lossless ==
  reactor => InboundLossless /\ OutboundLossless /\ FinAfterBytes /\ PlumbingMatchesSocket

\* A task that keeps reading learns that its connection is gone.
EndReported ==
  \A c \in Clients :
    (Live(c) /\ \A h \in established : sockets[h].client # c)
      ~> (task[c].saw # "nothing" \/ ~ Live(c))

\* Cancellation ends the terminator, whatever the streams and replies do.
CancelStops == cancelled ~> (pc = "stopped")

\* The contract of Plumbing::reset: "its next read is an error, not a clean
\* end".  While the terminator runs and the task has not closed its own side,
\* a clean end means that the client finished its side.
ResetIsNotACleanEnd ==
  \A c \in Clients :
    task[c].saw = "end" /\ stream[c].writable /\ pc # "stopped" => arrived[c].fin

\* "Moves bytes in both directions without loss": a task that reads to the
\* clean end of a stream its client finished, and no reset or timeout cut,
\* has all the client's bytes.
CleanEndIsComplete ==
  \A c \in Clients :
    task[c].saw = "end" /\ arrived[c].fin /\ ~ arrived[c].torn /\ pc # "stopped" =>
      task[c].got = Units(0, arrived[c].units)
==============================================================================
