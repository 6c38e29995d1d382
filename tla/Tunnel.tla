-------------------------------- MODULE Tunnel --------------------------------
(***************************************************************************)
(* The running tunnel as a C host sees it: the driver task and the calls   *)
(* of src/ffi/src/tunnel.rs with the ordered stop of src/api.rs.  The      *)
(* reactor is what the driver sees of it: it queues observations, and ends *)
(* when it is cancelled or by itself.  The host's threads call in any      *)
(* order its contract allows.                                              *)
(***************************************************************************)
EXTENDS Naturals, Sequences, FiniteSets

CONSTANTS
  Threads,      \* the host's calling threads
  Readers,      \* those among them that read events; the others command
  EventDepth    \* EVENT_DEPTH, and the depth of the telemetry channel

ASSUME TunnelAssumption ==
  Readers \subseteq Threads /\ EventDepth \in Nat \ {0}

VARIABLES
  calls,      \* each host thread's call: [op, at]
  commands,   \* the command channel: the threads that asked, in order
  events,     \* the event channel
  driver,     \* the driver task: [at, caller], the caller it owes the end
  workers,    \* the tunnel's other tasks: "running", "cancelled", "ended"
  reactor,    \* the reactor task: "running", "cancelled", "ended"
  telemetry,  \* host-visible observations queued by the reactor
  freed

tunnelVars == <<calls, commands, events, driver, workers, reactor, telemetry, freed>>

NoCall == [op |-> "none", at |-> "idle"]
Nobody == "nobody"
Ops == {"event", "reload", "shutdown"}

TunnelInit ==
  /\ calls = [t \in Threads |-> NoCall]
  /\ commands = <<>> /\ events = 0 /\ telemetry = 0
  /\ driver = [at |-> "select", caller |-> Nobody]
  /\ workers = "running" /\ reactor = "running"
  /\ freed = FALSE

-----------------------------------------------------------------------------
(* The host's calls *)

\* Contract: none may be in flight when the handle is freed, none follows.
Call(t, op) ==
  /\ calls[t].at = "idle" /\ ~freed /\ (t \in Readers) = (op = "event")
  /\ calls' = [calls EXCEPT ![t] = [op |-> op, at |-> "called"]]
  /\ UNCHANGED <<commands, events, driver, workers, telemetry, freed, reactor>>

Return(t) == calls' = [calls EXCEPT ![t] = NoCall]

\* next_event: one reader at a time; Stopped once the channel is closed and empty.
Lock(t) ==
  /\ calls[t] = [op |-> "event", at |-> "called"]
  /\ \A u \in Threads : calls[u].at # "holding"
  /\ calls' = [calls EXCEPT ![t].at = "holding"]
  /\ UNCHANGED <<commands, events, driver, workers, telemetry, freed, reactor>>

NextEvent(t) ==
  /\ calls[t].at = "holding"
  /\ \/ events > 0 /\ events' = events - 1
     \/ events = 0 /\ driver.at = "gone" /\ UNCHANGED events
  /\ Return(t)
  /\ UNCHANGED <<commands, driver, workers, telemetry, freed, reactor>>

\* ask: the send waits for room in its turn, so a thread that waits stands in
\* the channel already; neither the send nor the reply outlives the driver.
Submit(t) ==
  /\ calls[t].at = "called" /\ calls[t].op \in {"reload", "shutdown"}
  /\ \/ /\ driver.at # "gone"
        /\ commands' = Append(commands, t)
        /\ calls' = [calls EXCEPT ![t].at = "asked"]
     \/ /\ driver.at = "gone" /\ Return(t) /\ UNCHANGED commands
  /\ UNCHANGED <<events, driver, workers, telemetry, freed, reactor>>

-----------------------------------------------------------------------------
(* drive *)

DriverTakes ==
  /\ driver.at = "select" /\ telemetry > 0
  /\ telemetry' = telemetry - 1
  /\ driver' = [driver EXCEPT !.at = "sending"]
  /\ UNCHANGED <<calls, commands, events, workers, freed, reactor>>

\* Backpressure: the send waits for a reader.
DriverSends ==
  /\ driver.at = "sending" /\ events < EventDepth
  /\ events' = events + 1
  /\ driver' = [driver EXCEPT !.at = "select"]
  /\ UNCHANGED <<calls, commands, workers, telemetry, freed, reactor>>

\* reload and authority are answered at once.
DriverAnswers ==
  /\ driver.at = "select" /\ commands # <<>> /\ calls[Head(commands)].op = "reload"
  /\ commands' = Tail(commands)
  /\ Return(Head(commands))
  /\ UNCHANGED <<events, driver, workers, telemetry, freed, reactor>>

\* Shutdown, or the end of the observations: Tunnel::stop cancels the tasks.
DriverStops ==
  /\ driver.at = "select"
  /\ \/ /\ commands # <<>> /\ calls[Head(commands)].op = "shutdown"
        /\ driver' = [at |-> "tasks", caller |-> Head(commands)]
        /\ commands' = Tail(commands)
     \/ /\ telemetry = 0 /\ reactor = "ended"
        /\ driver' = [at |-> "tasks", caller |-> Nobody]
        /\ UNCHANGED commands
  /\ workers' = IF workers = "running" THEN "cancelled" ELSE workers
  /\ UNCHANGED <<calls, events, telemetry, freed, reactor>>

\* tasks.wait, then Shell::shutdown cancels the reactor.
DriverStopsShell ==
  /\ driver.at = "tasks" /\ workers = "ended"
  /\ driver' = [driver EXCEPT !.at = "shell"]
  /\ reactor' = IF reactor = "running" THEN "cancelled" ELSE reactor
  /\ UNCHANGED <<calls, commands, events, workers, telemetry, freed>>

\* Mutant: what is still queued when the driver ends is never answered.
DroppedNone == {}

\* Joined: the caller is answered, and dropping the channels answers the rest.
Dropped == {commands[i] : i \in DOMAIN commands}

DriverGone ==
  /\ driver.at = "shell" /\ reactor = "ended"
  /\ driver' = [at |-> "gone", caller |-> Nobody]
  /\ calls' = [t \in Threads |-> IF t \in Dropped \union {driver.caller} THEN NoCall ELSE calls[t]]
  /\ commands' = <<>>
  /\ UNCHANGED <<events, workers, telemetry, freed, reactor>>

TasksEnd ==
  /\ workers = "cancelled" /\ workers' = "ended"
  /\ UNCHANGED <<calls, commands, events, driver, telemetry, freed, reactor>>

\* The reactor ends when cancelled, or on its own when the device or the
\* network fails; dropping it closes the telemetry channel.
ReactorExit ==
  /\ reactor \in {"running", "cancelled"} /\ reactor' = "ended"
  /\ UNCHANGED <<calls, commands, events, driver, workers, telemetry, freed>>

Observes ==
  /\ reactor = "running" /\ telemetry < EventDepth
  /\ telemetry' = telemetry + 1
  /\ UNCHANGED <<calls, commands, events, driver, workers, freed, reactor>>

\* boreas_tunnel_free: the channels are dropped and the runtime shut down,
\* which drops every task.
Free ==
  /\ ~freed /\ \A t \in Threads : calls[t] = NoCall
  /\ freed' = TRUE
  /\ driver' = [at |-> "gone", caller |-> Nobody]
  /\ workers' = "ended" /\ reactor' = "ended"
  /\ events' = 0 /\ telemetry' = 0 /\ commands' = <<>>
  /\ UNCHANGED calls

-----------------------------------------------------------------------------
HostStep == \E t \in Threads : (\E op \in Ops : Call(t, op)) \/ Lock(t) \/ NextEvent(t) \/ Submit(t)
DriverStep ==
  DriverTakes \/ DriverSends \/ DriverAnswers \/ DriverStops \/ DriverStopsShell \/ DriverGone

TunnelNext == HostStep \/ DriverStep \/ TasksEnd \/ ReactorExit \/ Observes \/ Free

\* The runtime polls the driver and the tasks, its select passes no ready
\* branch over for ever, and a thread inside a call goes on with it.
ServiceFairness ==
  /\ WF_tunnelVars(DriverStep) /\ SF_tunnelVars(DriverAnswers \/ DriverStops)
  /\ WF_tunnelVars(TasksEnd) /\ WF_tunnelVars(ReactorExit /\ reactor = "cancelled")
  /\ \A t \in Threads : WF_tunnelVars(Submit(t)) /\ WF_tunnelVars(Lock(t) \/ NextEvent(t))

\* A host that keeps a thread reading events.
HostReads == \A t \in Readers : WF_tunnelVars(Call(t, "event"))

-----------------------------------------------------------------------------
(* Properties *)

\* A shutdown call returns only when the tunnel's tasks and its reactor have
\* ended, whichever of several calls, or the reactor's own end, stopped it.
ShutdownMeansStopped ==
  [][\A t \in Threads :
       calls[t].op = "shutdown" /\ calls'[t] = NoCall => workers' = "ended" /\ reactor' = "ended"]_tunnelVars

\* Every shutdown call returns.  The driver waits for room among the events
\* before it looks at the commands again.
ShutdownReturns ==
  \A t \in Threads : (calls[t].op = "shutdown") ~> (calls[t].op # "shutdown")

\* Every shutdown call returns, and not before all it stops has ended.
ShutdownWorks == ShutdownMeansStopped /\ ShutdownReturns
=============================================================================
