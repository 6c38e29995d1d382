------------------------------- MODULE MCTunnel -------------------------------
(* The life of a tunnel in five parts side by side; a behaviour exercises   *)
(* one: a start, the running tunnel's calls, the device threads, the        *)
(* reactor, or the resolver.                                                *)
EXTENDS Startup, Tunnel, Seam, Reactor, Resolver

CONSTANT Parts

VARIABLE part

vars == <<part, startupVars, tunnelVars, seamVars, reactorVars, resolverVars>>

MCQuestion ==
  [q1 |-> [name |-> <<"ads", "site">>, kind |-> "query", room |-> 2],
   q2 |-> [name |-> <<"ads", "site">>, kind |-> "query", room |-> 1],
   q3 |-> [name |-> <<"site">>, kind |-> "malformed", room |-> 2]]

MCPolicies ==
  {[allowed |-> {}, blocked |-> {<<"site">>}, inspected |-> {<<"ads", "site">>}],
   [allowed |-> {<<"site">>}, blocked |-> {<<"ads", "site">>}, inspected |-> {}]}

Record(ttl, svc, addr) == [ttl |-> ttl, svc |-> svc, addr |-> addr]
MCReplies ==
  {[rcode |-> "NoError", form |-> "whole", soa |-> 0,
    records |-> <<Record(0, {"ech", "h3"}, "none"), Record(9, {}, "v4")>>],
   [rcode |-> "NameError", form |-> "whole", soa |-> 2, records |-> <<>>],
   [rcode |-> "NoError", form |-> "broken", soa |-> 0, records |-> <<>>]}

\* Every way to ask, with one fault or none, or two where their order shows.
Faulty == {{}, {"utf8", "link mtu"}, {"authority", "server name"}} \union {{f} : f \in Faults}
MCRequests ==
  {r \in [entry : {"callbacks", "fd", "native"}, egress : {"WireGuard", "Direct", "Vless"},
          resolver : {"Passthrough", "Do53", "Dot"}, hosts : {"none", "empty", "some"},
          lists : BOOLEAN, faults : Faulty] : r.entry = "native" \/ FromHeader(r)}

\* The parts a behaviour does not exercise are over.
StartupOver ==
  /\ request = CHOOSE r \in Requests : TRUE
  /\ stage = "started" /\ status = "Ok" /\ plan = NoPlan /\ live = {}
  /\ givenBack = [c \in Contexts |-> 0] /\ spawned = {} /\ opened = FALSE

TunnelOver ==
  /\ calls = [t \in Threads |-> NoCall]
  /\ commands = <<>> /\ events = 0 /\ telemetry = 0
  /\ driver = [at |-> "gone", caller |-> Nobody]
  /\ workers = "ended" /\ reactor = "ended" /\ freed = TRUE

SeamOver ==
  /\ owner = "ended" /\ reader = "gone" /\ writer = "gone"
  /\ refill = 0 /\ inbound = <<>> /\ outbound = 0 /\ refs = 0 /\ released = 1

Init ==
  /\ part \in Parts
  /\ IF part = "startup" THEN StartupInit ELSE StartupOver
  /\ IF part = "tunnel" THEN TunnelInit ELSE TunnelOver
  /\ IF part = "seam" THEN SeamInit ELSE SeamOver
  /\ \/ part = "reactor" /\ ReactorInit
     \/ /\ part # "reactor" /\ at = "ended" /\ consumers = Queues
        /\ stop = TRUE /\ stopping = TRUE /\ emits = <<>> /\ transmits = <<>> /\ sink = <<>>
        /\ outputs = [q \in Queues |-> 0] /\ counters = Zero /\ passes = 0 /\ lost = 0
        /\ owed = [seen |-> 0, queued |-> [q \in Queues |-> 0]]
  /\ \/ part = "resolver" /\ ResolverInit
     \/ /\ part # "resolver" /\ policy = CHOOSE p \in Policies : TRUE
        /\ now = 0 /\ reloads = 0 /\ seen = 0 /\ cancelled = TRUE
        /\ cache = EmptyMemo /\ pending = <<>> /\ answers = <<>>
        /\ loop = [at |-> "ended", query |-> "none"] /\ tasks = [q \in Queries |-> Idle]

Next ==
  /\ UNCHANGED part
  /\ \/ part = "startup" /\ StartupNext
        /\ UNCHANGED <<tunnelVars, seamVars, reactorVars, resolverVars>>
     \/ part = "tunnel" /\ TunnelNext
        /\ UNCHANGED <<startupVars, seamVars, reactorVars, resolverVars>>
     \/ part = "seam" /\ SeamNext
        /\ UNCHANGED <<startupVars, tunnelVars, reactorVars, resolverVars>>
     \/ part = "reactor" /\ ReactorNext
        /\ UNCHANGED <<startupVars, tunnelVars, seamVars, resolverVars>>
     \/ part = "resolver" /\ ResolverNext
        /\ UNCHANGED <<startupVars, tunnelVars, seamVars, reactorVars>>

Fairness == StartupFairness /\ ServiceFairness /\ SeamFairness /\ ReactorFairness /\ ResolverFairness

Spec == Init /\ [][Next]_vars /\ Fairness /\ HostReads

\* What is started settles and what is cancelled ends: a start, the reactor and
\* the resolver, whatever the device, the upstream and the host's reads do.
EverythingSettles == StartSettles /\ ReactorEnds /\ ResolverEnds
=============================================================================
