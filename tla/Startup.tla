------------------------------- MODULE Startup --------------------------------
(***************************************************************************)
(* Starting a tunnel: the C entry points of src/ffi/src/tunnel.rs, the     *)
(* parsing of src/ffi/src/config.rs, and the assembly of src/src/api.rs.   *)
(* What is handed over (the device's context or descriptor, the bypass     *)
(* context), opened (the underlay socket) and spawned is followed step by  *)
(* step, so that a start that fails half way shows what it leaves behind.  *)
(***************************************************************************)
EXTENDS Naturals, FiniteSets, FiniteSetsExt

CONSTANTS
  Requests   \* the calls a host may make; see Request

VARIABLES
  request,   \* the call being served
  stage,     \* the next thing the start does; "failed" and "started" end it
  status,    \* what the call returned
  plan,      \* the checked plan of the configuration
  live,      \* what the library holds
  givenBack, \* how often each context of the host was released
  spawned,   \* the tasks that run
  opened     \* whether a socket was opened

startupVars == <<request, stage, status, plan, live, givenBack, spawned, opened>>

\* What can be wrong with a call.
Faults == {"null config", "null device", "null bypass", "null out", "no recv", "no protect",
           "device mtu", "descriptor", "utf8", "null string", "endpoint", "address",
           "material", "half the authority", "link mtu", "runtime", "register", "not a host",
           "transport", "socket", "overhead", "ceiling", "authority", "server name"}

\* BoreasConfig and TunnelConfig as far as a start looks at them.  faults
\* are what is wrong with the call; most calls have none.
Request ==
  [entry : {"callbacks", "fd", "native"},
   egress : {"WireGuard", "Direct", "Vless"},
   resolver : {"Passthrough", "Do53", "Dot", "Doh", "Doq"},
   hosts : {"none", "empty", "some"}, lists : BOOLEAN,
   faults : SUBSET Faults]

\* The C surface has two egresses, one upstream, and no empty interception.
FromHeader(r) == r.egress # "Vless" /\ r.resolver \in {"Passthrough", "Do53"} /\ r.hosts # "empty"

ASSUME RequestsAssumption ==
  /\ Requests \subseteq Request
  /\ \A r \in Requests : r.entry = "native" \/ FromHeader(r)

NoPlan == [filter |-> "none", dns |-> "none", accepts |-> "none", terminates |-> FALSE, relays |-> FALSE]
Contexts == {"device", "bypass"}
Wrong(fault) == fault \in request.faults
FromC == request.entry # "native"

\* A C call starts at its pointers, Tunnel::start of a Rust host at the plan.
StartupInit ==
  /\ request \in Requests
  /\ stage = IF request.entry = "native" THEN "plan" ELSE "borrow"
  /\ status = "none" /\ plan = NoPlan
  /\ live = IF request.entry = "native" THEN Contexts ELSE {}
  /\ givenBack = [c \in Contexts |-> 0]
  /\ spawned = {} /\ opened = FALSE

-----------------------------------------------------------------------------
(* Each step goes on to the next or returns a status.  Returning drops     *)
(* what is held: the contexts are released, the socket closed, and with    *)
(* the C runtime its tasks; a Rust host's runtime goes on.                 *)

Refuse(code) ==
  /\ stage' = "failed" /\ status' = code
  /\ live' = {}
  /\ givenBack' = [c \in Contexts |-> givenBack[c] + IF c \in live THEN 1 ELSE 0]
  /\ spawned' = IF FromC THEN {} ELSE spawned
  /\ UNCHANGED <<request, plan, opened>>

GoOn(next) == stage' = next /\ UNCHANGED <<request, status>>

Hold(what, next) ==
  /\ GoOn(next)
  /\ live' = live \union {what}
  /\ UNCHANGED <<plan, givenBack, spawned, opened>>

Proceed(next) == GoOn(next) /\ UNCHANGED <<plan, live, givenBack, spawned, opened>>

\* The descriptor is owned before any pointer is looked at.
Nulls == IF request.entry = "fd" THEN {"null config", "null bypass", "null out"}
         ELSE {"null config", "null device", "null bypass", "null out"}

OwnFd == stage = "borrow" /\ request.entry = "fd" /\ "device" \notin live /\ Hold("device", "borrow")

Borrow ==
  /\ stage = "borrow" /\ (request.entry = "fd" => "device" \in live)
  /\ IF \E n \in Nulls : Wrong(n) THEN Refuse("NullArgument")
     ELSE Hold("bypass", IF request.entry = "fd" THEN "bypass" ELSE "device")

\* Mutant: the context is owned only once the MTU is known to do.
NewDeviceLate ==
  /\ stage = "device"
  /\ IF Wrong("no recv") \/ Wrong("device mtu") THEN Refuse("Config") ELSE Hold("device", "device mtu")

\* Device::new: the callbacks are looked at before the context is owned, the
\* MTU after it.
NewDevice ==
  /\ stage = "device"
  /\ IF Wrong("no recv") THEN Refuse("Config") ELSE Hold("device", "device mtu")

DeviceMtu ==
  /\ stage = "device mtu"
  /\ IF Wrong("device mtu") THEN Refuse("Config") ELSE Proceed("bypass")

NewBypass ==
  /\ stage = "bypass"
  /\ IF Wrong("no protect") THEN Refuse("Config")
     ELSE Proceed(IF request.entry = "fd" THEN "descriptor" ELSE "parse")

SetNonblocking ==
  /\ stage = "descriptor"
  /\ IF Wrong("device mtu") THEN Refuse("Config")
     ELSE IF Wrong("descriptor") THEN Refuse("Io")
     ELSE Proceed("parse")

\* BoreasConfig::parse, in its order: the first thing wrong is the status.
ParseChecks ==
  LET wireguard == request.egress = "WireGuard"
      local == request.resolver # "Passthrough"
      hosts == request.hosts = "some"
  IN <<<<wireguard /\ Wrong("utf8"), "NotUtf8">>,
       <<wireguard /\ Wrong("null string"), "NullArgument">>,
       <<wireguard /\ (Wrong("endpoint") \/ Wrong("link mtu")), "Config">>,
       <<local /\ Wrong("utf8"), "NotUtf8">>,
       <<local /\ Wrong("address"), "Config">>,
       <<hosts /\ Wrong("utf8"), "NotUtf8">>,
       <<hosts /\ Wrong("null string"), "NullArgument">>,
       <<hosts /\ Wrong("half the authority"), "Config">>,
       <<hosts /\ Wrong("material"), "Authority">>,
       <<request.lists /\ Wrong("utf8"), "NotUtf8">>,
       <<request.lists /\ Wrong("null string"), "NullArgument">>,
       <<Wrong("link mtu"), "Config">>>>

Parse ==
  /\ stage = "parse"
  /\ LET wrong == {i \in DOMAIN ParseChecks : ParseChecks[i][1]}
     IN IF wrong = {} THEN Proceed("runtime") ELSE Refuse(ParseChecks[Min(wrong)][2])

Runtime ==
  /\ stage = "runtime"
  /\ IF Wrong("runtime") THEN Refuse("Io")
     ELSE Hold("runtime", IF request.entry = "fd" THEN "register" ELSE "plan")

FromOwnedFd ==
  /\ stage = "register"
  /\ IF Wrong("register") THEN Refuse("Io") ELSE Proceed("plan")

-----------------------------------------------------------------------------
(* Tunnel::start *)

Accepts == IF request.egress = "WireGuard" THEN "IpPackets" ELSE "Flows"
Intercepts == request.hosts # "none"
Dns == IF request.resolver = "Passthrough" THEN "Forward" ELSE "Intercept"

\* Names cannot be seen, so nothing asked for could be filtered.
NothingToFilter ==
  /\ Dns = "Forward"
  /\ request.lists \/ (Intercepts /\ Accepts = "IpPackets")

MakePlan ==
  /\ stage = "plan"
  /\ IF \/ Intercepts /\ (request.hosts = "empty" \/ Wrong("not a host"))
        \/ NothingToFilter
     THEN Refuse("Config")
     ELSE /\ GoOn("egress")
          /\ plan' = [filter |-> IF Intercepts THEN "InspectHttp" ELSE "PassThrough",
                      dns |-> Dns, accepts |-> Accepts,
                      terminates |-> Accepts = "Flows" \/ Intercepts, relays |-> Accepts = "Flows"]
          /\ UNCHANGED <<live, givenBack, spawned, opened>>

\* WireGuard's underlay is opened through the bypass; a proxy's transport may
\* not build.
BuildEgress ==
  /\ stage = "egress"
  /\ IF request.egress = "WireGuard"
     THEN IF Wrong("socket") THEN Refuse("Io")
          ELSE /\ GoOn("datapath") /\ opened' = TRUE
               /\ live' = live \union {"socket"}
               /\ UNCHANGED <<plan, givenBack, spawned>>
     ELSE IF request.egress = "Vless" /\ Wrong("transport") THEN Refuse("Egress")
     ELSE Proceed("datapath")

BuildDatapath ==
  /\ stage = "datapath"
  /\ IF Wrong("overhead") THEN Refuse("Datapath")
     ELSE Proceed(IF plan.terminates THEN "stack" ELSE "relay")

Run(ts, next) ==
  /\ GoOn(next)
  /\ spawned' = spawned \union ts
  /\ UNCHANGED <<plan, live, givenBack, opened>>

\* start_termination: the terminator runs before the authority is opened.
StartTerminator ==
  /\ stage = "stack"
  /\ IF Wrong("ceiling") THEN Refuse("Termination") ELSE Run({"terminator"}, "sessions")

StartSessions ==
  /\ stage = "sessions"
  /\ IF Wrong("authority") THEN Refuse("Authority") ELSE Run({"sessions"}, "relay")

StartRelay ==
  /\ stage = "relay"
  /\ IF plan.relays THEN Run({"relay"}, "shell") ELSE Proceed("shell")

\* Upstream::build parses the server name of DoT, the URL of DoH.
UpstreamBuilds == ~(request.resolver \in {"Dot", "Doh"} /\ Wrong("server name"))

\* Shell::start spawns both loops.
ShellTasks == {"resolver", "reactor"}

StartShell ==
  /\ stage = "shell"
  /\ IF UpstreamBuilds THEN Run(ShellTasks, "launch") ELSE Refuse("Config")

Launch ==
  /\ stage = "launch" /\ stage' = "started" /\ status' = "Ok"
  /\ spawned' = spawned \union (IF FromC THEN {"driver"} ELSE {})
  /\ UNCHANGED <<request, plan, live, givenBack, opened>>

\* After a failed start the channels' other ends are gone: the terminator and
\* the relay find them closed, and the sessions when the terminator has ended.
TaskEnds(t) ==
  /\ stage = "failed" /\ t \in spawned
  /\ t = "sessions" => "terminator" \notin spawned
  /\ spawned' = spawned \ {t}
  /\ UNCHANGED <<request, stage, status, plan, live, givenBack, opened>>

StartupNext ==
  \/ OwnFd \/ Borrow \/ NewDevice \/ DeviceMtu \/ NewBypass \/ SetNonblocking \/ Parse \/ Runtime
  \/ FromOwnedFd \/ MakePlan \/ BuildEgress \/ BuildDatapath \/ StartTerminator \/ StartSessions
  \/ StartRelay \/ StartShell \/ Launch
  \/ \E t \in {"terminator", "sessions", "relay"} : TaskEnds(t)

StartupFairness == WF_startupVars(StartupNext)

-----------------------------------------------------------------------------
(* Properties *)

\* What a failed start never took over: a call with a null pointer gives over
\* nothing, and a device without its callbacks is not one.
Kept == (IF status = "NullArgument" THEN Contexts ELSE {})
        \union (IF Wrong("no recv") THEN {"device"} ELSE {})

\* A start either hands the tunnel over with nothing released, or ends with
\* no socket and, in time, no task, every context and descriptor it took over
\* released exactly once.
StartSettles ==
  <>[]\/ stage = "started" /\ \A c \in Contexts : givenBack[c] = 0
      \/ /\ stage = "failed" /\ live = {} /\ spawned = {}
         /\ \A c \in Contexts :
              \/ givenBack[c] = 1
              \/ givenBack[c] = 0 /\ c \in Kept /\ ~(c = "device" /\ request.entry = "fd")
=============================================================================
