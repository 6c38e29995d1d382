---------------------------- MODULE MCTerminator ----------------------------
(* The terminator on one configured port, in three instances side by side:  *)
(* a behaviour carries bytes both ways while nothing ends, or gives one slot *)
(* to two clients in turn, or, with no bytes, lives through resets,         *)
(* cancellation and the end of the reactor.                                 *)
EXTENDS Terminator

CONSTANT Parts

VARIABLE part

mcVars == <<part, vars>>

MCPorts == <<80>>

Ends == INSTANCE Terminator WITH
          MaxSockets <- 1, RxUnits <- 1, MaxUnits <- 0, MaxInbound <- 1,
          ChunkSize <- 1, MaxWrites <- 0, MaxBurst <- 1, MayEnd <- TRUE

Slots == INSTANCE Terminator WITH
           Clients <- {"c1", "c2"}, MaxSockets <- 1, RxUnits <- 1, MaxUnits <- 1,
           ChunkSize <- 1

MCInit ==
  /\ part \in Parts
  /\ \/ part = "bytes" /\ Init
     \/ part = "slots" /\ Slots!Init
     \/ part = "ends" /\ Ends!Init

MCNext ==
  /\ UNCHANGED part
  /\ \/ part = "bytes" /\ Next
     \/ part = "slots" /\ Slots!Next
     \/ part = "ends" /\ Ends!Next

\* The runtime keeps polling the terminator, whose select picks among ready
\* branches at random, and a task that awaits a read.
MCSpec ==
  /\ MCInit /\ [][MCNext]_mcVars
  /\ WF_vars(part = "ends" /\ Ends!Service)
  /\ WF_vars(part = "ends" /\ Ends!Wake)
  /\ SF_vars(part = "ends" /\ Ends!Break)
  /\ \A c \in Clients : WF_vars(part = "ends" /\ Ends!Read(c))

\* Whatever ends a connection, its task learns of it as long as it keeps
\* reading, and a cancelled terminator stops whatever its streams and the
\* reply channel do.
EndsReported == part = "ends" => Ends!EndReported /\ Ends!CancelStops
=============================================================================
