------------------------------- MODULE MCStack --------------------------------
(* What the core holds on to between packets, in parts side by side; a       *)
(* behaviour exercises one: the local TCP stack with two clients and two     *)
(* ports, packet by packet, or with polls of two packets for one client or   *)
(* for one port; the fragment reassembler with more short datagrams than it  *)
(* has room for or with one longer at a time; or the buffer pool.            *)
EXTENDS LocalStack, Reassembly, BufferPool, TLC

CONSTANTS c1, c2, c3, k1, k2, k3, Parts

VARIABLE part

vars == <<part, stackVars, reassemblyVars, poolVars>>

MCPorts == <<80>>
MCOtherPorts == {81}

Burst == INSTANCE LocalStack WITH Clients <- {c3}, MaxInbound <- 2
Pair == INSTANCE LocalStack WITH OtherPorts <- {}, MaxInbound <- 2
Long == INSTANCE Reassembly WITH MaxPending <- 1, MaxDatagram <- 8

Interchangeable == Permutations({c1, c2}) \union Permutations({k1, k2, k3})

Init ==
  /\ part \in Parts
  /\ \/ part # "pair" /\ StackInit
     \/ part = "pair" /\ Pair!StackInit
  /\ ReassemblyInit /\ PoolInit

Next ==
  /\ UNCHANGED part
  /\ \/ part = "stack" /\ StackNext /\ UNCHANGED <<reassemblyVars, poolVars>>
     \/ part = "burst" /\ Burst!StackNext /\ UNCHANGED <<reassemblyVars, poolVars>>
     \/ part = "pair" /\ Pair!StackNext /\ UNCHANGED <<reassemblyVars, poolVars>>
     \/ part = "reassembly" /\ ReassemblyNext /\ UNCHANGED <<stackVars, poolVars>>
     \/ part = "tiles" /\ Long!ReassemblyNext /\ UNCHANGED <<stackVars, poolVars>>
     \/ part = "pool" /\ PoolNext /\ UNCHANGED <<stackVars, reassemblyVars>>

Spec == Init /\ [][Next]_vars
===============================================================================
