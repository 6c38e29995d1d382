------------------------------ MODULE IdleFlows ------------------------------
(***************************************************************************)
(* What the flow table promises the datapath, without a timer wheel: a map *)
(* from live keys to deadlines, each an idle timeout after the last        *)
(* refresh.  A flow ends when a path change rejects it or when its own     *)
(* deadline has passed, and only the latter is returned as expired.        *)
(***************************************************************************)
EXTENDS Integers

CONSTANTS Keys, IdleTimeout

VARIABLES flows, expired, now

\* A packet of the flow opens it or refreshes it.
Touch(k) ==
  /\ flows' = [j \in DOMAIN flows \union {k} |->
                 IF j = k THEN now + IdleTimeout ELSE flows[j]]
  /\ expired' = {}
  /\ now' = now

\* A path change rejects some flows.
Reject(kept) ==
  /\ flows' = [k \in kept |-> flows[k]]
  /\ expired' = {}
  /\ now' = now

\* Some of the flows whose deadline has passed end.
Evict(gone) ==
  /\ \A k \in gone : flows[k] <= now
  /\ flows' = [k \in DOMAIN flows \ gone |-> flows[k]]
  /\ expired' = gone
  /\ now' = now

Advance ==
  /\ now' = now + 1
  /\ flows' = flows
  /\ expired' = {}

Init == flows = [k \in {} |-> 0] /\ expired = {} /\ now = 0

Next ==
  \/ \E k \in Keys : Touch(k)
  \/ \E kept \in SUBSET DOMAIN flows : Reject(kept)
  \/ \E gone \in SUBSET DOMAIN flows : Evict(gone)
  \/ Advance

Spec == Init /\ [][Next]_<<flows, expired, now>>
=============================================================================
