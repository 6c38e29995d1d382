------------------------------ MODULE FlowTable ------------------------------
(***************************************************************************)
(* The idle-expiring flow table of the datapath, UdpFlowTable in           *)
(* src/l3/udp.rs, with the timer wheel that indexes its deadlines.         *)
(*                                                                         *)
(* Instants are ticks since the wheel's epoch, TicksPerSecond to a second, *)
(* so that a deadline inside a second differs from the second's start.  A  *)
(* Vec of wheel entries is a set of entries whose `id' tells apart two     *)
(* entries of the same key and second; an id says nothing to the table.    *)
(***************************************************************************)
EXTENDS Integers, FiniteSets

CONSTANTS Keys,            \* flow keys
          Buckets,         \* WHEEL_BUCKETS, 512 in the code
          TicksPerSecond,  \* resolution of Instant
          IdleTimeout,     \* idle_timeout, in ticks
          Ceiling,         \* at most this many live flows
          EntryIds,        \* bound: wheel entries that exist at once
          MaxTime          \* bound: the last instant, in ticks

ASSUME FlowTableAssumption ==
  /\ Buckets \in Nat \ {0}
  /\ TicksPerSecond \in Nat \ {0}
  /\ IdleTimeout \in Nat /\ IdleTimeout >= TicksPerSecond  \* MIN_IDLE_TIMEOUT
  /\ Ceiling \in Nat \ {0}
  /\ MaxTime \in Nat

VARIABLES flows,     \* live key -> its exact deadline
          buckets,   \* wheel.buckets
          overflow,  \* wheel.overflow
          drained,   \* wheel.drained
          expired,   \* the flows the last call returned as expired
          now        \* the clock of the reactor that owns the table

wheel == <<buckets, overflow, drained>>
vars == <<flows, buckets, overflow, drained, expired, now>>

Entry == [second : Nat, key : Keys, id : EntryIds]

Second(instant) == instant \div TicksPerSecond

Index == overflow \union UNION {buckets[b] : b \in 0 .. Buckets - 1}

UnusedIds == EntryIds \ {e.id : e \in Index}

-----------------------------------------------------------------------------
(* TimerWheel                                                              *)

\* insert: the second an entry is filed under is never before `base', the
\* first second not yet drained.
FiledSecond(deadline, base) ==
  IF Second(deadline) >= base THEN Second(deadline) ELSE base

IsNear(e, base) == e.second < base + Buckets

BucketsWith(bs, entries) ==
  [b \in 0 .. Buckets - 1 |->
     bs[b] \union {e \in entries : e.second % Buckets = b}]

\* take_due: what the overflow pass, which compares with `drained' as it was
\* before the pass, and the loop over the arrived seconds take out.
Visited(b, horizon) == \E d \in drained .. horizon : d % Buckets = b

SurfacedStrictly(horizon) ==
  {e \in overflow : e.second <= horizon}
    \union UNION {{e \in buckets[b] : e.second < horizon} :
                    b \in {c \in 0 .. Buckets - 1 : Visited(c, horizon)}}

Surfaced(horizon) ==
  {e \in overflow : e.second <= horizon}
    \union UNION {{e \in buckets[b] : e.second <= horizon} :
                    b \in {c \in 0 .. Buckets - 1 : Visited(c, horizon)}}

Promoted(horizon) ==
  {e \in overflow : e.second > horizon /\ IsNear(e, drained)}

Deferred(horizon) ==
  {e \in overflow : e.second > horizon /\ ~IsNear(e, drained)}

BucketsAfter(horizon) ==
  [b \in 0 .. Buckets - 1 |->
     {e \in buckets[b] : Visited(b, horizon) => e.second > horizon}]

DrainedAfter(horizon) == IF drained <= horizon THEN horizon + 1 ELSE drained

\* next_due: the first second of the coming rotation with an occupied bucket,
\* else the end of the rotation if only the overflow holds entries.
OccupiedSeconds ==
  {s \in drained .. drained + Buckets - 1 : buckets[s % Buckets] # {}}

HasNextDueBucketsOnly == OccupiedSeconds # {}
HasNextDue == OccupiedSeconds # {} \/ overflow # {}

NextDue ==
  IF OccupiedSeconds # {}
  THEN CHOOSE s \in OccupiedSeconds : \A t \in OccupiedSeconds : s <= t
  ELSE drained + Buckets

NextDeadline == NextDue * TicksPerSecond

-----------------------------------------------------------------------------
(* UdpFlowTable                                                            *)

Init ==
  /\ flows = [k \in {} |-> 0]
  /\ buckets = [b \in 0 .. Buckets - 1 |-> {}]
  /\ overflow = {}
  /\ drained = 0
  /\ expired = {}
  /\ now = 0

\* get_or_insert_with on a live key: only the deadline moves.
Refresh(k) ==
  /\ k \in DOMAIN flows
  /\ flows' = [flows EXCEPT ![k] = now + IdleTimeout]
  /\ expired' = {}
  /\ UNCHANGED <<wheel, now>>

\* The negation of `full', read before the entry is looked up.
HasRoom == Cardinality(DOMAIN flows) < Ceiling

\* get_or_insert_with on a vacant key.
Open(k) ==
  /\ k \notin DOMAIN flows
  /\ HasRoom
  /\ UnusedIds # {}
  /\ flows' = [j \in DOMAIN flows \union {k} |->
                 IF j = k THEN now + IdleTimeout ELSE flows[j]]
  /\ LET e == [second |-> FiledSecond(now + IdleTimeout, drained),
               key |-> k,
               id |-> CHOOSE i \in UnusedIds : TRUE]
     IN IF IsNear(e, drained)
        THEN /\ buckets' = BucketsWith(buckets, {e})
             /\ UNCHANGED overflow
        ELSE /\ overflow' = overflow \union {e}
             /\ UNCHANGED buckets
  /\ expired' = {}
  /\ UNCHANGED <<drained, now>>

\* retain: the flows a path change rejects go, their wheel entries stay.
Retain(kept) ==
  /\ kept \subseteq DOMAIN flows /\ kept # DOMAIN flows
  /\ flows' = [k \in kept |-> flows[k]]
  /\ expired' = {}
  /\ UNCHANGED <<wheel, now>>

\* The wheel entries a pass files again: their flow is live and not yet due.
\* They are filed against the advanced `drained'.
RefiledNever(horizon) == {}

Refiled(horizon) ==
  {[second |-> FiledSecond(flows[e.key], DrainedAfter(horizon)),
    key |-> e.key, id |-> e.id] :
     e \in {s \in Surfaced(horizon) :
              s.key \in DOMAIN flows /\ flows[s.key] > now}}

\* The keys whose flow a pass evicts.
ExpiredUnchecked(horizon) ==
  {k \in DOMAIN flows : \E e \in Surfaced(horizon) : e.key = k}

Expired(horizon) ==
  {k \in DOMAIN flows :
     flows[k] <= now /\ \E e \in Surfaced(horizon) : e.key = k}

\* expire, called by on_timeout at the current instant.
Expire ==
  LET horizon == Second(now)
      base == DrainedAfter(horizon)
      refiled == Refiled(horizon)
  IN /\ flows' = [k \in DOMAIN flows \ Expired(horizon) |-> flows[k]]
     /\ expired' = Expired(horizon)
     /\ buckets' = BucketsWith(BucketsAfter(horizon),
                               Promoted(horizon)
                                 \union {e \in refiled : IsNear(e, base)})
     /\ overflow' = Deferred(horizon)
                      \union {e \in refiled : ~IsNear(e, base)}
     /\ drained' = base
     /\ UNCHANGED now

\* The shared timer of the reactor fires for this table.
TimerFires == HasNextDue /\ NextDeadline <= now /\ Expire

Tick ==
  /\ now < MaxTime
  /\ now' = now + 1
  /\ expired' = {}
  /\ UNCHANGED <<flows, wheel>>

\* Expire is not guarded by this table's own deadline: the timer is shared
\* with the reassembler and the inspected addresses.
Next ==
  \/ \E k \in Keys : Refresh(k)
  \/ \E k \in Keys : Open(k)
  \/ \E kept \in SUBSET DOMAIN flows : Retain(kept)
  \/ Expire
  \/ Tick

Spec == Init /\ [][Next]_vars

\* Time passes, and the reactor serves its timer.
FairSpec == Spec /\ WF_vars(Tick) /\ WF_vars(TimerFires)

-----------------------------------------------------------------------------
(* Properties                                                              *)

\* The state has the shape of the Rust fields, and no deadline is further
\* away than one idle timeout.
TypeOK ==
  /\ DOMAIN flows \subseteq Keys
  /\ flows \in [DOMAIN flows -> 0 .. now + IdleTimeout]
  /\ buckets \in [0 .. Buckets - 1 -> SUBSET Entry]
  /\ overflow \subseteq Entry
  /\ drained \in Nat
  /\ expired \subseteq Keys
  /\ now \in Nat

\* Every entry of a bucket lies in the rotation that starts at `drained', so
\* two entries of one bucket have the same second: the collisions that
\* take_due puts back cannot arise.
OneRotation ==
  \A b \in 0 .. Buckets - 1 : \A e \in buckets[b] :
    /\ e.second >= drained /\ e.second < drained + Buckets
    /\ e.second % Buckets = b

\* Nothing that take_due has passed is left in the overflow.
OverflowAhead == \A e \in overflow : e.second >= drained

\* take_due never drains a second that has not begun, so a deadline in the
\* future is never filed before its time has come.
DrainedBehind == drained <= Second(now) + 1

\* No flow is forgotten: a live flow has an entry in the wheel that surfaces
\* at the latest in the second after its deadline's, whatever refreshes,
\* path changes and expiry passes came between.
LiveFlowIndexed ==
  \A k \in DOMAIN flows :
    \E e \in Index : e.key = k /\ e.second <= Second(flows[k]) + 1

\* get_or_insert_with never lets the table grow past its ceiling.
CeilingKept == Cardinality(DOMAIN flows) <= Ceiling

\* next_deadline is never a full rotation late for any live flow, the bound
\* that holds in every state.
LateByLessThanRotation ==
  \A k \in DOMAIN flows :
    HasNextDue /\ NextDue <= Second(flows[k]) + 1 + Buckets

\* While the overflow is empty, next_deadline falls before the end of the
\* second that holds any live flow's deadline.
OnTimeWithoutOverflow ==
  overflow = {} =>
    \A k \in DOMAIN flows : HasNextDue /\ NextDue <= Second(flows[k]) + 1

\* The wheel never loses sight of a live flow: every one is indexed in its own
\* rotation, behind a drained second that never runs ahead of the clock, and
\* the timer that next_deadline arms fires for it within the stated bounds,
\* while the table keeps under its ceiling.
FlowsWatched ==
  /\ OneRotation /\ DrainedBehind /\ LiveFlowIndexed
  /\ LateByLessThanRotation /\ OnTimeWithoutOverflow /\ CeilingKept

\* An expiry pass is complete: no flow it leaves was due before the second
\* the pass ran in.
PassIsComplete ==
  [][Expire => \A k \in DOMAIN flows' : Second(flows'[k]) >= Second(now)]_vars

\* A flow that is not refreshed is evicted: a deadline does not stand for
\* ever once the timer can fire past it within the bound on time.
IdleFlowEvicted ==
  \A k \in Keys :
    \A d \in 0 .. (MaxTime - (Buckets + 2) * TicksPerSecond) :
      (k \in DOMAIN flows /\ flows[k] = d)
        ~> ~(k \in DOMAIN flows /\ flows[k] = d)

\* The abstract table of idle flows that this one implements.
IdleFlows == INSTANCE IdleFlows
IdleFlowsSpec == IdleFlows!Spec
=============================================================================
