--------------------------- MODULE ResourceProofs ---------------------------
(* What is counted and given back, for any capacity and number of users:     *)
(* the flow table (every wheel size, clock resolution, idle timeout and set  *)
(* of keys), the buffer pool, the device the host supplies, the replay       *)
(* windows and streams of the datagram associations.                         *)
EXTENDS FlowTable, BufferPool, Seam, Associations, FiniteSetTheorems, WellFoundedInduction, TLAPS

\* The inductive invariant.  LiveFlowIndexed alone is not inductive: a pass
\* keeps an indexed flow indexed only because no bucket holds an entry that
\* the pass skipped (OneRotation, OverflowAhead) and because a deadline in
\* the future is filed no later than the second after it (DrainedBehind).
IInv ==
  TypeOK /\ OneRotation /\ OverflowAhead /\ DrainedBehind /\ LiveFlowIndexed

-----------------------------------------------------------------------------
(* Seconds of instants                                                     *)

\* The second of an instant is a natural number and grows with the instant.
LEMMA SecondMonotone ==
  \A s, t \in Nat :
    Second(s) \in Nat /\ (s <= t => Second(s) <= Second(t))
  BY FlowTableAssumption, SMT DEF Second

\* A refreshed deadline lies in a later second than the refresh, because
\* the idle timeout is at least a second (MIN_IDLE_TIMEOUT).
LEMMA DeadlineInLaterSecond ==
  \A t \in Nat : Second(t + IdleTimeout) >= Second(t) + 1
<1> TAKE t \in Nat
<1>1. Second(t + TicksPerSecond) = Second(t) + 1
  BY FlowTableAssumption, SMT DEF Second
<1>2. Second(t + TicksPerSecond) <= Second(t + IdleTimeout)
  BY FlowTableAssumption, SecondMonotone
<1>3. Second(t) \in Nat /\ Second(t + IdleTimeout) \in Nat
  BY FlowTableAssumption, SecondMonotone
<1> QED BY <1>1, <1>2, <1>3

\* A second falls in one of the wheel's buckets.
LEMMA BucketOfSecond == \A s \in Nat : s % Buckets \in 0 .. Buckets - 1
  BY FlowTableAssumption, SMT

\* insert files an entry at or after `drained', and not after the second
\* that follows the deadline's unless `drained' itself is later.
LEMMA FiledSecondBounds ==
  ASSUME NEW d \in Nat, NEW base \in Nat
  PROVE  /\ FiledSecond(d, base) \in Nat
         /\ FiledSecond(d, base) >= base
         /\ base <= Second(d) + 1 => FiledSecond(d, base) <= Second(d) + 1
  BY SecondMonotone DEF FiledSecond

-----------------------------------------------------------------------------
(* The invariant                                                           *)

LEMMA InitIInv == Init => IInv
<1> SUFFICES ASSUME Init PROVE IInv
  OBVIOUS
<1> USE FlowTableAssumption DEF Init
<1>1. TypeOK
  BY DEF TypeOK
<1>2. OneRotation /\ OverflowAhead /\ LiveFlowIndexed
  BY DEF OneRotation, OverflowAhead, LiveFlowIndexed
<1>3. DrainedBehind
  BY SecondMonotone DEF DrainedBehind
<1> QED BY <1>1, <1>2, <1>3 DEF IInv

LEMMA RefreshIInv ==
  ASSUME IInv, NEW k \in Keys, Refresh(k)
  PROVE  IInv'
<1> USE FlowTableAssumption DEF IInv, Refresh, wheel
<1>1. TypeOK'
  BY DEF TypeOK, Entry
<1>2. OneRotation' /\ OverflowAhead' /\ DrainedBehind'
  BY DEF OneRotation, OverflowAhead, DrainedBehind
<1>3. LiveFlowIndexed'
  <2> SUFFICES ASSUME NEW j \in DOMAIN flows
               PROVE  \E e \in Index :
                        e.key = j /\ e.second <= Second(flows'[j]) + 1
    BY DEF LiveFlowIndexed, Index
  <2>1. PICK e \in Index : e.key = j /\ e.second <= Second(flows[j]) + 1
    BY DEF LiveFlowIndexed
  <2>2. e.second \in Nat
    BY DEF TypeOK, Index, Entry
  <2>3. flows[j] \in Nat /\ flows'[j] \in Nat /\ flows[j] <= flows'[j]
    BY DEF TypeOK
  <2>4. Second(flows[j]) \in Nat /\ Second(flows'[j]) \in Nat
        /\ Second(flows[j]) <= Second(flows'[j])
    BY <2>3, SecondMonotone
  <2> QED BY <2>1, <2>2, <2>4
<1> QED BY <1>1, <1>2, <1>3

LEMMA RetainIInv ==
  ASSUME IInv, NEW kept \in SUBSET DOMAIN flows, Retain(kept)
  PROVE  IInv'
<1> USE DEF IInv, Retain, wheel
<1>1. TypeOK'
  BY DEF TypeOK, Entry
<1>2. OneRotation' /\ OverflowAhead' /\ DrainedBehind'
  BY DEF OneRotation, OverflowAhead, DrainedBehind
<1>3. LiveFlowIndexed'
  BY DEF LiveFlowIndexed, Index
<1> QED BY <1>1, <1>2, <1>3

LEMMA TickIInv ==
  ASSUME IInv, Tick
  PROVE  IInv'
<1> USE FlowTableAssumption DEF IInv, Tick, wheel
<1>1. TypeOK'
  BY DEF TypeOK, Entry
<1>2. OneRotation' /\ OverflowAhead' /\ LiveFlowIndexed'
  BY DEF OneRotation, OverflowAhead, LiveFlowIndexed, Index
<1>3. DrainedBehind'
  <2>1. now \in Nat /\ now + 1 \in Nat /\ drained \in Nat
    BY DEF TypeOK
  <2>2. Second(now) <= Second(now + 1) /\ Second(now) \in Nat
        /\ Second(now + 1) \in Nat
    BY <2>1, SecondMonotone
  <2> QED BY <2>1, <2>2 DEF DrainedBehind
<1> QED BY <1>1, <1>2, <1>3

LEMMA OpenIInv ==
  ASSUME IInv, NEW k \in Keys, Open(k)
  PROVE  IInv'
<1> USE FlowTableAssumption DEF IInv
<1> DEFINE e == [second |-> FiledSecond(now + IdleTimeout, drained),
                 key |-> k,
                 id |-> CHOOSE i \in UnusedIds : TRUE]
<1>1. now \in Nat /\ drained \in Nat /\ now + IdleTimeout \in Nat
  BY DEF TypeOK
<1>2. Second(now) \in Nat /\ Second(now + IdleTimeout) \in Nat
      /\ Second(now + IdleTimeout) >= Second(now) + 1
  BY <1>1, SecondMonotone, DeadlineInLaterSecond
<1>3. drained <= Second(now + IdleTimeout)
  BY <1>1, <1>2 DEF DrainedBehind
<1>4. e.second = Second(now + IdleTimeout) /\ e.key = k
  BY <1>3 DEF FiledSecond
<1>5. e \in Entry
  BY <1>2, <1>4 DEF Open, UnusedIds, Entry
<1>6. \/ /\ IsNear(e, drained)
         /\ buckets' = BucketsWith(buckets, {e})
         /\ overflow' = overflow
      \/ /\ ~IsNear(e, drained)
         /\ overflow' = overflow \union {e}
         /\ buckets' = buckets
  BY DEF Open
<1>7. drained' = drained /\ now' = now /\ expired' = {}
      /\ flows' = [j \in DOMAIN flows \union {k} |->
                     IF j = k THEN now + IdleTimeout ELSE flows[j]]
  BY DEF Open
<1> HIDE DEF e
<1>8. TypeOK'
  <2>1. DOMAIN flows' \subseteq Keys
        /\ flows' \in [DOMAIN flows' -> 0 .. now' + IdleTimeout]
    BY <1>1, <1>7 DEF TypeOK
  <2>2. buckets' \in [0 .. Buckets - 1 -> SUBSET Entry]
    BY <1>5, <1>6 DEF TypeOK, BucketsWith
  <2>3. overflow' \subseteq Entry
    BY <1>5, <1>6 DEF TypeOK
  <2> QED BY <2>1, <2>2, <2>3, <1>7 DEF TypeOK
<1>9. OneRotation'
  <2>1. IsNear(e, drained) =>
          \A b \in 0 .. Buckets - 1 : \A f \in BucketsWith(buckets, {e})[b] :
            f.second >= drained /\ IsNear(f, drained) /\ f.second % Buckets = b
    BY <1>3, <1>4 DEF OneRotation, BucketsWith, IsNear
  <2> QED BY <2>1, <1>6, <1>7 DEF OneRotation, IsNear
<1>10. OverflowAhead'
  BY <1>3, <1>4, <1>6, <1>7 DEF OverflowAhead
<1>11. DrainedBehind'
  BY <1>7 DEF DrainedBehind
<1>12. e \in Index' /\ Index \subseteq Index'
  <2>1. e.second % Buckets \in 0 .. Buckets - 1
    BY <1>2, <1>4, BucketOfSecond
  <2> QED BY <2>1, <1>6 DEF Index, BucketsWith
<1>13. LiveFlowIndexed'
  <2> SUFFICES ASSUME NEW j \in DOMAIN flows'
               PROVE  \E f \in Index' :
                        f.key = j /\ f.second <= Second(flows'[j]) + 1
    BY DEF LiveFlowIndexed, Second
  <2>1. CASE j = k
    BY <2>1, <1>2, <1>4, <1>7, <1>12
  <2>2. CASE j # k
    BY <2>2, <1>7, <1>12 DEF LiveFlowIndexed
  <2> QED BY <2>1, <2>2
<1> QED BY <1>8, <1>9, <1>10, <1>11, <1>13

-----------------------------------------------------------------------------
(* An expiry pass                                                          *)

\* What take_due leaves in a bucket it visited, and in one it did not, lies
\* after the horizon: an arrived second of this rotation is always visited.
LEMMA RemainingAhead ==
  ASSUME IInv, NEW h \in Nat, NEW b \in 0 .. Buckets - 1,
         NEW e \in BucketsAfter(h)[b]
  PROVE  e \in buckets[b] /\ e.second > h
<1>1. e \in buckets[b] /\ (Visited(b, h) => e.second > h)
  BY DEF BucketsAfter
<1>2. e.second \in Nat /\ drained \in Nat
  BY <1>1 DEF IInv, TypeOK, Entry
<1>3. e.second >= drained /\ e.second % Buckets = b
  BY <1>1 DEF IInv, OneRotation
<1>4. e.second <= h => Visited(b, h)
  BY <1>2, <1>3 DEF Visited
<1> QED BY <1>1, <1>2, <1>4

\* Every entry of the wheel is either surfaced, or survives take_due.
LEMMA SurfacedOrKept ==
  ASSUME IInv, NEW h \in Nat, NEW e \in Index
  PROVE  \/ e \in Surfaced(h)
         \/ e \in Promoted(h)
         \/ e \in Deferred(h)
         \/ \E b \in 0 .. Buckets - 1 : e \in BucketsAfter(h)[b]
<1>1. e.second \in Nat
  BY DEF IInv, TypeOK, Index, Entry
<1>2. CASE e \in overflow
  BY <1>1, <1>2 DEF Surfaced, Promoted, Deferred
<1>3. CASE \E b \in 0 .. Buckets - 1 : e \in buckets[b]
  BY <1>1, <1>3 DEF Surfaced, BucketsAfter
<1> QED BY <1>2, <1>3 DEF Index

\* An entry that is filed again lies at or after the advanced `drained', and
\* not after the second that follows its flow's deadline.
LEMMA RefiledBounds ==
  ASSUME IInv, NEW e \in Refiled(Second(now))
  PROVE  LET base == DrainedAfter(Second(now))
         IN /\ e \in Entry
            /\ e.second >= base
            /\ e.key \in DOMAIN flows
            /\ e.second <= Second(flows[e.key]) + 1
<1> DEFINE h == Second(now)
           base == DrainedAfter(h)
<1>1. PICK s \in Surfaced(h) :
        /\ s.key \in DOMAIN flows /\ flows[s.key] > now
        /\ e = [second |-> FiledSecond(flows[s.key], base),
                key |-> s.key, id |-> s.id]
  BY DEF Refiled
<1>2. s \in Entry
  BY FlowTableAssumption DEF Surfaced, IInv, TypeOK
<1>3. now \in Nat /\ drained \in Nat /\ flows[s.key] \in Nat
  BY <1>1, FlowTableAssumption DEF IInv, TypeOK
<1>4. h \in Nat /\ Second(flows[s.key]) \in Nat /\ h <= Second(flows[s.key])
  BY <1>1, <1>3, SecondMonotone
<1>5. base \in Nat /\ base <= Second(flows[s.key]) + 1
  BY <1>3, <1>4 DEF DrainedAfter, IInv, DrainedBehind
<1>6. e.key = s.key /\ e.second = FiledSecond(flows[s.key], base)
  BY <1>1
<1>7. e.second \in Nat /\ e.second >= base
      /\ e.second <= Second(flows[s.key]) + 1
  BY <1>3, <1>5, <1>6, FiledSecondBounds
<1>8. e \in Entry
  BY <1>1, <1>2, <1>6, <1>7 DEF Entry
<1> QED BY <1>1, <1>6, <1>7, <1>8

\* After a pass, an entry of the wheel is one that was filed again, or one
\* that take_due left and that lies after the second of the pass.
LEMMA IndexAfterPass ==
  ASSUME IInv, Expire
  PROVE  /\ \A b \in 0 .. Buckets - 1 : \A e \in buckets'[b] :
              /\ e \in Entry
              /\ e.second >= drained'
              /\ IsNear(e, drained')
              /\ e.second % Buckets = b
         /\ \A e \in overflow' : e \in Entry /\ e.second >= drained'
         /\ \A e \in Refiled(Second(now)) : e \in Index'
         /\ \A e \in Index :
              e \in Surfaced(Second(now)) \/ e \in Index'
<1> DEFINE h == Second(now)
           base == DrainedAfter(h)
<1>1. now \in Nat /\ drained \in Nat /\ h \in Nat
  BY SecondMonotone DEF IInv, TypeOK
<1>2. base \in Nat /\ base >= drained /\ base <= h + 1
  BY <1>1 DEF DrainedAfter, IInv, DrainedBehind
<1>3. drained' = base
  BY DEF Expire
<1>4. buckets' = [b \in 0 .. Buckets - 1 |->
                    BucketsAfter(h)[b] \union
                      {e \in Promoted(h)
                               \union {r \in Refiled(h) : IsNear(r, base)} :
                         e.second % Buckets = b}]
  BY DEF Expire, BucketsWith
<1>5. overflow' = Deferred(h) \union {r \in Refiled(h) : ~IsNear(r, base)}
  BY DEF Expire
<1>6. ASSUME NEW e \in Promoted(h)
      PROVE  e \in Entry /\ e.second >= base /\ IsNear(e, base)
  <2>1. e \in Entry /\ e.second > h /\ IsNear(e, drained)
    BY DEF Promoted, IInv, TypeOK
  <2>2. e.second \in Nat
    BY <2>1 DEF Entry
  <2> QED BY <2>1, <2>2, <1>1, <1>2, FlowTableAssumption DEF IsNear
<1>7. ASSUME NEW e \in Deferred(h)
      PROVE  e \in Entry /\ e.second >= base
  <2>1. e \in Entry /\ e.second > h
    BY DEF Deferred, IInv, TypeOK
  <2>2. e.second \in Nat
    BY <2>1 DEF Entry
  <2> QED BY <2>1, <2>2, <1>1, <1>2
<1>8. ASSUME NEW b \in 0 .. Buckets - 1, NEW e \in BucketsAfter(h)[b]
      PROVE  /\ e \in Entry /\ e.second >= base /\ IsNear(e, base)
             /\ e.second % Buckets = b
  <2>1. e \in buckets[b] /\ e.second > h
    BY <1>1, RemainingAhead
  <2>2. e \in Entry /\ e.second \in Nat
    BY <2>1 DEF IInv, TypeOK, Entry
  <2>3. IsNear(e, drained) /\ e.second % Buckets = b
    BY <2>1 DEF IInv, OneRotation, IsNear
  <2> QED BY <2>1, <2>2, <2>3, <1>1, <1>2, FlowTableAssumption DEF IsNear
<1>9. \A e \in Refiled(h) : e \in Entry /\ e.second >= base
  BY RefiledBounds
<1>10. \A e \in Entry : e.second % Buckets \in 0 .. Buckets - 1
  BY BucketOfSecond DEF Entry
<1> HIDE DEF h, base
<1>11. \A b \in 0 .. Buckets - 1 : \A e \in buckets'[b] :
         /\ e \in Entry
         /\ e.second >= base
         /\ IsNear(e, base)
         /\ e.second % Buckets = b
  BY <1>4, <1>6, <1>8, <1>9
<1>12. \A e \in overflow' : e \in Entry /\ e.second >= base
  BY <1>5, <1>7, <1>9
<1>13. \A e \in Refiled(h) : e \in Index'
  BY <1>4, <1>5, <1>9, <1>10 DEF Index
<1>14. \A e \in Promoted(h) : e \in Index'
  BY <1>4, <1>6, <1>10 DEF Index
<1>15. \A e \in Deferred(h) : e \in Index'
  BY <1>5 DEF Index
<1>16. \A b \in 0 .. Buckets - 1 : \A e \in BucketsAfter(h)[b] : e \in Index'
  BY <1>4 DEF Index
<1>17. \A e \in Index : e \in Surfaced(h) \/ e \in Index'
  BY <1>1, <1>14, <1>15, <1>16, SurfacedOrKept
<1> QED BY <1>3, <1>11, <1>12, <1>13, <1>17 DEF h, base

LEMMA ExpireIInv ==
  ASSUME IInv, Expire
  PROVE  IInv'
<1> DEFINE h == Second(now)
<1>1. now \in Nat /\ drained \in Nat /\ h \in Nat
  BY SecondMonotone DEF IInv, TypeOK
<1>2. drained' \in Nat /\ drained' <= h + 1
  BY <1>1 DEF Expire, DrainedAfter, IInv, DrainedBehind
<1>3. now' = now /\ expired' = Expired(h)
      /\ flows' = [k \in DOMAIN flows \ Expired(h) |-> flows[k]]
  BY DEF Expire
<1>4. TypeOK'
  <2>1. DOMAIN flows' \subseteq Keys
        /\ flows' \in [DOMAIN flows' -> 0 .. now' + IdleTimeout]
        /\ expired' \subseteq Keys
    BY <1>3 DEF IInv, TypeOK, Expired
  <2>2. buckets' \in [0 .. Buckets - 1 -> SUBSET Entry]
    <3>1. buckets' = [b \in 0 .. Buckets - 1 |-> buckets'[b]]
      BY DEF Expire, BucketsWith
    <3> QED BY <3>1, IndexAfterPass
  <2>3. overflow' \subseteq Entry
    BY IndexAfterPass
  <2> QED BY <1>1, <1>2, <1>3, <2>1, <2>2, <2>3 DEF TypeOK
<1>5. OneRotation' /\ OverflowAhead'
  BY IndexAfterPass DEF OneRotation, OverflowAhead, IsNear
<1>6. DrainedBehind'
  BY <1>2, <1>3 DEF DrainedBehind
<1>7. LiveFlowIndexed'
  <2> SUFFICES ASSUME NEW k \in DOMAIN flows'
               PROVE  \E f \in Index' :
                        f.key = k /\ f.second <= Second(flows'[k]) + 1
    BY DEF LiveFlowIndexed, Second
  <2>1. k \in DOMAIN flows /\ k \notin Expired(h) /\ flows'[k] = flows[k]
    BY <1>3
  <2>2. PICK e \in Index : e.key = k /\ e.second <= Second(flows[k]) + 1
    BY <2>1 DEF IInv, LiveFlowIndexed
  <2>3. CASE e \in Index'
    BY <2>1, <2>2, <2>3
  <2>4. CASE e \in Surfaced(h)
    <3>1. flows[k] \in Nat /\ ~(flows[k] <= now)
      BY <2>1, <2>2, <2>4, FlowTableAssumption DEF Expired, IInv, TypeOK
    <3>2. flows[k] > now
      BY <3>1, <1>1
    <3> DEFINE r == [second |-> FiledSecond(flows[e.key], DrainedAfter(h)),
                     key |-> e.key, id |-> e.id]
    <3>3. r \in Refiled(h)
      BY <2>1, <2>2, <2>4, <3>2 DEF Refiled
    <3>4. r \in Index'
      BY <3>3, IndexAfterPass
    <3>5. r.key = k /\ r.second <= Second(flows[r.key]) + 1
      BY <2>2, <3>3, RefiledBounds
    <3> QED BY <2>1, <3>4, <3>5
  <2> QED BY <2>2, <2>3, <2>4, IndexAfterPass
<1> QED BY <1>4, <1>5, <1>6, <1>7 DEF IInv

-----------------------------------------------------------------------------
(* Theorems                                                                *)

LEMMA NextIInv == IInv /\ [Next]_vars => IInv'
<1> SUFFICES ASSUME IInv, [Next]_vars PROVE IInv'
  OBVIOUS
<1>1. CASE \E k \in Keys : Refresh(k)
  BY <1>1, RefreshIInv
<1>2. CASE \E k \in Keys : Open(k)
  BY <1>2, OpenIInv
<1>3. CASE \E kept \in SUBSET DOMAIN flows : Retain(kept)
  BY <1>3, RetainIInv
<1>4. CASE Expire
  BY <1>4, ExpireIInv
<1>5. CASE Tick
  BY <1>5, TickIInv
<1>6. CASE UNCHANGED vars
  BY <1>6 DEF vars, IInv, TypeOK, Entry, OneRotation, OverflowAhead,
              DrainedBehind, LiveFlowIndexed, Index
<1> QED BY <1>1, <1>2, <1>3, <1>4, <1>5, <1>6 DEF Next

\* The whole invariant holds in every state the table reaches.
THEOREM Invariance == Spec => []IInv
  BY InitIInv, NextIInv, PTL DEF Spec

\* The state keeps its shape and no deadline is further away than one idle
\* timeout, however packets, path changes and passes interleave.
THEOREM TypeCorrect == Spec => []TypeOK
  BY Invariance, PTL DEF IInv

\* No live flow ever loses its place in the wheel, for every wheel size and
\* idle timeout of at least a second.
THEOREM LiveFlowsStayIndexed == Spec => []LiveFlowIndexed
  BY Invariance, PTL DEF IInv

\* Two entries of one bucket never belong to different rotations, so the
\* branch of take_due that puts a colliding entry back is never taken.
THEOREM NoCollisions == Spec => []OneRotation
  BY Invariance, PTL DEF IInv

\* An expiry pass leaves no flow that was due before the second it ran in.
THEOREM PassesAreComplete == Spec => PassIsComplete
<1>1. ASSUME IInv, Expire
      PROVE  \A k \in DOMAIN flows' : Second(flows'[k]) >= Second(now)
  <2> SUFFICES ASSUME NEW k \in DOMAIN flows'
               PROVE  Second(flows'[k]) >= Second(now)
    OBVIOUS
  <2>1. IInv'
    BY <1>1, ExpireIInv
  <2>2. PICK e \in Index' : e.key = k /\ e.second <= Second(flows'[k]) + 1
    BY <2>1 DEF IInv, LiveFlowIndexed, Second
  <2>3. e.second \in Nat /\ e.second >= drained'
    BY <2>1, <1>1, IndexAfterPass DEF Index, Entry
  <2>4. now \in Nat /\ drained \in Nat /\ Second(now) \in Nat
    BY <1>1, SecondMonotone DEF IInv, TypeOK
  <2>5. drained' \in Nat /\ drained' >= Second(now) + 1
    BY <1>1, <2>4 DEF Expire, DrainedAfter
  <2>6. flows'[k] \in Nat
    BY <2>1, FlowTableAssumption DEF IInv, TypeOK
  <2>7. Second(flows'[k]) \in Nat
    BY <2>6, SecondMonotone
  <2> QED BY <2>2, <2>3, <2>4, <2>5, <2>7
<1>2. IInv /\ [Next]_vars =>
        [Expire => \A k \in DOMAIN flows' : Second(flows'[k]) >= Second(now)]_vars
  BY <1>1
<1> QED BY <1>2, Invariance, PTL DEF Spec, PassIsComplete

-----------------------------------------------------------------------------
(* The wake-up hint                                                        *)

\* next_due is at most the second of any entry in a bucket.
LEMMA NextDueBeforeBuckets ==
  ASSUME IInv, NEW b \in 0 .. Buckets - 1, NEW e \in buckets[b]
  PROVE  HasNextDue /\ NextDue \in Nat /\ NextDue <= e.second
<1>1. drained \in Nat /\ e.second \in Nat
  BY DEF IInv, TypeOK, Entry
<1>2. e.second \in OccupiedSeconds
  BY <1>1, FlowTableAssumption DEF IInv, OneRotation, OccupiedSeconds
<1>3. OccupiedSeconds \subseteq Nat
  BY <1>1, FlowTableAssumption DEF OccupiedSeconds
<1>4. \E s \in OccupiedSeconds : \A t \in OccupiedSeconds : s <= t
  <2>1. IsWellFoundedOn(OpToRel(<, Nat), Nat)
    BY NatLessThanWellFounded
  <2>2. PICK s \in OccupiedSeconds :
          \A t \in OccupiedSeconds : ~(<<t, s>> \in OpToRel(<, Nat))
    BY <2>1, <1>2, <1>3, WFMin
  <2>3. \A t \in OccupiedSeconds : ~(t < s)
    BY <2>2, <1>3 DEF OpToRel
  <2> QED BY <2>3, <1>3
<1>5. NextDue \in OccupiedSeconds /\ \A t \in OccupiedSeconds : NextDue <= t
  BY <1>2, <1>4 DEF NextDue
<1> QED BY <1>2, <1>3, <1>5 DEF HasNextDue

\* next_due never lies beyond the coming rotation.
LEMMA NextDueWithinRotation ==
  ASSUME IInv
  PROVE  NextDue \in Nat /\ NextDue <= drained + Buckets
<1>1. drained \in Nat
  BY DEF IInv, TypeOK
<1>2. CASE OccupiedSeconds = {}
  BY <1>1, <1>2, FlowTableAssumption DEF NextDue
<1>3. CASE OccupiedSeconds # {}
  <2>1. PICK s \in OccupiedSeconds : TRUE
    BY <1>3
  <2>2. s \in Nat /\ s % Buckets \in 0 .. Buckets - 1
        /\ s <= drained + Buckets - 1 /\ buckets[s % Buckets] # {}
    BY <1>1, <2>1, BucketOfSecond, FlowTableAssumption DEF OccupiedSeconds
  <2>3. PICK e \in buckets[s % Buckets] : TRUE
    BY <2>2
  <2>4. e.second \in Nat /\ e.second < drained + Buckets
    BY <2>2 DEF IInv, TypeOK, Entry, OneRotation
  <2>5. NextDue \in Nat /\ NextDue <= e.second
    BY <2>2, NextDueBeforeBuckets
  <2> QED BY <1>1, <2>4, <2>5, FlowTableAssumption
<1> QED BY <1>2, <1>3

\* The timer a reactor arms from next_deadline is never a full rotation late
\* for a live flow; while nothing is in the overflow it fires before the end
\* of the second that holds the deadline.
THEOREM WakeupBounds == Spec => [](LateByLessThanRotation /\ OnTimeWithoutOverflow)
<1>1. IInv => LateByLessThanRotation /\ OnTimeWithoutOverflow
  <2> SUFFICES ASSUME IInv, NEW k \in DOMAIN flows
               PROVE  /\ HasNextDue
                      /\ NextDue <= Second(flows[k]) + 1 + Buckets
                      /\ overflow = {} => NextDue <= Second(flows[k]) + 1
    BY DEF LateByLessThanRotation, OnTimeWithoutOverflow
  <2>1. PICK e \in Index : e.key = k /\ e.second <= Second(flows[k]) + 1
    BY DEF IInv, LiveFlowIndexed
  <2>2. drained \in Nat /\ e.second \in Nat /\ flows[k] \in Nat
    BY FlowTableAssumption DEF IInv, TypeOK, Index, Entry
  <2>3. Second(flows[k]) \in Nat
    BY <2>2, SecondMonotone
  <2>4. CASE e \in overflow
    <3>1. HasNextDue /\ e.second >= drained
      BY <2>4 DEF HasNextDue, IInv, OverflowAhead
    <3> QED BY <3>1, <2>1, <2>2, <2>3, <2>4, NextDueWithinRotation, FlowTableAssumption
  <2>5. CASE \E b \in 0 .. Buckets - 1 : e \in buckets[b]
    <3>1. HasNextDue /\ NextDue \in Nat /\ NextDue <= e.second
      BY <2>5, NextDueBeforeBuckets
    <3> QED BY <3>1, <2>1, <2>2, <2>3, FlowTableAssumption
  <2> QED BY <2>4, <2>5 DEF Index
<1> QED BY <1>1, Invariance, PTL

-----------------------------------------------------------------------------
(* The ceiling                                                             *)

FiniteAtCeiling == IsFiniteSet(DOMAIN flows) /\ CeilingKept

\* The table never holds more flows than its ceiling.
THEOREM CeilingHolds == Spec => []CeilingKept
<1>1. Init => FiniteAtCeiling
  BY FS_EmptySet, FlowTableAssumption DEF Init, FiniteAtCeiling, CeilingKept
<1>2. FiniteAtCeiling /\ [Next]_vars => FiniteAtCeiling'
  <2> SUFFICES ASSUME FiniteAtCeiling, [Next]_vars
               PROVE  IsFiniteSet(DOMAIN flows') /\ Cardinality(DOMAIN flows') <= Ceiling
    BY DEF FiniteAtCeiling, CeilingKept
  <2>1. Cardinality(DOMAIN flows) \in Nat /\ Cardinality(DOMAIN flows) <= Ceiling
    BY FS_CardinalityType DEF FiniteAtCeiling, CeilingKept
  <2>2. CASE \E k \in Keys : Open(k)
    <3>1. PICK k \in Keys : Open(k)
      BY <2>2
    <3>2. DOMAIN flows' = DOMAIN flows \union {k}
          /\ Cardinality(DOMAIN flows) < Ceiling
      BY <3>1 DEF Open, HasRoom
    <3>3. IsFiniteSet(DOMAIN flows \union {k})
          /\ Cardinality(DOMAIN flows \union {k}) <= Cardinality(DOMAIN flows) + 1
      BY <2>1, FS_AddElement DEF FiniteAtCeiling
    <3> QED BY <2>1, <3>2, <3>3, FS_CardinalityType, FlowTableAssumption
  <2>3. CASE ~ \E k \in Keys : Open(k)
    <3>1. DOMAIN flows' \in SUBSET DOMAIN flows
      BY <2>3 DEF Next, Refresh, Retain, Expire, Tick, vars
    <3>2. IsFiniteSet(DOMAIN flows')
          /\ Cardinality(DOMAIN flows') <= Cardinality(DOMAIN flows)
      BY <3>1, FS_Subset DEF FiniteAtCeiling
    <3>3. Cardinality(DOMAIN flows') \in Nat
      BY <3>2, FS_CardinalityType
    <3> QED BY <2>1, <3>2, <3>3, FlowTableAssumption
  <2> QED BY <2>2, <2>3
<1> QED BY <1>1, <1>2, PTL DEF Spec, FiniteAtCeiling

-----------------------------------------------------------------------------
(* Refinement                                                              *)

\* The timer wheel is invisible: the table implements a plain map of idle
\* flows, so expire never returns a flow before its exact deadline.
THEOREM ImplementsIdleFlows == Spec => IdleFlowsSpec
<1>1. Init => IdleFlows!Init
  BY DEF Init, IdleFlows!Init
<1>2. [Next]_vars => [IdleFlows!Next]_<<flows, expired, now>>
  <2> SUFFICES ASSUME [Next]_vars
               PROVE  [IdleFlows!Next]_<<flows, expired, now>>
    OBVIOUS
  <2>1. ASSUME NEW k \in Keys, Refresh(k)
        PROVE  IdleFlows!Touch(k)
    <3>1. flows' = [j \in DOMAIN flows \union {k} |->
                      IF j = k THEN now + IdleTimeout ELSE flows[j]]
      BY <2>1 DEF Refresh
    <3> QED BY <2>1, <3>1 DEF Refresh, IdleFlows!Touch
  <2>2. ASSUME NEW k \in Keys, Open(k)
        PROVE  IdleFlows!Touch(k)
    BY <2>2 DEF Open, IdleFlows!Touch
  <2>3. ASSUME NEW kept \in SUBSET DOMAIN flows, Retain(kept)
        PROVE  IdleFlows!Reject(kept)
    BY <2>3 DEF Retain, IdleFlows!Reject
  <2>4. ASSUME Expire
        PROVE  IdleFlows!Evict(Expired(Second(now)))
    BY <2>4 DEF Expire, Expired, IdleFlows!Evict
  <2>5. Expired(Second(now)) \in SUBSET DOMAIN flows
    BY DEF Expired
  <2>6. ASSUME Tick
        PROVE  IdleFlows!Advance
    BY <2>6 DEF Tick, IdleFlows!Advance
  <2>7. CASE UNCHANGED vars
    BY <2>7 DEF vars
  <2> QED BY <2>1, <2>2, <2>3, <2>4, <2>5, <2>6, <2>7 DEF Next, IdleFlows!Next
<1> QED BY <1>1, <1>2, PTL DEF Spec, IdleFlowsSpec, IdleFlows!Spec

\* Insertion, refresh, expiry and path changes keep every live flow in view.
THEOREM FlowsStayWatched == Spec => []FlowsWatched
<1>1. IInv => OneRotation /\ DrainedBehind /\ LiveFlowIndexed
  BY DEF IInv
<1> QED BY <1>1, Invariance, WakeupBounds, CeilingHolds, PTL DEF FlowsWatched

-----------------------------------------------------------------------------
\* The buffer pool.

\* live alone does not bound free: that needs the count of the loans.
PoolInv == PoolTypeOK /\ Conserved /\ live <= Capacity

LEMMA InitPoolInv == PoolInit => PoolInv
  BY BufferPoolAssumption DEF PoolInit, PoolInv, PoolTypeOK, Conserved

LEMMA NextPoolInv == PoolInv /\ [PoolNext]_poolVars => PoolInv'
<1> SUFFICES ASSUME PoolInv, [PoolNext]_poolVars PROVE PoolInv'
  OBVIOUS
<1> USE BufferPoolAssumption DEF PoolInv, PoolTypeOK, Conserved
<1>1. CASE ReserveCached   BY <1>1 DEF ReserveCached
<1>2. CASE ReserveNew      BY <1>2 DEF ReserveNew
<1>3. CASE ReserveRefused  BY <1>3 DEF ReserveRefused
<1>4. CASE Allocate        BY <1>4 DEF Allocate
<1>5. CASE DropLoan        BY <1>5 DEF DropLoan
<1>6. CASE CacheBuffer     BY <1>6 DEF CacheBuffer
<1>7. CASE UNCHANGED poolVars  BY <1>7 DEF poolVars
<1> QED BY <1>1, <1>2, <1>3, <1>4, <1>5, <1>6, <1>7 DEF PoolNext

LEMMA PoolInvariance == PoolSpec => []PoolInv
  BY InitPoolInv, NextPoolInv, PTL DEF PoolSpec

\* reserve and Drop lose no buffer and count none twice.
THEOREM BuffersConserved == PoolSpec => []Conserved
<1>1. PoolInv => Conserved
  BY DEF PoolInv
<1> QED BY PoolInvariance, <1>1, PTL

\* The bounds the comment on PoolState states.
THEOREM BoundsHold == PoolSpec => []PoolBounds
<1>1. PoolInv => PoolBounds
  BY BufferPoolAssumption DEF PoolInv, PoolTypeOK, Conserved, PoolBounds
<1> QED BY PoolInvariance, <1>1, PTL

\* The pool implements a budget: a reservation is refused only when Capacity
\* buffers are out.
THEOREM ImplementsBudget == PoolSpec => BudgetSpec
<1>1. PoolInit => BudgetView!Init
  BY DEF PoolInit, BudgetView!Init
<1>2. PoolInv /\ [PoolNext]_poolVars
        => [BudgetView!Take \/ BudgetView!Refuse \/ BudgetView!Release]_<<live - free, exhausted>>
  <2> SUFFICES ASSUME PoolInv, [PoolNext]_poolVars
               PROVE  \/ BudgetView!Take \/ BudgetView!Refuse \/ BudgetView!Release
                      \/ UNCHANGED <<live - free, exhausted>>
    OBVIOUS
  <2> USE BufferPoolAssumption DEF PoolInv, PoolTypeOK, Conserved
  <2>1. CASE ReserveCached   BY <2>1 DEF ReserveCached, BudgetView!Take
  <2>2. CASE ReserveNew      BY <2>2 DEF ReserveNew, BudgetView!Take
  <2>3. CASE ReserveRefused  BY <2>3 DEF ReserveRefused, BudgetView!Refuse
  <2>4. CASE Allocate        BY <2>4 DEF Allocate
  <2>5. CASE DropLoan        BY <2>5 DEF DropLoan
  <2>6. CASE CacheBuffer     BY <2>6 DEF CacheBuffer, BudgetView!Release
  <2>7. CASE UNCHANGED poolVars  BY <2>7 DEF poolVars
  <2> QED BY <2>1, <2>2, <2>3, <2>4, <2>5, <2>6, <2>7 DEF PoolNext
<1> QED BY PoolInvariance, <1>1, <1>2, PTL DEF PoolSpec, BudgetSpec, BudgetView!Spec

-----------------------------------------------------------------------------
\* The device.

Started == {"waiting", "reading", "writing", "delivering", "again", "failing", "hiccup"}

Holds(thread) == IF thread \in Started THEN 1 ELSE 0

\* The Arcs are the device's and one for each thread that has started and not
\* returned, and the context goes with the last of them.
SeamInv ==
  /\ owner \in {"running", "ended"}
  /\ {reader, writer} \subseteq Started \union {"unstarted", "gone"}
  /\ reader = "unstarted" <=> writer = "unstarted"
  /\ refs = (IF DeviceOpen THEN 1 ELSE 0) + Holds(reader) + Holds(writer)
  /\ released = IF refs = 0 THEN 1 ELSE 0

LEMMA InitSeamInv == SeamInit => SeamInv
  BY DEF SeamInit, SeamInv, Started, Holds, DeviceOpen

LEMMA NextSeamInv == SeamInv /\ [SeamNext]_seamVars => SeamInv'
<1> SUFFICES ASSUME SeamInv, [SeamNext]_seamVars PROVE SeamInv'
  OBVIOUS
<1> USE DEF SeamInv, Started, Holds, DeviceOpen
<1>1. CASE DropDevice
  BY <1>1 DEF DropDevice, EndOwner, Release
<1>2. CASE Start
  BY <1>2 DEF Start
<1>3. CASE TakePacket
  BY <1>3 DEF TakePacket
<1>4. CASE TakeError
  BY <1>4 DEF TakeError, EndOwner, Release
<1>5. CASE SendPacket
  BY <1>5 DEF SendPacket
<1>6. CASE SendClosed
  BY <1>6 DEF SendClosed, EndOwner, Release
<1>7. CASE ReaderTakes
  BY <1>7 DEF ReaderTakes, Release
<1>8. CASE ReadReturns
  BY <1>8 DEF ReadReturns
<1>9. CASE ReadAgain
  BY <1>9 DEF ReadAgain
<1>10. CASE ReaderHands
  BY <1>10 DEF ReaderHands, Handed, Release
<1>11. CASE WriterTakes
  BY <1>11 DEF WriterTakes, Release
<1>12. CASE WriteReturns
  BY <1>12 DEF WriteReturns
<1>13. CASE WriterHands
  BY <1>13 DEF WriterHands, Release
<1>14. CASE UNCHANGED seamVars
  BY <1>14 DEF seamVars
<1> QED BY <1>1, <1>2, <1>3, <1>4, <1>5, <1>6, <1>7, <1>8, <1>9, <1>10, <1>11, <1>12, <1>13,
           <1>14 DEF SeamNext, OwnerStep, DeviceStep

\* The host's context is released at most once, and only when no device thread
\* is in a callback or will enter one, for every depth of the channels and
\* whether or not the host supplies close.
THEOREM ReleasedLast == SeamInit /\ [][SeamNext]_seamVars => []ReleasedAfterCalls
<1>1. SeamInv => ReleasedAfterCalls
  BY DEF SeamInv, ReleasedAfterCalls, Started, Holds, DeviceOpen
<1> QED BY <1>1, InitSeamInv, NextSeamInv, PTL

-----------------------------------------------------------------------------
(* The associations.                                                       *)

Counts(given) == DOMAIN given = 0 .. MaxId /\ \A id \in 0 .. MaxId : given[id] \in Nat

\* What a window calls received was delivered: its highest, and what lies below it.
Vouches(highest, below, given) ==
  /\ given[highest] > 0
  /\ \A b \in below : b \in Nat /\ highest - b \in 0 .. MaxId /\ given[highest - b] > 0

Vouched(h) ==
  /\ DOMAIN h = {"session", "window", "given"} /\ DOMAIN h.window = {"started", "highest", "below"}
  /\ Counts(h.given) /\ h.window.started \in BOOLEAN /\ h.window.highest \in 0 .. MaxId
  /\ h.window.started => Vouches(h.window.highest, h.window.below, h.given)
  /\ ~h.window.started => h.window.below = {}

WindowsVouched(windows) ==
  /\ windows \in Seq({windows[i] : i \in 1 .. Len(windows)})
  /\ \A i \in 1 .. Len(windows) : Vouched(windows[i])

LEMMA OwnElements ==
  ASSUME NEW T, NEW s \in Seq(T)
  PROVE  s \in Seq({s[i] : i \in 1 .. Len(s)})
  OBVIOUS

\* A running stream is the one its destination is known by.
AttachedTo(ss, known) ==
  /\ ss \in Seq({ss[i] : i \in 1 .. Len(ss)})
  /\ \A i \in 1 .. Len(ss) : DOMAIN ss[i] = {"target", "reading"}
  /\ \A i \in 1 .. Len(ss) :
       ss[i].reading => ss[i].target \in DOMAIN known /\ known[ss[i].target] = Live("up", i)
  /\ \A t \in DOMAIN known : known[t].at = "up" => known[t].stream \in 1 .. Len(ss)

Attached == AttachedTo(links, lives)

RefusedRightly ==
  refused # None =>
    LET h == held[Place(held, refused.session)] IN
    h.given[refused.id] > 0 \/ h.window.highest - refused.id > Width

AssocInv == WindowsVouched(held) /\ RefusedRightly /\ Attached

\* What lies below after a rise of the highest.
Raised(below, gap) == {b + gap : b \in {c \in below : c + gap <= Width}} \cup {gap}

\* Window::admit keeps that, when the datagram it admits is delivered.
LEMMA VouchesStill ==
  ASSUME NEW highest \in 0 .. MaxId, NEW below, NEW given, NEW after, NEW id \in 0 .. MaxId,
         Counts(given), Counts(after), after[id] > 0,
         \A j \in 0 .. MaxId : j # id => after[j] = given[j]
  PROVE  /\ Vouches(id, {}, after)
         /\ Vouches(highest, below, given) =>
              IF id > highest THEN Vouches(id, Raised(below, id - highest), after)
              ELSE Vouches(highest, below \cup {highest - id}, after)
<1> USE AssociationsAssumption
<1>1. /\ highest \in Nat /\ highest <= MaxId /\ id \in Nat /\ id <= MaxId
      /\ MaxId \in Nat /\ Width \in Nat
  OBVIOUS
<1>2. \A j \in 0 .. MaxId : given[j] > 0 => after[j] > 0
  OBVIOUS
<1>3. Vouches(id, {}, after)
  BY DEF Vouches
<1>4. ASSUME Vouches(highest, below, given)
      PROVE  after[highest] > 0 /\ \A b \in below : b \in Nat /\ highest - b \in 0 .. MaxId /\ after[highest - b] > 0
  BY <1>2, <1>4 DEF Vouches
<1>5. ASSUME Vouches(highest, below, given), id > highest
      PROVE  Vouches(id, Raised(below, id - highest), after)
  <2> DEFINE gap == id - highest
  <2>2. gap \in Nat /\ id - gap = highest
    BY <1>1, <1>5
  <2>3. ASSUME NEW b \in below PROVE b + gap \in Nat /\ id - (b + gap) = highest - b
    BY <1>1, <1>4, <1>5
  <2> HIDE DEF gap
  <2>4. ASSUME NEW b \in Raised(below, gap)
        PROVE  b \in Nat /\ id - b \in 0 .. MaxId /\ after[id - b] > 0
    <3>1. CASE b = gap
      BY <1>1, <1>4, <1>5, <2>2, <3>1
    <3>2. CASE b # gap
      <4>1. PICK c \in below : b = c + gap
        BY <3>2 DEF Raised
      <4> QED BY <1>4, <1>5, <2>3, <4>1
    <3> QED BY <3>1, <3>2
  <2>5. Vouches(id, Raised(below, gap), after)
    BY <2>4 DEF Vouches
  <2> QED BY <2>5 DEF gap
<1>6. ASSUME Vouches(highest, below, given), ~(id > highest)
      PROVE  Vouches(highest, below \cup {highest - id}, after)
  <2>1. highest - id \in Nat /\ highest - (highest - id) = id
    BY <1>1, <1>6
  <2> QED BY <1>1, <1>4, <1>6, <2>1 DEF Vouches
<1> QED BY <1>3, <1>5, <1>6

LEMMA AdmittedVouched ==
  ASSUME NEW h, Vouched(h), NEW id \in 0 .. MaxId, NEW new,
         DOMAIN new = DOMAIN h, new.window = Admitted(h.window, id),
         Counts(new.given), new.given[id] > 0,
         \A j \in 0 .. MaxId : j # id => new.given[j] = h.given[j]
  PROVE  Vouched(new)
<1> DEFINE w == h.window
           v == new.window
           more == Raised(w.below, id - w.highest)
           less == w.below \cup {w.highest - id}
<1>1. /\ DOMAIN w = {"started", "highest", "below"} /\ DOMAIN h = {"session", "window", "given"}
      /\ Counts(h.given) /\ w.started \in BOOLEAN /\ w.highest \in 0 .. MaxId
      /\ w.started => Vouches(w.highest, w.below, h.given)
      /\ ~w.started => w.below = {}
  BY DEF Vouched
<1>2. /\ Vouches(id, {}, new.given)
      /\ w.started => IF id > w.highest THEN Vouches(id, more, new.given)
                       ELSE Vouches(w.highest, less, new.given)
  BY <1>1, VouchesStill
<1>3. /\ DOMAIN v = DOMAIN w /\ v.started
      /\ ~w.started => v.highest = id /\ v.below = w.below
      /\ w.started /\ id > w.highest => v.highest = id /\ v.below \in {more, {}}
      /\ w.started /\ ~(id > w.highest) => v.highest = w.highest /\ v.below = less
  BY <1>1 DEF Admitted, Raised
<1>4. v.started \in BOOLEAN
  BY <1>1 DEF Admitted
<1> HIDE DEF w, v, more, less
<1>5. Vouches(v.highest, v.below, new.given) /\ v.highest \in 0 .. MaxId
  BY <1>1, <1>2, <1>3
<1> QED BY <1>1, <1>3, <1>4, <1>5 DEF Vouched, v, w

\* PacketSource::window: the windows held stay vouched for, and one is the session's.
LEMMA WindowsFound ==
  ASSUME WindowsVouched(held), NEW peer
  PROVE  /\ WindowsVouched(Windows(peer))
         /\ Place(Windows(peer), peer) \in 1 .. Len(Windows(peer))
         /\ Windows(peer)[Place(Windows(peer), peer)].session = peer
<1> DEFINE ws == Windows(peer)
<1>1. WindowsVouched(ws) /\ \E i \in 1 .. Len(ws) : ws[i].session = peer
  <2>1. CASE \E i \in 1 .. Len(held) : held[i].session = peer
    BY <2>1 DEF Windows
  <2>2. CASE ~\E i \in 1 .. Len(held) : held[i].session = peer
    <3> DEFINE h == [session |-> peer, window |-> Empty, given |-> [id \in 0 .. MaxId |-> 0]]
               S == {held[i] : i \in 1 .. Len(held)} \union {h}
               kept == SubSeq(held, 1, IF held = <<>> THEN 0 ELSE 1)
    <3>1. Vouched(h) /\ h.session = peer
      <4>1. /\ DOMAIN h = {"session", "window", "given"} /\ h.session = peer /\ h.window = Empty
            /\ h.given = [id \in 0 .. MaxId |-> 0]
        OBVIOUS
      <4>2. /\ DOMAIN Empty = {"started", "highest", "below"} /\ Empty.started = FALSE
            /\ Empty.highest = 0 /\ Empty.below = {}
        BY DEF Empty
      <4>3. Counts([id \in 0 .. MaxId |-> 0]) /\ 0 \in 0 .. MaxId
        BY AssociationsAssumption DEF Counts
      <4> HIDE DEF h
      <4> QED BY <4>1, <4>2, <4>3 DEF Vouched
    <3>2. ws = <<h>> \o kept
      BY <2>2 DEF Windows
    <3> HIDE DEF h
    <3>3. held \in Seq(S) /\ \A x \in S : Vouched(x)
      BY <3>1 DEF WindowsVouched
    <3> HIDE DEF S
    <3>4. kept \in Seq(S)
      BY <3>3
    <3> HIDE DEF kept
    <3>5. <<h>> \in Seq(S)
      BY DEF S
    <3>6. ws \in Seq(S) /\ Len(ws) = 1 + Len(kept) /\ ws[1] = h /\ Len(kept) \in Nat
      BY <3>2, <3>4, <3>5
    <3> HIDE DEF ws
    <3>7. \A i \in 1 .. Len(ws) : Vouched(ws[i])
      BY <3>3, <3>6
    <3>8. ws \in Seq({ws[i] : i \in 1 .. Len(ws)})
      BY <3>6
    <3>9. 1 \in 1 .. Len(ws)
      BY <3>6
    <3> QED BY <3>1, <3>6, <3>7, <3>8, <3>9 DEF WindowsVouched
  <2> QED BY <2>1, <2>2
<1> HIDE DEF ws
<1>2. Place(ws, peer) \in 1 .. Len(ws) /\ ws[Place(ws, peer)].session = peer
  BY <1>1 DEF Place
<1> QED BY <1>1, <1>2 DEF ws

\* A datagram the window does not admit was delivered, or is too far behind.
LEMMA TurnedAway ==
  ASSUME NEW h, Vouched(h), NEW id \in 0 .. MaxId, ~Admits(h.window, id)
  PROVE  h.given[id] > 0 \/ h.window.highest - id > Width
<1> USE AssociationsAssumption
<1> DEFINE w == h.window
<1>1. /\ w.started /\ w.highest \in Nat /\ id \in Nat /\ id <= w.highest /\ Width \in Nat
      /\ w.highest <= MaxId /\ h.given[w.highest] > 0
  BY DEF Vouched, Counts, Vouches, Admits
<1>2. CASE id = w.highest
  BY <1>1, <1>2
<1>3. CASE id # w.highest /\ w.highest - id <= Width
  <2>1. w.highest - id \in w.below
    BY <1>1, <1>3 DEF Admits
  <2>2. w.highest - (w.highest - id) = id
    BY <1>1
  <2> QED BY <2>1, <2>2 DEF Vouched, Vouches
<1> QED BY <1>1, <1>2, <1>3

LEMMA ReceiveKeeps ==
  ASSUME AssocInv, NEW peer \in Sessions, NEW id \in 0 .. MaxId, NEW kind, Receive(peer, id, kind)
  PROVE  AssocInv'
<1> DEFINE ws == Windows(peer)
           at == Place(ws, peer)
           h == ws[at]
           new == [h EXCEPT !.window = Admitted(h.window, id),
                            !.given[id] = IF @ < 2 THEN @ + 1 ELSE @]
<1>1. WindowsVouched(ws) /\ at \in 1 .. Len(ws) /\ h.session = peer
  BY WindowsFound DEF AssocInv
<1>2. Vouched(h)
  BY <1>1 DEF WindowsVouched
<1>3. UNCHANGED <<lives, links>>
  BY DEF Receive
<1>4. CASE Admits(h.window, id)
  <2>1. refused' = None
    BY <1>4 DEF Receive
  <2>2. held' = [ws EXCEPT ![at] = new]
    BY <1>4 DEF Receive
  <2>3. Vouched(new)
    <3>1. /\ DOMAIN new = DOMAIN h /\ new.window = Admitted(h.window, id)
          /\ Counts(new.given) /\ new.given[id] > 0
          /\ \A j \in 0 .. MaxId : j # id => new.given[j] = h.given[j]
      <4>1. DOMAIN h = {"session", "window", "given"} /\ DOMAIN h.given = 0 .. MaxId /\ \A j \in 0 .. MaxId : h.given[j] \in Nat
        BY <1>2 DEF Vouched, Counts
      <4> DEFINE count == IF h.given[id] < 2 THEN h.given[id] + 1 ELSE h.given[id]
      <4>2. count \in Nat \ {0}
        BY <4>1
      <4> HIDE DEF h
      <4>3. /\ DOMAIN new = DOMAIN h /\ new.window = Admitted(h.window, id)
            /\ new.given = [h.given EXCEPT ![id] = count]
        BY <4>1
      <4> HIDE DEF new, count
      <4>4. count > 0
        BY <4>2
      <4>5. /\ DOMAIN new.given = 0 .. MaxId /\ new.given[id] = count
            /\ \A j \in 0 .. MaxId : j # id => new.given[j] = h.given[j]
        BY <4>1, <4>3
      <4> QED BY <4>1, <4>2, <4>3, <4>4, <4>5 DEF Counts
    <3> HIDE DEF new, h
    <3> QED BY <1>2, <3>1, AdmittedVouched
  <2> HIDE DEF new, h, at, ws
  <2>4. WindowsVouched(held')
    <3> DEFINE S == {ws[i] : i \in 1 .. Len(ws)}
    <3>1. ws \in Seq(S \union {new})
      BY <1>1 DEF WindowsVouched
    <3>2. Len(held') = Len(ws) /\ held' \in Seq(S \union {new})
      BY <1>1, <2>2, <3>1
    <3> HIDE DEF S
    <3>3. \A i \in 1 .. Len(ws) : held'[i] = IF i = at THEN new ELSE ws[i]
      BY <2>2, <3>1
    <3>4. held' \in Seq({held'[i] : i \in 1 .. Len(held')})
      BY <3>2
    <3> QED BY <1>1, <2>3, <3>2, <3>3, <3>4 DEF WindowsVouched
  <2> QED BY <1>3, <2>1, <2>4 DEF AssocInv, RefusedRightly, Attached
<1>5. CASE ~Admits(h.window, id)
  <2>1. held' = ws /\ refused' = [session |-> peer, id |-> id]
    BY <1>5 DEF Receive
  <2>2. h.given[id] > 0 \/ h.window.highest - id > Width
    BY <1>2, <1>5, TurnedAway
  <2>3. refused'.session = peer /\ refused'.id = id
    BY <2>1
  <2> HIDE DEF ws
  <2>4. RefusedRightly'
    BY <2>1, <2>2, <2>3 DEF RefusedRightly
  <2> QED BY <1>1, <1>3, <2>1, <2>4 DEF AssocInv, Attached
<1> QED BY <1>4, <1>5

LEMMA StreamsKeep ==
  ASSUME Attached, NEW t,
         StreamTo(t) \/ Dialled(t)
  PROVE  Attached'
<1>1. CASE StreamTo(t)
  <2> DEFINE known == Remembered
             l == IF t \in DOMAIN known THEN known[t] ELSE Live("down", 0)
             mine == IF Alive(l) \/ l.at = "opening" THEN l ELSE Live("opening", 0)
  <2>1. /\ links' = links
        /\ lives' = [u \in DOMAIN known \cup {t} |-> IF u # t THEN known[u] ELSE mine]
    BY <1>1 DEF StreamTo
  <2>2. \A u \in DOMAIN known : u \in DOMAIN lives /\ known[u] = lives[u]
    BY DEF Remembered, RetainLive
  <2>3. ASSUME NEW i \in 1 .. Len(links), links[i].reading
        PROVE  /\ links[i].target \in DOMAIN known /\ known[links[i].target] = Live("up", i)
               /\ Alive(Live("up", i))
    BY <2>3 DEF Attached, AttachedTo, Remembered, RetainLive, Alive, Live
  <2> HIDE DEF known
  <2>4. ASSUME NEW i \in 1 .. Len(links), links[i].reading
        PROVE  links[i].target \in DOMAIN lives' /\ lives'[links[i].target] = Live("up", i)
    BY <2>1, <2>3, <2>4
  <2>5. ASSUME NEW u \in DOMAIN lives', lives'[u].at = "up" PROVE lives'[u].stream \in 1 .. Len(links)
    <3>1. CASE u # t
      BY <2>1, <2>2, <2>5, <3>1 DEF Attached, AttachedTo
    <3>2. CASE u = t
      <4>1. mine.at = "up" /\ lives'[u] = mine
        BY <2>1, <2>5, <3>2
      <4>2. mine = l /\ l.at = "up"
        BY <4>1 DEF Live
      <4>3. t \in DOMAIN known /\ l = lives[t]
        BY <2>2, <4>2 DEF Live
      <4> QED BY <2>2, <4>1, <4>2, <4>3 DEF Attached, AttachedTo
    <3> QED BY <3>1, <3>2
  <2> HIDE DEF mine
  <2>6. AttachedTo(links, lives')
    BY <2>4, <2>5 DEF Attached, AttachedTo
  <2> QED BY <2>1, <2>6 DEF Attached
<1>2. CASE Dialled(t)
  <2>0. \A i : Live("up", i).at = "up"
    BY DEF Live
  <2> DEFINE n == Len(links)
             new == [target |-> t, reading |-> TRUE]
             S == {links[i] : i \in 1 .. n} \union {new}
  <2>1. t \in DOMAIN lives /\ lives[t].at = "opening"
    BY <1>2 DEF Dialled
  <2>2. \A i \in 1 .. n : links[i].reading => links[i].target # t
    BY <2>0, <2>1 DEF Attached, AttachedTo
  <2>3. CASE links' = Append(links, new) /\ lives' = [lives EXCEPT ![t] = Live("up", n + 1)]
    <3>1. links \in Seq(S)
      BY DEF Attached, AttachedTo
    <3> HIDE DEF S
    <3>2. new \in S
      BY DEF S
    <3>3. /\ links' \in Seq(S) /\ Len(links') = n + 1 /\ n \in Nat
          /\ links'[n + 1] = new /\ \A i \in 1 .. n : links'[i] = links[i]
      BY <2>3, <3>1, <3>2
    <3>4. links' \in Seq({links'[i] : i \in 1 .. Len(links')})
      BY <3>3
    <3> HIDE DEF n
    <3>5. \A i \in 1 .. n + 1 : i \in 1 .. n \/ i = n + 1
      BY <3>3
    <3>6. \A i \in 1 .. n : i \in 1 .. n + 1
      BY <3>3
    <3>7. DOMAIN new = {"target", "reading"} /\ new.target = t
      OBVIOUS
    <3>8. n + 1 \in 1 .. n + 1
      BY <3>3
    <3>9. DOMAIN lives' = DOMAIN lives /\ lives'[t] = Live("up", n + 1) /\ \A u \in DOMAIN lives : u # t => lives'[u] = lives[u]
      BY <2>1, <2>3 DEF n
    <3>10. Live("up", n + 1).stream = n + 1
      BY DEF Live
    <3> HIDE DEF new
    <3>11. \A i \in 1 .. n + 1 :
             /\ DOMAIN links'[i] = {"target", "reading"}
             /\ links'[i].reading =>
                  links'[i].target \in DOMAIN lives' /\ lives'[links'[i].target] = Live("up", i)
      BY <2>1, <2>2, <3>3, <3>5, <3>7, <3>9 DEF Attached, AttachedTo, n
    <3>12. \A u \in DOMAIN lives' : lives'[u].at = "up" => lives'[u].stream \in 1 .. n + 1
      BY <3>6, <3>8, <3>9, <3>10 DEF Attached, AttachedTo, n
    <3> QED BY <3>3, <3>4, <3>11, <3>12 DEF Attached, AttachedTo
  <2>4. CASE links' = links /\ lives' = [lives EXCEPT ![t] = Live("down", 0)]
    <3>1. DOMAIN lives' = DOMAIN lives /\ lives'[t].at = "down" /\ \A u \in DOMAIN lives : u # t => lives'[u] = lives[u]
      BY <2>1, <2>4 DEF Live
    <3> QED BY <2>1, <2>2, <2>4, <3>1 DEF Attached, AttachedTo
  <2> QED BY <1>2, <2>3, <2>4 DEF Dialled
<1> QED BY <1>1, <1>2

LEMMA ReaderKeeps ==
  ASSUME NEW ss, NEW known, AttachedTo(ss, known), NEW i \in DOMAIN ss
  PROVE  AttachedTo([ss EXCEPT ![i].reading = FALSE], known)
<1> DEFINE new == [ss[i] EXCEPT !.reading = FALSE]
           S == {ss[j] : j \in 1 .. Len(ss)} \union {new}
           out == [ss EXCEPT ![i].reading = FALSE]
<1>1. ss \in Seq(S) /\ i \in 1 .. Len(ss)
  BY DEF AttachedTo
<1>2. new \in S /\ DOMAIN new = {"target", "reading"} /\ ~new.reading
  BY <1>1 DEF AttachedTo
<1>3. out = [ss EXCEPT ![i] = new]
  OBVIOUS
<1> HIDE DEF S, new, out
<1>4. /\ Len(out) = Len(ss) /\ out \in Seq(S)
      /\ \A j \in 1 .. Len(ss) : out[j] = IF j = i THEN new ELSE ss[j]
  BY <1>1, <1>2, <1>3
<1>5. out \in Seq({out[j] : j \in 1 .. Len(out)})
  BY <1>4, OwnElements
<1>6. AttachedTo(out, known)
  BY <1>1, <1>2, <1>4, <1>5 DEF AttachedTo
<1> QED BY <1>6 DEF out

\* What the replay window refuses was delivered before or lies further behind than it is
\* wide (Window::admit, PacketSource::window), and a destination has one running stream at
\* most (VlessDatagrams::stream and its retain), for any width and any number of sessions
\* and destinations.
THEOREM NothingFreshIsRefused == AssocInit /\ [][AssocNext]_assocVars => []NothingFreshRefused
<1>1. AssocInit => AssocInv
  <2> SUFFICES ASSUME AssocInit PROVE AssocInv
    OBVIOUS
  <2>1. held = <<>> /\ links = <<>> /\ DOMAIN lives = {} /\ refused = None
    BY DEF AssocInit
  <2> QED BY <2>1 DEF AssocInv, WindowsVouched, RefusedRightly, Attached, AttachedTo
<1>2. AssocInv /\ [AssocNext]_assocVars => AssocInv'
  <2> SUFFICES ASSUME AssocInv, [AssocNext]_assocVars PROVE AssocInv'
    OBVIOUS
  <2>1. ASSUME UNCHANGED <<held, refused, lives, links>> PROVE AssocInv'
    BY <2>1 DEF AssocInv, WindowsVouched, RefusedRightly, Attached
  <2>2. ASSUME UNCHANGED <<held, refused>>, Attached' PROVE AssocInv'
    BY <2>2 DEF AssocInv, WindowsVouched, RefusedRightly
  <2>3. CASE OpenAssociation \/ ControlCloses \/ ControlEnded \/ RelayReceives \/ DirectReceives
              \/ WriteFrame \/ Dropped \/ UNCHANGED assocVars
    BY <2>1, <2>3 DEF OpenAssociation, ControlCloses, ControlEnded, RelayReceives, DirectReceives,
                      WriteFrame, Dropped, assocVars
  <2>4. ASSUME NEW s \in Sessions, NEW id \in 0 .. MaxId, NEW kind, Receive(s, id, kind) PROVE AssocInv'
    BY <2>4, ReceiveKeeps
  <2>5. ASSUME NEW t, StreamTo(t) \/ Dialled(t) PROVE AssocInv'
    <3>1. Attached'
      BY <2>5, StreamsKeep DEF AssocInv
    <3>2. UNCHANGED <<held, refused>>
      BY <2>5 DEF StreamTo, Dialled
    <3> QED BY <2>2, <3>1, <3>2
  <2>6. ASSUME NEW i \in DOMAIN links, ReaderEnds(i) \/ ReaderStops(i) PROVE AssocInv'
    <3>1. links' = [links EXCEPT ![i].reading = FALSE] /\ UNCHANGED <<held, refused, lives>>
      BY <2>6 DEF ReaderEnds, ReaderStops
    <3>2. Attached'
      BY <3>1, ReaderKeeps DEF AssocInv, Attached
    <3> QED BY <2>2, <3>1, <3>2
  <2> QED BY <2>3, <2>4, <2>5, <2>6 DEF AssocNext
<1>3. AssocInv => NothingFreshRefused
  <2> SUFFICES ASSUME AssocInv PROVE NothingFreshRefused
    OBVIOUS
  <2>1. ASSUME NEW i \in 1 .. Len(links), NEW j \in 1 .. Len(links), links[i].reading,
               links[j].reading, links[i].target = links[j].target
        PROVE  i = j
    <3>1. Live("up", i) = Live("up", j)
      BY <2>1 DEF AssocInv, Attached, AttachedTo
    <3>2. Live("up", i).stream = i /\ Live("up", j).stream = j
      BY DEF Live
    <3> QED BY <3>1, <3>2
  <2> QED BY <2>1 DEF AssocInv, RefusedRightly, NothingFreshRefused
<1> QED BY <1>1, <1>2, <1>3, PTL
=============================================================================
