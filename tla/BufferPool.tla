------------------------------ MODULE BufferPool -----------------------------
(***************************************************************************)
(* The payload buffer pool of src/pool.rs, shared by every task of the     *)
(* tunnel.  Tasks are interchangeable, so the model counts the buffers in  *)
(* each phase of a loan.  A phase between two locked sections is a state   *)
(* of its own: other tasks run there.                                      *)
(***************************************************************************)
EXTENDS Naturals

CONSTANTS Capacity,     \* buffers the pool may allocate
          MaxExhausted  \* bound: refusals counted

ASSUME BufferPoolAssumption == Capacity \in Nat \ {0} /\ MaxExhausted \in Nat

VARIABLES free,       \* PoolState::free.len()
          live,       \* PoolState::live
          exhausted,  \* PoolState::exhausted
          allocating, \* reserved under the lock, not allocated yet
          loaned,     \* Pooled values some task owns
          returning   \* dropped, not yet pushed to `free'

poolVars == <<free, live, exhausted, allocating, loaned, returning>>

PoolInit ==
  /\ free = 0 /\ live = 0 /\ exhausted = 0
  /\ allocating = 0 /\ loaned = 0 /\ returning = 0

\* reserve, the locked section: a cached buffer, a new one, or a refusal.
ReserveCached ==
  /\ free > 0
  /\ free' = free - 1
  /\ loaned' = loaned + 1
  /\ UNCHANGED <<live, exhausted, allocating, returning>>

ReserveNew ==
  /\ free = 0 /\ live < Capacity
  /\ live' = live + 1
  /\ allocating' = allocating + 1
  /\ UNCHANGED <<free, exhausted, loaned, returning>>

ReserveRefusedAnytime ==
  /\ live >= Capacity
  /\ exhausted < MaxExhausted
  /\ exhausted' = exhausted + 1
  /\ UNCHANGED <<free, live, allocating, loaned, returning>>

ReserveRefused ==
  /\ free = 0 /\ live >= Capacity
  /\ exhausted < MaxExhausted
  /\ exhausted' = exhausted + 1
  /\ UNCHANGED <<free, live, allocating, loaned, returning>>

\* reserve, after the lock: the new buffer exists.
Allocate ==
  /\ allocating > 0
  /\ allocating' = allocating - 1
  /\ loaned' = loaned + 1
  /\ UNCHANGED <<free, live, exhausted, returning>>

\* Drop: the bytes are cleared outside the lock, then cached under it.
DropLoan ==
  /\ loaned > 0
  /\ loaned' = loaned - 1
  /\ returning' = returning + 1
  /\ UNCHANGED <<free, live, exhausted, allocating>>

CacheBuffer ==
  /\ returning > 0
  /\ returning' = returning - 1
  /\ free' = free + 1
  /\ UNCHANGED <<live, exhausted, allocating, loaned>>

PoolNext ==
  \/ ReserveCached \/ ReserveNew \/ ReserveRefused
  \/ Allocate \/ DropLoan \/ CacheBuffer

PoolSpec == PoolInit /\ [][PoolNext]_poolVars

-----------------------------------------------------------------------------
(* Properties                                                              *)

PoolTypeOK ==
  /\ free \in Nat /\ live \in Nat /\ exhausted \in Nat
  /\ allocating \in Nat /\ loaned \in Nat /\ returning \in Nat

\* "free.len() <= live <= capacity always holds", and the subtraction in
\* available never goes below zero on its way.
PoolBounds == free <= live /\ live <= Capacity

\* No buffer is lost or counted twice, whatever tasks run between the locked
\* sections: the pool's two counters account for every loan.
Conserved == live = free + allocating + loaned + returning

\* The pool is a budget of Capacity: it refuses only when every buffer is out.
BudgetView == INSTANCE Budget WITH used <- live - free, refused <- exhausted

BudgetSpec == BudgetView!Spec
==============================================================================
