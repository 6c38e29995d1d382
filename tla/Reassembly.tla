----------------------------- MODULE Reassembly ------------------------------
(***************************************************************************)
(* The fragment reassembler of src/l3/reassembly.rs: the pending datagrams *)
(* with their block bitmaps, and the expiry index whose buckets are hints  *)
(* that lag behind the deadlines.                                          *)
(*                                                                         *)
(* Payload bytes are left out; a fragment is its extent.  Block and        *)
(* datagram sizes are small, and a datagram may end inside a block.        *)
(***************************************************************************)
EXTENDS Naturals, FiniteSets, Sequences, Functions

CONSTANTS Keys,         \* source, destination, identification, protocol
          BlockBytes,   \* 8 in the code
          MaxDatagram,  \* MAX_DATAGRAM_BYTES, 65535 in the code
          HeaderBytes,  \* inherited headers, counted by IPv4's total length
          MaxPending,   \* max_pending
          Timeout,      \* timeout
          MaxTime       \* bound: the clock

ASSUME ReassemblyAssumption ==
  /\ BlockBytes \in Nat \ {0} /\ MaxDatagram \in Nat \ {0} /\ HeaderBytes \in Nat
  /\ MaxPending \in Nat \ {0} /\ Timeout \in Nat /\ MaxTime \in Nat

Blocks(bytes) == (bytes + BlockBytes - 1) \div BlockBytes

Offsets == {b * BlockBytes : b \in 0 .. Blocks(MaxDatagram) - 1}

\* What Fragment::parse yields: an aligned offset and any payload length.
Fragments == [key : Keys, offset : Offsets, len : 0 .. MaxDatagram, more : BOOLEAN]

Instants == 0 .. MaxTime + Timeout

NoTotal == 0    \* None: a fragment that ends a datagram has at least one byte

VARIABLES now,          \* the shell's clock
          pending,      \* key -> its datagram
          expirations,  \* instant -> how often each key is filed under it
          completed       \* the datagram the last call completed, if it did

reassemblyVars == <<now, pending, expirations, completed>>

Extent(f) == f.offset + f.len

BlocksOf(f) == f.offset \div BlockBytes .. (Extent(f) - 1) \div BlockBytes

\* seen: the fragments behind an entry that is not poisoned, as they came.
NewPending(deadline) ==
  [data |-> 0, received |-> {}, count |-> 0, total |-> NoTotal, poisoned |-> FALSE,
   headers |-> FALSE, at |-> deadline, slot |-> deadline, seen |-> <<>>]

NothingCompleted == [seen |-> <<>>, total |-> NoTotal, headers |-> FALSE]

\* push's first test: an empty, oversized or misaligned fragment.
MalformedFragment(f) ==
  \/ f.len = 0
  \/ Extent(f) > MaxDatagram
  \/ f.more /\ f.len % BlockBytes # 0

NothingFiled == [k \in Keys |-> 0]
File(index, deadline, k) == [index EXCEPT ![deadline][k] = @ + 1]

-----------------------------------------------------------------------------
(* expire                                                                  *)

\* How often a key is filed in the due buckets.
Surfaced(index, k) ==
  SumFunctionOnSet([d \in Instants |-> index[d][k]], {d \in Instants : d <= now})

Due(pend, index) == {k \in DOMAIN pend : Surfaced(index, k) > 0}

LapsedStrictly(p) == p.at < now
Lapsed(p) == p.at <= now

\* The pending datagrams left: the deadline decides, not the slot.
AfterExpiry(pend, index) ==
  LET due == Due(pend, index)
  IN  [k \in DOMAIN pend \ {x \in due : Lapsed(pend[x])} |->
         IF k \in due THEN [pend[k] EXCEPT !.slot = pend[k].at] ELSE pend[k]]

\* The due buckets are gone, and each refreshed key is filed under its deadline.
IndexAfterExpiry(pend, index) ==
  [d \in Instants |-> [k \in Keys |->
     (IF d <= now THEN 0 ELSE index[d][k])
       + (IF k \in DOMAIN pend /\ ~ Lapsed(pend[k]) /\ pend[k].at = d
          THEN Surfaced(index, k) ELSE 0)]]

Expire ==
  /\ pending' = AfterExpiry(pending, expirations)
  /\ expirations' = IndexAfterExpiry(pending, expirations)
  /\ completed' = NothingCompleted /\ UNCHANGED now

-----------------------------------------------------------------------------
(* push                                                                    *)

\* A final fragment that contradicts the length, or data past it.
Contradicts(p, f) ==
  p.total # NoTotal /\ ((~ f.more /\ Extent(f) # p.total) \/ Extent(f) > p.total)

Overlaps(p, f) == BlocksOf(f) \intersect p.received # {}

\* Data already received beyond the end a final fragment declares.
EndsShortNever(p, f) == FALSE
EndsShort(p, f) == ~ f.more /\ p.data > Extent(f)

Poisoned(p) == [p EXCEPT !.poisoned = TRUE, !.seen = <<>>]

\* The payload and its blocks taken in, and the headers of offset zero.
Stored(p, f) ==
  [p EXCEPT !.data = IF Extent(f) > @ THEN Extent(f) ELSE @,
            !.received = @ \union BlocksOf(f),
            !.count = @ + Cardinality(BlocksOf(f)),
            !.headers = @ \/ f.offset = 0,
            !.seen = Append(@, f)]

\* The entry after the fragment, the deadline refreshed and the slot kept.
Absorbed(p, f) ==
  LET q == [p EXCEPT !.at = now + Timeout]
  IN  IF q.poisoned THEN q
      ELSE IF Contradicts(q, f) \/ Overlaps(q, f) THEN Poisoned(q)
      ELSE IF EndsShort(q, f) THEN Poisoned(Stored(q, f))
      ELSE IF f.more THEN Stored(q, f)
      ELSE [Stored(q, f) EXCEPT !.total = Extent(f)]

IsComplete(p) == ~ p.poisoned /\ p.total # NoTotal /\ p.count = Blocks(p.total)

\* rebuild: the length must fit the header's field.
Rebuilds(p) == HeaderBytes + p.total <= MaxDatagram

\* forget_slot: one occurrence under that instant, if there is one.
Forgotten(index, p, k) ==
  [index EXCEPT ![p.slot][k] = IF @ > 0 THEN @ - 1 ELSE 0]

AtCapacity(pend, k) == k \notin DOMAIN pend /\ Cardinality(DOMAIN pend) = MaxPending

\* The pending set and index push works on: at capacity it expires first.
Swept(k) ==
  IF AtCapacity(pending, k)
  THEN [pend |-> AfterExpiry(pending, expirations),
        index |-> IndexAfterExpiry(pending, expirations)]
  ELSE [pend |-> pending, index |-> expirations]

With(pend, k, p) == [x \in DOMAIN pend \union {k} |-> IF x = k THEN p ELSE pend[x]]

PushFragment(f) ==
  LET k == f.key
      pend == Swept(k).pend
      fresh == k \notin DOMAIN pend
      index == IF fresh THEN File(Swept(k).index, now + Timeout, k) ELSE Swept(k).index
      p == Absorbed(IF fresh THEN NewPending(now + Timeout) ELSE pend[k], f)
  IN  /\ ~ MalformedFragment(f)
      /\ IF AtCapacity(pend, k)
         THEN /\ pending' = pend /\ expirations' = Swept(k).index
              /\ completed' = NothingCompleted
         ELSE IF IsComplete(p)
         THEN /\ pending' = [x \in DOMAIN pend \ {k} |-> pend[x]]
              /\ expirations' = Forgotten(index, p, k)
              /\ completed' = IF Rebuilds(p)
                            THEN [seen |-> p.seen, total |-> p.total, headers |-> p.headers]
                            ELSE NothingCompleted
         ELSE /\ pending' = With(pend, k, p)
              /\ expirations' = index
              /\ completed' = NothingCompleted
      /\ UNCHANGED now

PushMalformedFragment(f) ==
  /\ MalformedFragment(f)
  /\ completed' = NothingCompleted /\ UNCHANGED <<now, pending, expirations>>

Tick ==
  /\ now < MaxTime /\ now' = now + 1
  /\ completed' = NothingCompleted /\ UNCHANGED <<pending, expirations>>

ReassemblyInit ==
  /\ now = 0 /\ pending = <<>> /\ expirations = [d \in Instants |-> NothingFiled]
  /\ completed = NothingCompleted

ReassemblyNext == Tick \/ Expire \/ \E f \in Fragments : PushFragment(f) \/ PushMalformedFragment(f)

-----------------------------------------------------------------------------
(* Properties                                                              *)

\* The index has one slot per pending datagram: its key is filed once, under
\* its slot, and no key is left filed once its datagram completed or expired.
IndexMatchesPending ==
  \A k \in Keys, d \in Instants :
    expirations[d][k] = IF k \in DOMAIN pending /\ pending[k].slot = d THEN 1 ELSE 0

\* A datagram completes only from fragments that tile it: every block of its
\* length covered, none twice, in whatever order they came, with a final
\* fragment, and with the headers of the fragment at offset zero.
CompletedTilesExactly ==
  completed # NothingCompleted =>
    LET s == Range(completed.seen)
    IN  /\ \A i, j \in DOMAIN completed.seen : i # j =>
             BlocksOf(completed.seen[i]) \intersect BlocksOf(completed.seen[j]) = {}
        /\ UNION {BlocksOf(f) : f \in s} = 0 .. Blocks(completed.total) - 1
        /\ \A f \in s : IF f.more THEN Extent(f) <= completed.total
                        ELSE Extent(f) = completed.total
        /\ \E f \in s : ~ f.more
        /\ completed.headers

\* expire evicts exactly the overdue datagrams, though the buckets it works
\* from lag behind the deadlines, and leaves nothing filed in the past: the
\* shell's timer, armed from next_deadline, neither misses one nor spins.  For
\* that, every step leaves the index matching what is pending.
ExpiryIsExact ==
  [][/\ IndexMatchesPending'
     /\ Expire => /\ DOMAIN pending' = {k \in DOMAIN pending : pending[k].at > now}
                  /\ \A d \in Instants : d <= now => expirations'[d] = NothingFiled]_reassemblyVars
==============================================================================
