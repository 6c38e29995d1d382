--------------------------------- MODULE Memo ---------------------------------
(***************************************************************************)
(* The bounded memo of src/fifo.rs: a map that forgets its oldest entry at *)
(* capacity.  It backs the forged-leaf cache, the DNS reply cache and the  *)
(* memo of hiding rules.                                                   *)
(***************************************************************************)
EXTENDS Naturals, Sequences, FiniteSets

EmptyMemo == [entries |-> <<>>, order |-> <<>>]

Keys(memo) == DOMAIN memo.entries
HasKey(memo, k) == k \in DOMAIN memo.entries

Stored(memo, k, v) ==
  [j \in Keys(memo) \union {k} |-> IF j = k THEN v ELSE memo.entries[j]]

Without(memo, k) == [j \in Keys(memo) \ {k} |-> memo.entries[j]]

Evicted(memo) ==
  [entries |-> Without(memo, Head(memo.order)), order |-> Tail(memo.order)]

\* insert: a replaced key keeps its place in the eviction order.
Insert(memo, capacity, k, v) ==
  IF HasKey(memo, k) THEN [memo EXCEPT !.entries = Stored(memo, k, v)]
  ELSE LET room == IF Cardinality(Keys(memo)) >= capacity /\ memo.order # <<>>
                   THEN Evicted(memo) ELSE memo
       IN [entries |-> Stored(room, k, v), order |-> Append(room.order, k)]

\* get_or_insert_with: the memo and the value the caller gets.
InsertIfAbsent(memo, capacity, k, v) ==
  IF HasKey(memo, k) THEN memo ELSE Insert(memo, capacity, k, v)

\* The order lists every key once, and there are no more of them than the capacity.
MemoSound(memo, capacity) ==
  /\ {memo.order[i] : i \in DOMAIN memo.order} = Keys(memo)
  /\ Len(memo.order) = Cardinality(Keys(memo))
  /\ Len(memo.order) <= capacity
==============================================================================
