---------------------------- MODULE EgressProofs ----------------------------
(* What the datagram egresses promise, for any number of clients, sessions,  *)
(* connections and fragments: the datagram relay and Hysteria2.              *)
EXTENDS Relay, Hysteria, FiniteSetTheorems, TLAPS

-----------------------------------------------------------------------------
\* The datagram relay.

Association ==
  [client : Clients \union {"nobody"}, phase : {"free", "dialing", "serving"}, queue : Nat]

Running == {s \in Slots : ~Closed(s)}

\* A mapped client's slot has ended or serves that client.
Owned(mapped) ==
  \A d \in DOMAIN mapped :
    mapped[d] \in Slots /\ (~Closed(mapped[d]) => associations[mapped[d]].client = d)

\* An association that runs is mapped, so reaping can only drop ended ones.
Mapped(mapped) ==
  \A s \in Running : associations[s].client \in DOMAIN mapped /\ mapped[associations[s].client] = s

RelayInv ==
  /\ associations \in [Slots -> Association] /\ tally \in [Fates -> Nat]
  /\ DOMAIN senders \subseteq Clients /\ IsFiniteSet(DOMAIN senders)
  /\ Cardinality(DOMAIN senders) <= MaxAssociations
  /\ Owned(senders) /\ Mapped(senders)

\* Reaping leaves a part of the map that still holds whatever runs, and at the
\* ceiling only that.
LEMMA ReapedFacts ==
  ASSUME RelayInv, NEW c \in Clients
  PROVE  /\ DOMAIN Reaped(c) \subseteq DOMAIN senders
         /\ IsFiniteSet(DOMAIN Reaped(c))
         /\ \A d \in DOMAIN Reaped(c) : Reaped(c)[d] = senders[d]
         /\ Owned(Reaped(c)) /\ Mapped(Reaped(c))
         /\ Cardinality(DOMAIN Reaped(c)) <= Cardinality(DOMAIN senders)
         /\ c \notin DOMAIN Reaped(c) /\ Cardinality(DOMAIN Reaped(c)) >= MaxAssociations =>
              \A d \in DOMAIN Reaped(c) : ~Closed(senders[d])
<1> DEFINE own == {d \in DOMAIN senders : ~(d = c /\ Closed(senders[d]))}
           running == {d \in own : ~Closed(senders[d])}
           full == c \notin own /\ Cardinality(own) >= MaxAssociations
           kept == IF full THEN running ELSE own
<1>1. Reaped(c) = [d \in kept |-> senders[d]]
  BY DEF Reaped
<1>2. DOMAIN Reaped(c) = kept /\ \A d \in kept : Reaped(c)[d] = senders[d]
  BY <1>1
<1>3. kept \subseteq DOMAIN senders
  OBVIOUS
<1>4. IsFiniteSet(kept) /\ Cardinality(kept) <= Cardinality(DOMAIN senders)
  BY <1>3, FS_Subset DEF RelayInv
<1>5. \A d \in DOMAIN senders : ~Closed(senders[d]) => d \in kept
  OBVIOUS
<1>6. c \notin kept /\ Cardinality(kept) >= MaxAssociations => \A d \in kept : ~Closed(senders[d])
  OBVIOUS
<1> HIDE DEF kept
<1>7. Owned(Reaped(c))
  BY <1>2, <1>3 DEF RelayInv, Owned
<1>8. Mapped(Reaped(c))
  BY <1>2, <1>5 DEF RelayInv, Mapped, Running
<1> QED BY <1>2, <1>3, <1>4, <1>6, <1>7, <1>8

LEMMA InitRelayInv == RelayInit => RelayInv
<1> SUFFICES ASSUME RelayInit PROVE RelayInv
  OBVIOUS
<1>1. associations \in [Slots -> Association] /\ \A s \in Slots : Closed(s)
  BY DEF RelayInit, Free, Association, Closed
<1>2. tally \in [Fates -> Nat] /\ DOMAIN senders = {}
  BY DEF RelayInit
<1> QED BY <1>1, <1>2, FS_EmptySet, RelayAssumption DEF RelayInv, Owned, Mapped, Running

\* A running association that stays one keeps its place; ended ones only go.
LEMMA QuietStep ==
  ASSUME RelayInv, UNCHANGED senders,
         associations' \in [Slots -> Association], tally' \in [Fates -> Nat],
         \A s \in Slots : Closed(s)' \/ (~Closed(s) /\ associations'[s].client = associations[s].client)
  PROVE  RelayInv'
<1>1. Owned(senders)'
  BY DEF RelayInv, Owned
<1>2. Mapped(senders)'
  BY DEF RelayInv, Mapped, Running
<1> QED BY <1>1, <1>2 DEF RelayInv

LEMMA ForwardRelayInv ==
  ASSUME RelayInv, NEW c \in Clients, Forward(c)
  PROVE  RelayInv'
<1> DEFINE kept == Reaped(c)
<1>0. /\ DOMAIN kept \subseteq DOMAIN senders /\ IsFiniteSet(DOMAIN kept)
      /\ \A d \in DOMAIN kept : kept[d] = senders[d]
      /\ Owned(kept) /\ Mapped(kept)
      /\ Cardinality(DOMAIN kept) \in Nat /\ Cardinality(DOMAIN kept) <= MaxAssociations
  <2>1. Cardinality(DOMAIN kept) \in Nat /\ Cardinality(DOMAIN senders) \in Nat
    BY ReapedFacts, FS_CardinalityType DEF RelayInv
  <2> QED BY <2>1, ReapedFacts, RelayAssumption DEF RelayInv
<1>1. CASE senders' = kept /\ UNCHANGED associations /\ \E f \in Fates : Count(f, 1)
  <2>1. tally' \in [Fates -> Nat]
    BY <1>1 DEF Count, RelayInv
  <2>2. Owned(senders)' /\ Mapped(senders)'
    BY <1>0, <1>1 DEF Owned, Mapped, Running, Closed
  <2> QED BY <1>0, <1>1, <2>1, <2>2 DEF RelayInv
<1>2. ASSUME Cardinality(DOMAIN kept) < MaxAssociations, c \notin DOMAIN kept,
             NEW s \in {s \in Slots : Closed(s) /\ \A d \in DOMAIN kept : kept[d] # s},
             senders' = [d \in DOMAIN kept \union {c} |-> IF d = c THEN s ELSE kept[d]],
             associations' = [associations EXCEPT ![s] =
                                [client |-> c, phase |-> "dialing", queue |-> 1]],
             UNCHANGED tally
      PROVE  RelayInv'
  <2>1. associations' \in [Slots -> Association]
    BY <1>2 DEF RelayInv, Association
  <2>2. /\ associations'[s].client = c /\ \A t \in Slots \ {s} : associations'[t] = associations[t]
        /\ senders'[c] = s /\ DOMAIN senders' = DOMAIN kept \union {c}
        /\ \A d \in DOMAIN kept : senders'[d] = kept[d] /\ kept[d] # s /\ d # c
    BY <1>2 DEF RelayInv
  <2>3. Owned(senders)'
    BY <1>0, <2>2 DEF Owned, Closed
  <2>4. Mapped(senders)'
    <3> SUFFICES ASSUME NEW t \in Slots, ~Closed(t)'
                 PROVE  associations'[t].client \in DOMAIN senders'
                        /\ senders'[associations'[t].client] = t
      BY DEF Mapped, Running
    <3>1. CASE t = s
      BY <2>2, <3>1
    <3>2. CASE t # s
      <4>1. associations'[t] = associations[t] /\ ~Closed(t)
        BY <2>2, <3>2 DEF Closed
      <4>2. associations[t].client \in DOMAIN kept /\ kept[associations[t].client] = t
        BY <1>0, <4>1 DEF Mapped, Running
      <4> QED BY <2>2, <4>1, <4>2
    <3> QED BY <3>1, <3>2
  <2>5. /\ IsFiniteSet(DOMAIN kept \union {c})
        /\ Cardinality(DOMAIN kept \union {c}) <= MaxAssociations
    <3>1. /\ IsFiniteSet(DOMAIN kept \union {c})
          /\ Cardinality(DOMAIN kept \union {c}) = Cardinality(DOMAIN kept) + 1
      <4> HIDE DEF kept
      <4> QED BY <1>0, <1>2, FS_AddElement
    <3>2. \A m, n \in Nat : m < n => m + 1 <= n
      OBVIOUS
    <3> HIDE DEF kept
    <3> QED BY <1>0, <1>2, <3>1, <3>2, RelayAssumption
  <2>6. DOMAIN senders' \subseteq Clients
    BY <1>0, <2>2 DEF RelayInv
  <2> QED BY <1>2, <2>1, <2>2, <2>3, <2>4, <2>5, <2>6 DEF RelayInv
<1>3. ASSUME c \in DOMAIN kept, senders' = kept, UNCHANGED tally,
             associations' = [associations EXCEPT ![kept[c]].queue = @ + 1]
      PROVE  RelayInv'
  <2>1. kept[c] \in Slots /\ associations[kept[c]] \in Association
    BY <1>0, <1>3 DEF Owned, RelayInv
  <2>2. associations' \in [Slots -> Association]
    BY <1>3, <2>1 DEF RelayInv, Association
  <2>3. \A s \in Slots : /\ associations'[s].client = associations[s].client
                         /\ associations'[s].phase = associations[s].phase
    BY <1>3, <2>1 DEF RelayInv, Association
  <2>4. Owned(senders)' /\ Mapped(senders)'
    BY <1>0, <1>3, <2>3 DEF Owned, Mapped, Running, Closed
  <2> QED BY <1>0, <1>3, <2>2, <2>4 DEF RelayInv
<1> QED BY <1>1, <1>2, <1>3 DEF Forward, Fates

LEMMA RelayStep == RelayInv /\ [RelayNext]_relayVars => RelayInv'
<1> SUFFICES ASSUME RelayInv, [RelayNext]_relayVars PROVE RelayInv'
  OBVIOUS
<1>1. ASSUME NEW c \in Clients, Forward(c) PROVE RelayInv'
  BY <1>1, ForwardRelayInv
<1>2. ASSUME NEW s \in Slots, Associated(s) PROVE RelayInv'
  <2>1. associations[s] \in Association /\ associations \in [Slots -> Association]
    BY DEF RelayInv
  <2>2. associations' \in [Slots -> Association]
    BY <1>2, <2>1 DEF Associated, Association, Free
  <2>3. tally' \in [Fates -> Nat]
    BY <1>2, <2>1 DEF Associated, Association, RelayInv, Fates
  <2>4. \A t \in Slots : Closed(t)' \/ (~Closed(t) /\ associations'[t].client = associations[t].client)
    BY <1>2, <2>1 DEF Associated, Association, Closed, Free
  <2> QED BY <1>2, <2>2, <2>3, <2>4, QuietStep DEF Associated
<1>3. ASSUME NEW s \in Slots, SendTo(s) PROVE RelayInv'
  <2>1. associations[s] \in Association /\ associations \in [Slots -> Association]
    BY DEF RelayInv
  <2>2. associations' \in [Slots -> Association]
    BY <1>3, <2>1 DEF SendTo, Association
  <2>3. tally' \in [Fates -> Nat]
    BY <1>3 DEF SendTo, Count, RelayInv, Fates
  <2>4. \A t \in Slots : Closed(t)' \/ (~Closed(t) /\ associations'[t].client = associations[t].client)
    BY <1>3, <2>1 DEF SendTo, Association, Closed
  <2> QED BY <1>3, <2>2, <2>3, <2>4, QuietStep DEF SendTo
<1>4. ASSUME NEW s \in Slots, ReplyFails(s) PROVE RelayInv'
  <2>1. tally' \in [Fates -> Nat]
    BY <1>4 DEF ReplyFails, Count, RelayInv, Fates
  <2> QED BY <1>4, <2>1, QuietStep DEF ReplyFails, RelayInv, Closed
<1>5. ASSUME NEW s \in Slots, AssociationStops(s) PROVE RelayInv'
  <2>1. associations[s] \in Association /\ associations \in [Slots -> Association]
    BY DEF RelayInv
  <2>2. associations' \in [Slots -> Association]
    BY <1>5, <2>1 DEF AssociationStops, Association, Free
  <2>3. tally' \in [Fates -> Nat]
    BY <1>5, <2>1 DEF AssociationStops, Count, Association, RelayInv, Fates
  <2>4. \A t \in Slots : Closed(t)' \/ (~Closed(t) /\ associations'[t].client = associations[t].client)
    BY <1>5, <2>1 DEF AssociationStops, Association, Closed, Free
  <2> QED BY <1>5, <2>2, <2>3, <2>4, QuietStep DEF AssociationStops
<1>6. CASE CancelRelay \/ StopRelay \/ RelayOver \/ UNCHANGED relayVars
  BY <1>6 DEF CancelRelay, StopRelay, RelayOver, relayVars, RelayInv, Owned, Mapped, Running, Closed
<1>7. CASE RelayEnds
  <2>1. DOMAIN senders' = {} /\ UNCHANGED <<associations, tally>> /\ Running' = {}
    BY <1>7 DEF RelayEnds, Running, Closed
  <2> QED BY <2>1, FS_EmptySet, RelayAssumption DEF RelayInv, Owned, Mapped
<1> QED BY <1>1, <1>2, <1>3, <1>4, <1>5, <1>6, <1>7 DEF RelayNext

\* The running associations map one to one into the client map.
LEMMA OpenWithinCeiling ==
  ASSUME RelayInv
  PROVE  IsFiniteSet(Running) /\ Cardinality(Running) <= MaxAssociations
<1> DEFINE f == [s \in Running |-> associations[s].client]
<1>1. f \in Injection(Running, DOMAIN senders)
  BY DEF RelayInv, Mapped, Injection, IsInjective
<1>2. IsFiniteSet(DOMAIN senders)
  BY DEF RelayInv
<1>3. IsFiniteSet(Running) /\ Cardinality(Running) <= Cardinality(DOMAIN senders)
  BY <1>1, <1>2, FS_Injection
<1>4. /\ Cardinality(Running) \in Nat /\ Cardinality(DOMAIN senders) \in Nat
      /\ Cardinality(DOMAIN senders) <= MaxAssociations
  BY <1>2, <1>3, FS_CardinalityType DEF RelayInv
<1> QED BY <1>3, <1>4, RelayAssumption

LEMMA OneForAClient ==
  ASSUME RelayInv, NEW c \in Clients
  PROVE  Cardinality(Serving(c)) <= 1
<1>1. Serving(c) \subseteq {senders[c]}
  BY DEF RelayInv, Serving, Mapped, Running
<1>2. IsFiniteSet({senders[c]}) /\ Cardinality({senders[c]}) = 1
  BY FS_Singleton
<1> QED BY <1>1, <1>2, FS_Subset

\* What reaping kept at the ceiling maps one to one into the running associations.
LEMMA RefusedWhenFull ==
  ASSUME RelayInv, [RelayNext]_relayVars, tally'["refused"] > tally["refused"]
  PROVE  Cardinality(Running) >= MaxAssociations
<1>1. PICK c \in Clients : c \notin DOMAIN Reaped(c) /\ Cardinality(DOMAIN Reaped(c)) >= MaxAssociations
  <2>1. tally \in [Fates -> Nat] /\ tally["refused"] \in Nat
    BY DEF RelayInv, Fates
  <2>2. tally'["refused"] # tally["refused"]
    BY <2>1
  <2>3. \A n : \A f \in Fates \ {"refused"} : Count(f, n) => tally'["refused"] = tally["refused"]
    BY <2>1 DEF Count, Fates
  <2>4. PICK c \in Clients : Forward(c)
    BY <2>1, <2>2, <2>3
       DEF RelayNext, relayVars, Associated, SendTo, ReplyFails, AssociationStops, CancelRelay,
           StopRelay, RelayEnds, RelayOver, Fates
  <2> QED BY <2>2, <2>3, <2>4 DEF Forward, Fates
<1> DEFINE kept == DOMAIN Reaped(c)
           f == [d \in kept |-> senders[d]]
<1>2. \A d \in kept : d \in DOMAIN senders /\ ~Closed(senders[d])
  BY <1>1, ReapedFacts
<1>3. \A d \in kept : senders[d] \in Running /\ associations[senders[d]].client = d
  BY <1>2 DEF RelayInv, Owned, Running
<1>4. f \in Injection(kept, Running)
  BY <1>3 DEF Injection, IsInjective
<1>5. IsFiniteSet(kept) /\ IsFiniteSet(Running) /\ Cardinality(kept) <= Cardinality(Running)
  BY <1>4, OpenWithinCeiling, FS_Injection
<1>6. Cardinality(kept) \in Nat /\ Cardinality(Running) \in Nat
  BY <1>5, FS_CardinalityType
<1> QED BY <1>1, <1>5, <1>6, RelayAssumption

Bounded ==
  /\ \A c \in Clients : Cardinality(Serving(c)) <= 1
  /\ Cardinality({s \in Slots : ~Closed(s)}) <= MaxAssociations

LEMMA InvBounded == RelayInv => Bounded
BY OneForAClient, OpenWithinCeiling DEF Bounded, Running

\* A client's datagram is refused an association only while max_associations of
\* them run, never more run, and never two for one client, for any clients, any
\* ceiling and any queue depth (run_relay).
THEOREM AdmissionStaysExact == RelayInit /\ [][RelayNext]_relayVars => AdmissionExact
<1>1. RelayInv /\ Bounded' /\ [RelayNext]_relayVars =>
        [/\ \A c \in Clients : Cardinality(Serving(c)') <= 1
         /\ Cardinality({s \in Slots : ~Closed(s)}') <= MaxAssociations
         /\ tally'["refused"] > tally["refused"] =>
              Cardinality({s \in Slots : ~Closed(s)}) >= MaxAssociations]_relayVars
  BY RefusedWhenFull DEF Bounded, Running
<1> QED BY <1>1, InitRelayInv, RelayStep, InvBounded, PTL DEF AdmissionExact

-----------------------------------------------------------------------------
\* Hysteria2: sessions, their hub and their fragments.

\* A message as the server numbers it.
IsPiece(f) ==
  /\ f \in [packet : 1 .. packets, piece : Nat, count : Nat, empty : BOOLEAN]
  /\ f.piece < f.count

\* Messages of one packet agree, and what is held is of the packet it is held for.
PieceInv ==
  /\ packets \in Nat
  /\ DOMAIN partial = DOMAIN NoPartial
  /\ \A f \in fragments \union partial.held : IsPiece(f)
  /\ \A f, g \in fragments \union partial.held :
       f.packet = g.packet => f.count = g.count /\ f.empty = g.empty
  /\ \A h \in partial.held : h.packet % PacketIds = partial.packet /\ h.count = partial.count
  /\ PacketsNotMixed

Pieces(f) == {[f EXCEPT !.piece = i] : i \in 0 .. (f.count - 1)}

LEMMA SmallModulus ==
  ASSUME NEW a \in Nat, NEW b \in Nat, a < b PROVE a % b = a
  OBVIOUS

LEMMA CountType == ASSUME NEW n \in Nat PROVE FragmentCount(n) \in Nat
  BY HysteriaAssumption DEF FragmentCount

LEMMA PiecesCounted ==
  ASSUME NEW f, f.count \in Nat
  PROVE  IsFiniteSet(Pieces(f)) /\ Cardinality(Pieces(f)) <= f.count
<1> DEFINE g == [i \in 0 .. (f.count - 1) |-> [f EXCEPT !.piece = i]]
<1>1. IsFiniteSet(0 .. (f.count - 1)) /\ Cardinality(0 .. (f.count - 1)) = f.count
  <2>1. /\ IsFiniteSet(0 .. (f.count - 1))
        /\ Cardinality(0 .. (f.count - 1)) = IF 0 > f.count - 1 THEN 0 ELSE (f.count - 1) - 0 + 1
    <3>1. 0 \in Int /\ f.count - 1 \in Int
      OBVIOUS
    <3> HIDE DEF g
    <3> QED BY <3>1, FS_Interval
  <2> QED BY <2>1
<1>2. g \in Surjection(0 .. (f.count - 1), Pieces(f))
  BY DEF Surjection, Pieces
<1> QED BY <1>1, <1>2, FS_Surjection

LEMMA PieceInvInit == HysteriaInit => PieceInv
  BY DEF HysteriaInit, PieceInv, NoPartial, PacketsNotMixed

LEMMA ServerSendsKeeps ==
  ASSUME PieceInv, ServerSends PROVE PieceInv'
<1>1. PICK n \in 0 .. MaxLength : fragments' = fragments \union Fragment(packets + 1, n)
  BY DEF ServerSends
<1> DEFINE new == Fragment(packets + 1, n)
<1>2. packets \in Nat /\ packets' = packets + 1 /\ UNCHANGED <<partial, delivered>>
  BY DEF ServerSends, PieceInv
<1>3. FragmentCount(n) \in Nat
  BY CountType, HysteriaAssumption
<1>4. ASSUME NEW f \in new
      PROVE  /\ f \in [packet : 1 .. packets', piece : Nat, count : Nat, empty : BOOLEAN]
             /\ f.piece < f.count /\ f.packet = packets + 1
             /\ f.count = FragmentCount(n) /\ f.empty = (n = 0)
  <2>1. PICK i \in 0 .. (FragmentCount(n) - 1) :
          f = [packet |-> packets + 1, piece |-> i, count |-> FragmentCount(n), empty |-> n = 0]
    BY DEF Fragment
  <2>2. (n = 0) \in BOOLEAN
    OBVIOUS
  <2>3. i \in Nat /\ i < FragmentCount(n) /\ packets + 1 \in 1 .. packets'
    BY <1>2, <1>3
  <2> QED BY <1>3, <2>1, <2>2, <2>3
<1> HIDE DEF new
<1>5. \A f \in fragments \union partial.held :
        f \in [packet : 1 .. packets', piece : Nat, count : Nat, empty : BOOLEAN] /\ f.packet # packets + 1
        /\ f.piece < f.count
  BY <1>2 DEF PieceInv, IsPiece
<1>6. fragments' \union partial'.held = (fragments \union partial.held) \union new
  BY <1>1, <1>2 DEF new
<1>7. \A f \in fragments' \union partial'.held : IsPiece(f)'
  BY <1>4, <1>5, <1>6 DEF IsPiece
<1>8. \A f, g \in fragments' \union partial'.held :
        f.packet = g.packet => f.count = g.count /\ f.empty = g.empty
  BY <1>4, <1>5, <1>6 DEF PieceInv
<1>9. PacketsNotMixed'
  BY <1>2, HysteriaAssumption DEF PieceInv, PacketsNotMixed
<1> QED BY <1>2, <1>7, <1>8, <1>9 DEF PieceInv

\* Pieces that go leave what is said of the others.
LEMMA FewerKeeps ==
  ASSUME PieceInv, fragments' \subseteq fragments, UNCHANGED packets,
         DOMAIN partial' = DOMAIN NoPartial,
         partial'.held \subseteq fragments \union partial.held,
         \A h \in partial'.held : h.packet % PacketIds = partial'.packet /\ h.count = partial'.count,
         PacketsNotMixed'
  PROVE  PieceInv'
  BY DEF PieceInv, IsPiece

\* What one push completes is every piece of one packet.
LEMMA PushWhole ==
  ASSUME PieceInv, NEW f \in fragments, packets < PacketIds
  PROVE  \A h \in Push(f).whole : Push(f).whole = Pieces(h)
<1> DEFINE same == partial.count = f.count /\ partial.packet = f.packet % PacketIds
           parts == {h \in (IF same THEN partial.held ELSE {}) : h.piece # f.piece} \union {f}
<1>1. IsPiece(f) /\ \A h \in parts : IsPiece(h) /\ h \in fragments \union partial.held
  BY DEF PieceInv
<1>2. \A h \in parts : h.packet = f.packet
  <2>1. \A h \in parts : h = f \/ (h \in partial.held /\ partial.packet = f.packet % PacketIds)
    OBVIOUS
  <2>2. \A h \in parts : h.packet % PacketIds = f.packet % PacketIds
    BY <2>1 DEF PieceInv
  <2>3. \A h \in parts : h.packet \in Nat /\ h.packet < PacketIds
    BY <1>1, HysteriaAssumption DEF IsPiece, PieceInv
  <2>4. f \in parts
    OBVIOUS
  <2> HIDE DEF parts
  <2>5. ASSUME NEW h \in parts PROVE h.packet = f.packet
    <3>1. h.packet % PacketIds = h.packet
      BY <2>3, SmallModulus, HysteriaAssumption
    <3>2. f.packet % PacketIds = f.packet
      BY <2>3, <2>4, SmallModulus, HysteriaAssumption
    <3> QED BY <2>2, <3>1, <3>2
  <2> QED BY <2>5
<1>3. \A h \in parts : h.count = f.count /\ h.empty = f.empty
  BY <1>1, <1>2 DEF PieceInv
<1> HIDE DEF parts
<1>4. ASSUME NEW h \in parts, NEW g \in parts
      PROVE  h \in Pieces(g)
  <2>1. h = [g EXCEPT !.piece = h.piece]
    BY <1>1, <1>2, <1>3 DEF IsPiece
  <2>2. h.piece \in 0 .. (g.count - 1)
    BY <1>1, <1>3 DEF IsPiece
  <2> QED BY <2>1, <2>2 DEF Pieces
<1>5. ASSUME Cardinality(parts) = f.count, NEW g \in parts
      PROVE  parts = Pieces(g)
  <2>1. parts \subseteq Pieces(g)
    BY <1>4
  <2>2. g.count = f.count /\ g.count \in Nat
    BY <1>1, <1>3 DEF IsPiece
  <2>3. IsFiniteSet(Pieces(g)) /\ Cardinality(Pieces(g)) <= g.count
    BY <2>2, PiecesCounted
  <2>4. Cardinality(parts) <= Cardinality(Pieces(g)) /\ Cardinality(Pieces(g)) \in Nat
    BY <2>1, <2>3, FS_Subset, FS_CardinalityType
  <2>5. Cardinality(parts) = Cardinality(Pieces(g))
    BY <1>5, <2>2, <2>3, <2>4
  <2> QED BY <2>1, <2>3, <2>5, FS_Subset
<1>6. CASE f.count = 1
  <2>1. Push(f).whole = {f}
    BY <1>6 DEF Push
  <2>2. f.piece = 0 /\ 0 .. (f.count - 1) = {0}
    BY <1>1, <1>6 DEF IsPiece
  <2>3. [f EXCEPT !.piece = 0] = f
    BY <1>1, <2>2 DEF IsPiece
  <2> QED BY <2>1, <2>2, <2>3 DEF Pieces
<1>7. CASE f.count # 1
  <2>1. Push(f).whole = IF Cardinality(parts) = f.count THEN parts ELSE {}
    BY <1>7 DEF Push, parts
  <2> QED BY <1>5, <2>1
<1> QED BY <1>6, <1>7

LEMMA ServeKeeps ==
  ASSUME PieceInv, NEW f \in fragments, Serve(f) PROVE PieceInv'
<1>1. fragments' \subseteq fragments /\ UNCHANGED packets
  BY DEF Serve
<1>2. CASE ~HasPayload(f)
  <2>1. partial' = partial /\ delivered' = {}
    BY <1>2 DEF Serve
  <2> QED BY <1>1, <2>1, FewerKeeps DEF PieceInv, PacketsNotMixed
<1>3. CASE HasPayload(f) /\ ~routed
  <2>1. partial' = NoPartial /\ delivered' = {}
    BY <1>3 DEF Serve
  <2> QED BY <1>1, <2>1, FewerKeeps DEF PacketsNotMixed, NoPartial
<1>4. CASE HasPayload(f) /\ routed
  <2>1. partial' = Push(f).partial /\ delivered' \in {Push(f).whole, {}}
    BY <1>4 DEF Serve
  <2>2. PacketsNotMixed'
    <3>1. CASE packets < PacketIds /\ delivered' = Push(f).whole
      <4>1. \A h \in delivered' : delivered' = Pieces(h)
        BY <3>1, PushWhole
      <4> QED BY <4>1 DEF PacketsNotMixed, Pieces
    <3>2. CASE ~(packets < PacketIds) \/ delivered' = {}
      BY <1>1, <3>2 DEF PacketsNotMixed
    <3> QED BY <2>1, <3>1, <3>2
  <2>3. /\ DOMAIN partial' = DOMAIN NoPartial
        /\ partial'.held \subseteq fragments \union partial.held
        /\ \A h \in partial'.held : h.packet % PacketIds = partial'.packet /\ h.count = partial'.count
    <3> DEFINE same == partial.count = f.count /\ partial.packet = f.packet % PacketIds
               parts == {h \in (IF same THEN partial.held ELSE {}) : h.piece # f.piece} \union {f}
    <3>1. /\ parts \subseteq fragments \union partial.held
          /\ \A h \in parts : h.packet % PacketIds = f.packet % PacketIds /\ h.count = f.count
      BY DEF PieceInv
    <3>2. CASE f.count = 1
      BY <2>1, <3>2 DEF Push, PieceInv
    <3>3. CASE f.count # 1 /\ Cardinality(parts) = f.count
      <4>1. partial' = [partial EXCEPT !.packet = f.packet % PacketIds, !.count = 0, !.held = {}]
        BY <2>1, <3>3 DEF Push
      <4> QED BY <4>1 DEF PieceInv, NoPartial
    <3>4. CASE f.count # 1 /\ Cardinality(parts) # f.count
      <4>1. partial' = [packet |-> f.packet % PacketIds, count |-> f.count, held |-> parts]
        BY <2>1, <3>4 DEF Push
      <4> HIDE DEF parts
      <4> QED BY <3>1, <4>1 DEF NoPartial
    <3> QED BY <3>2, <3>3, <3>4
  <2> QED BY <1>1, <2>2, <2>3, FewerKeeps
<1> QED BY <1>2, <1>3, <1>4

LEMMA PieceStep ==
  ASSUME PieceInv, PieceNext \/ UNCHANGED pieceVars PROVE PieceInv'
<1>1. CASE ServerSends
  BY <1>1, ServerSendsKeeps
<1>2. CASE \E f \in fragments : Serve(f)
  BY <1>2, ServeKeeps
<1>3. CASE \E f \in fragments : LoseFragment(f)
  <2>1. fragments' \subseteq fragments /\ UNCHANGED <<packets, partial, delivered>>
    BY <1>3 DEF LoseFragment
  <2> QED BY <2>1, FewerKeeps DEF PieceInv, PacketsNotMixed
<1>4. CASE UNCHANGED <<fragments, packets, partial, delivered>>
  <2>1. PacketsNotMixed'
    BY <1>4 DEF PieceInv, PacketsNotMixed
  <2> QED BY <1>4, <2>1, FewerKeeps DEF PieceInv
<1> QED BY <1>1, <1>2, <1>3, <1>4 DEF PieceNext, RouteCloses, pieceVars

InSession(c) == calls[c].at = "session"

\* A call's connection is no newer than the hub it may find in the cell.
CallKept(k) ==
  /\ DOMAIN k = DOMAIN NoCall
  /\ k.at \in {"idle", "waiting", "connected", "session"}
  /\ k.at = "waiting" => k.gen = link.gen /\ link.at = "opening"
  /\ k.at = "connected" => k.gen \in Nat /\ k.gen <= link.gen /\ (hub # 0 => k.gen <= hub)
  /\ k.at = "session" =>
       /\ k.gen \in Nat /\ k.hub \in Generations /\ k.gen <= k.hub
       /\ k.id \in Nat /\ k.id < nextSession[k.hub] /\ k.id \in routes[k.hub]

LinkInv ==
  /\ DOMAIN link = {"at", "gen"} /\ link.gen \in Nat /\ link.at \in {"down", "opening", "up"}
  /\ opening \in {"none", "dialing", "published"} /\ (opening # "none" <=> link.at = "opening")
  /\ link.at \in {"opening", "up"} => link.gen \in Generations
  /\ hub \in Generations \union {0} /\ hub <= link.gen
  /\ opening = "published" \/ link.at = "up" => hub \in {0, link.gen}
  /\ DOMAIN routes = Generations /\ nextSession \in [Generations -> Nat]
  /\ DOMAIN calls = Callers /\ \A c \in Callers : CallKept(calls[c])
  /\ \A g \in Generations : \A id \in routes[g] :
       \E c \in Callers : InSession(c) /\ calls[c].hub = g /\ calls[c].id = id
  /\ \A c, d \in Callers : InSession(c) /\ InSession(d) /\ calls[c].hub = calls[d].hub
                           /\ calls[c].id = calls[d].id => c = d

LEMMA LinkInvInit == HysteriaInit => LinkInv
  BY HysteriaAssumption DEF HysteriaInit, LinkInv, CallKept, NoCall, InSession

LEMMA GetKeeps == ASSUME LinkInv, NEW c \in Callers, Get(c) PROVE LinkInv'
<1>1. CallKept(calls[c]) /\ calls[c].at = "idle" /\ UNCHANGED <<hub, routes, nextSession>>
  BY DEF LinkInv, Get
<1>2. CASE /\ link.at = "up" /\ UNCHANGED <<link, opening>>
           /\ calls' = [calls EXCEPT ![c].at = "connected", ![c].gen = link.gen]
  BY <1>1, <1>2, HysteriaAssumption DEF LinkInv, CallKept, InSession, NoCall
<1>3. CASE /\ link.at = "opening" /\ UNCHANGED <<link, opening>>
           /\ calls' = [calls EXCEPT ![c].at = "waiting", ![c].gen = link.gen]
  BY <1>1, <1>3, HysteriaAssumption DEF LinkInv, CallKept, InSession, NoCall
<1>4. CASE /\ link.at # "opening" /\ link.gen + 1 \in Generations
           /\ link' = [at |-> "opening", gen |-> link.gen + 1] /\ opening' = "dialing"
           /\ calls' = [calls EXCEPT ![c].at = "waiting", ![c].gen = link.gen + 1]
  BY <1>1, <1>4, HysteriaAssumption DEF LinkInv, CallKept, InSession, NoCall
<1> QED BY <1>2, <1>3, <1>4 DEF Get

LEMMA PublishKeeps == LinkInv /\ Publish => LinkInv'
  BY HysteriaAssumption DEF LinkInv, Publish, CallKept, InSession
LEMMA ReportKeeps == LinkInv /\ Report => LinkInv'
  BY HysteriaAssumption DEF LinkInv, Report, CallKept, InSession, NoCall
LEMMA DialFailsKeeps == LinkInv /\ DialFails => LinkInv'
  BY HysteriaAssumption DEF LinkInv, DialFails, CallKept, InSession, NoCall

LEMMA AssociateKeeps == ASSUME LinkInv, NEW c \in Callers, Associate(c) PROVE LinkInv'
<1>1. CallKept(calls[c]) /\ calls[c].at = "connected" /\ UNCHANGED <<link, opening, hub>>
  BY DEF LinkInv, Associate
<1>2. CASE hub = 0
  <2>1. calls' = [calls EXCEPT ![c] = NoCall] /\ UNCHANGED <<routes, nextSession>>
    BY <1>2 DEF Associate
  <2> QED BY <1>1, <2>1, HysteriaAssumption DEF LinkInv, CallKept, InSession, NoCall
<1>3. CASE hub # 0
  <2> DEFINE k == [calls[c] EXCEPT !.at = "session", !.hub = hub, !.id = nextSession[hub]]
  <2>1. /\ calls' = [calls EXCEPT ![c].at = "session", ![c].hub = hub, ![c].id = nextSession[hub]]
        /\ hub \in Generations
        /\ routes' = [routes EXCEPT ![hub] = @ \union {nextSession[hub]}]
        /\ nextSession' = [nextSession EXCEPT ![hub] = @ + 1]
    BY <1>3 DEF Associate, OpenRoute, LinkInv
  <2>2. /\ k.at = "session" /\ k.hub = hub /\ k.id = nextSession[hub] /\ k.gen = calls[c].gen
        /\ DOMAIN k = DOMAIN NoCall
    BY <1>1 DEF CallKept, NoCall
  <2>3. calls'[c] = k /\ DOMAIN calls' = Callers /\ \A d \in Callers \ {c} : calls'[d] = calls[d]
    BY <2>1 DEF LinkInv
  <2> HIDE DEF k
  <2>4. /\ nextSession' \in [Generations -> Nat] /\ DOMAIN routes' = Generations
        /\ \A g \in Generations : nextSession'[g] >= nextSession[g] /\ routes[g] \subseteq routes'[g]
        /\ \A g \in Generations \ {hub} : routes'[g] = routes[g]
        /\ routes'[hub] = routes[hub] \union {nextSession[hub]}
        /\ nextSession'[hub] = nextSession[hub] + 1 /\ nextSession[hub] \in Nat
    BY <2>1 DEF LinkInv
  <2>5. \A d \in Callers : CallKept(calls[d])'
    <3>1. CallKept(calls[c])'
      BY <1>1, <1>3, <2>1, <2>2, <2>4, <2>3 DEF CallKept
    <3>2. ASSUME NEW d \in Callers \ {c} PROVE CallKept(calls[d])'
      <4>1. CallKept(calls[d]) /\ calls'[d] = calls[d]
        BY <2>3 DEF LinkInv
      <4>2. calls[d].at = "session" => nextSession[calls[d].hub] \in Nat /\ nextSession'[calls[d].hub] \in Nat
        BY <2>4, <4>1 DEF LinkInv, CallKept
      <4> QED BY <1>1, <2>4, <4>1, <4>2 DEF CallKept
    <3> QED BY <3>1, <3>2
  <2>6. ASSUME NEW g \in Generations, NEW id \in routes'[g]
        PROVE  \E d \in Callers : InSession(d)' /\ calls'[d].hub = g /\ calls'[d].id = id
    <3>1. CASE id \in routes[g]
      <4>1. PICK d \in Callers : InSession(d) /\ calls[d].hub = g /\ calls[d].id = id
        BY <3>1 DEF LinkInv
      <4> QED BY <1>1, <2>3, <4>1 DEF InSession
    <3>2. CASE g = hub /\ id = nextSession[hub]
      BY <2>2, <2>3, <3>2 DEF InSession
    <3> QED BY <2>4, <2>6, <3>1, <3>2
  <2>7. \A d \in Callers \ {c} : InSession(d) /\ calls[d].hub = hub => calls[d].id # nextSession[hub]
    BY <2>4 DEF LinkInv, CallKept, InSession
  <2>8. \A d, e \in Callers : InSession(d)' /\ InSession(e)' /\ calls'[d].hub = calls'[e].hub
                              /\ calls'[d].id = calls'[e].id => d = e
    BY <2>2, <2>3, <2>7 DEF LinkInv, InSession
  <2> QED BY <1>1, <2>4, <2>3, <2>5, <2>6, <2>8 DEF LinkInv
<1> QED BY <1>2, <1>3

LEMMA CloseSessionKeeps == ASSUME LinkInv, NEW c \in Callers, CloseSession(c) PROVE LinkInv'
<1> DEFINE h == calls[c].hub
           id == calls[c].id
<1>1. CallKept(calls[c]) /\ InSession(c) /\ UNCHANGED <<link, opening, hub, nextSession>> /\ h \in Generations
  BY DEF LinkInv, CloseSession, InSession, CallKept
<1>2. /\ DOMAIN routes' = Generations /\ \A g \in Generations \ {h} : routes'[g] = routes[g]
      /\ routes'[h] = routes[h] \ {id}
  BY <1>1 DEF CloseSession, LinkInv
<1>3. calls'[c] = NoCall /\ DOMAIN calls' = Callers /\ \A d \in Callers \ {c} : calls'[d] = calls[d]
  BY DEF CloseSession, LinkInv
<1>4. \A d \in Callers \ {c} : InSession(d) /\ calls[d].hub = h => calls[d].id # id
  BY <1>1 DEF LinkInv
<1>5. ASSUME NEW d \in Callers PROVE CallKept(calls[d])'
  <2>1. CASE d = c
    BY <1>3, <2>1 DEF CallKept, NoCall
  <2>2. CASE d # c
    <3>1. CallKept(calls[d]) /\ calls'[d] = calls[d]
      BY <1>3, <2>2 DEF LinkInv
    <3>2. calls[d].at = "session" => calls[d].id \in routes'[calls[d].hub]
      <4> HIDE DEF h, id
      <4>1. calls[d].at = "session" => calls[d].hub \in Generations /\ calls[d].id \in routes[calls[d].hub]
        BY <3>1 DEF CallKept
      <4> QED BY <1>2, <1>4, <2>2, <4>1 DEF InSession
    <3> QED BY <1>1, <3>1, <3>2 DEF CallKept
  <2> QED BY <2>1, <2>2
<1>6. ASSUME NEW g \in Generations, NEW i \in routes'[g]
      PROVE  \E d \in Callers : InSession(d)' /\ calls'[d].hub = g /\ calls'[d].id = i
  <2>1. i \in routes[g] /\ ~(g = h /\ i = id)
    BY <1>2, <1>6
  <2>2. PICK d \in Callers : InSession(d) /\ calls[d].hub = g /\ calls[d].id = i
    BY <2>1 DEF LinkInv
  <2> QED BY <1>3, <2>1, <2>2 DEF InSession
<1>7. \A d, e \in Callers : InSession(d)' /\ InSession(e)' /\ calls'[d].hub = calls'[e].hub
                            /\ calls'[d].id = calls'[e].id => d = e
  BY <1>3 DEF LinkInv, InSession, NoCall
<1> QED BY <1>1, <1>2, <1>3, <1>5, <1>6, <1>7 DEF LinkInv

LEMMA LinkStep ==
  ASSUME LinkInv, SessionNext \/ UNCHANGED linkVars PROVE LinkInv'
<1>1. CASE UNCHANGED <<link, opening, hub, routes, nextSession, calls>>
  BY <1>1 DEF LinkInv, CallKept, InSession
<1> QED BY <1>1, GetKeeps, AssociateKeeps, CloseSessionKeeps, PublishKeeps, ReportKeeps, DialFailsKeeps
    DEF SessionNext, ConnectionDies, linkVars

LEMMA LinkRouted == LinkInv => SessionsRouted
<1> SUFFICES ASSUME LinkInv PROVE SessionsRouted
  OBVIOUS
<1> DEFINE open == {c \in Callers : calls[c].at = "session"}
<1>1. \A c \in open : calls[c].gen <= calls[c].hub
  BY DEF LinkInv, CallKept
<1>2. \A g \in Generations : routes[g] = {calls[c].id : c \in {d \in open : calls[d].hub = g}}
  BY DEF LinkInv, CallKept, InSession
<1>3. \A c, d \in open : c # d => <<calls[c].hub, calls[c].id>> # <<calls[d].hub, calls[d].id>>
  BY DEF LinkInv, InSession
<1> QED BY <1>1, <1>2, <1>3 DEF SessionsRouted

\* Sessions are routed and packets are not mixed for any callers, connections, budgets and counts.
THEOREM DatagramsStayRouted ==
  HysteriaInit /\ [][SessionNext \/ PieceNext]_hysteriaVars => []DatagramsRouted
<1>1. /\ PieceInv /\ LinkInv
      /\ [SessionNext \/ PieceNext]_hysteriaVars
      => PieceInv' /\ LinkInv'
  <2> SUFFICES ASSUME PieceInv, LinkInv, [SessionNext \/ PieceNext]_hysteriaVars PROVE PieceInv' /\ LinkInv'
    OBVIOUS
  <2>1. CASE SessionNext
    <3>1. UNCHANGED pieceVars
      BY <2>1 DEF SessionNext, Get, Associate, CloseSession, Publish, Report, DialFails, ConnectionDies
    <3> QED BY <2>1, <3>1, LinkStep, PieceStep
  <2>2. CASE PieceNext
    <3>1. UNCHANGED linkVars
      BY <2>2 DEF PieceNext, ServerSends, RouteCloses, LoseFragment, Serve
    <3> QED BY <2>2, <3>1, LinkStep, PieceStep
  <2>3. CASE UNCHANGED hysteriaVars
    BY <2>3, LinkStep, PieceStep DEF hysteriaVars
  <2> QED BY <2>1, <2>2, <2>3
<1>2. PieceInv /\ LinkInv => DatagramsRouted
  BY LinkRouted DEF PieceInv, DatagramsRouted
<1> QED BY <1>1, <1>2, PieceInvInit, LinkInvInit, PTL
==============================================================================
