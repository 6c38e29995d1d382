------------------------------- MODULE Forgery -------------------------------
(***************************************************************************)
(* The caches every intercepted handshake goes through: the forged leaves  *)
(* of src/intercept/ca.rs, the connectors and the resumption sessions of   *)
(* the originating leg in src/intercept/mirror.rs, and the hiding rules of *)
(* src/policy/rules.rs.  Handshakes run at once: each looks up under the   *)
(* lock, builds what is missing outside it, and stores under it again.     *)
(*                                                                         *)
(* A handshake is of one host and one profile.  A leaf is [host, at].      *)
(***************************************************************************)
EXTENDS Memo

CONSTANTS Handshakes, HostNames, Profiles,
          LeafCapacity,   \* cache_capacity of the resolver
          LeafRefresh,    \* LEAF_REFRESH
          MaxConnectors,  \* MAX_CACHED_CONNECTORS
          MaxSessions,    \* MAX_SESSIONS
          RulesCapacity,  \* COSMETIC_MEMO_HOSTS
          MaxAge          \* bound: how far the clock runs

\* The capacities are NonZeroUsize, the others positive constants of the code.
ASSUME ForgeryAssumption ==
  /\ LeafCapacity \in Nat \ {0} /\ RulesCapacity \in Nat \ {0}
  /\ MaxConnectors \in Nat \ {0} /\ MaxSessions \in Nat \ {0}
  /\ LeafRefresh \in Nat \ {0}

VARIABLES age,        \* the clock
          leaves,     \* MitmResolver.cache
          connectors, \* Originator.connectors: key -> connector
          resumable,  \* Originator.sessions: host -> session
          rules,      \* RuleEngine.cosmetic
          shakes      \* handshake -> where it is and what it was given

forgeryVars == <<age, leaves, connectors, resumable, rules, shakes>>

NoLeaf == [host |-> "none", at |-> 0]
NoConnector == [profile |-> "none"]
NoSession == [host |-> "none"]
NoRules == "none"

Resting ==
  [pc |-> "idle", host |-> "none", profile |-> "none", leaf |-> NoLeaf, leafAge |-> 0,
   connector |-> NoConnector, offered |-> NoSession, rules |-> NoRules]

ForgeryInit ==
  /\ age = 0
  /\ leaves = EmptyMemo
  /\ connectors = <<>>
  /\ resumable = <<>>
  /\ rules = EmptyMemo
  /\ shakes = [s \in Handshakes |-> Resting]

Set(f, k, v) == [j \in DOMAIN f \union {k} |-> IF j = k THEN v ELSE f[j]]

\* connector: the cached one, or go and build one.
SeekConnector(s, host, profile) ==
  LET hit == profile \in DOMAIN connectors
  IN /\ shakes[s].pc = "idle"
     /\ shakes' = [shakes EXCEPT ![s] =
          [Resting EXCEPT !.pc = IF hit THEN "configure" ELSE "build", !.host = host,
             !.profile = profile,
             !.connector = IF hit THEN connectors[profile] ELSE NoConnector]]
     /\ UNCHANGED <<age, leaves, connectors, resumable, rules>>

\* build, outside the lock, then the store: cleared when full; an earlier build wins.
StoreConnector(s) ==
  LET key == shakes[s].profile
      kept == IF Cardinality(DOMAIN connectors) >= MaxConnectors THEN <<>> ELSE connectors
      stored == IF key \in DOMAIN kept THEN kept
                ELSE Set(kept, key, [profile |-> key])
  IN /\ shakes[s].pc = "build"
     /\ connectors' = stored
     /\ shakes' = [shakes EXCEPT ![s].pc = "configure", ![s].connector = stored[key]]
     /\ UNCHANGED <<age, leaves, resumable, rules>>

\* connect: offer the last session of the host.
Configure(s) ==
  LET host == shakes[s].host
  IN /\ shakes[s].pc = "configure"
     /\ shakes' = [shakes EXCEPT ![s].pc = "origin", ![s].offered =
          IF host \in DOMAIN resumable THEN resumable[host] ELSE NoSession]
     /\ UNCHANGED <<age, leaves, connectors, resumable, rules>>

\* The handshake succeeded; the origin may issue a session for next time.
OriginUp(s, issues) ==
  LET host == shakes[s].host
      kept == IF Cardinality(DOMAIN resumable) >= MaxSessions THEN <<>> ELSE resumable
  IN /\ shakes[s].pc = "origin"
     /\ resumable' = IF issues THEN Set(kept, host, [host |-> host]) ELSE resumable
     /\ shakes' = [shakes EXCEPT ![s].pc = "lookup"]
     /\ UNCHANGED <<age, leaves, connectors, rules>>
\* Mutant: a remembered leaf is served whatever its age.
LookUpLeafAnyAge(s) ==
  LET host == shakes[s].host
      hit == HasKey(leaves, host)
  IN /\ shakes[s].pc = "lookup"
     /\ shakes' = [shakes EXCEPT ![s] =
          IF hit THEN [@ EXCEPT !.pc = "page", !.leaf = leaves.entries[host],
                                !.leafAge = age - leaves.entries[host].at]
          ELSE [@ EXCEPT !.pc = "mint"]]
     /\ UNCHANGED <<age, leaves, connectors, resumable, rules>>

\* leaf: a remembered one that is young enough, or go and mint one.
LookUpLeaf(s) ==
  LET host == shakes[s].host
      hit == HasKey(leaves, host) /\ age < leaves.entries[host].at + LeafRefresh
  IN /\ shakes[s].pc = "lookup"
     /\ shakes' = [shakes EXCEPT ![s] =
          IF hit THEN [@ EXCEPT !.pc = "page", !.leaf = leaves.entries[host],
                                !.leafAge = age - leaves.entries[host].at]
          ELSE [@ EXCEPT !.pc = "mint"]]
     /\ UNCHANGED <<age, leaves, connectors, resumable, rules>>

\* leaf_for, outside the lock; a failed mint is not remembered.
Mint(s, ok) ==
  /\ shakes[s].pc = "mint"
  /\ shakes' = [shakes EXCEPT ![s] =
       IF ok THEN [@ EXCEPT !.pc = "keep", !.leaf = [host |-> shakes[s].host, at |-> age]]
       ELSE Resting]
  /\ UNCHANGED <<age, leaves, connectors, resumable, rules>>

KeepLeaf(s) ==
  /\ shakes[s].pc = "keep"
  /\ leaves' = Insert(leaves, LeafCapacity, shakes[s].host, shakes[s].leaf)
  /\ shakes' = [shakes EXCEPT ![s].pc = "page"]
  /\ UNCHANGED <<age, connectors, resumable, rules>>

\* rules: the memo under the read lock, or compile for the host.
SeekRules(s) ==
  LET host == shakes[s].host
      hit == HasKey(rules, host)
  IN /\ shakes[s].pc = "page"
     /\ shakes' = [shakes EXCEPT ![s].pc = IF hit THEN "served" ELSE "compile",
                                 ![s].rules = IF hit THEN rules.entries[host] ELSE NoRules]
     /\ UNCHANGED <<age, leaves, connectors, resumable, rules>>

KeepRules(s) ==
  LET host == shakes[s].host
      kept == InsertIfAbsent(rules, RulesCapacity, host, host)
  IN /\ shakes[s].pc = "compile"
     /\ rules' = kept
     /\ shakes' = [shakes EXCEPT ![s].pc = "served", ![s].rules = kept.entries[host]]
     /\ UNCHANGED <<age, leaves, connectors, resumable>>

Conclude(s) ==
  /\ shakes[s].pc = "served"
  /\ shakes' = [shakes EXCEPT ![s] = Resting]
  /\ UNCHANGED <<age, leaves, connectors, resumable, rules>>

Age ==
  /\ age < MaxAge
  /\ age' = age + 1
  /\ UNCHANGED <<leaves, connectors, resumable, rules, shakes>>

ForgeryNext ==
  \/ \E s \in Handshakes :
       \/ \E host \in HostNames, profile \in Profiles : SeekConnector(s, host, profile)
       \/ StoreConnector(s) \/ Configure(s) \/ LookUpLeaf(s) \/ KeepLeaf(s)
       \/ \E flag \in BOOLEAN : OriginUp(s, flag) \/ Mint(s, flag)
       \/ SeekRules(s) \/ KeepRules(s) \/ Conclude(s)
  \/ Age

-----------------------------------------------------------------------------
\* leaf, connector, set_session and rules: however handshakes race on the caches, each is given
\* what belongs to its own host and profile, a remembered leaf younger than LEAF_REFRESH, and no
\* cache outgrows its bound.
GivenItsOwn ==
  /\ \A s \in Handshakes : LET shake == shakes[s] IN
       /\ shake.leaf # NoLeaf => shake.leaf.host = shake.host /\ shake.leafAge < LeafRefresh
       /\ shake.connector # NoConnector => shake.connector.profile = shake.profile
       /\ shake.offered # NoSession => shake.offered.host = shake.host
       /\ shake.rules # NoRules => shake.rules = shake.host
  /\ MemoSound(leaves, LeafCapacity)
  /\ MemoSound(rules, RulesCapacity)
  /\ Cardinality(DOMAIN connectors) <= MaxConnectors
  /\ Cardinality(DOMAIN resumable) <= MaxSessions
==============================================================================
