# Boreas core: TLA+ models, checks and proofs

boreas-core is a userspace tunnel: it reads IP packets from a TUN device,
decides for each flow whether its packets are forwarded as packets, terminated
into a TCP stream or relayed as datagrams, answers DNS itself, and may inspect
HTTP on the way. This directory holds TLA+ modules for the stateful parts of
that program, TLC runs on small instances and TLAPS proofs for every size.

`PROJECT.json` is the index: components, runs, the line each definition
models, hazards and theorems. Paths below are relative to `src/src/` unless
they start with `ffi/`.

## The system

```
 TUN device ── host/shell.rs reactor ── egress (packets) ── network
                    │
               datapath.rs ── l3/udp.rs, l3/reassembly.rs, lib.rs (planner)
                    │  poll_query        poll_datagram        poll_terminate
                    ▼                    ▼                    ▼
           resolver: policy/*      l4/relay.rs        l4/terminate.rs
           (dns, cache, upstream,       │             over l4/stream.rs
            live.rs, demux)        egress (flows)             │ bridge.rs
                                                       intercept/session.rs
```

| Part | State | Operations | What is hard |
|---|---|---|---|
| `l3/udp.rs` UdpFlowTable | deadlines, a wheel of buckets, overflow, drained second | refresh, open, retain, expire, next_deadline | the wheel is a lagging index: entries outlive flows, collide, overflow a rotation |
| `l4/stream.rs` LocalStack | sockets, listeners, established, closing, accept and closed queues | push, poll, recv, send, close, abort | slots are reused, a budget is shared by listeners and connections, an end has to be inferred |
| `l4/terminate.rs` with `bridge.rs` | per connection: a channel each way, the unsent tail, a reset flag | one service pass; reads, writes, half-close and drop of a task | tasks observe the channels between any two steps of a pass |
| `pool.rs` BufferPool | free list, live count | reserve, drop | work happens between the locked sections |
| `lib.rs` planner | none | admit, plan_flow, replan | a decision made for one path meets the next path |
| `datapath.rs` Datapath | flow plans, per-flow queues, ready list, inspected addresses | every packet entry, polls, timeout, path change | stale turns of flows that ended, plans that no longer fit |
| `l3/reassembly.rs` | pending datagrams with block bitmaps, expiry index | push, expire | overlaps, a final fragment before or between the others, lagging buckets |
| `live.rs`, `policy/demux.rs`, Do53 of `policy/upstream.rs` | a slot's connection, the dial in flight, ids to waiters | get, dial, query, retransmit, time out, drive | connections end under their callers, ids are reused, replies are late or repeated |
| `l4/relay.rs`, `egress/*` | associations, QUIC streams, session hubs, port leases | associate, send, receive, claim, close | an association outlives its connection; shutdown while dialling |
| `host/shell.rs`, `ffi/src/tunnel.rs` | reactor, resolver permits, event and command channels | select and drain, resolve, stop | everyone's queues meet here; backpressure and shutdown |
| `intercept/*`, `policy/demote.rs` | a session's progress, strikes per host | peek, handshake, exchange, splice, record | a standing read before several awaits; fallback after bytes were read |

The first eight rows are modelled. The others are in the plan below.

## Modules

| Module | Models | State and actions |
|---|---|---|
| `FlowTable` | `l3/udp.rs` | `flows`, `buckets`, `overflow`, `drained` are the fields; `Refresh`, `Open`, `Retain`, `Expire` the calls; `NextDue` is `next_deadline`. A `Vec` of entries is a set whose ids tell equal entries apart. |
| `IdleFlows` | what the table promises | a map from keys to deadlines, without a wheel |
| `LocalStack` | `l4/stream.rs` | a slot holds a TCP state, a client and numbered units of payload. `SegmentArrives` is the part of smoltcp the code can tell apart and is external; harvest, listener replacement and the outcomes of the calls are the code's. |
| `Terminator` | `l4/terminate.rs`, `bridge.rs` | extends `LocalStack`; one action per step of `service`, because tasks run in between |
| `Budget`, `BufferPool` | `pool.rs` | counts of buffers per phase of a loan; `Budget` is the abstract pool |
| `Planner` | planning in `lib.rs` | operators only |
| `Datapath` | `datapath.rs` | extends `Planner`; a packet is its transport and the flags dispatch branches on; expiry and the lapse of a window may happen at any step |
| `Reassembly` | `l3/reassembly.rs` | a fragment is its extent, a datagram its set of received blocks; `expirations` is the lagging index |
| `Demux` | table of `policy/demux.rs` | operators on the id-to-waiter table |
| `Upstream` | Do53, `live.rs`, the driver of `policy/demux.rs` | callers, slots and connections; lock sections are steps |
| `*Proofs` | | theorems about the module of that name |
| `MC*` | | instances for TLC |

Modules compose where the code does: the terminator's pass works on the stack's
real state, the datapath uses the planner's operators, and the upstream uses
the demux table.

## Runs

| Run | Asks | Bounds |
|---|---|---|
| `flow_table` | Is a live flow always indexed, is a pass complete, how late may the wake-up hint be, is an idle flow evicted, is this the plain map? | 2 keys, wheel of 2 buckets, 2 ticks per second, timeout of one rotation, 12 ticks. The timeout reaches past the wheel, so the overflow is used; 12 ticks are several rotations. |
| `local_stack` | Does any order of packets, polls, closes and aborts break the socket budget, the backlog or the reaping? | 2 symmetric clients, a listed and an unlisted port, 2 sockets: one below what both clients and a listener want |
| `terminator` | Are bytes lost, repeated or reordered while the connection lives? Does a FIN overtake queued bytes? | 1 client, window and chunks of 2 units, channels of 1 chunk: partial sends and full channels both occur |
| `terminator_ends` | Does a reading task learn of every end, does cancellation stop the loop, is any plumbing left behind? | 1 client, no payload, cancellation and loss of the reactor at any step |
| `buffer_pool` | Are buffers conserved, is the pool a budget? | 5 buffers |
| `datapath` | After every path change, does each live flow have a plan the path carries? | every transport and flag, 7 paths (packet, narrow, below IPv6's minimum, overhead above the MTU, flow, small datagrams, emulated), a table and a pool at their limits |
| `datagram_queues` | Does every queued datagram keep a turn, and does each flow get it? | 2 flows, queues of 2, expiry, teardown and reopening; ready list of at most 5 |
| `reassembly` | Does what completes tile its datagram exactly? Is expiry exact with a lagging index? | 3 symmetric datagrams, room for 2, 3 blocks of 2 bytes, every extent |
| `upstream` | Is every caller told, on its own question, over one connection per slot, and never retried on the one that ended? | 2 callers, 1 UDP socket and the stream, 2 dials, 2 ids, a table of 1, a queue of 1: reuse of ids and the table's limit are immediate |
| `reset_masked`, `bytes_lost_at_reaping`, `host_changes` | Findings, below | the smallest instances that show them |

Bounds are constants named in the modules and appear in guards only
(`MaxTime`, `MaxDials`, `MaxInbound`, `MaxUnits`, `MaxReady` and the like).
Symmetry is used only in runs without liveness properties, over clients, keys or callers that
no definition tells apart. A deadlock check is off where the model ends at a
bound on time or dials, and where the terminator may stop.

### Fairness

- `FlowTable`: time advances, and the reactor serves its timer once
  `next_deadline` has passed. `reactor_loop` re-arms one timer with the
  datapath's deadline on every iteration.
- `Terminator`: weak fairness of the service pass and of the 250 ms wake-up; strong fairness
  of leaving the loop, because `tokio::select!` picks at random among ready
  branches and cancellation stays ready; weak fairness of a task's read, for
  the property about a task that keeps reading. Clients, writes and closes get none.
- `Datapath`: weak fairness of `PollDatagram`; `drain` polls until it
  yields nothing on every iteration of the reactor.

## Findings

Each is a run that TLC refutes, against a sentence in the code.

1. `reset_masked` (`l4/terminate.rs:177`). `poll` reaps a reset socket before
   the pump runs; the pump takes the unknown socket for a finished peer and
   ends the stream before the flag is set. `bridge.rs:96` says the next read
   "is an error, not a clean end".
2. `bytes_lost_at_reaping` (`l4/stream.rs:455`). A closed socket is removed
   with unread bytes in it when the channel to the task is full.
   `l4/terminate.rs:163` says "without loss".
3. `host_changes` (`datapath.rs:481`). A connection on the packet fast path has
   no flow entry, so when its address becomes inspected its next segment is
   captured mid-connection, which the comment at `datapath.rs:478` rules out.

Smaller disagreements between comments and code, met while modelling and
kept as notes:

- `l3/udp.rs:70`: `next_deadline` "may be early but never late". Overflow
  entries are compared with the drained second from before the pass, so the
  hint may be late. With 512 buckets and 120 s, a flow opened 600 s after the
  last pass is due at 720 s, and the hint says 1113 s. The bound that holds, less
  than a rotation, is checked and proved (`LateByLessThanRotation`).
- `l3/udp.rs:281`: stale wheel entries "are ignored during the next expiry
  pass". They are filed again while their key is live.
- `l4/stream.rs:200`: a listener for an unlisted port is "kept only while a
  SYN wants it". A retransmitted SYN makes a second one that nothing removes,
  and it counts against `max_sockets`.
- `l4/stream.rs:457`: a reset after the local half-close is reported as a
  clean end, because the closing mark stands in for the cause.
- `datapath.rs:835`: a path change re-plans flows as not inspected, so inspected
  connections on a packet egress end on any change, while `Teardown` is
  described as reserved for changes no live flow can survive.

## Proofs

TLAPS checks these for every value of the constants, under the assumptions
named in the modules (`FlowTableAssumption`, `BufferPoolAssumption`,
`PlannerAssumption`, `DatapathAssumption`, `DemuxAssumption`,
`UpstreamAssumption`).

**FlowTableProofs.** The inductive invariant is `TypeOK`, `OneRotation`,
`OverflowAhead`, `DrainedBehind` and `LiveFlowIndexed`. A live flow stays
indexed only because a pass skips nothing: a bucket holds entries of one second
(`OneRotation`), the overflow holds nothing behind the drained second, and a
deadline in the future is filed no later than the second after it. From it
follow `LiveFlowsStayIndexed`, `NoCollisions`, `PassesAreComplete`,
`WakeupBounds`, `CeilingHolds`, and `ImplementsIdleFlows`: every step of the
wheel is a step or a stutter of the plain map.

**BufferPoolProofs.** `live = free + allocating + loaned + returning` and
`live <= Capacity` are inductive; `BoundsHold` and `ImplementsBudget` follow,
with `used` mapped to the buffers that are out.

**DatapathProofs.** `NoDatagramStranded`: each flow with queued datagrams
has a turn in the ready list. The turn taken is the first live one, so the
prefix it skips belongs to flows without datagrams. `LivePlansFit`: every
live flow has a plan the path carries. The cases of `plan_flow` are lemmas, and a survivor
of `replan` fits because replanning is planning for the new path.

**UpstreamProofs.** Eight conjuncts are proved together: types, agreement of
a slot's state with the dials (`LiveMatches`), where a caller may be
(`CallersPlaced`), a connection left behind is over (`LeftIsOver`), and the
four properties themselves. `FreshRetry` needs the order of the driver's end:
the connection stops being alive before any waiter is told. `RightAnswer` needs
that a reply matches both id and question, for ids reused at once.
Actions fall into three kinds (a step of one caller, of one driver, and one
that tells nobody), each with a lemma that says which conjuncts survive;
the lemma of an action shows that it is of its kind.

### Model-checked only

- Liveness: `IdleFlowEvicted`, `EndReported`, `CancelStops`,
  `EveryFlowServed`. The prover has no fairness reasoning.
- `LocalStack`, `Terminator` and `Reassembly`: no proofs yet.
- `WithinLimits` of `Upstream` (cardinalities of the table and the queue).

## Not modelled

| Part | Why |
|---|---|
| Packet, DNS, address and frame encoding (`l3/packet.rs`, `policy/dns.rs`, `egress/vless.rs`, `egress/transport.rs`) | pure functions on bytes; the models take their outcome |
| Libraries: smoltcp, quiche, boringtun, TLS, ciphers | external; smoltcp is modelled as far as `l4/stream.rs` uses it |
| `l3/path.rs`, `policy/filter.rs`, `policy/rules.rs`, `intercept/mirror.rs` | pure; candidates for bounded reference checks |
| `host/device.rs`, `host/platform.rs`, `ffi/src/{config,status,android}.rs` | system calls and conversions |
| Wake-ups inside the terminator | every wait is bounded by its 250 ms timer, so waking is always possible |
| Inspection windows' deadlines | a lapse may happen at any step of `Datapath` |
| A second client in a reused slot under fairness | the state space of `terminator_ends` with two clients is out of reach; the slot's plumbing is checked with one |

## Plan

Built, in this order: flow table, local stack, terminator, pool, datapath and
planner, reassembly, DNS upstream. Next:

1. `Demotions`: strikes, lapses and pruning of `policy/demote.rs`, with the
   standing of a host as the abstract specification; to be proved.
2. `Relay`: `l4/relay.rs` with the session hub of `egress/hysteria2.rs` and the
   connection driver of `egress/quic.rs`. The properties concern an association whose
   connection has ended, the pairing of hub and connection, the ceiling, and shutdown.
3. `Tunnel`: the resolver loop, reactor and stop of `host/shell.rs` with the driver of
   `ffi/src/tunnel.rs`. The properties are that commands are served, shutdown
   ends, and a query that was taken is answered or counted.
4. `Session`: `intercept/session.rs` with `Demotions`: what a fallback replays,
   what an outcome records, and the end of an idle copy.
5. Pure algorithms against references: the replay window of
   `egress/shadowsocks.rs`, the defragmenter of `egress/hysteria2.rs`,
   `clamp_mss` and `validate_ptb`.
6. Proofs: `WithinLimits`, the index of `Reassembly`, socket accounting of
   `LocalStack`, and losslessness of the bridge.
