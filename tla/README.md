# A TLA+ verification of deterministic-exchange-rs

The modules in this directory model the crates under `src/crates` that hold
state: the cross-thread ring, the journal, the engine that composes them, the
risk engine, the order book with its storage, the gateway, the event stream and
its subscriber, the reference model, the router and its shards, the session
layer, and snapshots with their publication, format and recovery.
TLC checks them on small instances. TLAPS proves, for every instance, theorems
about the ring, the journal and the engine over it, the risk engine, the link,
the router and snapshot publication. `PROJECT.json` maps every definition to the
source lines it translates, lists the runs, the hazards and the theorems, and
gives for each checked property a mutant: a plausible slip in one definition
with which TLC finds the property violated.

Contents: 1 the system, 2 modules and code, 3 runs, 4 bounds, 5 fairness,
6 proofs, 7 where code and comments differ, 8 not modelled, 9 plan.

## 1. The system

A command travels as follows. A frame is parsed (`hft-wire`), the router thread
finds the shard of its instrument and pushes it to that shard's queue
(`hft-router`, over `hft-spsc`). The shard's engine checks the sequence number,
journals the command (`hft-journal`, again over a ring, drained by a persistence
thread), lets the gateway apply it (`hft-gateway`: risk first, then book, then
fills and releases in risk), and publishes one batch of events
(`hft-events`, a third ring). A session (`hft-session`) guards the numbering of
one peer and keeps frames for retransmission. A snapshot of a gateway is written
to a file (`hft-recovery`) and a restart loads it and replays the journal behind
it (`hft-engine/builder.rs`). `hft-model` is a second, simpler implementation that
the property tests run beside the gateway; `hft-soak` drives the crates through
faults with commands that `hft-model` generates.

| component | state | operations | threads | what is hard |
|---|---|---|---|---|
| ring | `head`, `tail`, slots, two cached positions | `try_push`, `try_pop`, `has_capacity`, `split`, `into_inner`, drop | producer, consumer | stale caches, wrap-around, moving values out of shared slots |
| journal | writer sequence, ring, status atomics, sink | `enqueue`, `close`, `drain_batch`, `shutdown`, `snapshot`, `recover`, `open_append` | engine, worker, status readers | close racing a drain, failures inside a batch, loads of five atomics, crashes |
| engine | gateway, failure flag, writer, event producer | `process`, `stop_admission`, `health`, `snapshot`, `restore` | engine, worker, consumer | journal before apply, two queues with backpressure, restart |
| risk | accounts, reservations, watermark, kill switches | register, reserve, fill, adjust, restore, settle, cancel | one | totals kept incrementally, limits over orders that fill later |
| book | price levels of FIFO queues | submit (Gtc, Ioc, Fok, PostOnly), replace, cancel | one | priority, plan then apply, capacity while moving |
| storage | slots, free lists, sorted levels, open-addressed indexes | insert, remove, shift, link, unlink | one | handles in both directions, wrap-around of probe runs |
| gateway | risk, book, expected sequence | new, replace, cancel, `from_state` | one | rollback after a refusal by the second component |
| events | batches, the subscriber's table | publish after each command, `validate_batch` | engine, consumer | a batch that always fits, top of book only on change, a table kept from events alone |
| reference model | book, accounts, reservations | the same commands as the gateway | one | agreement in every reason, fill and queue position |
| router | route table, queues, pending command | `route_command`, `try_process_one`, `try_event` | router, shards | backpressure after a pop, independence of shards |
| session | state, sequence, deadline, timeout count | eight events, `tick` | one | deadlines racing events, ends of clock and numbering |
| retransmission | window of frames | `retain`, `confirm_through`, `since` | sender, lossy channel, session | stale confirmations, overlapping recovery, a new logon |
| wire, snapshot format | none | encode, parse, decode | one | checks in order, one encoding for each value |
| recovery | snapshot, tail, gateway rebuilt from them | checkpoint, crash, replay | one | damage at every point, rejected commands in the tail |
| snapshot file | names and data in a directory | `persist_snapshot_new` | several processes | races, errors after the link, power loss |

`PROJECT.json` lists the hazards at their lines.

## 2. Modules and code

Each module begins with what it abstracts. Source names are kept. Operators
under a "Mutant" comment are not part of the specifications.

**Spsc** (`hft-spsc`) has one step per access to shared memory: `PushCheck`,
`PushWrite`, `PushPublish` for `push_impl`, `PopCheck`, `PopRead`, `PopReclaim`
for `pop_impl`, `HasCapacity`, and the owner's `Split`, `IntoInner`, `Drop`. An
Acquire load returns any value stored since the last one the thread saw.
Positions live in `0 .. N*Laps-1` and wrap, as `usize` does. **BoundedFifo** is
what callers rely on. The other modules use a sequence where the code has a
ring; that a producer or consumer may see the other side late is kept there as
an explicit choice (`visible` in Journal, `MayLookFull` in Router).

**Journal** (`hft-journal`) has the writer, the worker's loop in ten program
points, the status block with the release/acquire relation between its fields
(a load makes visible what was stored before the value it returns), the sink
with short writes and failing flushes, crashes that lose unflushed records from
the end and may tear one, and the recovery scan. **Engine** (`hft-engine`,
admission and publication of `hft-events`, `recover_snapshot_and_tail`) extends
it with the engine thread, the event consumer, snapshots and restores. Commands
are payloads, the gateway is the history of what it applied.

**Risk** defines the risk engine's state changes and refusals as operators (they
return the engine after the call, and the reason of a refusal), and what
`from_state` asks of an exported one (`ValidRisk`). **RiskEngine**
is the state machine of all legal and illegal calls. **Book** does the same for
the order book, with price levels as sequences; **OrderBook** is its state
machine. **Gateway** composes the two as `process_new_order`, `process_replace`
and `process_cancel` do, rollbacks included, and states what `from_state` asks.
**EventFeed** extends it with the batch of each command: identities, ordinals,
the terminal event, trades, and the top of book when it changed. **LiveOrders** is
the soak harness' subscriber, `validate_batch` and the table of live orders,
which sees the batches and nothing else.

**ModelBook** and **ModelEngine** (`hft-model`) are translated from the reference
model's own code, not from the gateway's: levels in the order they were opened,
found by search, and a reservation changed before the checks where the code does
so. **Differential** gives each command to both, as
`hft-gateway/tests/model_properties.rs` does, and compares answers, books and
accounts after it. The variable `passed` says whether every assertion of the test
has held so far; the first that fails ends the test. No state of the gateway is
lost by that: the refused increase leaves it as any other refused command does.

**ProbeIndex** is the open-addressed table both crates use, with back-shift
removal; **ReservationStore** is the risk engine's slot table over it.
**PriceLevel** (intrusive list and free list of order slots) and **LevelIndex**
(sorted level index and pool) are what **StoredBook** is built of. Its order index
stores a location as one encoded number, as `OrderIndex` does, and follows every
move of a level. StoredBook is shown to implement OrderBook under the mapping
`book <- exported`, where `exported` is what `export_state` would return.

**RouteTable** and **Router** (`hft-router`) are construction and lookup of
routes, and router and shard threads with their queues. Each shard is given the
route of the table with its number, as the callers in `hft-soak` do;
`MatchingShard::try_new` compares the route with the gateway only. **Session** is
`Session::handle` and `tick`, one action per event and outcome; **Retransmit** is
the sender's window. **Link** composes the two over a channel (external) that
loses, duplicates and reorders, with confirmations that arrive late and sessions
that time out, fail, disconnect and log on again, which are the faults of
`hft-soak/src/session_faults.rs` in every order. **SnapshotFile** is
`persist_snapshot_new` in its system calls, called by several threads and
processes; the file system is external. `SyncDirectory` is the code of Unix
builds: the sync is under `#[cfg(unix)]` (`hft-recovery/src/lib.rs:356`), and what
`ResultIsTrue` says of a power loss does not carry over to others.

**Wire** (`hft-wire`) encodes, parses and decodes the three messages. A frame is
a sequence of cells, one cell for each field in place of its bytes; each message
has its own layout and the checks of `parse_message` keep their order.
**SnapshotCodec** does the same for the snapshot format of `hft-recovery`: header,
canonical payload, digest. A digest (external) is what it was computed over.
**CommandGen** is every command the generator of `hft-model` can draw.
**Recovery** joins them: a gateway serves generated commands, each one encoded and
journalled; when the tail is full or at a crash, `recover_snapshot_and_tail`
rebuilds a second gateway record by record from an image that is whole, shorter
or damaged, as in `hft-soak/src/recovery_faults.rs`. Engine keeps the concurrent
side of a restart (what has reached the disk), Recovery the sequential side (what
is rebuilt from it).

## 3. Runs

Twelve runs; times are for two TLC workers. An invariant with a name ending in
`Inv`, and a few others, is the conjunction of properties that stand, each with
its comment, directly before it.

| run | distinct states | time | what it shows |
|---|---|---|---|
| `spsc` | 38,882 | 9 s | `SlotAccessIsSafe` (no write to a live slot, no read of an empty one, never both in one slot), `GrantedCapacityHolds`, the inductive invariant `IInv`, the refinement `ImplementsFifo`, and `PublishedIsConsumed` |
| `engine` | 297,444 | 150 s | `JournalInv` (the sink is a prefix of what was accepted, watermarks are true, the ring continues the sequence), `CompleteMeansPersisted`, `StatusLoadsAgree`, `EngineInv` (the gateway applied exactly what was journaled, one batch for each command, an error is the last command), `SnapshotIsDurable`; under fairness, crashes included, `RetryIsAdmitted`, `ClosedIsResolved`, `AcceptedBecomesDurable` |
| `risk_engine` | 152,354 | 108 s | `RiskInv` (totals are the sums over reservations and the limits hold whatever fills first), `UndoNeverFails`, `OrderIdsAreNeverReused` |
| `gateway` | 21,274 | 90 s | `GatewayInv` (no internal error, each resting order has exactly its reservation, an exported state is consistent, positions balance), `FeedRebuildsBook` (every batch is explained by its command, and the subscriber's table is the book), `RejectionLeavesNoTrace` (a refusal by risk changes nothing, one by the book at most the id watermark), `OnlyRefusedIncreasesDiverge` (gateway and reference model give the same answers and keep the same state after every command, but for the step of `differential`) |
| `differential` | | 10 s | violation of `ModelMatchesGateway`, see 7 |
| `gateway_export` | | 5 s | violation of `OwnExportIsAccepted`, see 7 |
| `stored_book` | 6,333 | 107 s | `StoreInv`, `RejectsAlike` (both books refuse the same commands for the same reasons), `MatchingIsFair` (validation, price-time priority, conservation, times in force, fair amendments), `ImplementsOrderBook` |
| `reservation_store` | 102,384 | 21 s | `StoreInv` (lookups are exact, slots and free list partition the table, handles point back) |
| `router` | 228,528 | 86 s | `DeliveryIsExact` (routes are found exactly, no accepted command is dropped, batches arrive in order), `ShardIsIndependent` |
| `link` | 58,488 | 109 s | `SessionInv` (a deadline exactly in timed states, one timeout while recovering), `RetransmitInv` (the window is the unconfirmed suffix and `since` has no gap), `DeliveredIsPrefixOfLog` (each frame once and in order, across logons), `TimeoutsAreNeverEarly`, `RefusalIsClean`, `WaitingEnds`, `RetainedIsDelivered` |
| `snapshot_file` | 25,940 | 4 s | `DestinationIsWhole`, `ResultIsTrue` (a success survives power loss, an error tells on which side of the link it happened), `NeverReplaced` |
| `recovery` | 249,220 | 80 s | `RecoveryIsExact` (replay goes through the states of the uninterrupted gateway; damage is refused with the error that names it), `LiveOrdersTrackBook`, `CodecsAreCanonical` |

`MatchingIsFair`, `RejectsAlike` and `UndoNeverFails` are invariants that
quantify over every command the reached state could be given next.

## 4. Bounds

Every bound is a constant of the module, named in its header.

* `Spsc`: four slots, counters that wrap after two laps, two values. Two laps
  are the least for which `tail - head` stays unambiguous, so the wrap happens
  at every alignment; the theorems remove the bound.
* `Journal`, `Engine`: two records, a ring and an event queue of one, batches of
  two, two lives. Ring and queue fill, batches are full and partial (the writer
  refills the ring while the worker reads), sequence numbers run out, a second
  life starts from any prefix. The theorems remove the bound from all five
  invariants; it is this small for the liveness properties.
* `Risk`, `Gateway`: two accounts that trade with each other, three order ids,
  positions of two or three units, prices on both sides of a collar and one that
  the book refuses, tables that fill. `MaxSequence` ends the run as `u64::MAX`
  ends a gateway. `i64::MIN` is a small number, so that the overflow of `abs` is
  met. Every command names the book's own instrument: the refusal of another one
  is modelled but not reached by these runs, and takes the same rollback as the
  price that the book refuses. The gateway run ends after four commands, which is
  enough for a resting order, a partial fill, an amendment and what follows them.
* `StoredBook`: two levels of two orders a side, three prices, four commands,
  and ids that all collide in the last bucket of the index. One account and one
  instrument, so `NotOrderOwner` and `InvalidInstrument` are not reached here.
* `ReservationStore`: three slots, six buckets, four ids, every assignment of
  home buckets.
* `Router`: two shards, queues of one, every table over four instrument ids.
* `Link`: sequence numbers and a clock that end at 4, timeouts of one tick, a
  window of two, one payload and one that is too large. The window fills, both
  ends run out of numbers, and two timeouts in a row fail a session. Payloads are
  told apart by their sequence.
* `Recovery`: two accounts, two prices, orders of one unit amended to two, three
  generated commands, tails of two records. A second checkpoint follows the first
  with a shorter tail, tails end in rejected commands, and damage of every kind
  meets tails of every length.
* `SnapshotFile`: three calls, two of which share a temporary name because their
  processes had the same id.

Symmetry is used for account and order ids in runs without liveness properties;
the order of ids matters to the risk watermark, so there only accounts are
permuted. Deadlock is not checked where the system may stop: after drop or
drain (Spsc), after a refused restart or the last life (Engine), at the command
bound (StoredBook, Router), once all calls have returned (SnapshotFile), and
after a refusal or the last command (Recovery).

## 5. Fairness

* `Spsc`: the consumer polls (weak fairness of its steps) and a store becomes
  visible in finite time (`PopCheckFresh`). The producer is not fair.
* `Engine`: the persistence thread's loop keeps calling `drain_batch` and, once
  the producer is closed, `shutdown`. These two are strongly fair because the
  loop alternates them. The consumer drains its queue. The sender retries a
  refused command: strong fairness of admission, since the worker and the
  consumer make room again and again. Faults and crashes are never fair.
* `Link`: deadlines fire from `tick` alone, and the caller keeps calling it.
  Recovery is retried (weak fairness), and of the frames sent again and again the
  next one arrives some time (strong fairness of delivery). The clock, the
  confirmations and the peer's logons are not fair: `RetainedIsDelivered` asks for
  a session that stays up.
* `Router`: only shard 0 and the polling of its events are fair: that is the
  point of `ShardIsIndependent`.

`RetryIsAdmitted`, `ClosedIsResolved` and `AcceptedBecomesDurable` have the form
"again and again". Sequence numbers, the closed flag and the watermarks only grow
within a life, so this implies one leads-to for each command or record.

## 6. Proofs

**SpscProofs** proves, for every capacity `N >= 1`, every range of positions that
is a multiple of it (at least two), and any values:

* `InductiveInvariant`: `Spec => []IInv`. `SlotAccessIsSafe` is not inductive:
  it says nothing about the caches. `IInv` adds `CachesLagPositions` (a cached
  head is behind the head by no more than the free space, with room to spare once
  a push is under way or granted; a cached tail lies between head and tail),
  `SlotsMatchPositions` (the `k`-th slot after head is initialized exactly if it
  is published and not being moved out, or is the one just written) and
  `WrittenIsKept`. The proof has one lemma per action. It rests on lemmas on
  wrapping arithmetic: `Index(Add(p, k))` is `(Index(p) + k) % N`, is injective
  in `k` below `N`, and reaches every slot.
* `SlotAccessSafe`, `OwnerSeesExactlyPublished`, `NoLeak`, `CapacityIsReserved`:
  the SAFETY comments of the crate and the contract of `has_capacity`.
* `RingImplementsFifo`: `Spec => ImplementsFifo`. Only `PushPublish`,
  `PopReclaim` and the owner's last step change the abstract queue.

The assumption is `CapacityAssumption`. That the capacity is a power of two is
used for nothing but that it divides the range.

**SnapshotFileProofs** proves, for any set of calls and temporary names,
`AlwaysPublicationInv`, `DestinationAlwaysWhole`, `ResultsAlwaysTrue` and
`DestinationNeverReplaced`. `PublicationInv` says what a call relies on between
two system calls: its temporary name refers to its own file, only synced files
are linked, and the directory on disk lacks the destination or agrees with the
running one.

**JournalProofs** proves, for every ring and batch size, every first number,
every number of lives and any payloads (`JournalAssumption`): `JournalAlwaysConsistent`,
`Spec => []ChannelInv`, and from it `JournalAlwaysSafe`,
`CompletionAlwaysPersisted` and `StatusAlwaysAgrees`. `JournalInv` is not
inductive: it says nothing of the records a worker holds, of the worker's program
point or of what a load may still return. `ChannelInv` adds

* `QueueInv`: the sink, the batch and the ring, one after the other, carry the
  accepted payloads under consecutive numbers, without a gap;
* `WorkerInv`: what is known at each program point, for example that everything
  in the ring is visible while shutting down, and that the whole sink is flushed
  before the durable watermark is published;
* `ReaderInv`: what a status reader has loaded never exceeds what was stored, and
  a load that saw completion fixes the counters.

There is one lemma per action and program point. The lemmas on `Carries` say how
appending, cutting and taking the head move records from one part to the next.

**EngineProofs** extends this to `EngineSpec` (`EngineAssumption`).
`EngineAlwaysConsistent` proves `RestartInv`: `ChannelInv`, a gateway that has
applied the journaled history while the engine is up, an error that stops
admission, and snapshots that are parts of the flushed sink. `ChannelInv` is shown
again for the steps of the engine, because a fatal command enqueues and closes in
one call, which is no single step of Journal. `GatewayMatchesJournal`,
`EngineAlwaysAgrees` (`EngineInv`), `SnapshotsAlwaysDurable` and
`EngineKeepsJournalSafe` follow. A snapshot is
durable because a checkpoint needs completion, and completion implies that the
whole log is flushed.

**LinkProofs** proves, for every timeout, clock, window and set of payloads
(`SessionAssumption`, `LinkAssumption`): `LinkAlwaysSafe` (`LinkInv`),
`SessionAlwaysSafe`, `DeliveryAlwaysInOrder`, `WindowAlwaysExact`,
`RetransmissionAlwaysExact` (`RetransmitInv`, what `since` returns included) and,
as action properties, `NeverEarly` and `RefusalsAlwaysClean`. The strengthening says that a
deadline is the arming time plus the timeout of its state, that the channel
carries only logged frames under their own numbers, that confirmed <= delivered <=
logged, and that a session that takes commands expects the one after the last
delivered.

**RiskProofs** and **RiskEngineProofs** prove, for every set of accounts and
order ids, every limit, price and quantity (`RiskAssumption`):
`AccountsStayWithinLimits` (`RiskInv`), `UndoIsAlwaysPossible` (`UndoNeverFails`)
and `IdsAreNeverReused`. RiskProofs has the tables: a sum over reservations is the
number of their units, so adding, changing or dropping one reservation moves one
account's sum by its quantity and no other. `RiskOk` says that every account has
the totals and the count of the reservations it holds, and is within its position
limit whichever of them fill. RiskEngineProofs has one lemma for each operation,
that it takes a good engine to a good engine, and from there the invariant of the
state machine; what is released never exceeds a total, because the total contains
it.

**RouterProofs** proves, for every number of shards and every queue capacity
(`RouteTableAssumption`, `RouterAssumption`): `QueuesAlwaysAgree`,
`AcceptedNeverDropped`, `BatchesAlwaysInSequence`, which hold whatever the lookup
returns, and `DeliveryAlwaysExact` (`DeliveryIsExact`): for every table of
distinct instruments and shards, in any order, the dense lookup and the binary
search find exactly the route of an instrument.

Model-checked only: everything about liveness, which is out of this prover's
reach; and `MatchingIsFair`, the two stores, the event feed, the reference model,
the gateway and recovery, whose modules fold over sequences and sets. What a fold
computes for every input needs induction over data, which these provers cannot
instantiate.

## 7. Where the code and its comments differ

The models follow the code.

* **Export refused** (run `gateway_export`). `process_replace` checks an
  amendment in `adjust_reservation`, which looks at notional and position when
  the quantity grows and at nothing otherwise. A resting order can so be amended
  to a price outside its account's collar. `from_state` refuses such a state with
  `OrderLimit`, so the gateway's own snapshot cannot be restored.
* **A refused increase stays in the reference model** (run `differential`).
  `hft-model/src/lib.rs:1093-1133` adds the increase to the account's totals before
  the notional and position checks, which return early. The gateway refuses the
  same amendment without a trace. The model's own `assert_consistent` and the
  comparison of accounts then fail; the answers and the books still agree, and no
  other step makes them differ (`OnlyRefusedIncreasesDiverge`).
* `hft-session/src/lib.rs:5` says that commands are accepted "exclusively in"
  Active; line 171 accepts them in Recovering too.
* Line 147 there says that a refusal returns "without mutating any session
  field"; when a sequence or deadline overflows (lines 188, 277) fields have been
  written before.
* Line 74 there says "zero disables a deadline"; line 277 arms one at `now + 0`,
  which the next tick finds expired.
* `open_append` (`hft-journal/src/lib.rs:788`) does not sync the file. After a
  reopen the durable watermark starts behind records that no flush of this
  process has covered. The models take recovered bytes as safe, which holds when
  the process died and not when a machine lost power twice.

## 8. Not modelled

Bytes: a cell stands for a field in Wire and SnapshotCodec, and for a record in
Journal. Byte order, padding and the widths of fields are left out, and checksums
and SHA-256 are taken as free of collisions. FNV digests of books and events are
left out everywhere.

Frame leases, UDP and FFI are wrappers around one gateway call whose guarantees
come from the borrow checker or from pointer checks. Replay and the command line
feed recorded frames to a gateway. The soak runner with its configuration and
reports, its capacity and journal fault fixtures, the benchmarks and the fuzz
targets drive components that are modelled, and have no operation of their own.
Of the domain types, formatting and digests are left out. `restore_level` of the
book storage and the builder's capacity checks are left out.

## 9. Plan

Done: ring, journal, risk and book, gateway, stores, engine, events, router,
session, snapshot publication; then the link of session and retransmission, the
reference model beside the gateway, the subscriber, the wire and snapshot formats,
and recovery under damage.

Next, extending the model:

1. The power-loss case of `open_append`: a sink that may lose recovered bytes.
2. Router shards with whole gateways behind them in place of a sequence number.
3. `restore_level` and the rebuilding of the book's stores from an export.

Next, proving more:

1. `GatewayInv`, from `RiskOk` and the same kind of facts about the book's levels.
2. `StoreInv` of the reservation store.
