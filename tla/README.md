# TLA+ models of spvirit

spvirit is a PVAccess stack in Rust. This directory holds TLA+ models of its
concurrent parts, the TLC configurations that check them on small instances, and
TLAPS proofs that hold for every value of the constants. `PROJECT.json` lists the
components, the runs, the source lines behind every definition, the hazards and the
theorems. Paths below are relative to `src/`.

## The system

| Part | What it does | Model |
|---|---|---|
| `spvirit-server` connection writer | many tasks send frames on one socket; control frames keep their order, monitor frames are replaced by newer ones | `ConnWriter` |
| `spvirit-server` monitor registry | subscriptions of a PV, the pump task that feeds them, the announcement of a stream's end | `MonitorRegistry` |
| `spvirit-server` channel tables | the channels and requests of a connection, changed by its task and by dying pumps | `ChannelTables` |
| `spvirit-gateway` monitor cache | one upstream monitor shared by all downstream subscribers, with a supervisor task | `GatewayMonitor` |
| `spvirit-ioc` scan engine | one thread per scan period, lists of records, field writes that move records, shutdown | `ScanEngine` |
| `spvirit-server` rest | dispatch, search resolver, sources, store, groups, events | planned |
| `spvirit-client` | search engine, caches, connection pool, operations, frame reader | planned |
| `spvirit-codec` | packets, values, segment reassembly | planned in part |
| `spvirit-ioc` rest, `spvirit-calc` | record processing, lock sets, expressions | planned in part |
| `spvirit-gateway` rest | claim path, negative cache, access rules, delta merge, status PVs | planned in part |
| `spvirit-py`, `spvirit-tools`, `loadtest` | bindings, command-line tools, capture analyser, scripts | mostly not modelled |

How they meet: a connection task decodes requests and changes its `ChannelTables`; a
MONITOR INIT lists a subscription in the `MonitorRegistry`, whose pump turns a source's
stream into frames deposited in the `ConnWriter` of each subscriber. In the gateway that
source is the `MonitorCache`, whose streams end when the upstream dies; the registry then
retracts the channels. In an IOC the source is fed by the records the scan engine
processes. The models meet at these boundaries: the end of a stream is an unconstrained
environment step of `MonitorRegistry`, and `GatewayMonitor` shows when the gateway takes it
(`EndReachesAll`); the custody a pump takes in `MonitorRegistry` (`BeginTeardown`,
`RetractSub`, `AnnounceSub`) is `TakeSubs`, `RetractCondemned` and `SendFrame` in
`ChannelTables`.

## The modules and the code

In every module one action is one critical section: what a task does between two awaits,
or under one lock. A task's position is its program counter. Histories (`wire`, `log`,
`told`, `opened`, `asked`, `outlived`, `cause`, `rebound`) exist for the properties only.

**`ConnWriter`** (`spvirit-server/src/conn_writer.rs`). `control`, `monitor`, `flushing`,
`dead` and `backlog` are the fields of `Coalesce`; `writer` is the async socket lock.
`SendControl` and `SendMonitor` deposit and elect; `TryLock`, `TakeBatch`, `WriteByte`,
`WritePending`, `Wrote`, `LimitReached` and `Unlock` are the inline flush; `Spawn`,
`FirstPoll` and `AcquireLock` the continuation; `MarkDead`, `NotifyDrained` and
`NotifyDied` the end. `Cancel` drops a continuation's future (a runtime shutting down).
`Backpressure` and `ClosedPoll` are the two wait loops of the connection task, with the
semantics of `tokio::sync::Notify::notify_waiters`, which wakes only registered waiters.
Frames are a number, a lane and a length; the socket accepts one byte at a time.

**`MonitorRegistry`** (`spvirit-server/src/monitor.rs` and the MONITOR, DestroyRequest,
DestroyChannel and cleanup arms of `handler.rs`), for one PV of a source that needs a pump.
INIT is `InitLookup`, `InitBind`, `InitPush`, `InitSubscribe` or `InitNoStream`, then
`KeepPump` or `SpawnPump` (`ensure_pump`). A pump is `Forward`, `Deposit`, `TakeShutdown`,
`BeginTeardown`, `RetractSub`, `AnnounceSub`, `FinishTeardown`, `Orphaned` and
`RetireGeneration`. `destroy_subs` is two steps for each subscriber, because the channel is
retracted under the tables' lock and the frame is sent after an await: `AnnounceSub` tells the
client only if its connection is still registered. `Supersede` is a client that gives the cid
of a channel it never destroyed to a newer one (any channel in `Recreated`); the old channel is
then retracted and nothing is sent, as `destroy_subs` does. `DestroyRequest` and
`MonitorDestroy` share `BeginRemove`; the second asks for a channel of the connection, and not
for the request's own nor for a row. `CleanupMonitors`, `CleanupTables` and `CleanupPump` end
a connection. Payloads and flow control are left out.

**`ChannelTables`** (`ChannelTables` and `ConnState` in `spvirit-server/src/state.rs`, the
handlers that change them, and `destroy_subs` in `monitor.rs`), for one connection. The five
maps keep their names. `CreateChannel`, `LookUp`, `Bind`, `Refuse`, `List`, `Unbind`,
`DropRequest` and `DropChannel` are the connection task; a DESTROY_CHANNEL may name any cid and
sid, as in the code. Each pump in `Dying` takes subscriptions (`TakeSubs`), resolves and
retracts one channel under the lock and decides there whether to announce it
(`RetractCondemned`), and sends the frame later (`SendFrame`). `Discipline` says how the client
picks request ids: each once, again after release, or without any care.

**`GatewayMonitor`** (`spvirit-gateway/src/cache/monitor.rs` and the subscribe and supervisor
code of `proxy.rs`), for one upstream PV. `ClaimBound`, `RecordBinding`, `Decline` and
`ReadBinding` claim a name; `Join` and `Enter` are the two outcomes of the cache lookup,
`SpawnUpstream` and `AttachUpstream` start an entry. `Dispatch`, `RetireEmpty` and
`CancelInCallback` are the upstream's callback, `SweepTick`, `CheckUpstream`, `Sweep` and
`CancelIdle` the periodic sweep, `SeeEnd`, `TakeUpstream`, `Retire`, `RetireBinding` and
`CloseAll` the supervisor's handling of a death. The lookup behind `RecordBinding` may be
answered long before its result is recorded; the answer changes nothing until then, and the
step may come at any point of an upstream's life or after its end, so it stands for the
recording. The cancellation token, the receivers and the upstream task end in library code,
but each of their steps is mapped to the line in `src/` that causes it or waits for it.

**`ScanEngine`** (`spvirit-ioc/src/scan/scanner.rs`, `scan/list.rs`, `clock.rs`, and the SCAN,
EVNT and PHAS writes of `source.rs`). `PutScan` begins a write, `StoreScan` changes the field,
`UnlistPeriodic` to `ListNowhere` move the record, each under its own lock. `LoopTop`,
`FallAsleep`, `Deadline`, `Tick` and `EndPass` are a period's thread, `DrainRecv` to
`DrainExit` the `scan_once` thread. `SetStop` to `Join` are `shutdown`, run by the owner, or
by one of the engine's own threads when it drops the last `Arc` (`Dropped`). `rebound`
remembers that a driver bound a record to its interrupt after SCAN was last written, the only
reason for it to be on the I/O interrupt list whatever SCAN says. What processing
does to a record, the order within a list and the deadline grid are left out.

## What TLC checks

| Run | Instance | What it shows |
|---|---|---|
| `writer_safety` | 2 producers, 3 continuation slots, 2 ioids, lengths 1 and 2, 3 deposits | one flusher, no work without one, an unbroken and ordered byte stream, nothing lost, exact backlog, death final |
| `writer_liveness` | 2 producers, 2 slots, one length, fairness | every frame is sent or superseded or the connection dies; `backpressure()` returns; a death tears the connection down |
| `writer_lost_wakeup` | the same with lengths 1 and 3 | finding 1 |
| `registry_safety` | 2 connections, 3 subscriptions, 2 pumps, one channel that may be re-created | no listed subscriber is silent, no stray pump, no request vanishes unless its client took the cid away, charged frames are deposited, a pump destroys only its own |
| `registry_liveness` | 2 subscriptions, 2 pumps, one channel that may be re-created, fairness | a stream's end is announced to every subscriber still there, stopped pumps end |
| `registry_no_stream` | as `registry_safety`, the source may decline | finding 2 |
| `tables_recycled_ioid` | 2 PVs, 2 sids, request ids reused after release | finding 3 |
| `tables_recreated_cid` | 1 PV, 2 sids, request ids used once | finding 4 |
| `gateway` | 3 subscriptions, 2 upstreams, fairness | nobody stranded, no upstream leaked, no stop taken for a death, ends reach everyone, idle upstreams stop |
| `gateway_alias` | two downstream names | finding 5 |
| `lists` | scan engine: 2 records, 2 periods, 1 event, 2 clients with a record each, 1 thread allowed; tables: 2 cids, 2 ioids, 2 sids, 1 dying pump, careless client | one thread per period, accepted periods are scanned, a record is on no list but its own, shutdown joins all and does not hang, wake-ups are not lost; the two indexes agree, the newest channel keeps its cid, what is to be announced is the newest channel when that is decided, and stays gone |
| `scan_same_record` | both clients write to one record | finding 6 |

**Bounds.** `MaxDeposits` = 3 lets a frame wait behind a batch in flight and a third replace
it or follow it; `HighWater` = 2 and `InlineBatchLimit` = 1 make both limits bite at once.
Three continuation slots are enough because at most two are ever busy, which the run itself
checks (`TwoContinuations`). `MaxPumps` = 2 lets a pump be replaced while it is still being
torn down; a third INIT that would need a third generation waits, and the proofs cover every
bound. Request ids are used once in the registry, their reuse is the subject of
`ChannelTables`. `MaxSid` = 2 lets two generations of a cid, or two channels, coexist; `Dying` is
one pump in the runs and any set in the proofs. `lists` holds two components that share no
state: a behaviour exercises the one its initial state chooses (`part`), so the run is the two
separate checks in one. `MaxEntries` = 2 lets a new upstream start while the old one is torn
down. In `lists`, `MaxPeriods` = 1 and `QueueCapacity` = 1 put the thread table and the queue at
their limits, and `MaxSpawns` = 2 lets a period be abandoned and taken up again. Deadlock is
not checked, since each system may come to rest: the bounded clients have nothing left to do.

**Fairness.** Tokio polls a task that is ready, so the steps a task takes by itself are weakly
fair. `select!` picks among ready branches at random, so a branch that is ready again and
again is taken (strong fairness of `ClosedPoll` and `TakeShutdown`). A stalled write fails at
the deadline of `flush_async`. Nothing is assumed of clients, sources or the network.
`ScanEngine` has no temporal properties: `WakeNotLost` and `JoinReturns` state as invariants
that no thread sleeps without a wake-up coming and that nothing a shutdown waits for waits
in turn.

`ConnWriter` assumes that a continuation is not dropped before its first poll
(`Cancellable`): see the observations below.

## Findings

1. `conn_writer.rs:196`: `send_monitor` lowers the backlog when it replaces a frame, without
   a notification. If that crosses the mark, a task in `backpressure()` is not woken, though
   everything has been sent (`writer_lost_wakeup`).
2. `handler.rs:2243`: a MONITOR INIT whose source then declines to subscribe leaves an
   established monitor that never speaks (`registry_no_stream`). A source may decline because
   the PV "genuinely has nothing to push" (`pvstore.rs:184`, also `:160`), and then silence is
   right; the gateway declines because the binding was retired after the claim
   (`proxy.rs:640`), and then nobody is told that the data has gone. The handler cannot tell
   the two apart.
3. `monitor.rs:893`: a dying pump finds a channel by request id when it gets to it; an id the
   client has released and used again leads to a channel of another PV
   (`tables_recycled_ioid`).
4. `monitor.rs:913`: `destroy_subs` decides under the tables' lock that the cid still names the
   channel it retracts, and sends the frame after releasing it; a CREATE_CHANNEL on the cid in
   between makes the frame name the new channel (`tables_recreated_cid`). At the moment of the
   decision the channel is the newest (`DecidesOnNewest`, checked and proved).
5. `proxy.rs:771`: the supervisor retires the binding of one downstream name; subscribers
   under an alias are woken with theirs in place (`gateway_alias`).
6. `source.rs:507`: a PHAS write racing a SCAN write leaves the record on two lists
   (`scan_same_record`). The passing run gives each record one writer, so this run is where
   the interleaving of two writes is exercised.

Met while modelling, without a run of their own: a continuation dropped before its first poll
keeps the election for ever; `purge_channel_requests` leaves the `MonitorSub`s of the channel
listed, so a pump may go on with nobody to serve; an INIT that binds after a pump retracted
its channel leaves a binding to no channel; a purge after a teardown leaves request rows; a
subscriber that joins the gateway while an entry is being retired opens a second upstream for
a moment; an upstream that dies after the sweep has looked at its handle is retired as idle
(`proxy.rs:733-740`): nobody listens to the entry then (`NobodyStranded`), but the binding stays
until its time to live runs out; a refused SCAN write has already taken the record off its list.

## What is proved

The proofs assume only the named `ASSUME`s of the modules (types of the constants) and hold
for any number of producers, connections, channels, requests, pumps and ids.

* `ConnWriterProofs`. `Typing`: `TypeOK`. `Election`: `OneFlusher` and `NoStrandedWork`,
  provided no continuation is dropped before its first poll. The two are inductive together
  with the types: each step either moves the flusher between two of its positions (`Moves`)
  or gives the election up with both lanes empty (`Resigns`).
* `MonitorRegistryProofs`. `RegistryTyping`: `TypeOK`; and `OwnerInv`, that a connection task
  works on its own requests and unlists them before it goes.
* `MonitorRequestProofs`. `Accounting`: `NothingVanishes`, whatever the source does. It is not
  inductive: `RequestInv` adds where a request can be in the middle of an INIT, a removal or a
  cleanup (`Accounted`), that a binding goes away only with its channel, and that the channel of
  a request that is held goes away only with an excuse (`Excused`): announced, about to be
  announced by a pump that has retracted it, closed after its cid was given away, or its
  connection has left. `AnnounceSub` may drop its frame, and then the connection has left.
* `MonitorServiceProofs`, for sources that do not decline. `Service`: `NeverSilent`,
  `OnePump` and `ChargedIsDeposited`. `HandleInv` adds what the handle in the map says of its
  task and that generation numbers are fresh. `Custodian`: the action property
  `DestroysItsOwn`, from the same invariant.
* `ChannelTablesProofs`, for any client and any number of dying pumps. `TablesTyping`:
  `TablesTypeOK`. `Inverse`: `IndexesAgree`. `Ownership`: `NewestKeepsItsCid`, and
  `Announcement`: the action property `DecidesOnNewest`, both from `ChannelInv`, which ties the
  tables to the history of channels opened. `Retraction`: `ToldIsGone`, from `SpokenInv`: what is
  announced or decided on has a sid below the counter and no rows, so no later channel is it.

Only model-checked: the byte stream and the backlog of the writer (`NoTornFrames`,
`OnlyMonitorsOvertaken`, `NothingLost`, `BacklogExact`, `TwoContinuations`, `DeadIsFinal`),
everything about `GatewayMonitor` and `ScanEngine`, and every liveness property.
Liveness under fairness, `ENABLED` and induction over data are beyond the prover used here.

## Plan

The order follows the hazards in `PROJECT.json` that have no property yet.

1. Merge the safety and liveness runs of the writer and of the registry.
2. `SearchResolver` (permits, in-flight names, memo across a change of sources) and
   `EventsDispatcher` (post, abort, drain); `SimpleStore` with links and the group snapshot.
3. Client: `ConnPool` with the single retry and its commit point, `ResolutionCache`,
   `SearchEngine` over a network that loses, delays and repeats, `FrameReader` with codec
   `Reassembly` behind it: an abstract stream of messages that both implement.
4. IOC: `RecordProcess` (PACT, links, alarms, `complete_async`), composed with `ScanEngine`;
   the lock-set partition against connected components.
5. Gateway: `GatewayClaim` (lookups in client order, negative cache, loop guard), composed
   with `GatewayMonitor`.
6. Fan-out and pipeline credit of a monitor (`nfree` in the registry and in the connection).
7. Pure algorithms in one module, against reference definitions: size and bitset encoding,
   delta merge, rule order of access control, pattern expansion, expression precedence.
8. An abstract specification of a connection (an ordered queue per lane) that `ConnWriter`
   implements, and proofs of `NoTornFrames`, `BacklogExact`, of the `GatewayMonitor` and
   `ScanEngine` invariants, and of `ClosesItsOwn` for clients that use every id once.

Left out for good: parsers of `.db`, ACF and JSON files, the byte layout of each command,
floating-point statistics, drawing, argument parsing, Python conversions and load scripts.
They have no state another part depends on, or none a model would show more of than a test.
