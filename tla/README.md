# Streamweld in TLA+

Specifications of Streamweld's durable streams: what the proxy promises about a
stream, checked with TLC on small instances and, for the stream runtime, the
idempotency key and the backend pool, proved with TLAPS for every instance.

## The system

A client posts a streaming completion to the **proxy**. The proxy opens a
**journal** for it, takes a **lease** on a backend from the **pool** and starts a
**producer** goroutine that reads the backend's events, appends each one to the
journal and relays it to the attached readers. Readers come and go; a reader that
returns replays the journal and then tails it. When a backend crashes, becomes
unhealthy or is drained, the producer **migrates**: it takes a lease on another
backend, continues the generation there and joins the two outputs at a **seam**.

| Part | State | Operations | Hard behaviour |
|---|---|---|---|
| stream runtime (`proxy/durable.go`, `producer.go`) | terminal, terminating, lease, attempt, pending trigger, progress, readers, orphan claim | attempts, appends, migration, stop, triggers, refusal, orphan check, shutdown | up to six kinds of goroutine meet on `mu` and `writeMu`; journal calls fail or succeed without saying so |
| degraded durability (`proxy/degradation.go`) | degraded, feed, subscribers | enter, append, finish, mark, subscribe, acknowledge | the gap must be told once, and be final |
| journal (`journal/types.go`, `memory.go`, `redis*.go`) | entries, cursor range, LRU, tombstones, tails | Open, Append, Close, Read, Tail, State, MarkDegraded, Touch | trimming and eviction under readers; wake-ups; ambiguous Redis mutations |
| idempotency (`journal/idempotency.go`, `redis.go`) | pending and bound keys | resolve, refresh, release | a reservation expiring under its holder |
| distributed readers (`proxy/distributed_readers.go`, `journal/redis_readers.go`) | reader leases, orphan claim | acquire, refresh, release, claim | readers on another replica against the orphan policy |
| backend pool (`backend/pool.go`, `health.go`) | records, leases, drains, quarantine | acquire, release, drain, retire, probe | a drain waiting on a record that is replaced |
| relay, routes, drain endpoints (`proxy/relay.go`, `routes.go`, `drain.go`) | owners, route snapshots | relay, apply, drain | stale generations, dead owners |
| migration decisions (`migrate/`) | none | eligibility, seam, UTF-8 and JSON prefixes | boundaries |
| operator (`controllers/`) | desired routes, pods | reconcile, fan out, drain | partial failure of a fan-out |
| client (`packages/client`) | cursor, retries | connect, resume, multicast | overlap of replay and what was seen |

What makes it correct: one outcome per stream, reported alike by the runtime, the
journal and the stop endpoint; sequences without gap or duplicate until a
durability gap, and none after it; no chunk lost over a migration; a drain that
ends; no lease leaked; no stream cut off under a reader; an open stream always
driven by someone. Where the code falls short of one of these, the property is
stated as far as it holds and the rest is listed under *Disagreements* below.

## Modules

| Module | Models |
|---|---|
| `StreamRuntime` | one `streamRuntime` and every goroutine that touches it |
| `StreamRuntimeTypes`, `StreamRuntimeRaces`, `StreamRuntimeProofs` | the theorems about `StreamRuntime` and their proofs |
| `SharedKeyProofs` | the theorems about `SharedKey` and their proofs |
| `PoolRecordProofs`, `PoolDrainProofs`, `BackendPoolProofs` | the theorems about `BackendPool` and their proofs |
| `Journal` | the contract of the `Journal` interface for one stream |
| `MemoryJournal` | `journal.Memory`: streams, budget, LRU, tombstones and tails |
| `DegradedFeed` | the shadow feed and the handlers that switch to it |
| `SharedKey` | one idempotency key and its streams over several replicas and Redis |
| `RedisStream` | one live Redis stream: receipts, degradation mark, reader leases, orphan claim |
| `RedisTail` | reading a stream from any replica: Redis tail, delivery pump, handlers |
| `ClientResume` | the TypeScript client on top of `RedisTail` |
| `BackendPool` | records, leases, retained drains, quarantine and probes |
| `RouteControl` | operator, fan-out and the route registries of the proxies |
| `MC*` | the small sets, functions and symmetries TLC runs a module with |

The modules meet at what one part may rely on of another. `StreamRuntime` sees
the pool as sets of healthy and draining backends with lease counts, which
`BackendPool` refines to records behind pointers, and a journal call as "done,
failed, or done but reported failed", which is what `RedisStream` finds a call
with receipts to be. `RedisTail` takes from `DegradedFeed` that an owner's reader
gets every event after its cursor in order. `ClientResume` EXTENDS `RedisTail`:
client and server are one state space there.

### StreamRuntime

A process is a goroutine: the producer, each stop request, each drain or health
trigger, each `cancelOrphan`. `pc[p]` is where it is. A critical section of `mu`
is one step. `writeMu` is held across journal calls, so it is a variable and the
journal call is a step of its own; everything that does not take `writeMu` can run
between the two. `cancelOrphan` holds `mu` across its claim, so that is one step.

| Code | Actions |
|---|---|
| `resolve` from the lease to `streams.Store`, `start` | `Init`, `Register` |
| `runAttempt` | `BeginAttempt`, `DispatchAttempt`, `Receive*`, `ReadFails`, `EndAttempt` |
| `appendChunk`, `appendNonTerminalUntil`, `flushSeam` | `Write`, `AppendBegin`, `AppendCommit` |
| `prepareMigration`, `acquireMigrationTarget`, `reserveMigrationTarget`, `refuseMigrationUntil` | `PrepareMigration`, `AcquireTarget`, `NoTarget`, `EvaluateTarget`, `ReserveTarget`, `Handover`, `Refuse` |
| `closeTerminalUntil`, `finishDegradedLocked` | `CloseBegin`, `CloseCommit` |
| `stop` | `StopEnter`, `StopReturn` |
| `triggerBindingsUntil`, `triggerMigrationUntil`, `refuseExternalTriggerIfIneligible` | `TriggerMark`, `TriggerLookup`, `TriggerProbe`, `TriggerAttempt` |
| `closeExternalMigrationRefusal` | `RefusalBegin` to `RefusalCancel`, `RefusalRollback` |
| `attachReader`, `detachReader`, `cancelOrphan`, `finishClaimedOrphan`, `scheduleOrphanCheck` | `AttachReader`, `DetachReader`, `OrphanTimerFires`, `CancelOrphan`, `ScheduleOrphanCheck`, `ReleaseOrphanClaim` |
| `runJournalDegradedLease` | `MarkJournalDegraded` |
| `Shutdown` running out of time | `ForceCancel` |

The journal is what the runtime can see of one: `log`, and calls that succeed,
fail, or fail after having been executed. An entry is its kind. A chunk is told
apart only as text, a fragment of a tool call or a finish chunk, which is all that
migration looks at. `feed` is what a reader attached from the start, which keeps
up, is relayed. Whether a continuation is safe is the constant `SafeTargets`. A
seam flush (`flushSeam`) writes what was held back, or fails after some of it
(`seamFails`), which ends the stream unless it was canceled. A trigger whose
refusal failed and was rolled back goes on at `retrigger` and ends at
`withdrawn`, so that `Withdrawn` counts the writes `lastSeq` was not told of. A
claim on the shared journal may run out at any time (`ClaimExpires`); how it
relates to the deadlines of the calls under it is the subject of `RedisStream`.

Left out: payloads, telemetry, the first-entry channel, idempotency leases,
deadlines of drain waits (a drain that finds no target is refused at any time),
the lease a trigger holds while it probes for a target (taken and returned in one
step, so `LeasesAccounted` does not count it),
readers of the feed that lag, and marshalling errors.

### MemoryJournal

Each method runs under `m.mu` and is one action, with the expiry it runs first and
the trims and evictions it causes (`Finish`). A tail goroutine is split where it
releases `m.mu`: `Fetch`, `Deliver` (with `deliveryMu`), `Delivered`, `Wait`,
`FinishTail`. Its channel has one slot; its consumer is `Receive`, which ends as
`serveJournalTail` does. An entry is its sequence, kind and size. `State` has the
effects of `Read`, so `Look` stands for both.

`MemoryJournal` implements `Journal`: per stream, status and degradation map to
the phase and the ring's ends to the range (`Contract`, `MeetsContract`).

### BackendPool

Leases and drains keep pointers over unlocks, so a record is a heap cell and the
map says which cell it points to. `Upsert`, `Replace`, `Remove`, `SetHealth`,
`MarkPassiveFailure`, `MarkDraining`, `Undrain` are the `ControlPlane`; a
retained drain with its waits, deadline, answer and `Close` is `Draining`;
`acquire` with its unlock between choice and confirmation, the quarantine timer
and `Release` are `Leasing`; a probe round is `Probing`. The selection policy
picks any eligible backend.

### RouteControl

The API server, the operator's lagging cache of the object, its pods and the
proxies' endpoints, and a reconcile with one step per call: evaluation with the
conformance probes, the status update, the fan-out, its end, the finalizer. The
fan-out reads the endpoints from the cache once and sends the PUTs of all of them
in one step, for the code sends them concurrently; each then arrives, is lost or
times out by itself. PUTs are answered into the void or delivered late; operator
and proxies restart. A verdict is what it is a verdict of: model and image.

### DegradedFeed

The producer's commit and broadcast under `writeMu`, the feed with subscription,
`acknowledge`, eviction and close, and a reader's handler step by step: subscribe,
open the tail, replay, tail, look at `relayStartSeq`, switch, drain the queue. The
client's cursor filter is part of what a reader holds; that the server sent a
frame the cursor excludes is recorded apart.

### SharedKey

`resolve` with its retry, the reservation, `Open`, its reconciliation, and the
leases `RefreshPending`, `Touch`, `Refresh`. A Lua script is an atomic operator on
the database, a call is not: its answer is lost, it runs late, its replica dies.
Lifetimes are counters that `Tick` lowers, so keys expire between any two calls.

### RedisStream

Append and Close with nonce, retry and receipt; the goroutine that marks a
degraded journal; remote readers' leases; the orphan claim, its lifetime and the
Close made under it. A writer first takes `writeMu` (`Produce`, or
`FinishClaimedOrphan` for the Close under a claim) and then `mu` (`Enter`), which
`cancelOrphan` holds while it claims: so a producer may be inside `writeMu` during
the claim and start an append with a full deadline afterwards. A call ends within
`Deadline` ticks, its reconciliation within `ReconcileDeadline`, and a claim lives
for three deadlines, as in the code. `late` records that a Close under a claim had
to wait for another mutation.

### RedisTail and ClientResume

`RedisTail` has the generation as seen from its journal (durable, degraded, or
never journaled), the owner's death, and one request: relay or local, snapshot,
replay, `XREAD`, header, `XRANGE`, the pump's lag eviction and the handler's end.
An append that fails may have been committed (`doubled`): the journal then has the
event under a sequence and the owner relays it again without one.
`ClientResume` adds `#connect`, `#readResponse`, `#handleFrame`, `#complete`,
`#fail`, `#retry`, the checkpoint, page reloads, abort and the replay hub with its
two iterables, `events` and `text`, of which one may lag behind the other or be
evicted. An action is what runs between two awaits. A consumer that abandons its
iterable (`return()`) leaves the hub as an evicted one does and is not modelled.

## Runs

| Run | Instance | Shows |
|---|---|---|
| `RuntimeFaults` | health trigger, one reader with policy `cancel`, forced cancellation, one journal fault | types, `done` closed once, leases exact, outcome final; `lastSeq` is the journal's, but for one entry for each refusal that was rolled back |
| `RuntimeProgress` | two drains, one on each backend, healthy journal, two chunks | the producer never leaves an open stream; no chunk lost over seam and migration; drains complete |
| `RuntimeDegraded` | two stops, one fault at any journal call | stops truthful and answered; journal, feed and outcome agree; the feed is the journal, one warning at the gap, nothing after the terminal frame |
| `RuntimeOrphan` | a local and a remote reader, two orphan checks, a stop, one fault | a stream is ended as an orphan's only without local readers and under the goroutine's own claim; a remote reader is there only after the claim lapsed or the terminal entry was written |
| `JournalCapacity` | three streams, four bytes in total, three per stream | bytes and LRU exact, rings contiguous, contract met |
| `JournalTail` | one stream, one tail, lag of one byte | lag exact, no wake-up lost, order, completeness, every tail ends |
| `PoolDrain` | two backends of a pod, two addresses, one lease, one drain request, three control-plane calls | held pointers are the map's; a drain's answer is true; nobody sleeps through a wake-up; no verdict survives an update of the address |
| `RouteFanout` | two proxies, one pod, two objects, one each of deletion, edit, proxy move, fault | no proxy serves a route that is gone; registries converge to the object |
| `FeedSwitch` | one reader, five events, queue of two, one fault | every event once and in order over the switch; one warning; honest end; readers end |
| `SharedKey` | two requests, three IDs, lifetimes of three and two ticks, one fault | one stream per key; the winner keeps it; no request waits for ever on a dead creator |
| `RedisStream` | three mutations, one remote reader, two claims, two faults, deadlines of two ticks and one | acknowledged sequences are the log's; a claimed Close meets a reader only if it was held up at `writeMu` and the claim lapsed; a gap is marked |
| `ClientResume` | three events, two iterables, lag and socket of one, one retry, one reload, one fault | each event once and in order, but for an event that was committed and relayed again; iterables are prefixes; outcomes true; the client settles |

Bounds. Two backends are what a migration needs; one migration, because the
second is refused and the refusal is what is hard. One fault at any call reaches
every error path; the journal that stays down is the sealed or closed one, whose
calls fail without using up the bound. Two chunks give a chunk before and after a
seam, or two in it. The memory journal's bounds are chosen so that an append
trims, a terminal entry or an `Open` evicts, and a lagging reader is one entry
behind the ring. A control-plane sequence of three calls removes, registers and
drains again under a held pointer. Two route objects give a deletion and a
successor under the same name. Five events are open, one replayed, one tailed,
one in the gap and the terminal one. Lifetimes differ so that reservation, stream
and a late command can each outlive the other two. Counters without a bound in
the code (clock, sequences, calls) are bounded in the guards by the constants
named `Max...`.

Larger instances were run once and held: `PoolDrain` with four calls (870,000
states) and with two leases (4.4 million), `FeedSwitch` with two readers (824,000),
`SharedKey` with two faults (2.2 million) and longer wire delays, `ClientResume`
with four events (1 million).

`JournalCapacity` and `PoolDrain` use symmetry, of streams and of backends of one
pod; neither checks liveness. Deadlock is not checked: a stream, a bounded
control plane or a settled client that is over does nothing.

Fairness, each weak:

- `StreamRuntime`: a goroutine that has started keeps being scheduled, and an
  attempt whose context is canceled reads an error from its body, as `net/http`
  guarantees. `writeMu` needs no more, for in these instances the holder always
  releases it and each goroutine asks for it finitely often.
- `MemoryJournal`: a tail's goroutine runs and its consumer receives until it
  cancels.
- `DegradedFeed`: the producer and the handlers run.
- `SharedKey`: handlers and runtimes run and time passes.
- `RedisStream`: only the marking goroutine, which retries on its own timer.
- `RouteControl`: the informer catches up, due reconciles run (each path
  requeues), a PUT on the wire arrives or fails, a running proxy becomes ready.
- `ClientResume`: client and handlers run, a generation ends, marks are retried, a
  dead owner's keys expire, the application reads its iterables.

Nothing is assumed of upstreams, of readers' returns, of faults stopping (they are
bounded), or of the goroutine that marks a degraded journal in `StreamRuntime`.

## Disagreements with comments and documentation

Each has a configuration under which TLC finds the property violated, with the
behaviour as its trace; run it with the module of the same part. They are not
among the runs of `PROJECT.json`, all of which pass.

| Configuration | Module | Property | Behaviour |
|---|---|---|---|
| `RefusalRollback` | `MCStreamRuntime` | `ProducerDrivesStream` | an external refusal sets `terminating`, fails to write and clears it; a producer that saw it has left, and the stream stays open |
| `RefusalAfterGap` | `MCStreamRuntime` | `NoSequenceAfterGap` | the same function sequences entries after a durability gap |
| `RefusalUnmirrored` | `MCStreamRuntime` | `LastSeqMirrored` | its warning is committed, reported failed and rolled back: `lastSeq` stays behind the journal while the stream goes on ("always observed and mirrored", `durable.go:768-769`) |
| `RefusalAmbiguous` | `MCStreamRuntime` | `TerminalAgreement` | its Close is committed, reported failed and rolled back: the journal holds an error entry and the stream is open again |
| `EarlyDrain` | `MCStreamRuntime` | `DrainCompletes` | a drain between lease and registration is lost for the stream |
| `ShutdownMidMigration` | `MCStreamRuntime` | `ProducerDrivesStream` | forced cancellation during a migration leaves the stream without a terminal entry |
| `TailGap` | `MCMemoryJournal` | `TailNoGap` | a tail cut off between fetch and delivery may skip an entry just before its error |
| `TailCancel` | `MCMemoryJournal` | `CancelCloses` | a tail's goroutine may block for ever on its error when the consumer cancels with the channel full |
| `StaleProbe` | `MCBackendPool` | `ProbeNeverStale` | a backend is removed and registered anew at another address while it is probed; the new record starts again at revision 1, so the old verdict is applied ("safely discarded", `backend/types.go`) |
| `VerdictReuse` | `MCRouteControl` | `VerdictExact` | a pod that changes its image while not serving keeps its old verdict under the new image, and serves with it when it is ready again ("exact `(imageDigest, model, tokenizerHash)` match", `docs/operations.md`) |
| `LateSnapshot` | `MCRouteControl` | `FinalizerBarrier` | a PUT of the first object that is delivered after the second object's tombstone revives the first ("fences", `docs/protocol.md`) |
| `FeedRepeat` | `MCDegradedFeed` | `CursorExclusive` | the relay sends a reader shadows at or below its cursor ("A resume cursor is exclusive", `docs/protocol.md`); the client drops them |
| `FeedDuplicate` | `MCDegradedFeed` | `SuffixExact` | an append that fails after it was committed reaches a reader from the journal and again, unsequenced, from the relay |
| `KeyPoisoned` | `MCSharedKey` | `PendingShort` | an old runtime's `refreshIdempotency` gives a later request's reservation the journal's lifetime ("does not poison this key", `durable.go`) |
| `FenceOutlived` | `MCRedisStream` | `FenceNeverOutlived` | a producer that took `writeMu` before the claim appends with a full deadline after it, and the claimed Close begins its own when the claim lapses; a remote reader attaches ("cannot outlive the remaining fence", `distributed_readers.go`) |
| `ResumeRefused` | `MCClientResume` | `InterruptionSurvived` | a resume that meets a terminal transition gets 409 and is not retried; a Redis error during a replay is reported as an expired offset ("Transport failures do not end the iterables", `docs/client.md`) |

What the passing runs leave out, or say less of, because of these:

- `RuntimeProgress` has no journal fault, early trigger or forced cancellation
  (`RefusalRollback`, `EarlyDrain`, `ShutdownMidMigration`).
- `RuntimeDegraded` has no trigger, so no refusal: `TerminalAgreement`,
  `FeedExact` and `NoSequenceAfterGap` are not claimed of a refusal that fails or
  follows a gap (`RefusalAmbiguous`, `RefusalUnmirrored`, `RefusalAfterGap`).
- `MirrorsJournal` allows one entry of drift for each refusal rolled back
  (`RefusalUnmirrored`).
- `OrphanHasNoReaders` and `OrphanFence` allow a remote reader once the claim has
  lapsed, and `OrphanFence` only if the Close was held up (`FenceOutlived`).
- `JournalTail` asks for order, not gap freedom, once the reader is cut off, and
  not for the end of a canceled tail (`TailGap`, `TailCancel`).
- `PoolDrain` asks of a probe only that it does not survive an update of its
  record (`StaleProbe`).
- `RouteFanout` has one deletion and says nothing of a verdict's image
  (`LateSnapshot`, `VerdictReuse`).
- `FeedSwitch` has no ambiguous append (`FeedDuplicate`), and looks at what the
  reader holds after the client's cursor filter (`FeedRepeat`).
- `SharedKey` asks that no request hangs, not that a reservation stays short
  (`KeyPoisoned`).
- `DeliveredExact` allows an event that was committed and relayed again to be
  delivered twice, and `Settles` counts a refused resume as an end
  (`FeedDuplicate`, `ResumeRefused`).

## Proofs

Three modules have theorems: the stream runtime, the idempotency key and the
backend pool. Each proof finds an invariant that is inductive, shows that every
action keeps it (one lemma per action, or per kind of effect), and reads the
checked properties off it.

### StreamRuntime

`StreamRuntimeProofs` proves, for all values of the constants that satisfy
`RuntimeConstants` and `DistinctProcesses`:

- `Invariance`: `Spec => []IInv`
- `TypeCorrect`: `Spec => []TypeOK`
- `DoneOnce`: `Spec => []DoneClosedOnce`
- `LeasesExact`: `Spec => []LeasesAccounted`
- `OrphansUnread`: `Spec => []OrphanHasNoReaders`
- `OutcomeFinal`: `Spec => TerminalFinal`

None of the invariants is inductive by itself. `IInv` adds what the code relies
on without saying it:

- `ControlInv`: each kind of goroutine stays in its own part of the code;
- `MutexInv`: the goroutines inside a `writeMu` section are the holder of it;
- `FinisherInv`: while `terminating` is set exactly one goroutine, a closer or a
  refusal, is responsible for it and the stream has no outcome; otherwise there is
  none. This is what makes the second `close(r.done)` impossible;
- `LeaseInv`: the lease account, where the producer's `target` is held exactly
  between acquisition and handover, and at most one refusal owes a release;
- `ClaimInv`: while a claim stands in the shared journal there are no remote
  readers, or only such as came for the terminal entry; an orphan check that is
  closing has no local readers and, with a shared journal, holds the local claim.
  It does not say that the shared claim still stands, for it may lapse.

`StreamRuntimeTypes` proves the type step, `StreamRuntimeRaces` the control,
mutex and finisher steps, `StreamRuntimeProofs` the lease and claim steps and the
theorems; each has one lemma or step per action.

### SharedKey

`SharedKeyProofs` proves, for any number of requests, stream IDs, faults and any
lifetimes that satisfy `IdAssumption` and `TTLAssumption`:

- `KeyInvariance`: `Spec => []KeyInv`
- `KeyExact`: `Spec => []KeyNamesStream`
- `WinnerStays`: `Spec => WinnerKept`

`KeyInv` says of Redis (`DBInv`) that a key outlives the stream it names, that an
ID which was opened once is never reserved again, and that the removals still on
the wire concern streams that are gone; and of the requests (`CallInv`) that an ID
belongs to the one request that drew it. A step of the model is a script's effect
on Redis followed by a move of the request or of the wire, and the two are proved
apart: `ScriptEffect`, `EffectInv` and `RunInv` for the first, `MoveInv` for the
second.

### BackendPool

`PoolRecordProofs`, `PoolDrainProofs` and `BackendPoolProofs` prove, for any sets
of backends, leases and drain requests that satisfy `PoolAssumption`:

- `PoolInvariance`: `Spec => []Inv`
- `RecordsStayMapped`: `Spec => []PinnedRecordMapped`
- `DrainsTruthful`: `Spec => []DrainTruthful`
- `NoLostWakeup`: `Spec => []WaitersWoken`
- `ProbesFollowAddress`: `Spec => ProbeFollowsAddress`

`Inv` makes explicit what the methods of the pool rely on:

- `Accounted`: `leases` and `waiters` of a record are exactly the handles and
  requests that point to it, counted; a cell outside the map has none;
- `Drains`: a drained record drains by hand (`retirementDrain` is false), so that
  a revival leaves it draining, and a sleeping `Wait` sleeps on a leased record;
- `Probes`: a probe in flight is of the map's record, at its revision with the
  same address, or at an older revision;
- `Watching`: until Changes fires, the timer of a patient acquisition runs out no
  later than the first quarantine of a backend it may choose, what it has chosen
  stays eligible, and it sleeps only when nothing is.

A critical section of the pool updates or creates records and then deletes the
retired ones. `UpdateInv` and `CommitInv` are these two halves; a method's lemma
shows that its updates are ones `UpdateInv` allows, and that it notifies whom it
must.

### Only model-checked

The liveness properties; the properties of `StreamRuntime` that compare sequences
(`FeedExact`, `NoChunkLost`, `TerminalAgreement`, `MirrorsJournal`) and
`StopTruthful`; and everything about the modules without a proof module, the
implementation of `Journal` by `MemoryJournal` included.

## Not modelled

- Text functions of `migrate/` (seam comparison, UTF-8 buffer, JSON prefix), the
  SSE codec and the chunk parser: sequential, without shared state, and about
  characters, which the models do not have.
- The conformance checker: HTTP probes whose verdict is an input of
  `StreamRuntime` and `RouteControl`.
- The operator's pod drain (`drain_fanout.go`, `drain_server.go`, the webhook): it
  keeps no state and forwards to the drain endpoints, which are in `BackendPool`.
- Owner records' heartbeats and relayed stops; the relay appears as the choice of
  the replica that answers a read.
- The in-process idempotency registry, guarded by one mutex; the Redis one, where
  the races are, is `SharedKey`.
- Conflicts between two routes that share a model or a backend.
- Trimming of a Redis stream under its readers; trimming is modelled for the
  memory journal.
- Configuration, telemetry, listeners, command line tools, and the AI SDK adapter,
  a stateless mapping of events.
