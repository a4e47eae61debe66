# Gripline: a TLA+ verification project

Gripline is a credential-containment gateway. It terminates client credentials,
scores the risk of what they do, restricts or quarantines them, meters their
resource use and forwards admitted requests to a backend under a short-lived
signed assertion. It runs standalone, on a bbolt file, or clustered, on a shared
PostgreSQL authority.

This directory models the parts of Gripline in which several actors touch the
same state, checks them with TLC on small instances and proves their safety properties
with TLAPS for every instance.

## The system

| Component | State | Operations | What is hard |
|---|---|---|---|
| Credential (`internal/credential`) | record: status, revision, verifier and pepper generation, hysteresis (streak, dwell timer) | authenticate, migrate verifier, observe and commit, revoke | each request reads, waits, writes and decides on what it read; lost answers; captured clocks |
| Pepper ring and crypto generations (`internal/statepg/crypto.go`, `cmd/gripline/runtime_crypto.go`) | shared active and retired generations with an epoch; per node a ring, a readiness flag, acknowledgements | activate, retire, reconcile, acknowledge | two reconciliations per node, started from different authority states; nodes that lag |
| Resource governor (`internal/resource`) | per scope a concurrency pool and token buckets; bounded source table | provision, mark forwarded, settle, release, remove scope | all-or-nothing over many separately locked gauges; objects deleted while referenced |
| Distributed leases and membership (`internal/statepg/resource.go`, `membership.go`) | leases with TTL, bucket rows, node epochs | provision, renew, settle, release, reap, fence | expiry against a live request, replayed request identifiers, crashes |
| Admission (`internal/terminator`) | the request's snapshots | extract, authenticate, classify, score, observe, gate, reserve, issue | order of reads, gates and writes; every store may fail |
| Lanes (`internal/lane`) | bounded set of classified lanes per credential, promotion and lane security state | borrow or create, observe risk, promote, unblock | eviction, concurrent observations, hysteresis |
| Evidence and risk (`internal/evidence`, `risk`) | bounded evidence per subject | append, prune, score | expiry, caps, pruning by slow requests |
| Detectors (`internal/producers`, `anomaly`, `statepg/adaptive.go`) | windows and averages per subject, a checkpoint, a gate per node | observe, flush, restore, share | checkpoints against observations, crashes, gates that drop repeats |
| Policy (`internal/policy`) | manifest of active, candidate and previous policy | prepare, activate, roll back, reconcile | crash between persisting and publishing; several nodes; replays |
| Signer keyring (`internal/terminator/keyring.go`) | active, prepared and retired keys in a file | prepare, accept, activate, retire | backend acceptance, failing saves, assertion lifetime |
| Verifier (`verify`, `internal/replay`) | key set, replay table | publish, retire, verify | replays, skewed clocks, a full table |
| Source identity (`internal/ingress`, `pseudonym`, `statepg/source_pseudonym.go`) | trusted proxies; rings of pseudonym keys; aliases and their owners | resolve, bind, touch, reclaim, maintain, rotate | forged headers; two keys in use; deletion against binding |
| Proxy (`internal/proxy`) | in-flight requests, pre-auth guard, spool budget | serve, spool, forward, stream, settle, shut down | the reservation's life across failures; the watchdog of a stream |
| Usage metering (`adapter/usage`) | the session of a response | estimate, observe chunks, finish | records cut anywhere, partial usage |

Components meet in three ways. A request calls them in order: the proxy resolves
its source, the terminator authenticates, classifies, scores and gates it,
the governor (or the lease table) provisions it, the signer issues its assertion,
the proxy forwards it, meters the response and settles. The authority's tables
are shared by nodes, which only notice each other's changes when they read. And
background loops (reconcilers, watchers, reapers, checkpoints, maintenance, touch
loops) change what requests are in the middle of using. `PROJECT.json` lists
under "hazards" where in the code this bites.

## The modules

**`CredentialState`** models one credential. `rec` is its row, `req[r]` what request
`r` last read of it and how far it got, `now` the clock and `hist` history
variables that only properties read. One registry call is one action:
`Authenticate`, `MigrateVerifier`, `ObserveAndCommit` (with `ObserveAnswerLost`
and `ObserveFails`), `SkipObservation`, `Reread`, `Decide`, and the operator's
`Revoke`. `ReduceTransition` is the reducer of `securitystate.go`, split by
status. `AuthorityClock` tells the PostgreSQL registry, which stamps an
observation with database time, from the memory and bbolt registries, which use
the value the request read when it began.

**`Governor`** models `internal/resource`. The maps are keyed by scope; because a
scope's objects can be deleted while a request still points at them, an object is
a key and a generation, `gen[k]` being the one in the maps. A request walks its
plan gauge by gauge (`AcquireLease`, `ReserveTokens`, `SkipGauge`), unwinds when
one denies, and otherwise is forwarded, settled and released as the proxy does
it. `Resolve` is the critical section under `metaMu`, source-table eviction and
overflow included. Keys in `Removable` are the scopes `RemoveScope` is called for.

**`PepperGenerations`** models rotation of the pepper: the authority (`shared`,
`acks`), each node's ring and readiness (`ring`, `serving`), the reconciliation
of its background reconciler and of its admin handler (`job`), one credential and
the requests that look it up. The loop that drops retired generations takes one
step per generation, and reading the active and the retired generations takes
two, as in the code.

**`ResourceLeases`** models reservations in a cluster, as rows of the
PostgreSQL authority. `member` holds the membership rows, `proc` each gateway
process with its epoch and its fenced flag, `bucket` the bucket rows, `source` the
bounded source table, `lease` the lease rows with their holds, `req` the proxy's
progress with the handle it was given. A transaction locks the rows it changes, in
one order, until it commits, so it is one step, at the database time at which it
began; an answer may be lost after the commit (`told`). Node membership
(`Register`, `Heartbeat`, `MarkDraining`, `Close`, `Crash`) and the checks every
transaction makes of it (`Owns`) are part of the module, because what they are for
is who may touch a lease. `Reap` is any process's reaper. A token row has two fields of
history: `granted`, what policies gave it (its first burst and the headroom of every
raise), and `late`, how often a transaction moved `updated_at` back (`Touched`).

**`PolicyLifecycle`** models the policy manager on either authority. `manifest`,
`artifacts`, `acks` and `claims` are its tables, `mgr[n]` the memory of a node's
manager with what it publishes to the data plane, `job[n]` the operation that holds
its mutex, whose queries and transactions are separate steps. **`PolicyRegister`** is
the abstract specification: one register with an epoch, a candidate and the set
of policies that were active. `RefinesRegister` says that the manifest implements
it under the mapping of the module's `INSTANCE`.

**`SignerRotation`** models the rotation of the signing key: the authority's row and
horizons (`shared`), the key file and the memory of each node (`file`, `mem`), the
keys the backend holds and, per key, until when an assertion signed with it lives
(`issued`). The reconciler and the admin handler of a node are jobs, as in
`PepperGenerations`; a save may fail before or after the rename, and a process may
crash anywhere and starts again from its file.

**`AssertionVerifier`** models `verify` with its two replay guards. A verification is
the steps `Receive` (transport, form, signature, scopes and lifetime),
`CheckRevision`, `CheckEpoch`, `ReadNow` and `Accept`; `ClockOffset` gives the
processes that share a PostgreSQL guard different clocks.

**`Lanes`** and **`Evidence`** are the pure definitions of `internal/lane` and
`internal/evidence` with `internal/risk`: similarity, borrow or create with
retention and eviction, the lane security reducer, promotion; validity, append,
prune and the capped score. **`Admission`** composes them: requests of one credential
walk through posture, lane, evidence, risk, gates, provisioning, completion and
baseline, each read and write a step of its own that may fail (`Answered`), next to
the operator's posture changes and unblocks and the sweep of old evidence.
`Standalone` chooses the authority and with it whose clock a write uses (`TxnNow`; in the
cluster the start of a transaction, which is taken to be short).

**`Detectors`** models the behaviour detectors: `state` is the detector, `saved` its
checkpoint, `dirty` and `flush` the checkpoint protocol of `PersistentProducer`,
`gate` the gates of the cluster's nodes, `call[c]` an observation in progress. The
deployment and the detector are chosen at the start (`Modes`); token and cost velocity
are two of them, for the cost has an absolute floor and no tenfold signal. The two
implementations of each reducer (in memory and in SQL) are separate operators, each with
the floor where its code has it. `acked`, `evicted`, `asked` and `lost` are history: what
returned calls promised, which calls lost their subject to the eviction of another before
their flush returned, which keys were presented, and which passed a gate and then failed
at the authority.

**`Gateway`** models the data plane of one process. `req[r].at` is the step of
`ServeHTTP` the handler is about to take, `guard` the pre-auth guard with its
source table, `spool` the spool budget, `server` the shutdown. The watchdog of a
stream (`timer`, `firing`, `closed`) runs next to the handler, as do the transport,
which closes the body in its own time, and the client. As in the code there is a watchdog
only when both `WriteTimeout` and `StreamWriteIdleTimeout` are configured (`Watched`). **`Usage`** is
`adapter/usage`: what the pieces of a response say changes no step of the handler,
so `Gateway` counts chunks and `ChargedForUse` quantifies over everything they may say
(`Sessions`). A body is counted in tokens, and the largest output stands for the default,
the header or the bound that applies. The pricing of `Usage` matters only to
`Gateway_cost` below; `ChargedForUse` is about tokens.

**`SourceIdentity`** models who a request comes from: `CanonicalClientIP` walks the
forwarding headers of a chain of proxies (`Paths`), `ring[n]` are a node's pseudonym keys, `catalog` and `epoch` the
authority's generations, `alias` the table of aliases with owner and recency, `refs`
the identities that some table refers to. `guard` is the row lock that serialises
binding and maintenance; the generations a binding checked are not locked, so a
retirement can fall between its check and its insertion. A retirement is one step: a
reference that commits between its check and its update is, in the model, one written
afterwards, with the same end state.

Modules `MC...` give the model values and symmetry; modules `...Proofs` hold the
proofs. Definitions marked "Mutant" are wrong variants of the definition that
follows them; they are used only to confirm that a property notices the mistake.

## The runs

| Run | Distinct states | Shows |
|---|---|---|
| credential_pg | 710,137 | database clock, automatic quarantine: no admission after revocation, one status per revision, full dwells |
| governor_source | 1,425,703 | a source table of one entry, a lane that may be removed, caps that change, refill: conservation through denial, unwinding, settlement and release; eviction and overflow orphan nothing, caps hold, the ledger never over-credits |
| pepper_rotate | 903,671 | two nodes, two generations, two authority changes, one request |
| leases_crash | 1,297,560 | two processes under one node id, two requests, two sources and a table of one: slots match leases, rows of live holds stay, no budget is minted, a request keeps its lease until the time it was told, only the owner of the node advances a lease |
| leases_return | 401,435 | two nodes, a lane that may be removed: every lease is released while some process keeps its node |
| policy_cluster | 963,058 | two nodes, three operations, three epochs: the manifest refines `PolicyRegister`, an operation takes effect once, a policy is activated only when every live node loaded it, a node publishes coherent pairs |
| signer_rotate | 1,232,901 | two nodes, two keys, three process starts: live assertions verify, a serving node signs with the selected key and would after a restart |
| verifier_replay | 698,871 | two concurrent verifications, three in all, both guards, a table of one: accepted once, never stale |
| admission_cluster | 1,810,562 | two requests, full and clearing lanes, a failing store: tombstones stay, full dwells, clean windows, live evidence is kept |
| detectors_checkpoint | 1,416,478 | every detector in both deployments, crashes and restarts: checkpoints, durable signals, no hidden spray, reducers that agree but for the cooldown of a cost below the floor |
| gateway_stream | 144,080 | two requests, of which the backend answers one: slots, spool, charges, credit, and that a stream ends (both stream timeouts configured) |
| source_rotate | 1,160,654 | two clients, chains of up to two proxies, two nodes, three pseudonym keys, one request at a time: the client does not choose its source, a source is not split, history stays reachable |

**Bounds.** Most runs have two requests, enough for one to act between any two steps of
the other, and two nodes, one that moves and one that lags. Tables that the code
bounds (sources, identities, lanes, evidence, replay claims, subjects, spool) hold
one or two entries, so that the full table is the common case. Clocks run past the
longest interval that a property speaks of: dwells, the lease TTL, assertion
lifetimes and cooldowns are one to three ticks. The detectors' window is four ticks and
the refresh of the gates two, so that a repeat which a gate drops can be later than the
row of its key. `MaxEpoch` allows an
activation and a retirement (or two activations), which is what it takes for a
lagging node to meet each of them. In `leases_crash` the TTL is two ticks and
provisions, renewals, crashes and shutdowns happen in the first two of four, so
that a process can be silent for a TTL, be replaced and wake up while its leases
live. `leases_return` has one request, whose lease some other node must release,
and transactions that last up to a tick (`MaxLag = 1`); `leases_crash` takes `MaxLag = 0`,
because with lag its two requests exceed what TLC does in minutes. `TokenLedger` and
`UpstreamHoldsLease` were also checked on `ResourceLeases_return` with `MaxLag = 1`,
`Rate = 1`, `TTL = 2` and `MaxTime = 4` (1,267,082 states), and are proved for every lag. In `governor_source` each request is made once, `MaxGen`
bounds how often a key is recreated. `source_rotate` has one request at a time:
bindings are serialised by the guard row, and a request that lags behind a
rotation is one that resolved before it. It has three generations, of which a ring
holds two (`MaxLoaded`), so that one can be superseded, one active and one staged on
some nodes only. Symmetry is used for nodes, requests and
clients that nothing tells apart.

Runs do not check deadlock where requests are one-shot and time is bounded, so that
the system ends; in the others some request or reconciler can always step.

**Fairness.** `StreamsEnd` assumes that Go schedules a runnable handler and that a timer
fires; every wait of a handler but the read of the stream has a timeout of its own. It
speaks of a stream that has a watchdog or whose client gives up: without
`stream_write_idle_timeout`, which is optional and zero by default (`config.go:403`), a
silent backend does hold the handler, as counterexample 13 below shows. With
`StreamWriteIdleTimeout = 0` the property holds too, for the cancelled requests (81,656
states).
Nothing is assumed of the backend, the client or the operator. `CapacityReturns`
assumes that time passes and that the reaper, a ticker loop that ends with its
process, runs; that some process keeps its node is its hypothesis, for in a cluster
without a live node nobody is there to reap.

**Assumptions on timing and operation.** In `Governor` a request reaches its gauges within
`MaxStall` ticks of resolving them, less than the idle time after which a source is
evicted (ten minutes by default against microseconds), and sources have a concurrency
limit; the theorems about eviction assume both (`Timely`). In `SignerRotation` a node
notices an epoch within `WatchLag`, which is at most `Skew`: the horizon of a
retirement has no other slack (see below). In `SourceIdentity` a tick is about the alias
retention, so a bound request does not outlast it, and nodes stay members; with
`KeepSuperseded` operators keep superseded keys configured until they are retired.
In `Detectors` the adaptive retention is at least the window (`RetentionAssumption`),
which the configuration does not enforce.

## What the code does differently from what it says

These properties state what a comment of the code says and do not hold of the model.
The first eleven have a configuration of their own that is not among the runs; TLC prints
the counterexample with, for example, `tlc -config Governor_orphan.cfg MCGovernor`. The
last two are shown by the change of a run's configuration that they name.

1. `Governor_orphan` (`NoRemovedHolds`): `RemoveScope` between a request's resolution
   of its gauges and their acquisition deletes the pool it is about to use, and
   the next request for the lane gets a fresh, empty one (`governor.go:783`). Line
   780 says that active leases "make the scope non-evictable".
2. `PepperGenerations_lagging` (`KnownIsFound`): the fallback skips the highest
   loaded generation even when it is not the one already tried
   (`admission_support.go:352`); `credential.go:391` says "Retained generations remain
   valid for authentication". The property fails a second way: a migration between
   the two lookups of another request moves the verifier to the generation already
   searched, and both miss.
3. `PepperGenerations_stranded` (`NoCredentialOnRetired`): a node with a stale
   readiness flag migrates a credential onto a retired generation
   (`statepg/credential.go:403`), which `credential.go:406` says is removed "after all
   credentials have migrated away from it".
4. `PepperGenerations_staleready` (`ServingSelectsActive`): acknowledging does not
   compare the generation the ring selects (`statepg/crypto.go:900`); line 259 says an
   unreconciled node must be withdrawn, otherwise "it could continue issuing assertions or
   deriving new verifiers under an old cluster generation".
5. `PepperGenerations_stuck` (`AllServeAgain`): the retire loop refuses the generation the
   ring still selects and never reaches the step that would select another
   (`runtime_crypto.go:121`), so a node that slept through an activation and a
   retirement never serves again. Without retirements it does
   (`PepperGenerations_serve`, which passes). Fairness there: the reconciler is a
   ticker loop and the admin handler runs to its end, so their steps are weakly
   fair; strong fairness says the authority is not unreachable every time.
6. `Admission_lockdown` (`LockdownDeniesNewLanes`): standalone, the time of the posture
   is zero, so a lane row that a request denied by the lockdown left behind is an existing
   lane for its retry, which is admitted (`terminator.go:1224`,
   `statebolt/operator.go:82`). `internal/terminator/m6_test.go:113` says "A retry must remain denied". In
   the cluster, asserting LOCKDOWN again renews the time the comparison uses
   (`statepg/operator.go:186`), with the same effect.
7. `Gateway_spool` (`SpoolReturned`): when `MarkForwarded` fails after an unknown-length
   body was spooled, the handler answers 502 before `RoundTrip` and nobody closes
   the body: its reservation and its file are lost until the process restarts
   (`proxy.go:886`). `spool_budget.go:43` says "Callers must release the returned handle
   through spooledBody.Close or Release on an error path."
8. `Gateway_cost` (`PartialCostsEstimate`): for Anthropic messages with exact costs
   `Finish` overwrites the conservative cost, so a broken stream is priced below what was
   reserved; `provider.go:331` says "Missing, malformed, or partial usage never settles
   below the admission estimate". Tokens are not affected (`ChargedForUse`).
9. `PolicyLifecycle_echo` (`PublishedIsActivated`): a late retry of a rollback that was
   rolled back in turn is recognised as a replay, and the manager still installs its
   target under an epoch that was never activated (`manager.go:868` to 884); `Reconcile`
   promises to publish "a coherent policy/epoch pair". `PublishedCoherent` excepts
   exactly these publications.
10. `SourceIdentity_stale` (`BoundIsRegistered`): a source that returns after the
    retention is bound to its old identity, and maintenance may delete its stale
    aliases before the asynchronous touch; `source_pseudonym.go:449` says recency is "not
    an inference correctness condition".
11. `SourceIdentity_dropped` (`OneIdentity` with `KeepSuperseded = FALSE`): a node need
    only have the active pseudonym key. One configured without a superseded, not yet
    retired key splits a source into two identities, and nodes with both keys then
    fail with `ErrSourceAliasConflict` for good. No document contradicts this; it is an
    obligation of the operator that nothing enforces.
    With `KeepSuperseded` a source can be split too, in one case. Maintenance deletes
    aliases one by one (`maintenance.go:426`) and touches are lost or late, so the aliases
    of a source under every generation that has been active can go, by expiry or with the
    retirement of their generation, while one of a staged generation that only some nodes
    have loaded remains. A node without that generation finds nothing and
    binds a second identity. TLC shows it in 13 steps when `Identified` is made an
    invariant, with `Generations = {1, 2, 3}`, `MaxLoaded = 2`, `MaxIdentities = 2` and
    `MaxEpoch = 3`. `OneIdentity` excepts exactly the sources in that state: it says that a
    source with one identity keeps it while it has an alias of a generation that has been
    active.
12. `FloorGatesEmissionOnly`, added to the invariants of `Detectors_checkpoint.cfg`: in
    memory the floor of the cost velocity is applied to what `checkVelocity` returns, when
    it has started the cooldown already (`velocity.go:225`, `velocity.go:317`). A cost below
    the floor that is four times the average raises nothing and silences the detector for
    a cooldown. `velocity.go:219` says "The absolute floor gates EMISSION only". The
    reducer in SQL applies the floor first (`statepg/adaptive.go:200`), so the two
    deployments differ; `ReducersAgree` excepts exactly this.
13. `ResponseBounded`, added to the properties of `Gateway_stream.cfg` with
    `StreamWriteIdleTimeout = 0`: a write deadline takes effect at a write, so a backend
    that stops sending holds the handler and its reservation for as long as the client
    waits (`proxy.go:980` wraps the body only when both timeouts are set). `config.go:377`
    says "WriteTimeout bounds the response", and `config.go:407` that with the idle timeout
    zero it "applies as-is".

Noticed while modelling:

- Credentials: under the quarantine ceiling a score of 100 does not restart the dwell of
  a CONSTRAINED credential (`securitystate.go:232`); `ConstrainedRecoversAfterDwell`
  holds only with automatic quarantine, where it is proved (`ConstrainedRecovery`). The
  `TransitionConflict` branch of `observeCredentialRisk` is dead: no store returns it.
- Governor: a concurrency pool created under a low cap never grows (`governor.go:356`).
  A source without a concurrency limit has no pool, so when its bucket has refilled
  around a reservation that is still held it can be evicted, and the settlement then
  charges a bucket nobody uses.
- Leases: `CURRENT_TIMESTAMP` is the start of the transaction. One that waited for a row
  lock writes an earlier `updated_at` than the row had, and the interval is
  refilled twice (`statepg/resource.go:474`); `TokenLedger` bounds by how much. A renewal
  that began before the last one shortens the lease by the difference, so a request may
  lose its lease that much before the time it was told (`UpstreamHoldsLease`).
  `loadResourceBucket` clamps the balance when a capacity is lowered and adds the
  difference when it is raised, so lowering and raising it restores spent budget (line
  425). `releaseBucket` moves `updated_at` without crediting the refill when there is
  nothing to refund. The `available` column of a concurrency row follows its capacity
  down and not up, so a source whose cap was lowered and restored is never evicted.
- Policy: `refreshDurableLocked` compares the candidate by id and revision only
  (`manager.go:511`); a prepare or activate that fails after its refresh has
  acknowledged the new epoch without publishing it.
- Signer: the authority lets a prepared, never activated key be retired, but
  `Keyring.retireAfter` refuses, so the cluster is not ready from then on.
  `ReconcileInterval` has no upper bound (`config.go:968`) while the horizon's slack is the
  clock skew of five seconds. A save can fail after the rename, leaving the file newer
  than the memory.
- Verifier: the memory guard reads the time before it takes its lock, so a call that
  stalls past the expiry can be a second acceptance, after the expiry only.
- Admission: `NEW_LANE` is minted after the request's `now` and evidence created after
  `now` does not count (`evidence.go:132`), so a request's own `NEW_LANE` is not part of its
  evaluation, although `terminator.go:1152` says it is. Standalone, writes use the time the
  request began, so `LiveEvidenceKept`, `RecoveryAfterDwell` and `EstablishedAfterCleanWindow`
  hold there only up to the duration of a request; the run is the clustered deployment.
  Retention forgets a suspicious lane after sixteen idle periods (`reduce.go:68`), however
  long its dwell; the next request of its vector begins a NORMAL lane under the same id. `ApplyUnblock` keeps the
  clean counters although `reduce.go:268` says otherwise. `RecordClean` overwrites the risk
  score with the one of admission.
- Detectors: the SQL window drops the newest keys on overflow (`statepg/adaptive.go`)
  where `spray.go:17` says it "EVICTS OLDEST state". A checkpoint above 4 MiB is refused
  while the windows it is made of have no such bound, and `RestoreState` refuses more
  than 65,536 keys of a subject, so that the process does not start. A transaction that
  fails leaves the gate of its node closed, so that repeats of its key are dropped for a
  refresh interval although no row has it.
- Gateway: an Anthropic stream that ends cleanly after `message_start` counts as complete;
  the estimate of combined tokens is not clamped while the settled one is.
- Sources: a request that resolved before a retirement and is then rejected writes
  evidence under an identity no node can derive any more.

## The proofs

At most two modules are proved about in one proof module: `IdentityProofs` is about
`CredentialState` and `SourceIdentity`, `VerificationProofs` about `PepperGenerations` and
`AssertionVerifier`, `DecisionProofs` about `PolicyLifecycle` and `Admission`; the others are
named after the module they are about.

`IdentityProofs` proves of `CredentialState`, for every set of requests, thresholds accepted by
policy validation (`ThresholdAssumption`) and both clocks: `TypeCorrect`,
`Coherence`, `RevocationIsFinal`, `WatchRecovery` and `WatchEntry`. The inductive
invariant adds to the type invariant that a request's snapshot agrees with the
record whenever the revisions are equal (`RequestsInv`), that a revoked record
stays revoked at or after the revision of the revocation (`RevokedInv`), and that
the dwell timer and the streak never claim more than the history of observations
supports (`DwellInv`, `StreakInv`). The lemma `ReducerFacts` says what the
reducer guarantees for any record, score and ceiling; every observation step
rests on it. `ConstrainedRecovery` is the same for CONSTRAINED with automatic
quarantine; without it the ceiling lets a score pass that should restart the timer. With the captured clocks of the memory and bbolt registries a dwell
may be short by the request's latency (`Skew`).

`VerificationProofs` proves of `PepperGenerations`, for every set of nodes, generations and
requests: `TypeCorrect`, `ActiveStaysUsable`, `AcknowledgementsHonoured` and
`ServingIsClean`. None of these is inductive alone. The invariant adds that every
node acknowledged the active generation (`ActiveAcked`), that a ring has what it
selects, that what a reconciliation in progress read is still true up to later
retirements (`JobsHonest`), and that no observation is from a future epoch
(`ObservedPast`): a change of the authority takes a fresh epoch, which no earlier
acknowledgement can match. `MinOfVersions`, which the retire loop needs, comes
from the well-foundedness of the naturals.

`ResourceLeasesProofs` proves, for every set of nodes, processes, requests, scopes
and plans that satisfies `LeaseAssumption`: `TypeCorrect`, `SlotAccounting`,
`HoldsKeepTheirRows`, `OwnershipFences` and `BackendWorkIsBacked`. The inductive
invariant `IInv` joins the type invariant, `SlotsMatchLeases` and `HoldsHaveRows`
with `OnlyHeldHold`: a lease that is not held has no holds. It is needed because
deletion of rows looks for holds of held leases (`Holders`), while release and
settlement go by the holds alone. A release of several leases takes as many slots
from a scope as it removes holders (a cardinality argument over the finite set of
requests); the eviction in a provision removes rows nobody holds and never a row
the same provision reserves. `BackendWorkIsBacked` needs a second invariant
(`RInv`): a request at work runs in a process that is up, so its epoch does not
change under it; no lease reaches further than a TTL from now, so a renewal never
brings the expiry forward by more than a transaction may last; and the time a request was
told is later than the expiry stored by no more than that. Hence the `MaxLag` in
`UpstreamHoldsLease`; the theorem holds for every lag.

The ledger of a token row is a third invariant (`LedgerInv`), and `TokensBalance`
(`TokenLedger`) follows from it for every lag and every sequence of policies. What a row
answers for (its balance, what is reserved of it, what was spent) is at most what the
policies gave it and the refill up to `updated_at`, not up to now, since only that was
paid out; each transaction that moves `updated_at` back adds at most the refill of
`MaxLag`, because no transaction begins more than that before it commits (`TxNotAhead`).
The lower half, that a row never answers for less than its capacity, needs that a row
without tokens has neither history nor holds. One lemma per operation on a row says what
it does to the ledger when leases join or leave it, `ReleasedLedger` for any set of
leases at once.

`GovernorProofs` proves, for every finite set of requests and every set of plans:
`TypeCorrect`, `Leases` (`LeaseConservation`) and `NothingLeft`
(`NothingLeftBehind`). The invariant `IInv` adds to these that what a request holds is
at gauges it has passed on the way up and not yet given back (`RequestsInv`: the
position in the plan bounds the leases and the reservations, whatever the stage), and
that a request's objects are of a generation that was in the maps, whose gauges exist
for as long as that generation is current (`ObjectsInv`). `NoOrphan` and `ScopeCap` are
about the eviction of sources and rest on a second invariant (`TInv`): a source a
request resolved was seen no longer ago than the request stalled (`RecentInv`), a
leased pool is the current one of its key (`LeasedInv`, `CurrentInv`). Their hypothesis
`Timely` says that requests reach their gauges before a source counts as idle
(`MaxStall < SourceIdle`) and that every source has a concurrency limit; without a
pool nothing but the balance of its bucket tells that a source is in use.
The ledger of a bucket (`LInv`) is that it charges at most the reservations held on it
and the usage committed, and exactly that while it does not refill. It needs that only
a bucket that exists is reserved or charged (`KnownInv`) and that its rate is one a
policy gave it (`RateInv`). The first half, `NeverOvercharged`, has no hypothesis. Both
together, `BucketsBalance` (`BucketLedger`), assume `SteadyRates`: whether a bucket
refills depends on its scope and not on the version of the policy, since what a refill
has forgiven stays forgiven when a later policy makes the bucket burst-only. What is held is a sum over requests, written as the cardinality
of a set of units (`Held`), so that a request joining or leaving it is a step of
`FS_Union`; the units of different requests are disjoint.

`DecisionProofs` proves of `PolicyLifecycle`, for every set of nodes, policies and operations:
`TypeCorrect`, `Publication` (`PublishedCoherent`) and `Operations` (`OperationOnce`).
`Refinement` (each step of the managers is a step of `PolicyRegister` or a stutter) and
`LoadedBeforeActivation` assume `RevisionsDistinct`, that a revision stands for one
policy: the manager and the activation compare candidates by id and revision only
(`manager.go:511`), so with two policies under one revision an operator could activate
the one that nobody loaded. The invariant says that the history ends with the active
policy at its epoch (`HistoryInv`), that an operation has taken effect exactly when its
id is claimed (`ClaimsInv`), and that a manager's policy and epoch belong together once
its operation has refreshed, though not between operations (`ManagersInv`). Refinement
adds that whatever may be rolled back to was active (`PastInv`), and loading that a
process has loaded the candidate it acknowledged (`LoadedInv`).

`VerificationProofs` proves of `AssertionVerifier`, for every set of processes and
assertions, every capacity of the replay table and all clock offsets: `VerifierTypeCorrect`, `AcceptedOnce`
(`OncePerAssertion`) and `AcceptedCurrent` (`AcceptedWasCurrent`). The invariant says
that the claim of an accepted, unexpired assertion is in the table, so that pruning
and the full table cannot forget it (`ClaimKept`), that the time a call read is not in
the future (`ReadInPast`), and that a lookup which passed bounds what was current when
the request arrived, because the authorities only move on (`LookupsHold`).

`GatewayProofs` proves, for every finite set of requests, all limits and every set of
pieces a response may consist of: `TypeCorrect`, `SlotsExact` (`PreAuthExact`),
`SpoolExact` (`SpoolInUse`), `CreditEarned` (`CreditWholeResponse`) and `UseIsCharged`
(`ChargedForUse`). The invariant counts the requests that have a slot and those that hold
a reservation (`CountInv`), and says of one request where in the handler it may hold
its body (`SpoolInv`), that it is marked forwarded before it is sent (`SentInv`), and
that the chunks written are those produced less the one in hand (`StreamInv`).
`UseIsCharged` also needs that the settlement of any session is at least its floor
(`FinishFloor`: `SafeAdd`, `Clamp` and `Max` are monotone up to the largest integer,
which is why `UsageAssumption` bounds `MaxEstimatedTokens` by it), and that observing
pieces leads from sessions to sessions. The latter is an induction on the number of
pieces (`SetInduction`, from the well-foundedness of the naturals), and
`SessionsUnfold` shows that the recursive definition of `SessionsAfter` has a solution.

`SignerRotationProofs` proves, for every set of nodes and keys: `TypeCorrect`,
`ServesSelected` (`ServesSelectedKey`), `LiveKeys` (`LiveVerifiable`) and
`NeverRolledBack`: the selected generation never decreases. The invariant of a node
(`NodeInv`) says that keyrings never run ahead of the authority and a file is at most one
activation ahead of its process (`RingInv`), that a node which acknowledged anything
acknowledged the selected key and nothing above its own highest kid (`AckInv`; the
activation barrier keeps it so), that what a job read is still good enough for what it
does next (`JobInv`), and that a node signs with the selected key or with one superseded
so recently that `clock + Horizon <= after + lag` (`SignInv`). As the lag is at most
`Skew`, the last assertion signed with a superseded key expires before that key may be
retired (`IssuedInv`), and the backend loses retired keys only. One lemma
(`SharedStep`) covers every change of the shared state for the nodes that do not move;
each action is then a local matter.

`DetectorsProofs` proves, for every set of subjects, keys, calls and nodes and all bounds
that satisfy `DetectorAssumption`: `TypeCorrect`, `FlushLosesNothing`
(`CheckpointCurrent`), `AckedSurvivesCrash` (`AckedEmissionDurable`), `DeploymentsAgree`
(`ReducersAgree`) and `GatesHideNoSpray` (`SprayDetected`). `CheckpointCurrent` speaks of
the moments between flushes; `Current` adds that while a flush saves, the copy in its hands
is the detector unless the flag has been raised again. A signal must be followed from the
observation that raised it to the checkpoint: it is in the detector until its call marks it,
then under the flag or in the copy of a flush, its own or another's (`SignalHeld`), and
in the checkpoint, the detector and any copy on its way once the call returned
(`AckedHeld`). For that `Holding` says who holds `flushMu` and `Past` that no emission lies in
the future. The proof showed that a signal can be lost: when the table of subjects is
full, another observation may evict the subject between the emission and its flush, and the
call still returns without an error. `evicted` is the history of these calls, which
`AckedEmissionDurable` makes no promise for. `DeploymentsAgree` needs no invariant but the
types: signal and average are equal case by case, the cooldown but for a cost below the floor.
`ClusterInv` is what makes the gates harmless: a key that was presented is a row of the
authority, at most a refresh interval older than the presentation (`Tracked`), because a
gate closed for a recorded key closed no later than its row was written
(`GatesBehind`). `DetectorAssumption` bounds the thresholds by the keys kept of a
subject, as every caller does; without it the window would drop keys before they count.

`IdentityProofs` proves of `SourceIdentity`, for every set of clients, proxies, forged
headers, nodes and requests and every finite set of generations: `SourceInvariance`,
`ClientIsSource` (`SourceIsClient`), `HistoryKept` (`HistoryReachable`) and, when
`KeepSuperseded` holds, `IdentityKept` (`OneIdentity`). `ClientIsSource` rests on `LastHop`:
the last hop that is no trusted proxy is the client's, whatever precedes it and
however many trusted proxies follow. The invariant
says that one generation is active (`OneActive`), that a ring holds every generation that
has been active and is not retired, which the activation barrier establishes and
`KeepSuperseded` preserves (`RingsLoaded`), and that a request holds its source's
pseudonym under every generation its node has loaded, however the ring has shrunk since
(`RequestsDerived`). So a binding finds the owner of any alias of such a generation
(`BindIdentified`), and every other step only removes rows. History is kept because a
retirement leaves another derivable alias, maintenance deletes aliases of retired
generations only, and reclamation takes identities nobody refers to.

`DecisionProofs` proves of `Admission`, for every set of requests, vectors and rules and every
stored lanes, limits and thresholds that satisfy `AdmissionAssumption`:
`AdmissionInvariance` and `BlockedForGood` (`TombstoneStays`) on either authority and, on the
database's clock (`~Standalone`), `RecoveryWaits` (`RecoveryAfterDwell`), `EstablishedIsClean`
(`EstablishedAfterCleanWindow`) and `EvidenceSurvives` (`LiveEvidenceKept`). These are
properties of steps, and what a step may do rests on what earlier ones left behind. The
invariant `LaneInv` says so with the history variables: a suspicious lane that clears has
done so since a time after its last high score, and a normal lane was nothing else since
the anchor of its window (`Timely`); `RequestInv` says that only a request that was never
degraded is on its way to the baseline. The lemmas `ReduceIs`, `ObservationIs`, `CleanIs` and
`BorrowIs` say what the lane reducers do to any lane, `CompactIs` that the storage bound
removes no more than it must, which needs that the oldest items exist (`OldestItems`, from
the well-foundedness of the naturals). The proof showed that `RecoveryAfterDwell` needed an
exception: one transaction can remove an idle suspicious lane and create a normal one under
its id (`Forgotten`), which the run's clock is too short to reach.

Only model-checked: what the recursive sums of the risk score and the similarity compute,
on which nothing proved depends, and the liveness properties `AllServeAgain`,
`CapacityReturns` and `StreamsEnd`, which are outside the prover's reach.

## Not modelled

Secrets, key derivation and principals are pure functions; configuration,
observability and constants have no protocol. Of the command line, flags, output, the
remote client, the diagnosis and the test programs are left out. Of the standalone
authority, backup, restore and compaction run on a closed file, and the file format and
its migrations are I/O. Of the clustered one, audit and last-seen rows, metrics, the
schema's migrations, the loop over the maintenance jobs, the `not_ready` state of a node
whose behaviour differs, the protocol check at registration and the purge of released
leases are left out. `UpdateStatusCAS`, `BumpRevision`, `Insert`, the memory and file
evidence stores and the memory lane store have no production caller. Of the proxy, header
rewriting, the backend's address checks, the limited listener and the clean-up of the
spool directory are left out; of the observer, only what a request reports once
(`ObserveAdmission`). Of the policy, what its rules evaluate to is data. Lanes of another
feature schema or classification revision, which a rolling upgrade leaves behind, are left
out; so is the row that maintenance of aliases passes over because a touch has it locked.
`SignerRotation` reads the authority's identity in one step where the code takes two queries;
`PepperGenerations` has the two.
