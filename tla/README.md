# BallotProof: verification project

TLA+ models of BallotProof (`src/`), checked with TLC and proved about with
TLAPS. Source paths below are relative to `src/src/ballotproof/`.

BallotProof gathers public election evidence. Its operational core is automatic
acquisition: worker processes that compete for a lease and, under policies that
reviewers sign off, fetch public sources once per slot and keep the raw bytes
with a receipt. Around it are append-only ledgers (evidence, registry,
releases, governance, publication) and pure replay of results.

## 1. The system

| component | state it keeps | operations | what makes it correct |
|---|---|---|---|
| Worker leases (`source_worker.py`, `postgres_leases.py`, `postgres_worker.py`) | one lease row; the handle a process holds; the fencing context | try_acquire, assert_current, release, expiry; run_once, run_forever | one cycle at a time while the lease lasts; a handle that is stale stays stale; a killed worker is replaced |
| Source governance (`source_policy.py`, `source_approval*.py`, approver keys of `auth.py`) | per source: chain of policy snapshots, chain of signed approvals; approver keys | append, authorization, enroll, revoke | no request under a policy that is superseded or not authorized |
| Automation and scheduler (`source_automation.py`, `source_scheduler.py`, `source_api.py`) | plans, run log, reservations | create, pause, resume, due_plans, reserve, defer, advance, add_run | one reservation per key; the rate window; plans move forward; the log is true |
| Transport and capture (`source_transport.py`, `source_ingestion.py`) | execution ledger, raw objects, receipts | execution, execute (bind, claim, send, capture, finish) | one claim, one send, bytes before receipt, receipt before completion |
| Identities (`auth.py`, middleware, `rate_limit.py`) | identities, API keys, audit chain, rate windows | bootstrap, roles, keys, authenticate | an administrator always exists after bootstrap; the audit chain extends |
| Evidence (`storage.py`, `postgres_evidence_*.py`, `write_barrier.py`) | version chains, attestations, extractions, reviews, the barrier's generation | append_version, add_* under the barrier | chains never fork; a release sees no half of a write |
| Registry and jurisdictions (`registry.py`, `jurisdiction*.py`) | snapshot chain per election | append | the chain; profiles bound to snapshots |
| Collation (`collation*.py`, `registry_replay.py`, `aggregation_protocol.py`, `result_protocol.py`) | none | replay | totals agree with a reference sum; every discrepancy is reported |
| Releases (`releases.py`, `release_semantics.py`, `release_v023.py`) | release directories | build, verify, publish | a consistent cut of all ledgers |
| Release governance (`release_governance.py`) | signing keys, key ledger, checkpoints | enroll, revoke, append_checkpoint, verify | what was appended under the rules verifies for ever |
| Publication and witnesses (`release_publication.py`, `postgres_publication_v2.py`, `observer_pins.py`) | immutable objects, pins | publish, verify, witness, pin | a record points only at objects that exist; two views of one sequence are noticed |
| Object storage (`object_storage.py`, `raw_object_storage.py`, `legacy_object_migration.py`) | objects, replicas, retention | put_bytes, read_bytes, migrate | put-if-absent; quorum of replicas |
| PostgreSQL application store and cutover (`postgres_cutover.py`, `postgres_application*.py`, `postgres_runtime.py`) | record ledger, cutover rows, snapshots | migrate, activate, write, view | no write on the wrong side of the cutover |
| HTTP, CLI, web, deployment | none | wiring | out of scope |

How they interact: a worker calls, in this order, lease -> due_plans ->
authorization -> latest policy -> reservation ledger -> execution ledger ->
policy again -> claim -> transport -> raw store -> receipt -> finish -> plan row
-> run log, each in a transaction (or external effect) of its own. API requests
change the same rows between any two of them. With PostgreSQL the mutations are
preceded by a fencing check, itself a separate transaction.

What is hard: the interleavings of two workers that both believe they hold the
lease, values read early and used late (`now`, the plan row, the policy), kills
between any two transactions, and the absence of any transaction that spans two
ledgers. `PROJECT.json` lists these as hazards, each at its line.

## 2. Modules

| module | role |
|---|---|
| `WorkerLease` | both lease stores; `Fenced` chooses the one that is deployed |
| `SourceGovernance` | policies, approvals and approver keys |
| `Acquisition` | extends both: workers, plans, reservations, executions, receipts, API, kills and time |
| `OneShotRequest` | the abstract specification of one request |
| `AcquisitionProperties` | the properties, and the refinement mapping to `OneShotRequest` |
| `MCAcquisition` | instances for TLC |
| `LedgerRecords` | the rows of the evidence and registry stores, hash chains, the records of a release and their semantic form, as operators |
| `AtomicLedger` | the abstract specification of an append-only ledger with releases |
| `EvidenceLedger` | SQLite stores, write barrier and release builds, step by step; implements `AtomicLedger` |
| `ApplicationCutover` | the move to PostgreSQL: migrations, activation, native writes, snapshots; the SQLite side is `AtomicLedger` |
| `ObjectStorage` | immutable objects on replicas |
| `ReleasePublication` | builds and governed publications on `ObjectStorage`, with `ReleaseGovernance` beside them; readers and witnesses |
| `CollationReplay` | `replay_collation`: one aggregation edge, as operators |
| `CollationGraph` | `replay_collation_graph` on `CollationReplay`, pass by pass |
| `ReleaseGovernance` | signing keys, key ledger and checkpoints, with their properties |
| `MCReleaseGovernance`, `MCEvidenceLedger`, `MCApplicationCutover`, `MCReleasePublication`, `MCCollationGraph` | instances for TLC |
| `AcquisitionProofs` | proofs of type correctness, exclusive claims and the refinement, then about leases, the run log, quarantine, receipts, slots, the rate gate and withdrawn authority |
| `CollationProofs` | proofs about the replay of graphs, its totals and its verdict |
| `GovernanceProofs` | proofs about keys, their ledger and checkpoints |
| `FiniteSums` | lemmas about sums over finite sets, and induction over finite sets |
| `LedgerProofs` | lemmas about the inserts, the reads and the normalisation of `LedgerRecords` |
| `EvidenceProofs` | proofs about the evidence store and release builds: soundness, the refinement, counting, growth |
| `CutoverProofs` | proofs about cutovers, the chains they continue and snapshots |
| `PublicationProofs` | proofs about publications |

### How the state corresponds

- `lease` is the only row of the lease table; `live` stands for "expires_at is
  in the future". `held[w]` is the token of the handle in the process's memory
  (`_held_tokens` and the `FencingContext`, which change together). The SQLite
  row has no token; there 1 only means that a lease is held.
- `policies[s]` and `approvals[s]` are the chains of a source. A snapshot is its
  version, which determines its hash.
- `plans`, `runs`, `reservations`, `executions`, `receipts` are the tables of
  those names, `objects` the raw store, by request key. `reservation_id` is
  one-to-one with the key, as plans only use attempt 1. `sends` is a history
  variable: how often `transport.send` was called.
- `pc[w]`, `job[w]` are the control point and the local variables of
  `run_once`, `_run_plan` and `execute`; `job[w].now` is `evaluated_at`,
  `job[w].batch` the plans read by `due_plans` and not yet run. `Slot(key)` is
  the plan's `next_run_at` as it was read then, not as it is now.
- `ok[w]` is TRUE between a passed fencing check and the mutation it guards.

A worker's actions follow `run_once`: `StartCycle`, `AcquireLease` /
`InsertConflicts` / `Standby` / `ContendFails`, `SelectDue`, then for every plan
`Authorize`, `CheckPolicy`, `Lookup`, `Reserve`, `Recover`, `Validate`, `Claim`,
`Send`, `Store`, `WriteReceipt`, `Finish`, `Move` (set_enabled, defer or
advance), `Log`, and `ReleaseLease`. `ExecuteRaises` is the `except Exception`
around `execute()`: between its first check and the end of `_finish` it may
leave the ledgers as they are, with the reservation unused or the execution
claimed, and the run is logged as failed and the plan advances. `FencePasses` and
`FenceRefuses` are the checks of the `Guarded*` wrappers. `Crash` kills a process at any step;
`Restart` starts another. The environment is `Govern`, `Tick`, `Expire` and the
API: check and write of the create, resume and reserve endpoints are separate
steps, because the code uses separate transactions; pause is one.

In `ReleaseGovernance` every call has two steps, since the store reads the time
(enroll, revoke) or the signer's row (checkpoint) before `BEGIN IMMEDIATE`.
`keyRows`, `keyEvents` and `checkpoints` are its tables. The clock ticks at each
step; `at` is the timestamp the record carries, `committed` and `began` are
history variables that say when things happened.

In `EvidenceLedger`, `ledger` is the content of `ballotproof.sqlite3` and
`registry.sqlite3`, `barrier` the lock and the generation of
`release-barrier.sqlite3`, `objects` the artifact directory, `directory` a
release directory, file by file. `tasks[p]` is the call that process p is in. A
write takes the barrier (`BeginWrite`), reads and checks (`ReadAndCheck`),
commits its data (`CommitData`) and then the barrier (`CommitBarrier`); an
upload stores its bytes before (`PutArtifact`). A build takes the barrier,
reads one SELECT per step (`Collect`), signs, and replaces one file per step.
`Crash` may come between any two; the operating system then drops the locks. A
commit of the barrier that fails without a kill (`write_barrier.py:55-58`) leaves
what a crash before `CommitBarrier` leaves: the data, and the old generation. A
hash is the sequence of the row bodies it commits to, so chains are compared
without collisions.

In `ApplicationCutover` the SQLite side is `AtomicLedger`, which
`EvidenceLedger` is shown to implement, guarded by its barrier. A PostgreSQL
call is a lock of its stream with the reads under it (`LockWrite`,
`BeginNative`, `LockMigration`) and a commit; `Rollback` ends a call at any
step. `application`, `cutovers` and `snapshots` are the tables of those names.

In `ReleasePublication` a file is the number of the release it is from;
`tasks[p].record` collects what `publish_governed_release` (and the PostgreSQL
variant) read, in the order of its reads, and becomes the publication record.
Governance is `ReleaseGovernance`, whose steps come in between. `Verified` is
what the reader's verification computes, `Statement` and `Equivocal` what
witnesses and `detect_witness_equivocations` make of it.

In `CollationGraph`, `request` is the validated graph, `reports` the dictionary
of the replay, `next` and `progressed` its loop. `Misnamed` are the leaf ids that
the request admits and `CollationInput` does not (empty, or longer than 256);
like a negative declaration they make the replay raise in mid-graph (`Raise`).

### Abstractions

- Reads that no later change can contradict are merged: `latest` and
  `authorization` in one step, because versions only grow and a revoked key
  never comes back.
- A snapshot's hash, a request's URL and method, byte limits and media types
  only lead to outcomes that the model has as alternatives (`Store` and
  `WriteReceipt` may fail for any reason).
- Attempts after the first and their backoff belong to callers of the API;
  automation always passes attempt 1, and so do the modelled requests.
- Heartbeats (`WorkerStateStore`) are not read by acquisition. A database
  transaction that raises has had no effect. Within `execute()` such an error is
  `ExecuteRaises`; in any other store call it ends the cycle like a kill, except
  that the lease is released, and only the kill is modelled.
- `reserve` may refuse for reasons that the model does not tell apart (a request
  that the policy does not permit, a source without a time at which it is next
  allowed); such a refusal is an unconditional alternative of `Reserve` and
  `ApiReserve`.
- A restarted process has a new `worker_id`. The model reuses the name of a dead
  one once the lease row no longer names it or has expired, when the two cannot
  be told apart. Two live processes never share an id.
- The API has one request in flight at a time.
- A release key event's number and hash link are its place in the sequence, and
  a release is verified and its signature valid: what the verifiers do with
  records altered outside the store is not modelled, nor is the check that a new
  key's owner is not disabled. Calls refused before their transaction are no
  steps. An operator killed between its two steps is one that never takes the
  second.
- A release's exports are renderings of its records, so a file is as good as the
  records it was made from; Merkle roots and signatures are taken as injective.
  A temporary file is written and renamed in one step: two PostgreSQL builds
  into one directory, which nothing keeps apart, share temporary names, and a
  torn file that this can produce is not modelled (it fails verification like a
  foreign one).
- Verification of a directory, and the verdict on the checkpoint chain
  (`JudgeChain`), are one step each, although they read several times.
- PostgreSQL transactions are READ COMMITTED with advisory locks that end with
  them, as the code asks for; a release view is one REPEATABLE READ snapshot.
- A candidate's votes are small integers; levels and names carry no meaning in
  the replay. Uniqueness of names is built into sets and functions.


## 3. What is checked

| run | instance | what it shows |
|---|---|---|
| `acq_fenced` | PostgreSQL leases that expire at any moment, two workers, one plan, one kill | `ClaimsAreExclusive` and `RequestsAreOneShot`: whatever happens to leases, a request is consumed once, sent at most once, completed only with bytes and one receipt, and final. `LogIsTruthful`: a run is logged as completed only if its execution is. `StaleStaysStale`: although `release` deletes the row and tokens start again at 1, a handle that is stale never becomes current |
| `acq_exclusive` | the SQLite lease, sized as the constructor demands, two workers, two slots, one kill, fairness | `OneCycleAtATime`; what depends on it: `FailedRunsAreOver` (a request whose run failed is not touched again, wherever `execute()` raised), `QuarantineIsFinal`, `SlotsNeverRegress`; and liveness: `DuePlanProgresses`, `AmbiguousClaimStopsPlan` |
| `acq_governed` | two policy versions, two approval events, one key, a worker with and one without a transport, API reservations | `ReceiptsAreBound`: a receipt names the policy its reservation was made under, which a reviewer approved. `WithdrawnAuthorityStopsSending`: once authority is gone for good, a worker that was idle sends nothing more |
| `acq_rate` | one worker, two plans, two starts of the window, limit 1 | `RateWindow`: no minute holds more reservations than the limit |
| `acq_rate_race` | the same with two workers | a violation of `RateWindow`, see below |
| `acq_stale_capture` | two fenced workers | a violation of `StaleCaptureIsRefused`, see below |
| `governance` | two operators, two keys, two releases of one election | `LedgerMatchesRows`, `CheckpointedOnce`, and `OnlyOverlapBreaksChain`: a checkpoint fails verification only if its call overlapped a revocation of its key |
| `governance_race` | the same | a violation of `RevocationIsProspective`, see below |
| `evidence` | two processes, two elections, one evidence id with up to two versions, two extraction ids, two releases, one kill | `ImplementsAtomicLedger`: two databases and a release command behave like one ledger written in single steps, and a release is a cut of it. `EvidenceIsSound`: chains neither fork nor name bytes that are missing. `ReleasesAreClosed`: a release resolves its references even when an evidence id moves between elections. `VerifiedDirectoryIsOneRelease`: no mixture of interrupted builds verifies. `ReleasesOnlyGrow`, semantically too. `GenerationCountsWrites`: the barrier misses only writes that were cut off between the two commits |
| `cutover` | two processes, two elections, one evidence id, two extraction ids (an extraction may supersede the other), three rows on either side, two snapshots | `ClosedUntilCutover`, `CutoverIsFinal`, `CutoverLosesNothing`: the authoritative records of an election only grow, whichever side they are on; `ViewsAreClosed`: a PostgreSQL release resolves its references; `OnlyMovedEvidenceBreaksChains`: native appends continue the copied chains; `SnapshotsOnlyGrow` |
| `publication` | two processes that build and publish two releases, both kinds, two replicas that must both confirm, one key, two operators, four calls | `PublishedIsComplete`: a record that can be read, whether its write was acknowledged or not, points only at objects that exist; `RefutedOnlyByRevocationUnderWay`: a publication carries a copy of the key ledger that goes out of date, and the ledger as it goes on contradicts the published chain only by a revocation that overlapped the call of the checkpoint; `OnlyRebuildsSpoilPublications`: it verifies unless its files were rebuilt meanwhile; `VerifiedPublicationsLast`; `EquivocationsAreRepublications`: an honest witness looks like an equivocator only when one release was published again after a key event |
| `collation` | every acyclic graph of three nodes and two leaves with at most two children each, whole or with missing leaves, missing or extra candidates, one right, wrong, negative or overlong declaration; the same with an empty leaf id | `VerifiedTotalsAreSound`: verified totals are the votes of the leaves, over all levels; `VerdictIsExact`: a graph is verified exactly when nothing is missing and everything adds up; `GraphsAreReplayed`: every accepted graph is reported, unless a negative declaration, or a leaf id that is empty or too long, stops it in mid-graph |

### Disagreements with the documents

- **Rate gate.** `docs/SOURCE_GOVERNANCE.md:28` says that reservations count
  immediately, so that concurrent workers cannot all pass the gate. `run_once`
  fixes `now` before it asks for the lease (`source_worker.py:402`), and
  `reserve` counts reservations in (now - 1 minute, now]
  (`source_scheduler.py:184`). A worker that reaches the gate after another has
  reserved at a later `now` does not count that reservation and adds its own,
  with an earlier date. In `acq_rate_race` two workers, one cycle at a time,
  get two reservations into one window of limit 1.
- **Fencing of captures.** `docs/RAW_OBJECT_STORAGE.md:52` says that a stale
  worker cannot persist a protected capture. `postgres_worker.py:172` hands the
  executor the unguarded receipt store (the guarded one of line 167 goes to the
  acquisition worker, which only reads from it). In `acq_stale_capture` a worker
  loses the lease while sending and stores its receipt all the same. The
  following `_finish` is refused, so the execution stays claimed.
- **Revocation.** `docs/RELEASE_KEY_TRANSPARENCY.md:31` says that a revoked key
  cannot create a checkpoint. `append_checkpoint` looks at the key
  (`release_governance.py:387`) before its transaction and not again. In
  `governance_race` the key is revoked in between, and the checkpoint that
  follows makes the election's chain fail verification from then on. The reverse
  also happens: `revoke_release_signing_key` takes the time at line 264 before
  it waits for the database, so a checkpoint committed before the revocation may
  carry a later time and fail too. `OnlyOverlapBreaksChain` shows that there is
  no third way.

### What does not hold without exclusion

`FailedRunsAreOver`, `QuarantineIsFinal` and `SlotsNeverRegress` need cycles that
exclude each other. They are stated for a lease that outlasts the cycle
(`LeaseCoversCycle`, what the constructor's bound on `lease_seconds` is for).
Without it:

- a second worker may quarantine a request that the first then completes;
- a late `advance` moves the plan back, since it starts from the plan row as it
  was read;
- a request whose run was logged as failed may be sent after all. `_run_plan`
  catches whatever `execute()` raises (`source_automation.py:493-509`), logs a
  failed run and advances. If the error came before the claim, the reservation
  is still unused, and if a late `advance` then puts the plan back to the slot,
  the next cycle finds it, claims it and sends. A worker that was overtaken
  after its check of the claim does the same without any move of the plan.

Fencing is not enough for any of the three, because `assert_current` is a
transaction of its own (`postgres_worker.py:27`, `postgres_leases.py:148-173`),
over before the mutation begins. It narrows the gap and does not close it, where
`docs/POSTGRES_RUNTIME.md:54` says that such mutations "are rejected when the
worker no longer owns the current fencing token". To see a counterexample, check
`FailedRunsAreOver` in `acq_fenced` with `MaxTime = 1`. The one-shot properties need neither,
and are proved for both stores without that assumption.

### What the other runs taught

- *Moved evidence.* On SQLite an evidence id may go on under another election.
  Releases stay closed, because they are collected version by version, but a
  migration copies one election and so only a part of the chain: the next native
  append then continues from what is there. That is the one exception in
  `OnlyMovedEvidenceBreaksChains`. PostgreSQL refuses such moves itself.
- *Native activation* does not look at SQLite. An election with SQLite records
  that is activated as native leaves them behind, the exception in
  `CutoverLosesNothing`.
- *Replicas.* With fewer confirmations required than there are replicas, a
  publisher that was overtaken may leave its bytes on a lagging replica, reads
  then differ, and a verified publication may stop verifying. The `publication`
  run requires all of them.
- *Republication* after a key event gives a release a second publication digest
  at the same sequence. Two honest statements about it count as an equivocation.
- *A shared leaf* of a collation graph counts once for every way down to it, and
  a declaration is compared with the sum over the units that are there, also
  when a unit is missing, so that an incomplete node may be "failed". Both are
  what the tests of the code expect.

### Bounds

- two workers: every property relates at most two of them; one holder and one
  that is late, or one that died and its successor;
- one or two plans of one source: a lease, a rate window and a governance chain
  are shared by all plans of a source, and plans interact through nothing else;
- `MaxTime` 0 to 2, `Window` 1 or 2, `Interval` 1: enough for a slot to be run,
  deferred past the window and found again; where the clock stands still
  (`acq_fenced`, `acq_governed`) the subject is interleaving, and leases expire
  independently of the clock;
- `MaxToken` 3: the lease changes hands twice by expiry, and starts over any
  number of times by release; `MaxCrashes` 1;
- `MaxVersions` and `MaxEvents` 2 where governance is the subject, 1 where it
  only has to let a plan start.
- release governance: two operators (a race needs two), a key that is revoked
  and one that is not, two releases so that a chain has a second link;
  `MaxTime` 9 admits five complete calls, e.g. two enrollments, two checkpoints and a
  revocation, in any interleaving.

- evidence: two processes (a writer against a writer or a build), two elections
  so that evidence can move, four counted writes, which make a chain of two with
  an attestation or an extraction on it, or an extraction that supersedes one
  with a review; two releases to compare;
- cutover: three rows on each side give a registry row, an evidence version and
  something that refers to it, or two versions of which one moved; two snapshots
  for their order. On the PostgreSQL side an extraction supersedes another within
  these bounds. A superseding extraction that was filed on SQLite and migrated
  takes a fourth row there (registry, evidence, two extractions) and is beyond
  the run; `ViewsStayClosed` covers it;
- publication: a build or a publication is a call, four of them allow a
  release, its publication, a rebuild and another publication; `MaxTime` 5
  admits three calls, an enrollment, a checkpoint and a revocation, and two
  operators let the last two overlap, before the release is published or
  meanwhile;
- collation: three nodes make the shortest graph in which a grandparent can go
  wrong, a chain, and the smallest diamond over a leaf; one declaration is
  enough, because each is compared on its own. Leaf ids that stop the replay are
  tried in graphs without declarations, since one cause is enough to stop it.

Symmetry is used only in `acq_fenced`, `acq_rate`, `evidence`, `cutover`,
`publication` and the `governance` runs, which check no liveness. Deadlock is checked in the passing
acquisition runs; the governance runs end when the clock's bound is reached and
no call is open, because operators may stop calling; the other runs end when
their bounds are used up, or the replay is over.

### Fairness

`FairSpec` assumes that a running worker process keeps taking steps (each is a
bounded call, and `run_forever` loops), that a killed process is started again
(deployments restart their containers), and that the lease of a dead holder
runs out (`expires_at` is absolute). Nothing is assumed of the operator, the API
or the clock. Liveness is checked for the lease that outlasts the cycle. With
leases that expire at any moment nothing of the kind can be expected: two
workers may take the lease from each other for ever.

`CollationGraph` assumes weak fairness of `Next`: a function that was called
runs until it returns or raises. The other modules are checked for safety only;
their calls end by their callers' choice.

## 4. What is proved

For all values of the constants, under the assumptions `LeaseConstants`,
`GovernanceConstants` and `AcquisitionConstants` of acquisition,
`CollationConstants`, `ReleaseConstants`, `RecordsFirst`, `EvidenceConstants`,
`IdsAreFinite`, `CutoverConstants`, `PublicationConstants` and
`ReplicaThreshold` of the others. They say that bounds are numbers and that
marks like `NoProcess` are no processes, what the file names of a release are,
that a collation request has finitely many leaves whose totals are integers by
candidate, and that elections and evidence ids are finitely many (`Rows` is a
sum over them). TLC evaluates each in the runs of its module:

- `TypeCorrect == Spec => []TypeOK`. `TypeOK` is not inductive: what a worker
  writes to a ledger depends on its local variables having been set. `Types`
  adds that: `JobFits` says of each step which of them are meaningful there
  (the current key is a plan's and its slot not after `now`, so that `NextSlot`
  is a natural; `status` is set from `Move` on, `result` at `Finish`), with one
  lemma per group of actions.
- `ClaimsStayExclusive == Spec => []ClaimsAreExclusive`, for either store, any
  number of workers, and without any assumption on leases. Inductive invariant:
  `RequestInv == Types /\ PlansKnown /\ ClaimsAreExclusive`. `PlansKnown` says
  that a worker's keys belong to plans that exist, hence have a policy version,
  so that an inserted reservation differs from a missing one. The heart of the
  argument is `OwnerStep`: after the claim a request's rows are written by its
  owner alone; every other step leaves them alone or is refused by `Claimable`.
- `LedgersAreOneShot == Spec => RequestsAreOneShot`: `Acquisition` implements
  `OneShotRequest` under the mapping of `AcquisitionProperties`, step by step
  from `RequestInv`.
- On top of `RequestInv`, for any number of workers and plans. The hypotheses say which deployment the promise needs:
  - none: `StaleHandlesStayStale == Spec => StaleStaysStale`; `LogStaysTruthful ==
    Spec => []LogIsTruthful`, strengthened to the statuses that workers are about
    to log (`Reports`); `ReceiptsStayBound == Spec => []ReceiptsAreBound`, with
    `ReceiptsFit` (a worker past `Validate` has a reservation of its plan's
    version) and `PlansAreGrounded` (the version of a plan, or of a request in
    flight that creates one, has been approved at some time).
    `WithdrawnStopsSending == Spec => WithdrawnAuthorityStopsSending`: a snapshot
    that is superseded or disapproved does not become current again
    (`WithdrawnStays`, from `PlansAreGrounded`), and a worker that was between
    cycles then stays `Barred`: it is past neither of its two checks, or between
    them and will fail the second.
  - `LeaseCoversCycle`: `CyclesAreExclusive`, from `LeaseHeld` (a worker in its
    cycle is the holder of a live row); `QuarantineStaysFinal`, from
    `QuarantinedAreAbandoned` (nobody works on a request that is quarantined or
    about to be); `SlotsStayAhead`, from `PlansAreCurrent` (the slot in a
    worker's key or batch is the plan's until the worker itself moves it);
    `FailedRunsStayOver`, from `FailuresArePast` on top of these (the plan of a
    failed run is past its slot, so that no worker, which works on the slot at
    which it finds the plan, has the key of that run).
  - one worker and `ApiKeys = {}`: `RateStaysWithinWindow == Spec => []RateWindow`.
    The gate counts reservations up to the `now` of its caller. `RateFits` says
    that with one worker there are none after it, so that a window that ends later
    holds at most those that the gate counted and the new one. Run
    `acq_rate_race` shows what happens without the hypothesis.

- `VerifiedSupported == Spec => []VerifiedIsSupported` and
  `GraphsResolve == Spec => []Resolved`, for any well-formed graph, votes
  and order of the names. Inductive invariant: `ReplayInv == PlacesOK /\
  VerifiedIsSupported /\ PassIsThorough /\ Resolved`. `VerifiedEdge` takes
  apart what `replay_collation` checks of one edge. `PassIsThorough` says that
  the nodes a pass went by without progress were not ready; but a well-formed
  graph with nodes left has a lowest one, which is ready, so a pass without
  progress leaves none.
- `TotalsAreSound == Spec => []VerifiedTotalsAreSound` and `ExactVerdict == Spec
  => []VerdictIsExact`. Inductive invariant, on top of `ReplayInv`: `TotalsInv ==
  VerifiedTotalsAreSound /\ NothingWithheld /\ StatusesOK`. The replay adds up
  children, the property counts the votes of a leaf once for every path down to
  it. The proof takes a path apart into its first step and a path below that
  child, and regroups the sum accordingly, with the lemmas of `FiniteSums`.
  `NothingWithheld` is the other direction of the verdict: where nothing is
  missing and everything adds up, each node that is replayed is verified.
- `GovernanceTypeCorrect == Spec => []TypeOK`, `ReleasesAreCheckpointedOnce ==
  Spec => []CheckpointedOnce`, `ChainsBreakByOverlapOnly == Spec =>
  []OnlyOverlapBreaksChain`, `LedgerAlwaysMatchesRows == Spec =>
  []LedgerMatchesRows`. Inductive invariant: `GovernanceInv == TypeOK /\
  RowsOK /\ CallsOK /\ CheckpointsOK /\ CheckpointedOnce`. What a checkpoint
  call found out about its signer is not true when the transaction runs; what
  stays true is `EnrolledFor(key, since)`, that the ledger enrolls the key and
  that its revocations, if any, committed after the call began. `CallsOK` says
  so of calls, `CheckpointsOK` of what they append. `LedgerMatchesRows` is
  inductive beside `GovernanceInv`: row and event change in one transaction, which
  looks at the row again.
- `CutoverTypeCorrect == Spec => []TypeOK`, `CutoversAreFinal == Spec =>
  CutoverIsFinal`, `NothingIsLost == Spec => CutoverLosesNothing`,
  `ElectionsAreClosedUntilCutover == Spec => []ClosedUntilCutover`,
  `ViewsStayClosed == Spec => []ViewsAreClosed`, `NativeAppendsContinue == Spec =>
  []OnlyMovedEvidenceBreaksChains` and `LatestSnapshotsGrow == Spec =>
  SnapshotsOnlyGrow`, without the bounds of the runs on elections, processes and
  rows. Six invariants build on each other. `CutoverInv`: whoever changes a cutover row has its stream lock, so
  what a migration saw under the lock (`StillMayMigrate`) holds when it commits;
  a migrated election keeps its source (`Kept`). `SourceInv`: under the write
  barrier the records that a migration collected stay those of SQLite
  (`SourceIsCurrent`). `GateInv`: a call that is about to insert has an election
  with a cutover row. `ViewInv`, on top of the first two: `AppFits` (PostgreSQL's
  unique index holds across elections, and each record's references are resolved
  in the record's own election), `InsertsFit` (what a call has looked up and is
  about to insert still resolves, because records never disappear), `LegacyFits`
  (the rows of SQLite know their place and an evidence id is given once, so that
  a migrated election's view is closed as well). `ChainInv`, on top of all of
  these: the rows of a stream form a verified chain, an evidence id that SQLite
  moved excepted, and a row that waits to be inserted is the next of its chain,
  or will be refused by the unique index, or is of such an id (`Waits`); it waits
  under the lock of its stream. A migration might spoil this. But it copies
  nothing new into an election that it finds migrated, and into another one the
  versions of an id all together or not at all. `SnapshotsFit`: SQLite still
  holds all that a snapshot copied, so that the next copy, made under the
  barrier, contains it. `LedgerProofs` supplies that each insert of the SQLite
  stores extends the ledger, and that `collect_release_records` then yields no
  fewer records.

- All properties of run `evidence`: `EvidenceTypes`, `EvidenceStaysSound`,
  `ReleasesStayClosed`, `VerifiedStaysOneRelease` and `WritesAreCounted` (`Spec =>
  []P` for its invariants), `EvidenceImplementsAtomicLedger == Spec =>
  ImplementsAtomicLedger` and `LaterReleasesGrow == Spec => ReleasesOnlyGrow`.
  Inductive invariant: `EvidenceInv`. A process that holds the barrier knows more
  than the tables say: what a write has checked is still true (`Checked`), what a
  build has collected and what its remaining queries would return now are
  together all records of the election (`Collected`), and the files it has
  written are those of its release (`Written`). `Collected` is why a release is a
  cut of the ledger: each query of `collect_release_records` may be replaced by
  its answer and the queries that follow from it. `LedgerFits` of `LedgerProofs`
  says which rows refer to which, and `FittingIsClosed` that then the records of
  an election are closed and have distinct keys.
  - `WritesAreCounted` adds `CountInv`. Each commit of data adds at most one row
    (an attestation may be there already), and at most one row at a time waits to be
    counted, that of the barrier's holder.
  - `LaterReleasesGrow` adds `MeaningInv`. That a release is a cut of the ledger
    gives the records of an earlier one. For the semantic content it has to be
    shown that the recursive normalisation of extractions is defined at all, and
    the same in both releases: `Founded` says that every set of extractions that
    is closed under `supersedes` has exactly one meaning. It is kept because an
    extraction only ever supersedes one that was there before
    (`FoundedGrows`); what a closed part means is then what it means in the whole
    (`SenseRestricts`, `SemanticsGrow`).

- In `PublicationProofs`, all properties of run `publication`, for any number of
  operators, processes, replicas, exports, builds and publications:
  - no hypothesis: `OnlyARevocationUnderWayRefutes == Spec =>
    []RefutedOnlyByRevocationUnderWay` and `EquivocationsAreOfOneRelease == Spec =>
    []EquivocationsAreRepublications`.
    Inductive invariant: `Shape /\ History`. `Shape` says how far a call has got
    (one reference per file put); `History`, that the chain in a record stays a
    prefix of the election's chain, since checkpoints are only appended, and that
    a file which was written is not absent again. Two chains of one election and
    length are therefore equal, end in one checkpoint and bind one release.
    `Copies` adds what the first needs: the revocations that a copy of the key
    ledger lacks were committed after the checkpoints of the chain beside it, and
    those that it has were taken into account by the verdict.
  - `AllMustConfirm`, the default of `minimum_replicas`:
    `PublicationsAreComplete`, `VerifiedPublicationsStayVerified`. `Stored`: what a
    call has put, every replica holds; nothing replaces it there, so it is what
    any reader gets. Run `publication` is such an instance, and section 3 says what
    happens with fewer confirmations.
  - `UndisturbedPublicationsVerify`, on top of these with `QuietInv`, which needs
    no hypothesis: a call whose manifest is not in `overtaken` still finds one
    release in the directory and has copied nothing else (`Undisturbed`); the
    data under an address are the release it names, or its files were rebuilt
    (`OwnBytes`). A summary has an address of its own: two builds may mix, so the
    publication of one release may read the summary of another. That this does no
    harm rests on `Gone`: a build writes the summary last, so one that was
    overwritten never comes back.

Left to TLC: liveness under fairness (`DuePlanProgresses`,
`AmbiguousClaimStopsPlan`, `GraphsAreReplayed`), since the prover does not reason
about `ENABLED`; and the three disagreements, which are counterexamples. Every
other property of the runs is a theorem. Of these, `CyclesAreExclusive`,
`QuarantineStaysFinal`, `SlotsStayAhead`, `FailedRunsStayOver`,
`RateStaysWithinWindow` and three about publications have the hypotheses named
above, and each of these holds in the instance that the run checks.

## 5. What is not modelled

- Identities, roles and API keys (`auth.py` beyond approver and signing keys),
  the identity check of enrollment, and with them the bootstrap, which is three
  transactions without a promise to check.
- Observer pins: one transaction over one table.
- Attempts and backoff of API reservations; the append of an approval as two
  steps (a key that is revoked in between signs an approval that authorizes
  nothing).
- The pure checks of `result_protocol.py`, `reconciliation.py`,
  `validation.py`, `aggregation_protocol.py` and `registry_replay.py`.
- Raw object storage beyond one put, retention, the migration of legacy objects.
- Timestamps as text: `next_run_at` is compared as a string, and the model's
  clock has no offsets.
- What has no state or is only I/O: request and network security, source
  adapters, middleware, command lines, web application, deployment, Merkle
  trees, file formats.

The next step worth taking: `Identity`, with the identity check of enrollment.

## 6. Running

In this directory: `tlc -workers 2 -config acq_fenced.cfg MCAcquisition` (the
same for the other configurations), `tlapm AcquisitionProofs.tla` (the
same for the other modules with proofs).
