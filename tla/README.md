# TLA+ models and proofs of CDNgine

CDNgine accepts uploads of assets, canonicalizes each version into a source
repository, hands it to publication workflows through an outbox, and authorizes
reads of what was published. This directory holds TLA+ models of the parts of it
that several actors change at once, the TLC runs that check small instances of
them, and TLAPS proofs of what matters most, for every size of the system.

The models are translated from the code (paths below are from the repository's
root), in particular from the Prisma stores under `packages/registry/src`, which
are the ones a deployment uses. `PROJECT.json` maps every definition to the lines
it stands for.

## 1. The system

### Parts, their state, their operations

| Part | Code | State | Operations |
| --- | --- | --- | --- |
| Upload sessions | `packages/registry/src/prisma-upload-session-store.ts`, `apps/api/src/public/upload-session-routes.ts` | `UploadSession`, `AssetVersion`, `Asset`, `IdempotencyRecord`, `WorkflowDispatch` rows | `issueUploadSession`, `completeUploadSession` |
| Source repository | `packages/storage/src/{xet,kopia}-source-repository.ts` and others | external: snapshots with a canonical source id | `snapshotFromPath`, called between the two transactions of a completion |
| Workflow dispatch | `packages/workflows/src/dispatch-runtime.ts`, `packages/registry/src/prisma-workflow-dispatch-store.ts` | `WorkflowDispatch` (state, versionToken), `WorkflowRun` | `claimPendingDispatches`, `recordStarted`, `recordDuplicate`, `recordFailed...`, driven by `dispatchPending` |
| Workflow engine | Temporal behind `temporal-workflow-client.ts` | external: executions by workflow id | `start` |
| Execution projection | `packages/registry/src/prisma-workflow-execution-store.ts` | `WorkflowRun.state`, `AssetVersion.lifecycleState` | `markRunning`, `markCompleted`, `markFailedRetryable` |
| Publication | `apps/workers/src/publication-worker-runtime.ts`, the generic, image and presentation workflows of `packages/workflows/src` and their `prisma-*-publication-store.ts` | `Derivative`, `AssetManifest`, `AssetVersion`; objects in the derived store | `executeWorkflow`: list targets, begin, publish objects, publish rows, mark |
| Reads and links | `packages/registry/src/prisma-public-version-read-store.ts`, `apps/api/src/public/delivery-routes.ts` | `SourceAccessGrant`, `DeliveryAuthorizationAudit`, `IdempotencyRecord` | `authorizeDelivery`, `authorizeSource`, `consumeDownloadLink`, plain reads |
| Operator control | `apps/api/src/operator/operator-service.ts` | versions, workflow summaries, audit events, all in memory | `reprocessVersion`, `quarantineVersion`, `releaseVersion`, `purgeVersion`, diagnostics |
| Local public runtime | `apps/demo/scripts/public-runtime-app.mjs` over `apps/api/src/upload-session-service.ts` | maps of sessions, versions, idempotency records and published rows; the JSON file they are saved to; staged and derived objects | issue, `PATCH /uploads`, complete, publish, `publishPendingUploads` at start, reads |
| Output workflows | `apps/api/src/public/output-workflow-service.ts` | runs by idempotency key, in memory | `triggerOutputWorkflow` |
| In-memory twins | `apps/api/src/public/delivery-service.ts`, `packages/registry/src/*-store.ts` | the same state in maps | the same operations, atomic |
| API plumbing, auth | `apps/api/src/*.ts`, `packages/auth` | none of their own between requests | authenticate, scope, validate, map errors |
| SDK | `packages/sdk/src/public-client.ts` | a client's progress | `uploadFile`, `waitForVersion` |
| The rest | capabilities, manifest builders, observability, operator console, demo, scripts, contracts, docs | none that the above reads back | |

### How they interact

An upload goes `issueUploadSession` -> (bytes to staging) ->
`completeUploadSession`. A completion is a lookup of its idempotency record, a
first transaction (`uploaded`, `canonicalizing`), a snapshot outside any
transaction, a second transaction (source id, `canonical`, the asset's pointer,
the `WorkflowDispatch` row, the idempotency record) and a catch block
(`failed_retryable`). A dispatcher claims the row by compare-and-set, starts the
workflow, and records the outcome. The engine runs `executeWorkflow`, which
writes the same `WorkflowRun` row the dispatcher writes, puts objects and then
publishes rows; the version becomes `published` and deliveries of it can be
authorized. All of them share `AssetVersion.lifecycleState`, and most of the
updates name the row by id alone.

The local public runtime does all of it in one process: it publishes a version
inside the call that completed it, saves everything it knows to one file, and
when it is started again publishes what the file says is pending before it
answers any read. Its store is the in-memory one, which awaits the repository,
so calls interleave there too, and so do calls and the replay.

### What is hard

- Transactions run at READ COMMITTED and read before they write: what they read
  may be stale when they write. Both the upload and the dispatch store rely on a
  condition in one statement and an update by id in a later one.
- Calls to the repository, to Temporal and to the object store lie between
  transactions; the process may die there, and answers may be lost after the effect.
- Callers retry, with the same key or another one, at the same time or later.
- Executions of a version overlap; they share object keys but not rows.
- The local runtime saves all of memory whenever one call saves, so a restart may
  begin from what another call had half done; and it removes its file before it
  writes it again.
- An operator's reprocess restores a source between its check and its write.
- Unique indexes (idempotency key, version number, canonical source id, workflow
  id, deterministic key) decide races, and their violation is an error path.

`PROJECT.json` lists these as hazards, each at its line with the properties that
would catch it.

### What makes each part correct

- Upload sessions: one session per key; source, pointer and dispatch come
  together; a success is replayable for ever; one key is one request; a canonical
  source never changes; nobody is left in `canonicalizing`.
- Dispatch: one dispatcher per row; a record hits the row that was checked and is
  true of the engine; one execution per claim; every intent settles.
- Publication: `published` means durable; rows follow objects; the manifest row
  matches the manifest object; a version taken into `processing` leaves it.
- Links: one grant per key, answered alike to every retry; a told link works
  until it is used; it opens once.
- Operator control: state, summary and audit trail agree; only an audited release
  lifts a quarantine, and nothing a purge.
- Local runtime: what a caller was told survives a restart; one key creates one
  session; a published version can be served; what was accepted is published.
- Output workflows: one run per key and request.

## 2. The modules

| Module | Models |
| --- | --- |
| `DispatchContract` | what the outbox promises: the lifecycle of an intent and its relation to what the engine accepted |
| `WorkflowDispatch` | the outbox rows, the dispatchers, the engine, the run projection; it implements `DispatchContract` |
| `UploadSession` | issue and completion of the upload sessions of one asset, with the repository, and the publication workflow's effect on the version |
| `Publication` | executions of the publication workflow on one version over several delivery scopes |
| `Pipeline` | `WorkflowDispatch` and `UploadSession` over the tables they share, with the worker that delivers; it implements `VersionContract` up to delivery |
| `DownloadLinks` | authorizations for one version and the consumption of links |
| `VersionContract` | what the platform promises about a version whichever store keeps it: stages that only go forward, and nothing told that is not so |
| `LocalRuntime` | the local public runtime with its file, its replay and its restarts; it implements `VersionContract` |
| `OperatorControl` | reprocess, quarantine, release and purge with their audit trail |
| `MC...` | instances of these for TLC |
| `...Proofs` | theorems about them |

Each module is one store with the code that drives it, because that is where the
interleavings are. They meet in `AssetVersion.lifecycleState` and in the dispatch
row: `UploadSession` inserts the row (`PhaseTwoRows`) that `WorkflowDispatch` starts
from (`Enqueue`), and has the moves of the publication workflow as an environment
(`Workflow`), which `Publication` models in full; `DownloadLinks` sees publication
as the version going in and out of `published`. Either environment is as wide as the
other side can make it: a move of the workflow may start from any state (`Move`), since
its checks are reads before a write by id and executions overlap; and in `Publication` a
completion that overlapped the one that handed the version over may write any state
but `processing` and `published` (`CompletionWrites`).

`Pipeline` puts the two together: the row that a completion inserts is the row that
dispatchers claim, and the environment of each module is the other one. `UploadSession`,
`LocalRuntime` and `Pipeline` keep the same promise, in the tables, in the file and from
the upload to the delivery, and are shown to implement `VersionContract`: stage 1 is
a session, 2 a source with its dispatch, 3 the published rows.

### Correspondence

**WorkflowDispatch.** `row` is `dispatchState` and `versionToken`; `run` is
`WorkflowRun.state`, `exec` and `executions` the engine. `ClaimRead`/`ClaimCommit`
are `claimPendingDispatches`: candidates are read, then each is won by
`updateMany` on state and token. `StartAccepted`, `StartAlreadyOpen`, `StartFails`,
`ResolveFails` are what `startWorkflow` may come to. `BeginRecord` is the first
half of `transitionDispatch` (token and state are checked, the run is read),
`CommitRecord` the second (update by id, run upserted). `Throw` is where an error
of a record goes: inside the `try` it is classified and recorded as retryable, in
the `catch` it leaves the loop. `RecordLosesRace` is the broken unique workflow id
of the `WorkflowRun` insert. `MarkRunning`, `MarkCompleted`, `MarkFailedRetryable` are
the worker's writes to the run. `RecordAborts`, `CommitUnacknowledged`, `Crash`,
`WorkerLost` are the faults. `Temporal` is external: an open execution refuses its
workflow id, a closed one does not.

**UploadSession.** The state is one asset's; a session is named by the number of
its version. `IssueReplay`, `IssueRead`, `IssueCommit`, `IssueConflict` are
`issueUploadSession` (the last is P2002 and what follows it). `CompleteReplay` and
`CompleteStart` are the lookup; `PhaseOne...` the first transaction: expiry, replay,
state guards, then the writes by id (`AcceptUpload`, or a rejection);
`Canonicalize` the repository; `PhaseTwo...` the second transaction; `Catch` the
catch block. `...Fails` are transactions that fail or that commit and are not
answered. `late` is the set of sessions whose `expiresAt` has passed. `told`
is an observer: what callers were answered.

**Publication.** The three workflows have one control: `BeginRead`/`BeginWrite`,
`PutDerivative`, `PutManifest`, `PublishRead`/`PublishCommit`, one scope after
another, then `MarkCompleted`; every error ends in `MarkFailedRetryable`. A
derivative object is named by its deterministic key, which has no scope; a
manifest body by the execution and scope that wrote it, since it holds the time it
was generated. `targets`, the delivery scopes there are, is fixed from the start.

**Pipeline.** It extends `WorkflowDispatch` and instantiates `UploadSession` with the
rows that are not absent (`HandedOver`) as its `dispatched`. A step of the API either
inserts a row (`HandsOver`, the second transaction of a completion) or leaves the dispatch
side alone (`Accepts`). `Dispatches` and `DispatchFails` are `dispatchPending`. A worker
acts for an execution the engine began, and also for one the engine has given up on
(`Begun`): `BeginsPublication` and `Publishes` are the writes of the version (the rows and
`published` are one transaction, after which the version is in `delivered`),
`Completes` reports to the run, `Fails` writes version and run in one
transaction (`markFailedRetryable`). `delivered` stands for the rows and objects that
`Publication` models.

**DownloadLinks.** `grant` and `audit` are the `expiresAt` of the two kinds of rows;
`records` the idempotency records with the response they hold; `told` is again an
observer. `AuthorizeStart`, `AuthorizeCheck`, `MintCommit`, `MintConflict`,
`ReplayWinner` are `authorizeDelivery` and `authorizeSource`; `Consume`, `FindGrant`,
`FindAudit`, `SpendAndRedirect` are `consumeDownloadLink`. A call keeps the reading
of the clock it started with. No code of the registry writes `quarantined` or
`purged`, the only states a source authorization refuses, so it is never refused.

**LocalRuntime.** `store` is the memory of the process, `file` the JSON file;
`life` is `lifecycleState`, `dispatch` the state of `workflowDispatch`, `rows` the
published derivative and manifest of a version, `created` and `completed` the
idempotency records of the two kinds of calls. A step is what JavaScript runs
between two awaits. `IssueNew`/`IssueReplay` then `IssueSaves` are
`issueUploadSession`; `CompleteStart` is the route up to `headObject`;
`CompleteDuplicate`, `CompleteAccepted`, `CompleteRefused` and `Canonicalized` are
`completeUploadSession` of the in-memory store, `CompleteFinish` the save and the
answer. `Begin`, `PutDerivative`, `PutManifest`, `Publish` are
`runGenericAssetPublicationWorkflow` with this runtime's stores, for a call
or for the replay (`Boot`), which `ReplayNext` drives. `Restart` is a death and the
start that follows, one step because nothing touches the files between them;
`RestartAfterTornSave` a death between `rmSync` and `writeFileSync`. `told` and `read`
are observers.

What it abstracts: every session has an object key of its own; a session's state
is kept apart from its version's only as far as `failed_validation`; creation and
completion keys are separate records, as their operation names make them; a
request that conflicts with the record of its key changes nothing and is left
out; the staged bytes are the declared ones or not afresh at every completion, since
a `PATCH` may come at any time; the local repository never fails; a state file
that cannot be parsed stops the start and is no state of a running process; the
replay of a completion from persisted evidence (`upload-session-service.ts:521`)
cannot be reached here, since a version gets its evidence together with its
`completionResult`.

**OperatorControl.** `life` and `workflow` are a record's `lifecycleState` and
`workflow`, `audit` its events. The workflow ids hold the operation, so an id is
the position of the event that named it. `ReprocessNow` is `reprocessVersion`
without a source to restore; `ReprocessAdmitted`, then `ReprocessRestored` or
`RestoreFails`, with one. `since`, on admissions and events, is an observer: how many
events there were when the operation was admitted. The store is seeded with
versions in any state.

A transaction is one step where nothing that commits inside it could matter, and
a read step and a write step otherwise. A transaction that throws has no effect.
Definitions named `Name_Variant` stand before `Name`; they are plausible wrong versions
of it, and each property is violated when the one listed for it in `PROJECT.json`
takes its place.

## 3. What is checked

| Run | Question | Bounds |
| --- | --- | --- |
| `MCDispatchSafety` | exclusive claims, truthful records, the documented table, only faults strand a row, the contract, pending rows settle while nothing dies | 2 rows (1 unregistered), 2 dispatchers, batch of 2, tokens to 6, 1 of each fault |
| `MCDispatchCrash` | violated: a row whose dispatcher died settles | 1 row, 1 dispatcher, 1 crash |
| `MCUploadSafety` | sessions per key, post-canonical dispatch, replays, the version contract | 1 version, 2 concurrent calls, 2 keys, 2 snapshot ids, 1 of each fault |
| `MCUploadInTurn` | for calls one after another: one key is one request, failed_retryable is explained, a dispatched version is left alone, canonicalizing is attended and ends | 2 versions of equal bytes and one id, 1 call at a time, 2 keys, 2 request hashes, 1 repository failure, 1 workflow failure, 1 crash |
| `MCUploadIdentity` | violated: a canonical source never changes | 2 calls, no faults |
| `MCPublicationSafety` | published is durable, rows follow objects, processing is attended and ends | 2 executions, 0 to 2 scopes, 2 variants, 1 of each fault |
| `MCPublicationRace` | violated: the manifest row matches the object | 2 executions, 1 scope, no faults |
| `MCDownloadSafety` | one grant and one answer per key, told links work, open once in turn | 2 calls, 1 consumer, 2 ids, lifetime 2, clock to 3, 1 fault |
| `MCDownloadReuse` | violated: a one-time link opens once | 1 call, 2 consumers, no faults |
| `MCLocalRuntime` | told is kept, retries converge, published is servable, the version contract, pending is attended and published | 2 versions (1 with the generic template), 2 clients and the replay, 1 creation key, 2 completion keys, 1 fault of any kind |
| `MCOperatorControl` | state and audit agree, takedowns are lifted by release only | 2 versions (1 restorable), 2 overlapping reprocess calls, 4 events a version |
| `MCPipeline` | what was told is on its way and is executed, deliveries are grounded, the version contract to delivery | 1 version, 2 calls, 1 dispatcher, 1 engine outage, 1 database fault of the dispatcher, 1 workflow failure, tokens to 4 |

The type invariants and the inductive invariants that no run lists are theorems
(section 4); TLC checked each of them before it was proved.

Nine more instances stand beside the runs, each checked with
`tlc -config <name>.cfg <module>`. Four of them pass. `MCPublicationInTurn.cfg` (3
executions one at a time, 2 scopes, 2 variants, 4 faults) shows that `ManifestMatchesObject`
holds when executions do not overlap. `MCUploadRetry.cfg` is `MCUploadInTurn` with one
version whose retries get another id each time, where `CanonicalIdentityFixed` could fail and
does not. `MCLocalVersions.cfg` is `MCLocalRuntime` without its temporal properties and with
two creation keys and one completion key, so that two versions are live at once (2.8 million
states). `MCPipelineCrash.cfg` is `MCPipeline` with an API process that dies (1.6
million states). The others give counterexamples, of the code against
what the repository's documents say (below): `MCDispatchProjection.cfg`, `MCUploadOverlap.cfg`,
`MCPublicationScopes.cfg`, `MCLocalRegress.cfg` and `MCOperatorOverlap.cfg`.

Why the bounds are enough for the questions: every promise is about two actors
that meet, or one actor and its own retry, and each run has both, with one of each
fault in any place. A claim, a record, a retry and its record move a token from
1 to 5, so 6 leaves room for a third attempt. One upload version is enough
where the question is about calls of one session; two with one id are what meets the unique
`canonicalSourceId` (`MCUploadInTurn`). `MCUploadSafety` shows the race for one number and one
key; that numbers have no gap for any number of versions is proved. Two delivery scopes are what meets the unique
deterministic key. A lifetime of 2 leaves time for a use, a second try and the
expiry. In the local runtime one fault is a death at any await, with two clients
and a replay that may be in the middle of the same version; one restart is all there is.
With its one creation key the clients of `MCLocalRuntime` and the replay work on one
version at a time, so there the save of one call catches what another has half done of
the same version; that of another version is met in `MCLocalVersions.cfg`, where
the invariants hold, and by the theorems, for any number of versions. Four audit events
are a stop, its release, an overlapping reprocess and one more operation. In the pipeline
a token up to 4 is a claim, its failed attempt and the claim of the retry;
the faults of the API have their own run (`MCUploadSafety`), so the faults there are those
of the dispatcher and the workflow; a death of the API in the pipeline is
`MCPipelineCrash.cfg`. All deadlock checks are off: each system may stop when no one calls,
every intent is settled or the bounds are used up.

Fairness. `MCDispatchSafety` and `MCDispatchCrash`: dispatchers keep polling and a
`dispatchPending` under way goes on, the engine runs what it accepted. Nothing is
assumed of faults, and weak fairness is enough because a row that can be claimed
stays so until somebody claims it. `MCUploadInTurn`: a call under
way goes on (its promises settle one way or the other); nobody has to
call. `MCPublicationSafety`: the engine keeps running an execution until it ends.
`MCPipeline`: only that
dispatchers keep polling; nobody has to call, and nothing is asked of the engine but that
it answers again after an outage. `MCLocalRuntime`: a call,
a publication and the replay go on once the process runs, which is what an event
loop does; clients need not call and nobody has to restart it, deaths being bounded.
The liveness properties of dispatch, uploads and publication are about times in which
processes and database stay up (`Up`), since nothing repairs a version a dead
process left behind.

### Where code and documents disagree

With a run, in `PROJECT.json` "findings": a claim is never given back after a crash
(`MCDispatchCrash`); overlapping completions replace a canonical source
(`MCUploadIdentity`); overlapping executions leave a manifest row with a stale checksum
(`MCPublicationRace`); overlapping requests both open a one-time link
(`MCDownloadReuse`).

With an instance beside the runs, and findings too:

- of two overlapping completions, one can write `canonicalizing` over the `canonical` of
  the other, find the replay in its second transaction and leave it there
  (`docs/state-machines.md:66`; `MCUploadOverlap.cfg`);
- `recordStarted` and `recordDuplicate` can write `queued` or `running` over the
  `completed` of a worker (`docs/state-machines.md:17`; `MCDispatchProjection.cfg`);
- a second delivery scope of a version can never be published
  (`docs/persistence-model.md:149`; `MCPublicationScopes.cfg`);
- a reprocess admitted before a quarantine or a purge undoes it when its source is
  restored (`docs/runbooks/quarantine-and-release.md:23`; `MCOperatorOverlap.cfg`);
- a retried completion takes a published version of the local runtime back to
  `processing`, and a death there leaves it so (`MCLocalRegress.cfg`).

In the models only (the first one is a finding too):

- two completions of different sessions that overlap under one key are both
  accepted by the in-memory store (`docs/idempotency-and-dispatch.md:51`;
  `Canonicalized`);
- a death between the `rmSync` and the `writeFileSync` of a save loses all sessions of
  the local runtime (`apps/demo/README.md:42`; `RestartAfterTornSave`);
- the save of another call may persist `canonicalizing`; after a death nothing takes
  the version on from there (`CompleteRefused`);
- a replay that throws makes every read of the local runtime fail until the next
  start (`ReplayEnds`, `Read`);
- a database error in the catch block of `dispatchPending` leaves the claimed
  rest of the batch in `starting`, with no dispatcher attempting them
  (`docs/state-machines.md:105`; `Throw`);
- the worker's insert of `WorkflowRun` can make `recordStarted` fail: a started
  workflow is recorded `failed_retryable` without a failure
  (`docs/state-machines.md:108`; `RecordLosesRace`);
- the loser of two completions writes `failed_retryable` over a version that has
  been dispatched (`docs/idempotency-and-dispatch.md:55`; `Catch`);
- two overlapping completions under one key with different requests both succeed
  (`docs/idempotency-and-dispatch.md:51`; `Recording`);
- a second version with the same bytes cannot be canonical when the repository
  derives its ids from content (`docs/domain-model.md:156`; `SourceIsNew`);
- `expired` is never stored, because the throw rolls its update back
  (`docs/state-machines.md:31`; `PhaseOneExpired`), and a late retry of a success under
  a new key is refused as expired before its replay is looked for;
- the publication worker has no way on from `failed_retryable`
  (`docs/state-machines.md:94`; `Beginnable`);
- a used one-time link of a source is found a second time by its audit row, and
  redirects to itself (`contracts/openapi/public.openapi.yaml:549`; `LeadsToBytes`).

## 4. What is proved

For every value of the constants that satisfies the named assumptions (bounds are
naturals, `NoSource` is no source, a lifetime is positive and the like):

| Module | Theorems |
| --- | --- |
| `WorkflowDispatchProofs` | `TypeCorrect`; `ClaimsInvariant`; from it `ClaimsAreExclusive`, `CommitsUnderClaim`, `RecordsAreTruthful`, `ExecutionsAreClaimed`, `TransitionsDocumented`; `DispatchImplementsContract`; `StrandedByFault` |
| `UploadSessionProofs` | `TypeCorrect`; `UploadInvariant`; from it `DispatchesArePostCanonical`, `RecordedCompletionsReplay`, `SessionsIssuedOnce`; `GoesForward`; `UploadImplementsContract` |
| `UploadInTurnProofs` | for calls one after another `TurnInvariant`; from it `KeysBindInTurn`, `RetryableInTurn`, `IdentityFixedInTurn`, `DispatchedAloneInTurn`, `CanonicalizingAttendedInTurn` |
| `PublicationProofs` | `TypeCorrect`; `PublicationInvariant`; from it `PublicationIsDurable`, `RowsComeLast`; `ProcessingAttended`; for executions one after another `ManifestMatchesInTurn` |
| `DownloadLinksProofs` | `TypeCorrect`; `LinkInvariant`; from it `GrantsAreOnePerKey`, `AnswersAreRecorded`, `LinksWorkUntilUsed`; `OpensOnceInTurn` |
| `LocalRuntimeProofs` | `TypeCorrect`; `RuntimeInvariant`; from it `PublishedAreServable`, `CreationsConverge`; `PendingAttended`; `RuntimeImplementsContract` |
| `OperatorControlProofs` | `TypeCorrect`; `OperatorInvariant`; from it `StateAudited`, `TakedownsLifted` |
| `PipelineProofs` | `PipelineRunsDispatch`, `PipelineRunsUploads`; from them `PartsInvariant`, `ToldOnItsWay`; `DeliveryInvariant`; from it `DeliveriesGrounded`; `PipelineImplementsContract` |

The inductive invariants, and why the properties need them:

- `ClaimInv`. That two dispatchers never hold one row (`ExclusiveClaim`) is not
  inductive: it rests on tokens. A holder's token is the row's (`HeldIsCurrent`),
  save for the one item whose record committed without an answer; two holders'
  tokens for one row differ (`TokensDiffer`); and candidates know a token the row has
  reached (`ItemsKnown`), so winning one makes every older knowledge of the row
  worthless. `OutcomeTruthful` carries what the engine did to the record;
  `ExecutionsBudgeted` counts one execution per claim, two tokens per claim.
- `WhileUp`, for `StrandedByFault`: as long as nothing failed, every row in starting is
  held by a dispatcher, and a dispatcher may still record all that it holds. Each step
  that breaks this is a fault, and what a fault leaves behind stays visible.
- `UploadInv`. A call in its second transaction has a source the repository gave
  for its version, and a call that issues has seen every lower number
  (`CallsGrounded`); with these the three promises are preserved by every write,
  however stale what it read is.
- `TurnInv`, for calls one after another. These theorems assume `InTurn`, at most one
  client; that is what `MCUploadInTurn` checks, and `MCUploadIdentity` and
  `MCUploadOverlap.cfg` show what two at once do. A call under way finds nothing recorded under
  its key, its version has no dispatch row once its first transaction has looked, and
  is `canonicalizing` from its first write on; so the record is new, the source is
  written once, and `Catch` is only reached by a failure or by the unique
  `canonicalSourceId` (`Catching`). `RetryableInTurn` says the same of `failed_retryable`,
  and assumes nothing of the repository: one that derives ids from content gives two uploads
  of equal bytes one id (section 3, `SourceIsNew`), and that the id may be another version's
  (`SourceTaken`) is then the cause beside the failures. It stays a cause because a source is
  never taken back (`SourceStays`). `DispatchedAloneInTurn` assumes that no transaction
  fails: an answer lost after the commit sends a completed version to the catch block.
- `PublicationInv`. An execution that comes to publish has put every object of the
  scope (`ObjectsPut`); objects are never taken away, so the rows it writes name
  objects that exist, whoever overlaps.
- `AloneInv`, for `ManifestMatchesInTurn`: one execution at a time (`InTurn`:
  `MaxOverlap` is at most 1, and there is something to derive), the body
  that is stored is the one whose rows come next or are there already (`Undisturbed`). `MCPublicationRace` shows what two do.
- `ProcessingIsAttended`, `CanonicalizingIsAttended` and `PendingIsAttended` are the safety
  halves of liveness properties: while nothing has failed, a state that must not last
  is somebody's work, who is at a place from which the next steps end it. The liveness itself is
  this together with fairness, and is TLC's. `PendingAttended` needs `PendingInv`: in memory
  and in the file, a pending version is canonical or in processing (`Lively`), which is
  what the replay's list is made of, and a call only canonicalizes a version there is.
- `LinkInv`. Rows and records are in step (`OneGrantPerKey`), what was found has a
  row (`UsesGrounded`), and a recorded link works until used, told or not.
- `OpensInv`, for `OpensOnceInTurn`: once a one-time link was opened, the row it lives by
  expired at or before every later reading of the clock, so nobody finds it again.
  The theorem assumes `InTurn`, at most one consumer; the run `MCDownloadReuse` shows
  what two at once do.
- `RuntimeInv`: as long as no save was torn, `RuntimeSound`. Memory and file are each
  consistent (`Snapshot`: published versions servable, one session per key, a
  recorded completion has a dispatch); the file is an earlier state of memory and has
  the same rows (`FileIsOlder`), so starting from it loses nothing that counts; an
  actor's place says what it has put and what was saved (`ActorSound`); what was told
  was saved (`TellSound`). `Typed` carries with `TypeOK` that an actor at work has a
  version (`Busy`). The converging of retries needs `FileIsOlder` because a restart
  puts the file's keys in memory's place.
- `OperatorInv`. `StateIsAudited` and `TakedownsAreLifted` with what a reprocess in
  flight knows: it was admitted at an earlier point of the trail
  (`SinceIsPast`),  whose event was no stop (`AdmissionsFair`).
- `Parts` and `DeliveryInv`, for the pipeline. Every step of it is a step of the dispatch
  or leaves its variables alone, and the same for the uploads (a step of a dispatcher or
  a worker makes no row, `HandedOverKept`): so `PipelineSpec` implies the
  specification of each part, and the theorems of both are facts about the shared
  tables (`Parts`). `ToldIsOnItsWay` follows from three of them: a told completion has its row
  (`CompletionsReplay`), a row in starting is attempted while nothing failed
  (`StrandedByFaultOnly`), a settled row is true (`RecordedTruthfully`).
  `DeliveryIsGrounded` is no consequence of the parts. It needs that an execution
  was accepted before it acts, whichever one it is and also when the engine has given it
  up, and that what a record has read of the run and will write back is old but not
  wrong: `completed` was only ever read of what is delivered.

The refinement maps the state of a row to the state of its intent and
`{d : executions[d] > 0}` to what the engine accepted; a claim commits a batch, so
the contract's `Claim` takes a set, and every step that touches neither is a
stutter. `ClaimInv` is needed for each record: it is under its claim, and true.

`VersionContract` is implemented three times. `UploadSession` maps a version to stage 2
when its dispatch row is there and to 1 when its session is; the proof needs
`UploadInv` and that a dispatched version is present (`DispatchedArePresent`). `LocalRuntime`
maps the file, not memory, to the stages, so a restart is a stutter, and a save may
move several versions one stage each; that a save never moves one by two is what the
third part of `FileIsOlder` is for. A torn save is the contract's `Lose`.
`Pipeline` has the stages of `UploadSession` with `delivered` as the third; what it adds to
`GoesForward` is that a delivered version was handed over in an earlier step
(`PublishingDelivers`, `StagesKept`), so no step advances a version by two stages.

Only model-checked: the liveness properties (`IntentSettlesWhileUp`, `CanonicalizingEnds`,
`ProcessingEnds`, `PendingIsDelivered`, `ToldIsExecuted`), since fairness is out of the
prover's reach; their safety halves are proved (`StrandedByFault`,
`CanonicalizingAttendedInTurn`, `ProcessingAttended`, `PendingAttended`, `ToldOnItsWay`).
Every other property that a passing run checks is a theorem. Those that
hold only for actors in turn are theorems with that hypothesis: they are false without it.

## 5. What is not modelled

- The reads that change nothing (versions, derivatives, manifests, diagnostics), but
  for the one by which a reader of the local runtime learns that a version is published.
- Bytes, checksums, keys and payloads: a request is valid or not, a body is known by
  who wrote it. The audit rows of the Prisma stores are written and never read; those of
  the operator store are modelled.
- Concurrency of one asset's creation with its first session, owners and scopes.
- Output workflows: a call is one lookup and one insert in a map without an await,
  and nothing in the repository runs what it queues.
- The in-memory twins other than the upload store: their methods run without an await
  between reads and writes and are used by tests.
- The repositories (xet, kopia), object stores, processors and subprocesses: calls of
  external programs, modelled by what their answers mean to the callers.
- Authentication and scopes: decided anew in each request from its token; the
  sessions are a library's.
- The SDK client as an actor of its own: it is the caller of `UploadSession` and
  `LocalRuntime`, which take any order and repetition of its calls. Read beside the
  models: `uploadFile` with one base idempotency key and no object key of the
  caller's makes a new random object key, so its retry is another request under the
  same key and meets a conflict.
- In the local runtime: the bucket-backed staging store, range reads, downloads. A
  `PATCH` after publication replaces staged bytes only; the derivative has its own
  key, and it is the publication that reads whatever is staged at that time.
- Capabilities, templates, manifest builders, observability, user interfaces, the
  migration planner: tables, pure functions and scripts without shared state.
- The generated Prisma client (`packages/registry/src/generated`), by far the largest
  part of the implementation's lines: types and accessors produced from
  `schema.prisma`, with no logic of this repository. Most of what is left besides
  it is validation, problem mapping and wiring of the kinds above.
- `dispatchPending` and `executeWorkflow` have no production loop in this
  repository yet; the models take their callers to be what the docs describe, pollers
  and engine.

## 6. Plan

All the modules planned are written: `WorkflowDispatch`, `UploadSession`,
`Publication`, `DownloadLinks`, then `VersionContract` (an abstract version with
its evidence, which took the place of a machine of lifecycle states, since these
are not monotonic and the evidence is), `LocalRuntime` and `OperatorControl`, and
`Pipeline` over the first two, each with its proofs. What could follow:

1. `Publication` in full inside `Pipeline`: its rows and objects in the place of
   `delivered`.
2. `DownloadLinks` over the same tables: an authorization of a version that is being
   published again.
3. A loop of the dispatcher and the worker, when the repository has one.
