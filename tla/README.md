# Provena v2: a verification project

Provena v2 is a TypeScript monorepo: a registry of items with persistent
handles, a data store with release reviews, a provenance graph of model runs,
and a background job queue, over one Postgres database and an S3 bucket. This
directory holds TLA+ models of its core logic, the TLC configurations that
check them on small instances, and proofs that TLAPS checks for every instance.

Paths without a prefix are relative to the repository (`src/` in
`PROJECT.json`).

## What is hard about this code

The API (`apps/api`) and the worker (`apps/worker`) are asynchronous Node
processes, of which any number may run. A handler is a sequence of awaits, and
**no handler runs a database transaction of its own**: only single repository
calls are atomic. Between any two awaits every other request may run, a
statement may fail, and the process may stop; nothing that was written before is
undone. Most handlers read, check and write back what they read. What can go
wrong is therefore hard to test and easy to enumerate:

- a check that is stale by the time of the write (locks, release state, "latest
  version", "is a seed"),
- a whole record written back over what others stored meanwhile (datasets, edges
  of the graph, handle properties, notes),
- operations of several writes that stop midway (registration, versions, graph
  updates, imports, activity jobs),
- late side effects out of order (search documents, metadata files),
- jobs created but never sent, batches abandoned by a crash, answers to writes
  that get lost, retries of what was already done.

Every model has the same shape: a request (client, worker run) is a process, its
`pc` names the await it performs next, and all interleave over the shared tables.
`Fail` (`FailClient`, `Abandon` in `JobQueue`) may stop any of them at any await.

## Inventory

**Registry service** (`apps/api/src/services/registryService.ts`, repositories in
`packages/db/src/repos/{items,sidecars}.ts`). State: tables `item`, a satellite
with the domain info, `item_history`, `item_auth`, `item_lock`, `lock_event`, the
handle sequence. Operations: seed, create, update (with or without a history
entry), revert, version, lock, unlock, delete, access settings, fetch, list.
Calls `jobs` for the Create and Version activities. Correct when histories have no
gap, no update is lost, version links agree, locks leave a trail, and whatever is
registered is configured, indexed and linked to its activity.

**Job queue and worker** (`packages/jobs`, `apps/worker`, routes in
`apps/api/src/routers/job`). State: `job_session` rows, the pg-boss queue.
Operations: submit, user retry, admin retry; the worker callback takes a batch and
calls handlers one by one. Correct when a session is handled at most once, its
status tells the truth, nothing is lost without a failure, and sessions end.

**Dataset service and storage** (`apps/api/src/services/datasetService.ts`,
`packages/storage`). State: the domain info of DATASET items (collection format,
location, release status, approver, release history), reviewers, metadata files
and write credentials. Operations: mint, update, revert, version, request and
decide a review, hand out credentials, edit the reviewer list. Correct when release
history, status and approver fit together, what is released is what was reviewed,
and datasets do not share folders.

**Model runs and the provenance graph** (`apps/api/src/services/provService.ts`,
`packages/db/src/repos/edges.ts`). State: MODEL_RUN items and `prov_edge`, where
each edge carries the ids of the records that assert it. Operations: register,
lodge, update, delete, clear; lineage exploration reads. Correct when the graph has
the assertions of the records there are, and no edge without one.

**Job handlers** (`apps/api/src/services/jobHandlers.ts`). A chain of jobs per
activity: register (mint, insert, submit the next), lodge (add edges); batch
submission of model runs; e-mail. Correct when nobody is told of success without
the work being done, and what a failure leaves undone can be found.

**Admin routes** (`apps/api/src/routers/registry/admin.ts`): export, import in four
modes, restore of the graph by jobs, over the registry's tables. Correct when an
import does what its file and mode say, and stops, if it does, between before and
after.

**Handles** (`routers/handle`). State: the list of indexed values of each handle.
Operations: mint, add, add at an index, modify, remove; each reads the list, changes
it and writes it back whole.

**Groups, access requests, user links** (`routers/auth`, `packages/db/src/repos/auxiliary.ts`).
State: four tables. Operations: lodge a request, add notes, decide, delete; assign and
clear a link; add, replace and remove groups and members; import groups. Correct when
what somebody was answered holds, and a stale lookup only matters if somebody else
wrote.

**Search and listing** (`listItems`, `searchItems` of `repos/items.ts`). Pages with a
key of the last row, and a count; correct when whoever follows the keys sees everything.
**Lineage** (`traverse` of `repos/edges.ts`, the lineage queries of `provService.ts`): a
recursive query and a walk over its rows; correct when they find what is in reach, in a graph with
cycles and with edges from a node to itself, which no constraint forbids.

**Access control** (`packages/auth/src/itemAccess.ts`, `putAuthConfiguration`): the settings of an
item, the groups of users; operations: decide, change settings. Correct when a decision is
what the rules said at some moment. Token verification is pure. **CSV**,
**reports**, **e-mail**, **configuration**, **interfaces**, four **user interfaces**, and
the **legacy Python system** (`provena/`, not run).

`PROJECT.json` has each of these under "components", with what is modelled or why it
is not, and every hazard at its line under "hazards".

How they interact: routes call the services; services call the repositories,
`submitJob` and storage; the worker calls the handlers, which call the same services
and submit further jobs. Everything meets in the tables and in the queue.

## Modules

| module | models | proofs |
|---|---|---|
| `Registry` (`MCRegistry`) | registry service and its tables | `Registry_proofs` |
| `JobLifecycle` | what the job package promises of one session | |
| `JobQueue` (`MCJobQueue`) | submission, retries, pg-boss, worker callback; implements `JobLifecycle` | `JobQueue_proofs` |
| `Datasets` (`MCDatasets`) | dataset service, storage locations, reviewers | `Datasets_proofs` |
| `ProvGraph` (`MCProvGraph`) | model runs and the edge table | `ProvGraph_proofs` |
| `ActivityLedger` | what the job handlers promise of activities | |
| `ActivityChain` | the job handlers, composed with `JobQueue`; implements `ActivityLedger` | `ActivityChain_proofs` |
| `AdminImport` (`MCAdminImport`) | admin export and import, composed with `Registry` | `AdminImport_proofs` |
| `RequestPool` | what the handlers over the auxiliary tables share | |
| `Handles`, `AccessRequests`, `UserLinks`, `UserGroups` | a table and its routes each | |
| `ItemAccess` | the evaluation of roles and the change of access settings | |
| `Auxiliary` (`MCAuxiliary`) | these five over one pool of requests | `Auxiliary_proofs` |
| `Listing` | keyset pagination under writes | `Queries_proofs` |
| `Lineage` (`MCLineage`) | the recursive lineage query and the walk over its rows | `Queries_proofs` |

The MC modules add nothing but symmetry sets. A definition whose name has a
suffix (`Detached_Keep`) is a seeded bug: an alternative body of the definition
before the underscore, used to confirm that a property notices it. It is part of no
specification. Under "mutants" `PROJECT.json` names one for each property; the others each break
a part of a compound one.

### Registry

One item subtype, versioned or not (`Versioning`). `item`, `content`, `history`,
`auth`, `locked`, `lockEvents`, `minted` are the tables and the sequence; `stored`
and `existing` are what the handler and the repository fetched. The code's
`updateItem` is `BeginUpdate` (`expectItem`), `Authorise` (lock check, role check),
`RepoFetch`, `Commit` (the transaction, which fails on a primary or foreign key,
`CommitConflicts`), `RefreshRead`, `RefreshWrite` (the search document),
`SubmitActivity`, `LinkSession`. `revertItem` shares them. `seedItem`, `createItem`
and the second half of `versionItem` are `MintHandle`, `InsertSeed` or
`InsertComplete`, `EnsureSidecars`, `LinkNext`, `SubmitActivity`, `LinkSession`.
`fetchItem` makes two SELECTs, taken as one step. Domain info is a model value. Role
checks are a free choice, so every property holds for all roles.

### JobQueue and JobLifecycle

A client is `CreateSession` then `Send` (`submitJob`); a worker is `Fetch`, then
`Dequeue`, `Begin`, `RunHandler` or `NoHandler`, and `RecordSuccess` or
`RecordFailure` for each session of its batch. `SuccessWriteFails` is the write of
SUCCEEDED throwing inside the `try` block, having happened or not
(`AnswerMayGetLost`). `Abandon` is a throw outside the `try` block, or the end of the
worker: with `retryLimit: 0` the rest of the batch is gone. `runs`, `effects` and
`lost` are history variables. pg-boss is external: it delivers a job to one callback
and polls for ever. `JobLifecycle` is the abstract specification, refined by the
identity on `status`, `runs` and `effects`.

### Datasets

A domain info has a collection format (`meta`), a location (`path`), and release
status, approver and history. `update`, `revert`, `request` and `decide` all end in
`RepoFetch` and `Commit` of a whole domain info (`out`) that was computed from an
earlier fetch (`seen`); this is where stale writes come from. `version` inserts the old
domain info, links the old dataset, refetches (`Refetch`) and writes the new
location. `Construct` probes storage with the code's prefix test: `StartsWith` says that
the decimal form of a handle begins with that of another, which is why handles are
numbers here. `grants` are live write credentials, `Expire` their end. `MetaAssumption`
and the like are the only assumptions.

### ProvGraph

A record is the set of datasets it names; its edges (`modelRunEdges`) go from the run to
each dataset and from each dataset to the template, the latter shared by all runs that
name it. `Upsert` merges one edge, `Select` is the SELECT of `removeRecordEdges`,
`Remove` writes one of the selected rows back without the record or deletes it (by row
id, so a row that was deleted and made anew is not touched). `Fetch` and `Commit` are the
item's write; `Erase` its deletion. A record's other inputs (people, organisations) add
edges of the same two kinds and are left out.

### ActivityChain and ActivityLedger

`Queue == INSTANCE JobQueue`: every step of the queue is a step of `JobQueue`, and its
`RunHandler`, one step there, is here the end of a handler, `Return` or `Throw`, reached over
one step for each await: `Mint`, `Insert`, `EnsureSidecars`, `SubmitNext` for a REGISTER job,
`UpsertEdge` for each edge of a LODGE job, `SubmitNext` for each record of a batch. A handler
submits like everybody else, through a client of the queue (`helper`), and waits for it: so
the new job may be fetched, run and ended by the other worker before its submitter
goes on, and the submission may fail after the session row was made. `ActivityLedger` counts what
was asked for, recorded and lodged. The mapping takes an activity as recorded when it has
its sidecars, and the sessions of a registration, retries included, as asks: a handler that
fails after the insert and is retried makes a second activity, which the ledger allows
since the retry asked again. That no session makes two, that the graph never has an edge of an
activity that is not there, and that nothing is taken back is what the refinement shows, of the handlers:
an administrator who deletes an activity, imports with deletions or clears the graph is not in the module.

### AdminImport

`Reg == INSTANCE Registry`, all of whose steps interleave with the administrator's. `BeginImport`
lists the ids and decides (`Refuses`, `Continue` in the four modes); then `Replace`,
`RefreshRead`, `RefreshWrite`, `PutSidecars`, `CheckLock`, `SetLock` for each bundle, and
`DeleteUnmatched` at the end; `BeginExport`, `ExportItem`, `ExportLock` build a file, which a
later import may read. An import breaks an assumption under which Registry's commits were
written, namely that an id's row does not change its kind backwards: `InsertConflicts` (an insert finds the id
taken) and `CommitWithoutSatellite` (an update of an item that a seed was imported over)
are the steps of `createCompleteItem` and `updateItem` that Registry alone can never take.

### The auxiliary tables

`RequestPool` has the labels and `Fail`; the five modules have a table, its operations and
history variables each; `Auxiliary` takes them together, in each behaviour about one of
the tables, since they share none. Handles keep lists (`Inserted`, `Modified`,
`Without` compute the new one from the one read). Access requests are keyed by user and
second, which collide (`Collides`); the clock is external. Links are looked up
(`BeginAssign`), validated (`Validate`, against a registry in which persons come and go) and written
(`Assign`). Group imports write two statements a group (`ImportGroup`, `ImportMembers`) and delete last. The
second is a READ COMMITTED transaction that deletes and inserts, taken as one step: two that overlap may leave the union of
both lists or fail on a key, and no property judges an import that another write has disturbed.
In `ItemAccess` a decision reads the settings (`ReadSettings`) and then the groups of its user
(`ReadGroups`, with `describeAccessRoles` and `evaluateUserAccess` as `Evaluated`); a change of settings
looks at the lock (`BeginPut`), at the owner (`ReadOwner`) and writes (`PutSettings`). `Rules` says what
roles mean without the code's way to them.

### Listing and Lineage

`Listing`: `SelectPage` is the page's statement (keyset condition, order, limit), `Count` the
second one; `Register`, `Update`, `Delete` and the clock interleave. Sort values may be
equal, as timestamps in seconds are. `Lineage`: `First` and `Round` are the two parts of the
recursive query, `AnswerLineage` and `AnswerSpecial` what the service makes of its rows. Any pair of nodes
may be an edge, of a node with itself too: `prov_edge` has no check, and a workflow template whose
`software_id` is its own id is written so (`provService.ts:198`). The first part of the query does not look
where an edge leads, so that a loop at the start is a row and the next round goes on from it; all later
rounds enter no node of their path. `RowsArePaths` says exactly this.
`collectPaths` is a recursive function; properties compare with `Ball` and with the set of
all simple paths, which are defined without it.

## Runs

Each property is stated in words in the comment above its definition; where it is a
conjunction of parts, each part has a comment of its own. "States" are distinct states after symmetry.

| run | checks | bounds | states |
|---|---|---|---|
| `registry_updates` | `TrailsAgree` (`HistoryContiguous`, `ContentIsNewestEntry`, `LockTrail`), `SearchTextIsFresh`, `HistoryAppendOnly`, `LockedWriteOverlappedTheLock`, `UnreasonedUpdateWasOvertaken` | 3 requests, 1 handle, 2 contents | 729,523 |
| `registry_versions` | `TypeOK`, `VersionLineage`, `SettledItemIsComplete` (`VersionedItemIsClosed`, `RegisteredItemIsConfigured`, `ActivityIsLinked`), `CreateActivitiesOnlyForSeeds` | 3 requests, 4 handles, 1 content | 1,325,390 |
| `jobs_safety` | `HandledOnce`, `StatusIsEvidence`, `NothingLostWithoutFailure`, `UserRetryNeverRacesOriginal` | 3 clients, 2 workers, 3 sessions, batches of 2 | 67,665 |
| `jobs_refine` | `ImplementsLifecycle`, `SessionsSettle` | 2 clients, 2 workers, 2 sessions, batches of 2; no symmetry | 2,633 |
| `datasets_review` | `ReleaseTrail`, `ReviewWasReal` (`ReviewedIsReleased`, `ApproverWasReviewer`) | 3 requests, 1 dataset, 2 formats, 2 persons | 1,180,538 |
| `datasets_storage` | `FoldersMatchDatasets` (`OwnStorage`, `MetadataFileIsFresh`), `LateWriterSawItEditable` | 3 requests, handles 1, 10, 11, 2 formats, 1 person | 708,763 |
| `prov_runs` | `EveryEdgeIsAsserted`, `UndisturbedRunIsLodged`, `AssertionsLostToStaleRemovals` | 2 requests, 2 runs, 2 datasets | 1,487,594 |
| `activity_chain` | `GraphNamesCompleteActivities`, `SessionsAccountForWork` (`SucceededMeansDone`, `UnlodgedActivityHasACulprit`, `BatchIsSubmittedInOrder`), `ImplementsLedger`, `RegistrationIsLodged` | 1 launch (a version or a batch of 2), 3 sessions, 2 workers; no symmetry | 279,699 |
| `admin_import` | `UndisturbedAdminIsFaithful` (`UndisturbedImportIsFaithful`, `UndisturbedExportIsFaithful`), `OnlyOneItemIsHalfImported`, `TrailsAgree`, `ImportKeepsToItsMode` | 1 administrator, 1 request, 2 handles, 2 contents | 1,892,294 |
| `auxiliary` | `HandleListsAreSound` (`StrictlyIndexed`, `UndisturbedHandleIsSerial`), `AnswersHold` (`AcknowledgedRequestIsKept`, `DecisionStands`, `UndisturbedNotesAreKept`, `AnswersAreFounded`), `LinkedPersonWasComplete`, `GroupImportIsFaithful` (`UndisturbedGroupImport`, `OnlyOneGroupIsHalfImported`), `StaleWritesOverlapped` (`UnforcedAssignmentOverlapped`, `StalePutGroupOverlapped`, `SettingsArePutByTheOwner`) | 3 requests; 2 handles and 3 indexes, 2 seconds, 2 persons, 2 groups, 1 user | 618,119 |
| `listing` | `PagesAreComplete` (`SteadyItemIsShownOnce`, `QuietTotalIsWhatIsShown`), `ItemsMoveAsOrdered` (`CreationOrderIsStable`, `UpdatesMoveItemsOneWay`) | 3 items, one to a page, 3 seconds, every column, direction and filter | 1,380,856 |
| `lineage` | `RowsArePaths`, `LineageIsExact` (`NodesAreExact`, `OnlyCyclesAreCut`), `SpecialQueryIsExact` | every graph of 4 nodes, loops included, depths to 4, capped at 3 | 1,014,568 |

What the runs show:

- `registry_updates`: Three interleaved updates, reverts, locks, unlocks and deletions of one item, any of which may stop midway: history stays gap-free, append-only and in step with the content, a locked item is only written by requests that checked the lock before it was set, and a complete item without a reason only by requests that found it a seed and were overtaken.
- `registry_versions`: Three interleaved registrations, promotions of seeds, versions and deletions over four handles, audited or not: version chains stay consistent; what ran to its end is closed, has access settings and is linked to its activity; only those who found a seed ask for a Create activity.
- `jobs_safety`: Three clients submit and retry, two workers take batches of two, and any of them may fail at any await, with answers to writes that may get lost: a session is handled at most once, its status is evidence of what happened, and only a failure of its own client or worker drops it.
- `jobs_refine`: As long as no answer to a write gets lost every session keeps the lifecycle the package promises, and every created session ends or has been dropped by a failure.
- `datasets_review`: Three interleaved edits, reverts, review requests and decisions on one dataset, with reviewers that come and go: its release history stays one a proper review leaves, and what is pending or released is what the approver saw.
- `datasets_storage`: Three interleaved mints, versions, edits, review requests and grants over handles of which one is a decimal prefix of the others: datasets that one request made have locations of their own and fresh metadata files, and whoever can write to one under review was granted it before.
- `prov_runs`: Two interleaved registrations, lodgings, updates, deletions and clearings of runs that share datasets: no edge is left without a record that asserts it, only removals take assertions away, and a run that one request handled alone has exactly the edges and the serialisation of its record.
- `activity_chain`: Any await may throw, any process stop and any session be retried: SUCCEEDED covers the work, an activity that will not be lodged has a FAILED or dropped session to its name, and, under the fairness below, whoever asked for an activity gets it or such a session.
- `admin_import`: Undisturbed, the registry is afterwards what file and mode say, and an export is what the registry is; disturbed by a request of the registry, or stopped midway, the import keeps to its mode and leaves at most one item without access settings, and no content that is not in its history; the content is the newest entry unless two updates straddled the import that replaced the item.
- `auxiliary`: Three requests about one of the tables: none is left in a state that the answers do not account for, and what overlapping requests do overwrite is told apart exactly.
- `listing`: Items that stay as they are are shown exactly once, whatever happens to the others; updates move items only the way their order says; the total is right when nobody writes.
- `lineage`: No row's path enters a node twice, but for a loop at the start; the nodes within the depth are found and no others, only edges that close a cycle are left out, and the second walk over rows whose paths are gone finds the simple paths again.

Why the bounds are enough: every hazard is a conflict of two requests, and a third
one (a lock, a deletion, another writer) is what changes the state between them; three
requests, one operation each, cover all of these. One item suffices for update and lock
races; version chains need one handle for each request and one to start from. Two contents
tell a lost update from a kept one; two datasets tell shared edges from own ones. The cap
`MaxHandle` shows as a deadlock when it is too small (deadlock is checked in every run),
`MaxSession` is the number of submissions. A session's batch of two has a job before and a
job after a failure. `prov_runs` has two requests on two runs: a lost assertion
needs one remover and one other writer. `activity_chain` has room for a chain and
one retry of either of its jobs, or for a batch and its two runs, or for a batch that fails after its first run and is
retried; two chains share nothing but the queue, which `jobs_safety` checks with three. In `admin_import` the
administrator takes part twice (export, import), so one request of the registry makes three
actors; one item is there and one more may come. Three items on pages of one have an item before, at and
behind the cursor. Graphs of four nodes have diamonds, cycles that the start is on, cycles
that it leads to, and loops at the start and elsewhere, on both sides of the depth.

### Sentences that do not hold

Sixteen sentences of the repository's docs, comments, errors and tests are stated in the
last sections of the modules and hold only as long as nobody interferes. They are no part of
the runs; put in place of the properties of the cfg named here (those that are action or temporal
properties without its `SYMMETRY`), TLC shows for each how concurrent requests break it.

| definition | in | cfg |
|---|---|---|
| `OnlyLatestIsRevised`, `OneCreateActivity` | Registry | `registry_versions` |
| `CompleteItemUpdatedWithReason`, `LocksBlockWrites` | Registry | `registry_updates` |
| `EverySessionEnds` | JobQueue | `jobs_refine` |
| `TerminalStatusIsFinal` | JobQueue | `jobs_safety` |
| `UnmodifiedUnderReview`, `RevertPreservesReleaseState`, `DecisionsOnPending` | Datasets | `datasets_review` |
| `VersionGetsItsOwnStorage`, `NoWriteAccessUnderReview` | Datasets | `datasets_storage` |
| `RegisteredRunIsAsserted`, `UpdateReplacesAssertions`, `SerialisationIsOfTheRecord` | ProvGraph | `prov_runs` |
| `DeletedRunAssertsNothing` | ProvGraph | `prov_runs`, with `Run = {x, y, z}`, `Dataset = {a}`, `Ops = {"delete"}` |
| `CompleteItemHasContent` | AdminImport | `admin_import` |

For instance: two version requests fetch before either links its successor, and the item
has two next versions of which only one is linked (`OnlyLatestIsRevised`); a failure between creating and
sending a session, or inside a batch, leaves it unfinished for ever (`EverySessionEnds`); an update
that passed its check before a review request was stored overwrites dataset and request
(`UnmodifiedUnderReview`); two deletions of runs that share an edge with a third, where the
second write puts the first, deleted run back (`DeletedRunAssertsNothing`).

What holds nevertheless is what the passing runs say: for each broken sentence there is a
weaker one beside it that does hold. A locked item changes only through a request whose
check came before the lock. Whatever edits get through during a review, what is pending or
released is still what the approver saw. An assertion is lost only to a removal with a
stale row. A fork keeps its version numbers and back links right.

## Fairness

Two runs use it. `jobs_refine` (`FairSpec`): weak fairness of `Progress(w)`,
since pg-boss polls for ever, and the callback's awaits and the handlers return or
throw; and of `CreateSession` and `Send`, since an `async` function that is under way goes
on. `activity_chain` (`Spec`) assumes the same of the handlers' own awaits. Nothing is assumed of clients beginning
anything, nor of failures: `Abandon`, `Throw` and `FailSubmission` may
happen at any time or never. `SessionsSettle` and `RegistrationIsLodged` therefore have "or it failed, or a
failure dropped it". No other run needs fairness: in the other modules a request may stop anywhere, and
nothing is promised of one that did.

## Proofs

Each proof module has an inductive invariant or two, a lemma for each action or family of
actions, and the theorems, none of which bounds the number of requests, handles, sessions,
runs, nodes or values. The assumptions are those named in the modules and nothing else: `NoContent` is
no content, and so on; bounds are numbers; groups (whose import counts them) and the nodes of a graph are finite
(`GroupAssumption`, `NodeAssumption`). Every property was checked by TLC before it was proved; so were the
invariants, except that of `Lineage`, which speaks of all sequences of nodes.

**Every safety invariant and every action property that a run checks, and both refinements, are stated by a
theorem**; TLC shows each on a small instance, the theorem for every one.

- **Registry**: `Inv` is `TypeOK`, what each label says of its locals (`Local`), handles
  come from the sequence and are named by nobody before they are inserted (`Handles`),
  history ids are an interval whose next id no transaction overestimates
  (`HistoryIds`), what a version request knows of its predecessor (`Versions`),
  `VersionLineage`, `LockTrail`, and what a passed lock check saw (`LockChecks`). The
  strengthening is needed since a step is right only relative to what its request read
  earlier. Proved: `TypeOK`, `TrailsAgree`,
  `HistoryAppendOnly`, `VersionLineage`, `LockedWriteOverlappedTheLock`.
  On top of it `Outcomes` says how far each request has got (`Course`) and who is to blame
  for what is not done yet: an item without a next version, access settings or link has a
  writer that is under way or failed (`VersionsClose`, `ItemsAreConfigured`,
  `ItemsAreLinked`), a sole writer knows what the search document is (`SoleWritersIndex`), and
  every Create activity belongs to a request that found a seed (`Births`, `Promotions`).
  Proved: `SettledItemIsComplete`, `SearchTextIsFresh`, `CreateActivitiesOnlyForSeeds`,
  `UnreasonedUpdateWasOvertaken`.
- **JobQueue**: `Inv` says what each label says of clients and workers, that a session is
  with one client, in the queue or with one worker (`Apart`), and what its row implies
  (`Rows`). Proved: `TypeOK`, `HandledOnce`, `StatusIsEvidence`,
  `NothingLostWithoutFailure`, `UserRetryNeverRacesOriginal`, that nobody has a dropped session any
  more (`Dropped`), and that `JobQueue` implements `JobLifecycle` when no answer gets lost.
- **ActivityChain**: the proofs instantiate `JobQueue_proofs`: each step of the chain is one of the queue
  (`QueueStep`), so that `Inv` and `Dropped` of the queue hold here, too. `ChainInv` adds what a
  handler has behind it at each await (`HandlerLocal`), which submission it waits for (`Awaited`,
  `OwnHelpers`), that no two handlers have one handle and no two activities one session (`Handles`),
  that the sequence is no further than the sessions that have minted (`Minting`, counted as a set), what
  success covers (`Succeeded`), and that every run that was submitted is owed to a batch that submitted those
  before it (`Batches`, over an owner for each run that the code does not store and the invariant
  claims to exist). Proved: `GraphNamesCompleteActivities`; `SessionsAccountForWork`, whose
  counting parts follow from one-to-one maps between sets of sessions; and `ImplementsLedger`, step by
  step: `CreateSession` asks, `EnsureSidecars` records, `UpsertEdge` lodges, all else stutters.
- **Datasets**: `Inv` says that every domain info anywhere (stored, fetched, about to be
  written) is *proper*, that is, its status, approver and history fit together and it
  shows what was reviewed. Stale writes are harmless to these properties since they write a
  proper info whole. Proved: `TypeOK`, `ReleaseTrail`, `ReviewWasReal`, and
  `LateWriterSawItEditable` over an invariant of live credentials (`GrantInv`). `Storage` says
  how far a request that is alone with a dataset has got (`Alone`), and that a dataset nobody is at is as its
  last writer left it (`Untouched`). Proved over it: `FoldersMatchDatasets`.
- **ProvGraph**: `Inv` is `TypeOK`, `EveryEdgeIsAsserted` and what each label says. Proved:
  both, and `AssertionsLostToStaleRemovals`. `Undisturbed` says, of a run that one request is
  about while nobody else removes edges, which edges are there at each await (`Stage`). Proved
  over it: `UndisturbedRunIsLodged`.
- **Auxiliary**: an invariant for each of the tables: what each label says of an access
  request's locals (`AccessInv`), of an assignment's (`LinkInv`), what a lookup knows of later writes
  (`GroupInv`), which groups an undisturbed import has written, which it has still to write and which it
  is at (`ImportInv`), and what a decision on an item has read (`ItemInv`). Proved: `AnswersHold`, `LinkedPersonWasComplete`,
  `StaleWritesOverlapped`, `GroupImportIsFaithful`. For handles, `HandleInv` says that every list stored or read is
  *sound* (its indexes rise) and that what a request is about to write was allowed for the list it read;
  `AppendedFact`, `InsertedFact`, `ModifiedFact` and `WithoutFact` say that each change of a sound list is sound
  and has the values of the list with one of them set or removed. A sorting of a sound list and one more value
  exists, and whichever is chosen has risen strictly; the filter, a recursive function, is a closed form that
  shifts the values behind the gap, by an argument over the least position where the two differ.
  Proved: `HandleListsAreSound`.
- **AdminImport**: the proofs instantiate `Registry_proofs`, whose lemmas about what a request's step does
  hold for tables that an import writes, too, while much of its invariant does not: a row may go back
  from an item to a seed, and an update may find its satellite gone. `AdminInv` is what is left of it
  (`RegistryInv`), what the administrator's plan and file are (`PlanInv`, `FileInv`), that handles are apart
  (`HandlesInv`), histories without gaps (`HistoryInv`), the content shown (`ShownContentIsNewestEntry`),
  whose access settings may be missing (`AuthInv`), and the lock trail. Proved: `TrailsAgree`,
  `OnlyOneItemIsHalfImported`, `ImportKeepsToItsMode`. `Faithful` says what an undisturbed export has
  listed so far (`ExportFaithful`), and how an undisturbed import has divided the file into bundles that are done,
  the one it is at, and those to come (`ImportFaithful`). Proved over it: `UndisturbedAdminIsFaithful`.
- **Listing**: `IInv` says of an item whose place stays that it was shown exactly when it is behind
  the cursor, and of one that moves, on which side it was (`SteadyInv`, `MovesInv`); `QuietInv` that
  the last count is of what is there. Proved, for any items, page size and times: both properties.
- **Lineage**: `PathInv` is `RowsArePaths` and the types of the query; a path after a loop at the start
  is one whose tail is a simple path (`LoopGoesOn`). `WalkInv` is the converse: after k rounds
  every simple path of up to k steps has its row, and the last round has those of k steps, so that the query ends
  only when there is no longer path within the depth (`WalkIsComplete`). `AnswerInv` is what the answer was made of. That
  `Ball` and `collectPaths`, which are recursive functions, are the ends of the simple paths and the simple paths
  themselves is shown by exhibiting the function and by an induction over the set of numbers for which the two
  agree (`BallFact`, `CollectedFact`, over `NatInSet`). Proved: `RowsArePaths`, `LineageIsExact`,
  `SpecialQueryIsExact`.

The type invariants of `JobQueue`, `Datasets`, `ProvGraph` and `Listing` are proved and not
among the runs' properties; those of `ActivityChain`, `AdminImport`, `Handles`, `UserGroups`,
`ItemAccess` and `Lineage` are a conjunct of one of them.

Only model-checked: `SessionsSettle` and `RegistrationIsLodged`. They are liveness properties under
fairness, whose proof needs ENABLED, and that is out of the prover's reach.

## Not modelled

- Role checks inside `Registry` and `Datasets`: there a free choice, so that every property holds for all
  roles; what they decide is in `ItemAccess`.
- `searchItems` and its ranking: PostgreSQL's full-text search. The search documents are in Registry.
- `effectedAgents`, the decoration of graph nodes, PROV-JSON text: reads and formatting.
- `restore-prov-graph`: one loop that submits lodge-only jobs, whose state is that of the queue and of
  `ProvGraph` (`BeginLodge`). It submits while it still looks for failures; its text says so and no
  interleaving adds to it.
- Validation of inputs: a refusal before the first write.
- Presigned urls, downloads, IAM policy text; CSV; reports; e-mail; configuration and start-up;
  token verification; interfaces: pure output, text or cryptography, without state of their own.
- The user interfaces are clients of the API, whose requests the models enumerate. The bulk of the
  repository's lines is theirs, generated interface types copied to several places, and the legacy Python
  system, which is not run; nothing of them is state that several actors share.

`PROJECT.json` gives the reason for each.

## Plan

Done, in this order: `Registry`; `JobLifecycle` and `JobQueue`; `Datasets`; `ProvGraph`;
their proofs; `ActivityLedger` and `ActivityChain`; `AdminImport`; the auxiliary tables; `Listing`;
`Lineage`; the proofs of the last three; `ItemAccess`; what requests leave behind (`Outcomes`, `Storage`,
`Undisturbed`, `ImportInv`); `ChainInv` over the queue's invariant, and the refinement; the invariants of
`AdminImport`, of `Lineage` and of the lists of handles. Left:

1. A theorem for the sentences that hold under a condition one can state in a line (a single client,
   no failure), beside the counterexamples that show that they need one.
2. The safety part of the two liveness properties: in a state where nothing more can happen, every session
   has ended or been dropped.
