# MECO Mission Control: formal specifications

TLA+ models of the MECO Mission Control platform (`src/`, a TypeScript / Fastify
API on one process with PostgreSQL and a snapshot file), the TLC configurations
that check them, and the theorems TLAPS proves about them. `PROJECT.json` says, for
every definition, which lines of the source it stands for, and for every property
which change of a definition breaks it.

Contents: 1 the system; 2 the plan; 3 the modules and the code they stand for; 4 the
runs, their bounds and their fairness; 5 where code and documents disagree; 6 what is
proved; 7 what is not modelled.

## 1. The system

One Node.js process serves the HTTP API. Most of the workspace (seasons, projects,
tasks, parts, QA, purchases, meetings, people) is one in-memory *platform snapshot*
with a JSON file behind it. Sessions and CAD imports are rows in PostgreSQL; the
Onshape connection, the sign-in codes, the request limits, the upload quota and the
parser's queue are memory of the process. Concurrency is that of the event loop: code
between two `await`s is atomic, everything else interleaves, and the database adds
its own transactions and row locks.

| Component | State | Operations | Hard behaviour | Correct when | Specified in |
|---|---|---|---|---|---|
| Snapshot store (`data/store.ts`, `app.ts`, `data/platformSnapshotFile.ts`) | published workspace, a tutorial workspace per user, FIFO lock tails, snapshot file and its temporary file | open a draft, run a handler on it, commit or drop it, start / reset / end a tutorial, restart | two nested FIFO locks, drafts, a save that may fail between any two steps, a process that may die there | no acknowledged edit is lost, nothing refused is visible, tutorials stay private, every request ends | `SnapshotStore`, `SnapshotLedger`, `SnapshotStoreProofs` |
| Task completion, QA, dependencies (`data/store.ts`, `domain/workflows.ts`, `domain/taskDependencyState.ts`, the task and QA routes) | tasks, work logs, artifacts, parts and their revisions, reviews, requests, findings, risks, dependencies | create, patch, delete each; claim, submit, approve, reject, retest | a completion rests on records that other requests edit and delete; ids are reused | completed work keeps its evidence, never waits, its history stays, who waits is shown as waiting | `TaskCompletion`, `TaskViews`, `TaskCompletionProofs` |
| Serials and saved rows (`data/store.ts`, `routes/routeSchemas.ts`) | task serials, mechanisms, aliases; the rows of the file | the requests that move or rename what serials are made of; save, stop, start | copies that one request renews and another forgets; a schema that only the next start applies | a serial tells its subsystem, a saved file loads | `TaskSerials`, `SavedRows` |
| Workspace structure (`data/store.ts`, `routes/registerRoutes.ts`) | subsystems, mechanisms, part definitions and instances, tasks and purchases that point at them | create, move, remove with their cascades | no foreign keys: each removal cascades, detaches or refuses in its own handler; ids are slugs and come back | a forest, no dangling targets, receipts keep their parts | `Hierarchy`, `WorkspaceProofs` |
| Purchases and stock (`routes/registerRoutes.ts`, `routes/workflowAuthorization.ts`) | purchases, receipts, materials | request, decide, order, receive, recount | a receipt repeated after a lost answer, a patch after an approval | what is received was approved, stock adds up | `Purchasing`, `WorkspaceProofs` |
| People and teams (`data/store.ts`, `domain/taskLinks.ts`) | members, teams, people of tasks and subsystems | create, change role or season, remove, assign, claim | roles and seasons change under tasks and teams that name people | people may do what they are on; an administrator remains | `Roster`, `WorkspaceProofs` |
| Calendar (`data/store.ts`, `routes/meetingRoutes.ts`) | seasons, milestones with their scope markers, meetings, workstreams, schedules of tasks | create, move, remove | copies of a season or project that may move | the copies agree | `Calendar`, `WorkspaceProofs` |
| Bootstrap (`routes/helpers/bootstrapSelection.ts`) | none: a view of the snapshot | select a season and a project | each kind of record is scoped by its own rule | no record is out of reach | `WorkspaceViews`, `WorkspaceProofs`, `TaskViews` |
| Mobile sessions (`auth/mobile*.ts`, `routes/mobileAuth*.ts`) | session, access-token and refresh-token rows | sign in, refresh, use, log out, log out everywhere, remove one, clean up | statements of several transactions interleave at Read Committed, deadlocks, crashes | a refresh token is exchanged once, revocation is final | `MobileSessions`, `MobileCredentials`, `MobileSessionsProofs` |
| Email codes (`auth/authService.ts`) | one pending code per address | request a code, verify one | the mail is in flight while other requests come | one sign-in per code, bounded guesses | `EmailCodes`, `SignIn`, `SignInProofs` |
| Web sessions (`auth/webSession*.ts`, `routes/webAuthRoutes.ts`) | session rows, time of the last cleanup | sign in, resolve the cookie, log out, clean up | lookups and revocations interleave, the roster changes meanwhile | a session that ended stays ended | `WebSessions`, `SignIn`, `SignInProofs` |
| Limits, uploads, preferences (`security/requestLimits.ts`, `storage/mediaUploadService.ts`, `data/userPreferencesStore.ts`) | counters per window, bytes per hour, the preferences file | serve, sign and reserve an upload, save | a reservation after an await, a window's edge, a process that dies between file and answer | nobody gets more than their share, preferences are the file's | `ServiceLimits`, `SignIn`, `SignInProofs` |
| STEP parser pool (`cad/parsing/stepParserRunner.ts`) | number of busy slots, queue of waiters | parse, time out, abort | queue and slots at their limits, deadlines while waiting | slots are neither leaked nor oversold | `StepParserPool`, `CadImportProofs` |
| STEP import (`cad/`) | import runs, snapshots, nodes, mappings and rules, reviews | import, map, review, apply, finalize | a run of many awaited writes beside concurrent edits of the mapping; a crash in the middle | run and snapshot agree, decisions stand, what is finalized was reviewed | `CadImport`, `CadHierarchy`, `CadImportProofs` |
| STEP files and their views (`cad/parsing/stepText*.ts`, `cad/cadDiffService.ts`, `cadInstanceGrouping.ts`, the review services) | none: made from a file or a snapshot | parse, group, review, compare | a product used in several places, cycles, renumbered files | files are kept, views agree, diffs tell | `StepTree`, `CadViews`, `CadFiles`, `CadFilesProofs` |
| Onshape (`onshape/`) | one token set with its generation, the refresh in flight, OAuth states, snapshots, runs, jobs, response cache, the reported rate limit | authorize, call back, refresh, import | a single-flight refresh overtaken by a callback, overlapping imports of one version, answers that fail after they were cached | no refresh undoes a new connection, imports start on the current token, one snapshot per version, runs tell what they left | `OnshapeCredentials`, `OnshapeSync`, `OnshapeSyncProofs` |
| Onshape bills of materials (`onshape/bom/`, `onshape/cadStoreGraph.ts`) | the graph of a snapshot | normalize a table or the instances of an assembly, upsert it | rows and parts that are taken for one another, merging again | every part as often as the table says, importing again changes nothing | `OnshapeGraph`, `CadFiles`, `CadFilesProofs` |
| Slack, configuration, contracts, seed data | | | none: pure output, or fixed | | not modelled |

How they interact. Every mutating HTTP request goes through the snapshot store's
transaction (the hooks of `app.ts`), so a handler of `routes/` and the store
commands it calls are one atomic step on the published snapshot once it commits.
That is what `SnapshotStore` shows and what `TaskCompletion`, `Hierarchy`,
`Purchasing`, `Roster`, `Calendar`, `TaskSerials` and `SavedRows` build on. Sessions are
resolved by an `onRequest` hook before that; email codes create web and mobile
sessions; both re-read the roster, which is in the snapshot. A STEP import waits for
a slot of the parser pool before it writes anything of its snapshot. CAD snapshots name
subsystems and mechanisms of the workspace, which may be removed meanwhile.

## 2. Plan

Written, in this order of importance: the snapshot store with its ledger and proofs;
mobile sessions with their abstract credentials; task completion; email codes, web
sessions and the process that composes them; the parser pool with proofs; the Onshape
connection and imports; STEP imports over the pool; the workspace records and their
views; limits, quota and preferences; the algorithms of CAD files, views and bills of
materials; then the proofs of mobile sessions, tasks, the workspace, sign-in, STEP
imports and Onshape; last, those of the algorithms.

What is left:

1. Readiness of parts and milestones (`domain/readiness.ts`) with test results and
   findings, and the dependencies that require it.
2. Mapping rules made by hand (`cad/routes/cadMappingRuleRoutes.ts`).

Runs stay few: one for each question. A new component brings its properties together,
and takes over the run of a part it composes.

## 3. The modules

Common conventions. Operators bear the name of the function or statement they stand
for where one exists. A request has a *stage* (`stage`, `pc` or `progress`), which is the place where its
handler is suspended: an action is the code from one `await` to the next. Requests
are made at most once each; a retry is another request. An operator whose comment
begins with "Faulty" (or "mutant") is a plausible bug in the operator after it, used
to show that a property notices; no specification contains it.

### SnapshotStore, SnapshotLedger

| State | Code |
|---|---|
| `mem` | `owner.global`: the published workspace and, with sign-in off, the stash of an interactive tutorial |
| `tutorials` | `owner.tutorials` |
| `userTail`, `globalTail` | `owner.tails`: the FIFO chain of promises per key, as the sequence of requests in it |
| `draft`, `pc` | the `SnapshotState` bound to the request by `AsyncLocalStorage`, and where the request is |
| `disk`, `tmp` | the snapshot file and the temporary file it is replaced from |

A snapshot is the set of requests whose edit it contains. `Receive`, `EnterUser`,
`EnterGlobal` are `acquireSnapshotMutation` cut at its two awaits; `Handle*` are the
route handlers, which run on the draft (`HandleEdit` any command, `HandleStart`,
`HandleBaseline`, `HandleEnd` the tutorial routes, `HandleNothing` those that run no
command); `SendRefusal`, `SendUnchanged`, `CommitTutorial` and the chain `BeginSave`,
`WriteTemporary`, `Rename`, `Publish`, or `SaveFails` at any point before the rename,
are the `onSend` hook. `Restart` may happen at any time.

`SnapshotLedger` is what a client may believe: a workspace, a stash and private
tutorials, changed by one request at a time, with the requests that took effect and
those that were acknowledged. `ImplementsLedger` maps the instant of effect of a
workspace change to the rename, and that of a tutorial to its publication.

### MobileSessions, MobileCredentials

Rows are sets of names: `active` / `revoked` / `lapsed` sessions, `access` tokens,
`fresh` / `spent` refresh tokens; `family` and `device` are their foreign keys. A
request is a transaction of several statements; `sessionRows` and `tokenRows` are the
rows it has updated and so holds until its commit. A statement waits while another
transaction holds its row and sees what is committed when it runs (Read Committed);
`BreakDeadlock` is the database ending one transaction of a cycle of waiting ones.
The revocation of a family (`Revoke`, `RevokeSession`, `SweepTokens`,
`FinishRevocation`), the rotation (`ReadRefresh`, `Consume`, `Extend`, `Rotate`), the
sign-in (`BeginSignIn`, `CreateSession`), the use of an access token (`FindAccess`,
`TouchAccess`, `Route`) and the hourly cleanup (`Purge*`) each follow the order of
the statements in `mobileSessionPrisma*.ts`. The database itself is external.

`MobileCredentials` says that a session is a chain of refresh tokens of which the
last one works, each exchanged once, until the session ends for good.

### TaskCompletion

One action is one accepted request on the published snapshot; that such requests are
atomic is the result of `SnapshotStore`. The state is the part of the snapshot that
completion reads: tasks with their scope, work logs and documents (counted), parts
with definition, revision and place, reviewed QA reports in the order of
`qaReviewSequence`, pending QA requests, findings, risks and dependencies. The guards
that a write can fail on after the handler ran (`assertCompletedTask...`) are
conjuncts over the new state, as they are evaluated on the draft. `RemoveSubsystem` is
what the cascade of a subsystem does to tasks, parts and their records.

`TaskViews` adds what the clients see: `ListedWaiting` is `isWaitingOnDependency` of the
lists, over the whole snapshot, `ShownWaiting` that of the bootstrap, which scopes tasks
and dependencies before it works the flag out. `MCTaskCompletion` is its instance for TLC.

### TaskSerials, SavedRows

`TaskSerials` follows a task's serial (the alias of its first subsystem and a number)
through the requests that change what it is made of; `Normalized` is
`normalizeSnapshotTaskSerials`, which some handlers run before they publish and others do
not. `SavedRows` keeps of a saved row its kind and the length of its title, and lets a
start accept or refuse the file as the schemas do. Both have a counterexample, section 5.

### Hierarchy, Purchasing, Roster, Calendar, WorkspaceRecords, WorkspaceViews

The plain records of the snapshot, in four facets. One action is one accepted request,
with all that its handler cascades to, detaches and refuses. `None` stands for a record
that is not there; an id may be given again.

- `Hierarchy`: `project` and `parent` of subsystems, `home` of mechanisms, `defined`, `part`
  (its definition, its intended subsystem and mechanism, and where it is installed),
  `task` with its targets, `purchase`, `receipts`. `RemoveSubsystem` is the longest handler:
  the subsystem, those below it, their mechanisms and parts, and every task that
  points at any of them.
- `Purchasing`: `item` with its approval and its order, `receipt` by operation id, `created`
  (how many part instances), `material`, `counted` (a history of counts, for the
  property), `madeOf`, `used`. A repeated receipt is a stuttering step.
- `Roster`: `member`, `teams` (an array, as its order decides who is moved), `duty` (the
  people and the team of a task), `staff` (those of a subsystem).
- `Calendar`: `seasons`, `milestone`, `markers` (the requirements that stand for its scope),
  `meeting`, `workstream`, `scheduled`, `result`.

`WorkspaceRecords` puts the four beside each other. Each models every request that
changes its facet, those that come from other facets included (a removed mechanism
changes tasks in `Hierarchy`), so no property of one depends on a step of another, and
TLC explores one facet per behaviour. `WorkspaceViews` is the bootstrap
(`bootstrapSelection.ts`) over all four: what each selection of a season and a project
shows, and which milestones and tasks are listed for each other.

### EmailCodes

`record` is the entry of `pendingEmailCodes`; `stage` and `smtp` are a request for a
code as its client and as the transport see it: they part when the bounded wait of
12 s ends first (`TimeOut`). `Arrive` puts a code in the inbox at any time after the
hand-over, also before the transport answers, or never.

### WebSessions

Each database statement of the `onRequest` hook, of a sign-in and of a logout is an
action; `StatementFails` is any of them rejecting. `Lapse`, `Age` and `HourPasses` are
the clock, `EditRoster` the roster changing in the snapshot.

### SignIn

The process that runs both (`buildApp`): `EmailCodes` extended, `WebSessions` instantiated
with the same roster. Every step is a step of one of them and leaves the other alone,
but a restart, which is one of both, and an edit of the roster, which both see. A
session may also begin with Google's word, so a sign-in does not wait for a code.
`ServiceLimits` is the third part: `records` and `lastCleanup` are the fixed windows of
`requestLimits.ts`, `reservations` the bytes per account and hour of
`mediaUploadService.ts`, `upload` where each upload is (its signing is awaited between
the checks and the reservation), `preferences` and `file` what `userPreferencesStore.ts`
holds and has saved. `accepted` and `granted` are histories for the property. A restart
is one of all three. `MCSignIn` restricts it for TLC.

### StepParserPool

`active` is `activeParserProcesses`, `waiters` is `parserWaiters`. A release and the
continuation of the waiter it wakes run in one event (a promise callback follows its
resolution before any other event), so `Release` is one action that hands the slot
over. An import (`CadImport`) holds the parse. The timers of the pool and the abort of the caller fire for the same deadline.

### CadHierarchy, CadImport

`runs`, `snapshots`, `mappings` and `rules` are the rows of `CadImportRun`, `CadSnapshot`,
`CadSnapshotMapping` and the active rules; `graphs` the stored nodes and parts. A statement
is a step: `Upload` to `CloseRun` are `runStepImport`, with the parser pool between
`BeginParsing` and `CreateSnapshot`; `OpenReview` to `SyncRun` are `applyMappingUpdates` for
either of its routes, source by source; `Check` and `Finalize` are the finalization, its
guards and its transaction. `Fail` is the handler of a failed import, `BreakOff` any
statement rejecting where nothing handles it, or the process dying. `crossed` is a
history: the snapshots two requests met on, which the code does not protect. `Replan` is
the workspace removing what a mapping names. `CadHierarchy` has the check of a
finalization (`HierarchyIssues`) and, for the property, what a reviewed tree is
(`Reviewed`), which is stated over paths and not as the code walks them.

### StepTree, CadViews, OnshapeGraph, CadFiles, MCCad

Algorithms without state of their own, related to a reference that does not compute as
they do. `StepTree`: `Structured` makes nodes and instances of products and usages, with the
signature paths, the quantities multiplied down, and the cut at a cycle; `Needed` counts
from product to product instead. `CadViews`: `Rows` are the groups of repeated
instances, `Context` and `TotalQuantity` the review's walk, `Diff` the comparison of two
snapshots; `Agreeing` and `Telling` relate them to each other and to the tree.
`OnshapeGraph`: `OfTable` and `OfInstances` normalize a bill of materials, `Imported` is the
merge into a snapshot's graph; `TableKept`, `InstancesKept` and `ImportedOnce` count the
parts in the graph and in the table. A bill's nodes, parts and instances are functions from
the place, in what Onshape sent, that each came from (0 is the root), so that items which
are taken for one another are still told apart by the reference.

`CadFiles` is what the algorithms are given: its constants are the files, each with the
snapshot before it and the mappings of both, the tables, the lists of instances, and the
records of the workspace. A behaviour has one of them and never changes it.
`FilesAreKept` and `ViewsAgree` are stated there.

`MCCad` is the instance of all of CAD for TLC. `side` chooses uploads, Onshape, or one of
the three sets of inputs (`MCStepFiles`, `MCTables`, `MCInstanceLists`). It extends
`CadImport`, `OnshapeSync` and `CadFiles`, whose names are kept apart for that
(`OnshapeSpec`, `progress`, `synced`, `Nil`, `Missing`).

### OnshapeCredentials, OnshapeSync

`tokenSet`, `generation` and `refreshInFlight` are the variables of `cadStoreOAuth.ts`; a
token set bears the generation that stored it as its id. A refresh is named by the
request that started it: `awaits` says which refresh each request waits for, `begun`
the generation, the refresh token and the token set it was started with. `JoinRefresh`
is `refreshOAuthTokenSet`; `RefreshSettles` is Onshape's answer with all that runs before
the next event, so every waiting request goes on in it. `CallBack` and
`ExchangeSettles` are the OAuth callback before and after its exchange.

`OnshapeSync` adds imports. `AwaitToken` and `Begin` are the route up to `runCadImport`;
`AskCache`, `AskInVain` and `AskOnshape` are `requestJson` up to its fetch, `Answer` and
`CallFails` what comes of it; `Digest` goes on with what a read brought, `Conclude` writes
snapshot, graph and outcome, `Stop` the outcome alone. An import that can go on without
an event is "asking", and no event is handled before it has gone on (`Quiet`).
Everything is in memory: a restart is the initial state.

## 4. The runs

| Run | Instance | Shows |
|---|---|---|
| `SnapshotStore_signedin` | 2 users, 4 requests (3 + 1), sign-in on | edits are durable exactly when acknowledged, destinations stay current, tutorials isolated, the ledger implemented, every request ends |
| `MobileSessions_races` | 4 requests, 1 device | only the last pair of a live session works, grants are current, no wait without end, `MobileCredentials` implemented |
| `MobileSessions_reuse` | the same | counterexample, section 5 |
| `TaskCompletion_evidence` | 1 task, 1 part, 2 definitions and revisions, any scope; or 2 tasks, a finding, a risk | a complete task is backed by evidence; corrective history names no missing record; an obsolete review stays obsolete |
| `TaskCompletion_dependencies` | 2 tasks, 1 part, 2 dependencies | a complete task never waits, hard dependencies have no cycle, no selection hides that a task waits |
| `TaskCompletion_requests` | 2 tasks, 1 part, 2 requests | counterexample, section 5 |
| `TaskSerials_moves`, `SavedRows_loads` | 2 tasks, 2 subsystems, 1 mechanism; 3 kinds of rows | counterexamples, section 5 |
| `Workspace_records` | the four facets, each with the few records at once that its bound allows | the structure is a forest without dangling targets, receipts add up and keep their parts, decisions stand, people and teams agree, the calendar agrees, nothing is hidden |
| `SignIn_process` | 2 requests for a code, 3 attempts, limit 2; 3 requests of sessions; 3 if of both; 2 addresses, 3 uploads, 3 units of time | a code signs in once, stands 2 wrong guesses, dies with its mail; an ended session is over, cleanups do not overlap; limits and quota hold; every request is answered |
| `EmailCodes_overlap` | 2 requests, 1 attempt | counterexample, section 5 |
| `Cad_imports` | uploads: 5 parses, 2 slots, queue of 2, 2 reviews, 1 finalization; Onshape: 2 imports, 1 renewal, 1 callback; files, snapshots, tables | the pool is sound, rules never conflict, records agree, what is finalized is reviewed, reviews stand; connections stand, Onshape's runs and snapshots agree; files and tables are kept, views agree; every request ends |

The properties each run checks, by name:

- `SnapshotStore_signedin`: `TypeOK`, `EditsAreDurable`, `DestinationStaysCurrent`, `TutorialIsolation`, `ImplementsLedger`, `EveryRequestEnds`.
- `MobileSessions_races`: `TypeOK`, `OnlyLiveSessionsWork`, `WaitsEnd`, `GrantsAreCurrent`, `ImplementsCredentials`.
- `MobileSessions_reuse`: `ReuseEndsSession`.
- `TaskCompletion_evidence`: `TypeOK`, `CompletedWorkIsBacked`, `CorrectiveHistoryIntact`, `ObsoleteReviewsStayObsolete`.
- `TaskCompletion_dependencies`: `DependenciesHold`, `WaitingIsShown`.
- `TaskCompletion_requests`: `ClosesOnlyItsRequest`.
- `EmailCodes_overlap`: `AcceptedCodeStays`.
- `SignIn_process`: `TypesOK`, `CodesHold`, `EndsHold`, `EveryRequestEnds`, `LimitsHold`.
- `Cad_imports`: `PoolIsSound`, `RulesNeverConflict`, `RecordsAgree`, `FinalizedIsReviewed`, `OnshapeHolds`, `FilesAreKept`, `ViewsAgree`, `ReviewsStand`, `ConnectionStands`, `EveryRequestEnds`.
- `Workspace_records`: `WorkspaceTypesOK`, `StructureHolds`, `ReferencesHold`, `NothingIsHidden`, `ReceiptsAddUp`, `DecisionsStand`, `PeopleAgree`, `CalendarAgrees`.
- `SavedRows_loads`: `AcknowledgedCommitsLoad`.
- `TaskSerials_moves`: `FirstTargetOwnsSerial`.

A property with several parts (`EditsAreDurable`, `CodesHold`, `PoolIsSound`,
`OnshapeHolds`, `StructureHolds`, `ReferencesHold` and so on) is the conjunction of named
ones, which are explained where they are defined.

Bounds. Requests are made once each, so a run ends when they are used up: runs of
components whose only work is requests say `CHECK_DEADLOCK FALSE`. Interchangeable
requests are told apart either by `SYMMETRY` or, where a run also checks liveness (for
which symmetry is unsound), by the state constraint `InOrder`, which lets them arrive
in the order of their names and loses no behaviour up to renaming; as no fairness
condition speaks of arrival, it does not make a liveness property easier.

- Snapshot store: three requests of one user are the fewest that start, use and end a
  tutorial, or that queue behind one another; the fourth, of another user, is the
  bystander whose workspace must not change. Restarts and failures are unbounded. A
  store without sign-in has no run of its own: the theorem `Refinement` covers it.
- Mobile: four are the fewest that sign in, exchange a token, and present the old and
  the new one together. With one device, two requests may still sign in at once, so
  that a logout of all has several sessions to end.
- Tasks: the bounds `MaxSequence`, `MaxLogs`, `MaxDocs` and `MaxRequests` are guards of the
  actions that would exceed them. Two reviews are enough for one to supersede the
  other; one log or document is enough since only "some or none" is ever asked; a
  second task is what ids, logs and dependencies can be moved to. `OneTaskOrCorrections`
  lets a behaviour explore one task with all its evidence, or two with what reviews
  leave behind, for which logs and documents make no difference. A cycle through
  three tasks is not in the run: `WouldCreateCycle` follows chains of any length, the
  run has chains of two.
- Workspace: `FewPlaces` admits three records of the structure at once (four when both
  mechanisms are there), of which one may be a purchase: enough for a subsystem below
  another with a part or a task, a mechanism and a task on it that moves, a part that
  is installed elsewhere than intended, a receipt. `FewPurchases` admits three records,
  and two purchases only of material, where their receipts meet. `FewPeople` admits
  four people, teams and assignments, either teams of two seasons or work in one.
  `FewDates` admits three. Ids are reused at once, so the bound is on what there is
  together and not on how long a sequence of requests is.
- Sign-in: two overlapping requests for a code and one more attempt than the limit
  allows; of sessions, a sign-in, an ending, and a request that meets it. Since the
  parts share only the roster and restarts, `RequestsInAll` lets a behaviour make
  all requests of one part, or three of both; `Apart` and `OneService` let it use
  limits, uploads or preferences while nobody signs in. A clock of three units
  reaches a second window of two and a second hour of three.
- Uploads: `Crowd` is five parses that fill two slots and a queue of two, and overflow it,
  none of which gets beyond its parse; `Rivals` two reviews that meet, and a later
  import that finds their rules; `Meeting` one import that a review and a finalization
  meet at any statement; `Tall` a tree of four assemblies and a part, in six shapes,
  reviewed in any way and then finalized. An import that is under way shares with
  another only the pool and the rules, which `Crowd` and `Rivals` explore.
- Onshape: two imports and a renewal meet a refresh at any stage, and the callback may
  overtake it; a version with an element, one without, and a workspace tell the reads
  apart. What the connection does reaches the reads in one way only, whether the
  client has a token. So a behaviour explores either the connection (`Connecting`), with
  imports that read the metadata of one version, or the reads (`Reading`), with a
  lasting token.
- Files: all 256 combinations of eight usages of five products (siblings of one name,
  shared products, cycles, two roots of one name), each against three earlier files;
  1694 pairs of small snapshots with signatures of their own; 1125 mappings of a chain,
  against the same file renumbered. Tables of up to three rows in any order, with rows
  that are taken for one another and a part in two versions; assemblies of four
  instances whose parents may be parts, or missing.

Fairness. A request that the server received is continued by the event loop: weak
fairness of its next step, whichever it is, per request (`SnapshotStore`; the requests of
`WebSessions` and `CadImport`, where a failing statement is a step too; the signing of an
upload). Nothing makes a client send a request, a file system succeed, a process die or
stay alive. `EmailCodes` assumes only that the 12 s timer of a request fires, and the
parses of `CadImport` only that their timers do: neither assumes that the transport or
the child process ever answers. `OnshapeSync` assumes that a fetch settles, one way or
the other (those of Node time out), and so does an audit entry. As requests are finite
in a run and end once, "every request ends" is stated as `[]<>` of none being under way.
`MobileSessions` states its freedom from endless waits as an invariant, `WaitsEnd`,
instead: whoever a request waits for is at work, so a chain of waits ends at a request
that can go on, or is a cycle, which the database breaks.

## 5. Where the code and its documents disagree

- `MobileSessions_reuse`. `README.md:246`: "Reusing an already consumed refresh token
  revokes the whole device session." A revocation locks the session row and then the
  refresh tokens, a rotation the refresh token and then the session row. When a
  consumed token is presented while the session's current one is being exchanged, the
  two wait for each other and PostgreSQL ends one. If it ends the revocation, its
  work is rolled back, a 500 goes out, and the session lives on.
- `TaskCompletion_requests`. `test/qaLifecycle.test.ts:92`: "reviewed nonpass closes
  only its request and creates genuinely linked corrective records". A submission
  that names no request answers the newest pending request that shares any target
  with it, so a review of one task can delete the request of another that targets the
  same part, which then waits for QA with no request.
- `EmailCodes_overlap`. `authService.ts:448`: "The request remains accepted while SMTP is
  pending, so clients can enter a code that arrives after this bounded wait." A first
  mail arrives and its code is used (or guessed away) before its transport has
  answered; a second request stores its own record; then the first transport fails
  within its wait, and the handler deletes the record the address has by then, which
  is that of the second request: its code is refused although it was accepted.
- `SavedRows_loads`. `test/platformSnapshotPersistence.test.ts:41`: "default development
  platform stores acknowledge only durable commits and survive forced process exit". A
  bought part definition may have a name of two letters and gives it to its purchase,
  whose title must have three when the file is loaded: the next start refuses the file.
- `TaskSerials_moves`. `test/taskTargets.test.ts:79`: "first target owns serial and audit
  context while reparenting and deletion retain all selected targets". A mechanism
  that moves puts its new subsystem first among those of its tasks, which keep the old
  one's serial until some other request renumbers them.

What the models show besides, with no counterexample run, because no document says
otherwise or because it is a matter of design:

- Tasks. The bootstrap of one project may show a task as waiting for one of another
  project that is complete (the dependency is worked out on the scoped snapshot).
  Removing a subsystem leaves its tasks among the targets of risks, so that a later task
  with such an id is born blocked.
- Structure. A part installed elsewhere keeps naming an intended subsystem or mechanism
  that is gone. A part without a subsystem is in no bootstrap. A task may target a part
  that has since moved to another project, and can then not be edited until its targets
  are. The same goes for a workstream that moved and a meeting that was removed.
- Calendar. A milestone of projects of two seasons is not shown in the second one's
  selection. The requirements of a milestone are its scope markers only, so its
  readiness is never "ready".
- Serials. Two subsystems may have one derived alias, and then equal serials; the number
  of a removed last task is given again.
- CAD requests that meet. `crossed` leaves them out of `RecordsAgree` and
  `FinalizedIsReviewed`, because nothing orders them: a review that a finalization
  overtakes sets the snapshot back to mapped (against `docs/cad-step-mapping.md:67`), a
  finalization during an import is overwritten by its last statement, a review of a
  failed import's partial snapshot turns the run from failed to mapped, two reviews can
  supersede each other's rule. A crash leaves a run pending or parsing for good.
- CAD files. Signatures of the text parser are paths, so files that go through it never
  report a move. An occurrence that keeps its name and becomes another part, when both
  are used elsewhere too, changes nothing in a diff. Two roots of one name share
  signatures. A cycle of usages beside a proper root is dropped without a word, which
  is why `Kept` counts parts only in files where no product contains itself.
- Bills of materials. A row without an identity takes its index, and is merged with a
  row whose identity is that number; a row listed before its assembly hangs under the
  root. `TableKept` counts in tables where neither is the case, and asks of all others
  that importing again changes nothing.

## 6. What is proved

All theorems hold for any sets of users, requests, records, parses and attempts and any
limits; TLC has first checked each inductive invariant's parts, or their
consequences, on the instances above. The assumptions are those named in the modules
and nothing else:

- snapshot store: `UsersAssumption` (who sends which request; nobody has a session when
  sign-in is off), `NoneAssumption` (a missing value is no snapshot);
- sign-in: `NamesAssumption`, `AttemptsAssumption` (at least one attempt),
  `ResendAssumption`, `WebRequestsAssumption`, `LimitsAssumption` (windows, quotas and
  their like are positive), `LimitRecordsAssumption` (a missing count is not a count);
- pool: `LimitsAssumption` (at least one slot); mobile sessions: `NamesAssumption`;
- tasks: tasks are finitely many and no parts, scopes are sets of parts, bounds are
  numbers, what a dependency may require is a state of tasks, and a missing record is not
  a record;
- workspace: the same of its records, in each facet; the core subsystems are subsystems,
  "admin" is a role;
- Onshape: `TokensAssumption` (the tokens of the environment and a missing one are no token
  sets), `CallersAssumption` (an import, a renewal and a callback are different requests),
  `RefsAssumption` (a version is no workspace);
- CAD imports: `RequestsAssumption` (an import, a review and a finalization are different
  requests), `FilesAssumption` (a file is finite; a node's parent and a part's holder are
  nodes of the same file or null, which is what `createAssemblyNodes` stores),
  `MappingsAssumption` (a missing mapping is not a mapping);
- CAD files: `StepFilesAssumption` (what the parser makes sure of, `IsFile`: usages are of
  products of the file, with an identity each and a positive quantity; and a snapshot before
  it whose instances are finitely many and positive, and in which what has one signature
  hangs under one signature, `IsSnapshot`), `BillsAssumption` (what Onshape sends: `IsTable`,
  rows with an item number and a quantity, `IsList`, instances that are there once each and
  in a forest; in both, no row or instance has the identity of a part). `ParsedIsSnapshot`
  shows that whatever is parsed of a file is such a snapshot, so the second half of
  `StepFilesAssumption` asks nothing of a second upload. Quantities are whole numbers; the
  text parser would also take a positive fraction.

**SnapshotStoreProofs.** The properties speak of what is published; none is inductive,
since each depends on who holds which lock and on what the drafts contain. `IInv` is
`TypeOK` with
- `LockInv`: a request past its user's queue is at the head of that queue, and one that
  opened a draft of the workspace at the head of the global queue;
- `DestinationInv`: the destination of a draft agrees with its user's tutorial and with
  the locks it holds;
- `SaveInv`: the temporary file is the draft about to be renamed, the file what is
  published or the draft about to be;
- `DraftInv`: a draft is the published state it was opened on, plus its own edit;
- `FreshInv`: a request that has not taken effect has left no edit anywhere;
- `IsolationInv`: whose edits the workspace, its file, a tutorial and their drafts hold.

The refinement adds `OriginInv`: what a draft is a change of, according to its destination.
`Inductive` proves it, and `TypeCorrect`, `EditsSurvive`, `Durable`, `UpdatesKept`,
`DestinationCurrent`, `RefusalsLeaveNothing`, `Isolated` and `GrowsByOneEdit` follow;
`EditsDurable` is `EditsSurvive`, `Durable` and `RefusalsLeaveNothing` together.
`Refinement` shows that initial states map to initial states of the ledger and every
step to a step of it or a stutter, with sign-in on and off. `NoLostUpdate` and
`WorkspaceGrowsByOneEdit` are proved and not run: they are consequences of the
refinement that a reader may look for.

**SignInProofs.** `ProcessSteps` shows that a step of the process is a step of the codes,
of the sessions and of the services, or leaves the part alone, so `ProcessInv` is the
conjunction of three invariants. For codes, `CodesInv` adds that a record names a request
that was made and has not failed, that a tried code is of a request that was made, that a
used code is not the record's, and that the record's counter is the number of wrong
attempts on its code. `CodesSignInOnce`, `AttemptsBounded` and `FailuresAreFinal` follow,
joined in `CodesSound`: since no request is made twice, a code whose record is gone never
comes back. That is proved of `EmailCodes` alone and carries over to the process
(`ProcessCodesHold`). For sessions, rows and cookies name sign-ins that were answered
(`RowsInv`, `CookiesInv`): therefore a row inserted later is never one that a request has
seen the end of, and a request made after the end stays behind its lookup (`LateInv`);
`CleaningInv` ties the hour to the one that cleans up. For limits, `Books` says of the
times at which something was granted that the last *c* are of the current window, *c*
being the counter, and that all but the *cap* before them are a window older than its
start. It is kept when a window begins (`Renewed`), when time passes (`Later`), and when
*k* more are granted (`Extended`), which is where twice the cap in any span follows. The
same three lemmas serve requests (one at a time, with records that a cleanup drops) and
upload quotas (blocks of bytes, reserved after an await).

**MobileSessionsProofs.** Statements of several transactions interleave, so the invariant
says what each still has in hand: `NameInv` (a name a request may yet insert is on no
row), `RowInv` (which rows a transaction holds at each of its statements, whence no two
hold one), `SweptInv` (what a revocation has already dealt with stays dealt with, also for
a rotation that began before it), `ExchangeInv` (a token that was exchanged is spent).
`OnlyLiveSessionsWork`, `GrantsAreCurrent` and that whoever waits does so for a request
still at work (`WaitsEnd`) follow, and so does the refinement: each step is a step of `MobileCredentials` or a
stutter, with `Works`, `TokenFact` and `Ending` as the facts that tell which.

**TaskCompletionProofs.** Dependencies are kept acyclic by a search that is bounded by the
number of tasks. `Acyclic` is stated with closed sets (each task is outside a set of tasks
that is closed under prerequisites and has its own), and the search is characterised by
induction over its bound, with a set of naturals that contains zero and is closed under
successor: this needs no induction theorem with an operator as parameter. The invariant
adds that reviews are of tasks there are (`ReviewsOfTasks`), that a dependency is on
another task and on a state a task can have (`DependencyInv`), and that no complete task
waits. A completed task is backed because whatever could take its evidence away ends in
`CompletedNotBlocked` and `CompletionOutlives` or touches no record that the task rests on
(`Untouched`). `WaitingIsShown` follows from the invariant in every state, for any part of
the workspace that a bootstrap may select.

**WorkspaceProofs.** `WorkspaceInv` has a part per facet, and each facet's steps leave the
others alone. `StructureInv` adds to `StructureHolds` and `ReferencesHold` that core
subsystems exist, that places exist and that a part is on a mechanism of its own
subsystem; a forest is argued with closed families of subsystems, as is the cascade of
`RemoveSubsystem`. `BuyingInv` adds that what was decided was quoted and that purchases
and receipts are finitely many; sums are folds of the community modules, and lemmas say
what a fold over a changed function is (`SumSame`, `SumAdded`, `SumWithout`), by induction on
the size of its set. `PeopleInv` restates the rules for people as what a role and a season
allow (`Sound`, `HasTeam`, `Staffed`). `DatesInv` adds that projects' seasons exist.
`NothingIsHidden` holds in every state that satisfies `WorkspaceInv`: it is about what the
bootstrap shows of any such workspace, not about how it came to be.

**CadImportProofs**, first the pool. The counter, the queue and the stages determine one another:
`IInv` is the conjunction of the type invariant, `SlotsAccounted`, `NoIdleSlot` and
`QueueIsExact`, with the finiteness of the set of parses at work, and no part is
inductive without the others (a release is right because the queue is empty whenever
a slot is free; a wake-up is right because the queue holds waiting parses only).
`PoolSound` joins the three. Lemmas `Appended`, `Dequeued` and `Removed` say what the
queue operations do to the elements of a sequence without duplicates. The pool is
proved on its own, as `Spec`; `CadImport` takes its actions unchanged.

Then the imports. `CadInv` is the types and the places with four parts. `RulesInv`: rules
for one source meet only while the review that added the last of them has yet to
supersede the others, and no review adds two for a source. `MappingsInv`: what a review has
yet to decide is mapped, and an import has yet to map what it has not. `RecordsInv` says,
for every snapshot that no two requests met on, which statuses its run, its snapshot and
the request at work on it can have at each statement, and which mappings are open; where
requests met, the code promises nothing, and neither does `RecordsAgree`. `FinalsInv`: what a
finalization has passed still satisfies its check. `RulesNeverConflict`, `RecordsAgree`,
`FinalizedIsReviewed` and `ReviewsStand` follow. The code walks from a node to the root
(`Above`, a recursive function over the naturals), while the property is about sets of nodes
that are closed under children. `AboveHolds` relates the two, by the least natural at which
they would differ: each node found above a node holds it. So a snapshot in which
`HierarchyIssues` finds nothing is `Reviewed` (`IssuesTell`).
`ImportsRefinePool` shows that every step is one of `StepParserPool` or a stutter, so
`PoolSound` carries over to the pool inside the imports (`ImportsPoolSound`).

**OnshapeSyncProofs.** `OnshapeInv` has a part for the connection and one for the records.
`FlightInv`: only the refresh in flight is of the current generation, and it was started
from the current token set. `OvertakenInv`: a refresh token is not newer than the refresh
that presents it, and what an overtaken refresh presents is not stored any more, unless it
is the environment's. That is why a callback between a refresh's start and its answer
cannot lead to the same token being presented twice, and `OneRefreshPerToken` is only
inductive with it. `WorkInv`: an import without its token has no run, one that reads has a
running run that has made nothing; therefore writing its snapshot disturbs no other run's.
`OnshapeInvariant` says that it holds; `OnshapeSound` and `ConnectionsStand` follow.

**CadFilesProofs.** Nothing changes in `CadFiles`, so what has to be shown is a fact about
every input: `FileIsKept`, `TableIsKept`, `ListIsKept`, `TreesAgree` and `DiffsTell`, which
`AllFilesAreKept` and `AllViewsAgree` put together. The algorithms are recursive functions
over levels, places or nodes, which raises two questions that no induction theorem of
the library answers, since those take an operator as parameter. That such a function
exists, so that `CHOOSE` finds one and it satisfies its rule, is shown by induction over a
set of naturals: those up to which there is one (`Recursion`, `GrowthExists`,
`MultiplesExist`, `UpsertsExist`, and `SumsExist` for the folds of the community modules).
What it computes is shown by a second induction of that kind (`Induction`,
`SetInduction`), with an invariant of the computation:

- *Sums.* `MapThenSumSet` is a sum of a function over a finite set, and sums may be split,
  renamed, scaled, and summed by groups (`SumDisjoint`, `SumRenamed`, `SumScaled`,
  `SumOfSums`). All that is said of quantities rests on these.
- *STEP files.* An occurrence is a path, and level *n* has the paths of length *n* that the
  level before allows (`LevelsAre`). Where no product contains itself, every path is
  expanded (`FoundedExpands`: a product met again would close a chain of usages, `NoCycle`).
  The quantities of the paths to a product add up, level by level, to what `Needed` counts
  from product to product (`WeightIs`, `NeededIsWeight`, `PartsAddUp`). Two paths with one
  signature are one path when roots have different names, as one segment differs where the
  paths part (`SegmentsDiffer`, `SignaturesDiffer`).
- *Views.* What is parsed is a tree (`IsTree`: parents are one step up, everything is
  below a root). In any tree the context passed down is that of the nearest node above
  (`NearestToParent`, `ContextIsReviewed`), and what is collected under a node is the
  instances that it is above (`UnderCollects`, `GroupsAddUp`).
- *Diffs.* `Telling` follows from what one signature says of parents and from sums over
  groups of equal entries (`NumbersAreTold`, `SameBillSameQuantities`).
- *Bills of materials.* `Taking` is the invariant of the upserts: each part is there once,
  whatever versions came, and each source so far was taken for its part (`UpsertsAreTaken`);
  doing it all again changes nothing (`UpsertedAgain`). The walk up reaches the root when
  no set of nodes lies only in itself (`RootIsReached`, `GraphIsGrounded`), which holds of
  tables since a row is put below an earlier one, and of lists because they are forests. The
  instances found below a node are the rows whose number extends its number
  (`AboveByNumber`, `HowManyIs`).

The proofs showed what the instances had not. A diff between snapshots of equal bills
was empty only because no instance repeated an entry: `Bill` was a set, in which two equal
entries are one, and it now counts them. Nor does it follow that no mapping changed
unless sources of one signature are decided alike, since a mapping is compared by
signature: `Telling` now says so (`Consistent`). And the mechanism next above
a node is to be asked for by what the node is classified as, not by its mapping
alone (`NamesMechanism`).

**Only model-checked**: liveness (the `EveryRequestEnds` of three runs), as the prover
handles neither fairness nor ENABLED here, and the counterexamples of section 5. Every
invariant and every other action or temporal property of a passing run is a theorem.

## 7. What is not modelled

- Readiness of parts and milestones (`domain/readiness.ts`), test results and their
  findings, and the dependencies that require a readiness: every rule of it reads a
  dozen kinds of records, which the runs of `TaskCompletion` have no room for. Tests
  are there as what advances the review sequence.
- In `TaskCompletion`: draft and submitted QA reports (no rule reads them), people,
  dates and texts.
- In the workspace records: fields that no rule reads, disciplines, who may make a
  request (`workflowAuthorization.ts` beyond the decision on purchases), seeds.
- In CAD: rules made by hand, warnings, suggested kinds and matches, reading entities
  from STEP text, JSON fixtures, the placeholder parser, jobs' logs.
- In the Onshape modules: part definitions and links to the workspace, warnings; which
  of several field names of a payload holds a value; a configured budget below the two
  calls an import makes.
- In the sign-in modules: Google credentials (verified by a library, no state), the
  format of codes and addresses, cookies and headers; a storage that is not configured.
- Slack messages, configuration, contract schemas, seed data: pure functions of their
  input, pure output, or fixed.
- How long a killed parser process lingers, and what the file system does to a file
  that was renamed but not synced.
