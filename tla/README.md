# A TLA+ verification of pv

`pv` is a local development control plane for PHP projects: a CLI that writes
desired state into SQLite (`~/.pv/pv.db`) and a daemon that reconciles the
machine with it (runtimes, ports, databases, `.env` files). This directory holds
TLA+ modules translated from the Rust source, TLC configurations that check them
on small instances, and TLAPS proofs. All paths below are relative to the
repository root (`crates/...`, `DESIGN.md`).

Contents: 1 inventory, 2 modules and how they correspond to the code, 3 runs,
4 fairness, 5 proofs, 6 disagreements with the documentation, 7 what is not
modelled, 8 plan.

## 1. Inventory

### The parts and the state they keep

| Part | State | Operations | Source |
| --- | --- | --- | --- |
| Mutation queue | queued and active job, the file lock guard, waiters | enqueue with coalescing, wait for turn, finish, drop | `daemon/src/reconciliation.rs` |
| Job tasks | program counter of a task, its stream, its row | accept, start, work, record, report, abandon | `daemon/src/jobs.rs` |
| Coordination lock | flock on one file, shared or exclusive | acquire, require none in progress | `state/src/update_lock.rs` |
| Daemon life cycle | tasks of the runtime, threads for blocking work | start, serve, shut down, die | `daemon/src/lib.rs`, `server.rs` |
| Config watcher, debouncer | modification times, pending scopes, worker | poll, request, flush | `daemon/src/watcher.rs`, `reconciliation.rs` |
| Job history | jobs, diagnostic outcomes | start, complete, fail, prune, derive failures | `state/src/database.rs` |
| Gateway and PHP workers | processes, pid and metadata files, Caddyfiles with backups | promote, adopt, start, reload, stop, roll back | `daemon/src/gateway.rs`, `gateway_config.rs`, `supervisor.rs` |
| Managed Resources | tracks, ports, allocations, data directories, processes | install, assign ports, prepare, start, allocate, stop, update | `daemon/src/managed_resources/` |
| Project reconciliation | requirements, `.env` block, observed state | plan, apply, render, finalize | `daemon/src/project_env.rs` |
| Artifact installation | releases, `current` link, download cache | select, download, install, prune, roll back | `resources/src/` |
| Self-update | application releases, active link | download, activate, restart, roll back | `self-update/`, `cli/src/commands/update.rs` |
| Project registry | projects, slugs, hostnames, PHP versions, routes | link, unlink, php:use, reconcile, plan | `state/src/database.rs`, `cli/src/commands/project.rs`, `php.rs`, `daemon/src/gateway.rs` |
| Migrations, backups, files | schema version, backup files | migrate, back up, write atomically | `state/src/migrations.rs`, `backup.rs`, `fs.rs` |
| IPC | streams of lines | request, events, client timeouts | `daemon/src/server.rs`, `client.rs`, `protocol/` |
| DNS | reserved port, answers | bind with retries, answer | `daemon/src/dns.rs` |
| Host integration | pf anchors, resolver files, LaunchAgent, CA, keychain | install, check, remove | `platform/` |
| Project config | `pv.yml` | discover, parse, write, init | `config/` |
| Release tool | records, manifest, published objects | build, publish | `pv-release/` |

### How they interact

- The CLI and the daemon share `pv.db`, the file lock and a Unix socket. A CLI
  command that changes state first tests the lock and then works *without*
  holding it; the daemon holds it exactly while a job is queued or running;
  `pv update` holds it while it replaces the application.
- A request reaches the queue over IPC (foreground: the client's stream is the
  job's output) or from the watcher through the debouncer (background: nobody
  listens). The queue runs one job at a time.
- A job runs `project_env` for one or all projects, which calls
  `managed_resources` for each declared resource, then `gateway` for the
  runtimes. Both start processes through `supervisor`, whose pid and metadata
  files are the only link between a process and a later daemon.
- Every job ends with a row in the history and diagnostic outcomes, from which
  `status`, `doctor` and the deduplication of background errors derive what is
  currently wrong.

### What is hard

Interleavings of tasks and of CLI commands with jobs; tasks dropped at any await
while their blocking closures run on; deaths of the daemon between two
transactions, two renames, or a spawn and its files; processes that outlive the
daemon, pids that are taken over, ports taken by others; values read before an
await and used after it (a snapshot of tracks, a plan, a secret); retries that
repeat what was half done; timestamps of one second; a bounded history.
`PROJECT.json` lists each hazard at its line with the properties about it.

### What makes each modelled part correct

- Queue: one job at a time, in order; a duplicate joins only a job that has not
  read its input; the lock is held exactly while there is work; no wakeup is
  lost; every accepted job ends; no row says running for a job nobody runs.
- Watcher: no edit is forgotten between the watcher and a job.
- History: the failures shown are exactly the current ones of the rows kept; a
  failure leaves the report only verified, repeated or by the limit; an error is
  news again after a success; ids are never given out twice.
- Runtimes: every process PV started is found again; a failure restores the
  config; one request after the last mishap brings the runtime back.
- Resources: a stored secret is the one its data directory was made with; a
  ready allocation exists; a needed runtime is not stopped; a rendered `.env`
  names the track, port and secret in force.
- Artifacts: the `current` link and the row of a track name releases that exist; a
  group that fails is put back; the PHP pair is always one manifest's; an update
  reaches every installed track.
- Host integration: a command that reports success did its work; a removal leaves
  nothing behind; setup run again repairs; the user's lines survive everything.
- Registry: each linked project is what its `pv.yml` says or is reported as failed;
  routes, workers and the `php` shim agree with it.
- Self-update: the active link resolves; a rollback serves the old release; no
  downgrade but by rollback; no schema change without a backup.
- Releases: whatever a client may download names objects that exist; nothing is
  withdrawn; no leftover but an archive without a record blocks a release; versions
  never go back.
- Project files: the check before the work is the whole check; the user's lines of
  `.env` survive; `pv init` keeps what is there; what is written reads back.

## 2. Modules

Each module states its own granularity. The rule everywhere: the daemon has a
current-thread tokio runtime, so the code of a task between two awaits is one
action; each SQLite transaction and each effect outside the database is a step
of its own wherever something else can run, or the daemon can die, in between.

**SerialQueue** is the abstract queue: per key at most one request waits, at
most one runs, it reads its input after it has begun, and the lock belongs to
the daemon exactly while something waits or runs. It has no job ids, tasks,
rows or wakeups.

**ReconciliationQueue** is the queue in detail. `queued` and `active` are the
fields of `QueueState`; `pc[j]` is where the task that owns job `j` is
(accepting, ready, parked in `Notify`, started, working, blocking, returned,
recorded, gone); `row` is the job's row; `exclusive` and `shared` are the flock;
`desired`, `promised`, `seen` and `applied` are versions that say what a job read
and reconciled. `Enqueue`, `WaitForTurn`, `ReleaseActiveJob`, `Abandon`,
`NotifyWaiters` and `ReleaseUpdateLockIfIdle` are the methods of those names;
`RecordSuccess`, `RecordFailure`, `WriteTerminalEvents`, `ClientLost` and
`DropTask` are the ways through and out of a job task; `Shutdown`, `DropRuntime`,
`Exit`, `Crash` and `Start` are the daemon; `UpdateAcquire` and `Probe` are the
CLI. **ReconciliationQueueRefinement** gives the refinement mapping to
SerialQueue.

**ConfigWatch** extends SerialQueue with the watcher and the debouncer. It is a
composition: the queue step of a background request is SerialQueue's `Submit`,
so its results rest on the refinement, not on a second model of the queue.
`baseline` marks versions the watcher saw first at start or link (the code
requests nothing for those), `failed` the versions closed by a failed job. The row
of a failure is written to the same database whose failure may be the cause, and
`serve` discards the error of that second write: `Report` either records the version
in `failed` or in `unwritten`, a version that failed and that nothing tells of.

**JobHistory** models the rows, outcomes and observations and computes
`UnresolvedJobFailures` as the code does: scan the outcomes newest first, drop a
failure that a newer success or a newer healthy observation covers, add old rows
without outcomes. `Coverage` is the table of subjects each kind of job covers.
`Scan[n]` are the accumulators of that loop after `n` outcomes, `Visit` is its body;
`CurrentFailures` says without a loop what it should find.

**RuntimeSupervisor** follows one runtime through `start_or_adopt_promoted_runtime`:
promotion of the root and of the directory of fragments, each with its backup,
adoption, reload, start (spawn, pid file, metadata: three steps), readiness,
commit, or rollback part by part; and the removal of a stale worker. The process
table has start identities, so that a pid can be taken over by a stranger; the ghost
`misdirected` collects strangers that a signal meant for PV's process reached.

**ManagedResources** follows one backing resource with several tracks and
projects through all kinds of jobs. `job.pc` walks through the steps of
`reconcile_project_env...`: load, require, allocate, snapshot, stop, artifact,
install, ports, env, prepare, start, ready, allocations, mark, render, finalize;
a system job makes two passes with the stop sweep and the missing installs in
between; an update job installs first and then is a system job. CLI commands are
two-step: the lock is tested, then the command acts. `probed` says which of the
two readiness checks the adapter has, because they differ in who may answer: a
TCP or HTTP probe is made before the start as well, a SQL ping logs in with the
stored secret.

**ArtifactInstall** follows the commands that install and update the PHP pair,
Composer and single tracks. `releases[r][v]` is the directory of a version (absent,
whole, or dented or gutted by an interrupted removal: a dented one still passes
`validate_installation`), `current[r]` the link, `rows` the table. A command is a
list of groups; `pc` walks through `install_existing_release` (look, remove,
unlink), the download, `install` (look again, previous, promote, prune, point) and
the record, and through `rollback` (restore, discard). Each rename, removal, link
and transaction is a step; `Interrupt` is an error or a death before a step or
within a removal, `Outcome` also has the failing `sync_directory` after it. A
manifest is the version it selects for each track, so that a revocation is a
manifest that goes back.

**HostFiles** and **HostSetup** model `pv setup`, `pv uninstall` and the `dns:`,
`ports:`, `ca:` and `daemon:` commands. HostFiles has the files shared with macOS as
sequences of lines, with their renderers, parsers and the classification of `pf.conf`;
HostSetup has the host (`mac`), what is below `~/.pv` (`pv`) and the command that runs
(`cli`) as a list of procedures, each a few steps; a step is one change that survives
the process. Any step may fail or be the last one before the process dies. `cli.said`
keeps what a procedure reported about work it found done, and the ghost `mac.strayed`
that a running daemon lost its DNS row. Between commands the host reboots, is updated,
loses the CA key, or another program takes a port. The checks of `doctor` are operators
of the module, because install commands decide by them.

**ProjectRegistry** models the tables `projects` and `project_hostnames` with the
triggers, slugs and their numbering, `link`, `unlink` and the `php:` commands, the
project half of a reconciliation (load, resolve PHP, TLS, hostnames, finalize), the
runtime plan and the route fragments made from it, kept fragments included, and the
`php` shim's own resolution. Rereading the row for its hostname and the last
transaction are two steps. Missing tracks are installed one by one, each of which may
fail; a failure ends the job before the Gateway (`gateway = "skipped"`). Uninstalling a
track clears only that it is desired; its artifact stays on record. The Gateway
reconciliation promotes worker configs one after the other before the Gateway's own, so
one that fails may have changed some. A job works in steps on what it read first; commands
and edits fall between any two. A system job makes two rounds with the resources and
the Gateway in between, and reads the linked projects again before the second.

**SelfUpdate** models several processes of `pv update`, the releases, the active
link, launchd, the daemon, and the migrations with their backups that every process
runs when it opens the database. `validate_active_release`, `activate_release`,
`prune_releases`, `rollback_app_update`, `remove_release`, `prune_migration_backups`
and the protocol check of the health request are definitions of those names.

**ArtifactManifest**, **Recipes** and **ReleasePublication** model the release side.
Recipes says when a recipe loads and what a build makes of it, ArtifactManifest how
a manifest is generated from records and revocations, validated and selected from
(both `pv-release/src/manifest.rs` and the client's `resources/src/manifest.rs`).
ReleasePublication has the bucket as a function from keys to objects and the two
publication workflows as lists of uploads, either of which may die in between.

**ProjectConfig**, **ProjectEnv**, **ProjectInit** and **ProjectFiles** model a
project's own files. ProjectConfig reads and writes `pv.yml` as a YAML tree;
ProjectEnv has the preflight, the rendering and the managed block; ProjectInit the
detection and the merged proposal of `pv init`. They are pure operators. ProjectFiles
is the state machine of the four writers: the user, `pv init`, `php:use` and the
daemon, whose check, resource work, rendering and write are separate steps.

**ReconciliationQueueProofs**, **ConfigWatchProofs**, **JobHistoryProofs**,
**RuntimeSupervisorProofs**, **ManagedResourcesProofs**, **ArtifactInstallProofs**,
**SelfUpdateProofs** and **ProjectRegistryProofs** extend the modules of those names with
their inductive invariants, theorems and proofs (section 5); the first one extends
ReconciliationQueueRefinement and also proves the refinement.

The `MC*` modules name the model values and definitions of the configurations.

### Abstractions worth knowing

- What a job reconciles is a version number in the queue and the watcher; what it
  really does is in the two runtime modules, which run one job at a time because
  `OneAtATime`, a conjunct of `QueueSafe`, is proved of the queue.
- In ManagedResources starting a process (spawn and its two files) is one step;
  the window between them is RuntimeSupervisor's. One allocation and one named
  port per track stand for several. A project always has `.env` mappings for its
  resource. PHP resolution, TLS files, gateway work and runtime status rows are
  left out there. Linking a directory again makes a new project id, as in the
  code.
- PostgreSQL fixes its password when `initdb` runs; MySQL rewrites it at every
  start through its init file. The SQL case of the model is PostgreSQL's, the
  harder one. `initdb` is atomic in the model.
- External and modelled from its use: FrankenPHP's boot and reload, process exit
  and pid reuse, a server that refuses a data directory in use.
- JobHistory's clock does not step back. A wall clock that does can make
  `prune_old_jobs` remove the row with the largest id, whose id is then reused.
- HostSetup: prompts, `--no-path` and an unset `SHELL` are left out (a declined
  prompt is a failing step); one CLI process at a time; the host changes only between
  commands; two fallback ports per owner; blank lines are not modelled; a `bootout` of
  an agent that is not loaded is reported in the wording the code recognises.
- ProjectRegistry: the daemon is up and requests reach the queue (ConfigWatch and
  ReconciliationQueue are about that); one CLI command at a time; the CA is fixed; a
  hostname is its label; other parts of the environment are in ManagedResources.
  `ShimMatchesWorker` is about projects that name a PHP version.
- SelfUpdate: a download with its verification is one step; writing a backup and
  pruning the old ones is one step; `bootout` is synchronous; launchd runs one daemon;
  a newer version extends the migrations of an older one.
- ReleasePublication: one `published_at` per run; `redis` stands for all backing
  recipes; builds of older commits cannot be published; a published installer has
  a versioned copy, and `ClientsCanInstall` quantifies over all of those; revocations
  are uploaded by a maintainer who checked them. The syntax of single values is left
  out.
- ProjectFiles: an error is only a refusal; texts are cut into the pieces the code
  tells apart; a rename is atomic; keys of YAML mappings are strings; the number
  appended to a key's prefix is bounded by `MaxSuffix`.

## 3. Runs

Twelve runs, each a distinct question; times are with two workers. Type invariants
and facts that belong together are conjuncts of one property.

| Run | Checks | Bounds | Time |
| --- | --- | --- | --- |
| `queue_serial` | `QueueSafe` (types, one job at a time, started in order, lock held exactly for work, no lost wakeup), `CoalescedRequestServed`, `UpdateExcludesWork`, `ImplementsSerialQueue` | two scopes (symmetric) and the update key, 3 jobs, 1 change, 1 restart | 2 min |
| `queue_recovery` | `RowsMatchTasks`, `AcceptedJobsEnd` (liveness) | one scope, 3 jobs, 1 failed write, 2 restarts, a CLI prober | 1 min |
| `watch` | `NoEditForgotten`, `EditsAreReconciled` (liveness) | one project edited twice, the update job, a prober | 30 s |
| `history` | `UnresolvedIsCurrent` (with the deduplication), `PruningTakesNothingNeeded` (running rows, ids, reported errors), `FailureStaysReported` | 3 jobs of 2 scopes, history limit 2, 2 seconds | 3 min |
| `runtime` | `NoOrphans`, `FailureRestoresConfig`, `RequestRepairs` (liveness) | 2 pids, 2 configs, 2 binaries, any 2 mishaps | 3 min, 1.8 million states |
| `resources` | `SecretsMatchData`, `ReadyAllocationExists`, `NeededRuntimeKept`, `RenderedEnvCurrent` | 2 projects, 2 tracks, 2 ports, both readiness checks, 2 jobs, 1 event, 2 artifact versions | 2 min, 2.8 million states |
| `install` | `InstallationSound` (link, row and releases agree; at most two releases; the pair is one manifest's), `FailedGroupRestored`, `UpdateBringsLatest` | one process, 5 commands, 4 manifests, 1 interruption | 15 s |
| `host` | `SuccessIsHealthy`, `RemovalLeavesNothing`, `RerunRepairs`, `UserContentKept` | 3 of 13 commands, 1 failure or death, 1 change to the host, 15 kinds of host | 2 min, 2.9 million states |
| `registry` | `AppliedOrReported`, `ServedRoutesCurrent` (with the rows of hostnames), `ShimMatchesWorker` | 2 directories of one name, 1 other hostname, 2 tracks, releases with and without 1 extension, any 3 commands and edits (at most 2) | 3 min, 2.2 million states |
| `update` | `ActiveResolves`, `RollbackServesPrevious`, `NeverDowngraded`, `MigrationHasBackup` | 2 updaters (symmetric), 3 versions, 3 manifests, 1 other command, 1 failure or death | 1 min |
| `release` | `ClientsCanInstall`, `CompleteBuildPublishes`, `NothingWithdrawn`, `AppNeverOlder` | 6 commits, 2 builds, 2 versions of PV, 1 revocation, 1 fault | 1 min |
| `config` | `PreflightDecides`, `UserLinesKept`, `InitSafeToRerun`, `WrittenConfigReadsBack` | 8 documents, 2 edits, 1 command | 2 min |

Why the bounds are enough for the questions asked:

- Three jobs give an active one, a queued one and a third that joins, overtakes
  or is abandoned between them. One change distinguishes a job that read before
  from one that read after. Two restarts let a restart find what an earlier
  restart left. Deadlock is checked in the queue and watcher runs.
- A second edit during the job of the first is what `NoEditForgotten` is about;
  a prober and the update job give both kinds of refusal.
- A history of two rows lets the failures of two jobs, an update and a PHP job,
  compete for the Gateway's subject, and the third job prunes one, with up to three
  running rows that may not be pruned; two seconds give equal and different
  timestamps.
- Two pids allow a replacement while the old process stops. `MaxMishaps` bounds failing
  steps, crashes, take-overs of a pid and deaths of the daemon together, so that any two
  of them meet. Start identities are reused once nothing names them, so that the number
  of starts needs no bound. `RequestRepairs` is about requests after the last mishap,
  when no death cut a job short and no stranger holds the port: both really block it
  (section 6).
- Two projects on two tracks with two ports give shared and separate tracks, a
  project that leaves a track another one joins, and no free port when a
  stranger holds one. One event is one CLI command, config edit, process death,
  port taker or daemon death at any step. A bigger instance with one project,
  two events and three jobs (4.9 million states) holds too; it is not among the
  runs because of its time.
- Four manifests give a track a third version (so that one is pruned), a manifest
  that changes one of the pair only, and a return to an old version; five commands
  let a command succeed after an interrupted one had two before it.
- Three commands on a host are one that is interrupted or met by a change, one that
  runs on what it left, and one that removes it again or repairs it.
- Two directories of one name are what numbered slugs and hostname conflicts need;
  the one name a user may give is also the slug the second directory may get and the
  additional hostname of a config. Three commands allow link, link, unlink and link,
  unlink, link; one command and two edits an edit that is taken back while a job
  works on it.
- Three versions let an update start from a release that another one is about to
  replace; each adds a migration, and the last one changes the protocol. With two
  backups kept, a third has to rotate one out.
- Two builds and one fault give an interrupted publication and one after it; the
  commits are new revisions, a newer minimum version, a second track, and two that
  the checks refuse.
- The eight documents are chosen so that each check of the parser, each depth of
  keys and each placeholder family occurs; one edit may fall between the daemon's
  check and its write, another while a command waits.
- `CHECK_DEADLOCK FALSE` is used in all but the queue and watcher runs: there the
  bounds stop the environment, and a finished system has nothing to do.

Each property of a passing run has a mutant in `PROJECT.json`: an operator in the
module (marked *Mutant*) that changes one definition as a plausible bug would and
makes the property fail.

## 4. Fairness

- `queue_recovery`: weak fairness of every step a task can take, of the blocking
  closures' return and of the end of a shutdown. The runtime polls a task that
  can run; a job's own work ends because all its waits have time limits. Nothing
  is assumed of clients, of the CLI or of shutdowns.
- `watch`: weak fairness of the poll timer, the debouncer's sleep and the spawned
  tasks, and of the running job; strong fairness of a queued key's start. The
  last one is what `StartsInOrder` gives: the queue is first come, first served.
- `runtime`: weak fairness of the steps of a task that has begun or was accepted, of
  a process's boot and of its reaction to signals. Nothing is assumed of requests: no
  timer of `serve` makes one (section 6), and `RequestRepairs` starts from a request
  that was accepted.
- The other runs use no fairness.

## 5. Proofs

Eight modules hold the proofs; each extends the module it is about. Everything in
them is proved for *all* values of the constants, so for any number of jobs, projects,
processes, faults and restarts, from named assumptions on the constants. Three theorems
about ArtifactInstall have a hypothesis more, because without it they are false (see
Assumptions).

| Module | Theorem | States | Run that checks it |
| --- | --- | --- | --- |
| ReconciliationQueueProofs | `QueueIsSafe` | `Spec => []QueueSafe` | `queue_serial` |
| | `QueueCorrect`, `TypeCorrect`, `JobsRunOneAtATime`, `LockIsHeldForWork`, `WakeupsAreNotLost`, `JobsStartInOrder` | `Spec => []QueueInv` and its parts | (conjuncts of `QueueSafe`) |
| | `QueueImplementsSerialQueue` | `Spec => ImplementsSerialQueue` | `queue_serial` |
| | `JoinedRequestsAreServed` | `Spec => []CoalescedRequestServed` | `queue_serial` |
| | `UpdateAndWorkExclude` | `Spec => []UpdateExcludesWork` | `queue_serial` |
| | `RowsFollowTasks` | `Spec => []RowsMatchTasks` | `queue_recovery` |
| | `AcceptedJobsWait` | `Spec => WaitsUntilStarted` | (part of `AcceptedJobsEnd`) |
| ConfigWatchProofs | `EditsAreNotForgotten` | `WatchSpec => []NoEditForgotten` | `watch` |
| JobHistoryProofs | `ReportsCurrentFailures` | `Spec => []UnresolvedIsCurrent` | `history` |
| | `PruningKeepsWhatIsNeeded` | `Spec => PruningTakesNothingNeeded` | `history` |
| RuntimeSupervisorProofs | `NoProcessIsOrphaned` | `Spec => []NoOrphans` | `runtime` |
| | `FailedTasksRestoreConfig` | `Spec => FailureRestoresConfig` | `runtime` |
| SelfUpdateProofs | `ActiveReleaseResolves` | `Spec => []ActiveResolves` | `update` |
| | `RollbacksServePrevious` | `Spec => []RollbackServesPrevious` | `update` |
| | `ReleasesAreNotDowngraded` | `Spec => NeverDowngraded` | `update` |
| | `MigrationsHaveBackups` | `Spec => MigrationHasBackup` | `update` |
| ManagedResourcesProofs | `SecretsAreKept` | `Spec => []SecretsMatchData` | `resources` |
| | `ReadyAllocationsExist` | `Spec => []ReadyAllocationExists` | `resources` |
| | `NeededRuntimesAreKept` | `Spec => NeededRuntimeKept` | `resources` |
| | `RenderedEnvsAreCurrent` | `Spec => RenderedEnvCurrent` | `resources` |
| ProjectRegistryProofs | `ProjectsAreAppliedOrReported` | `Spec => []AppliedOrReported` | `registry` |
| | `RoutesFollowProjects` | `Spec => []ServedRoutesCurrent` | `registry` |
| | `HostnamesMatchProjects` | `Spec => []HostnameRowsMatch` | (part of `ServedRoutesCurrent`) |
| | `ShimsFollowWorkers` | `Spec => []ShimMatchesWorker` | `registry` |
| ArtifactInstallProofs | `PairsComeFromOneManifest` | `Spec => [](InstallTypeOK /\ PairFromOneManifest)` | (parts of `InstallationSound`) |
| | `InstallationsAreSound` | one process: `Spec => [](interruptions <= 1 => InstallationSound)` | `install` |
| | `FailedGroupsAreRestored` | one process: `Spec => [](interruptions <= 1 => FailedGroupRestored)` | `install` |
| | `UpdatesBringLatest` | one process: `Spec => [](UpdateBringsLatest /\ AtMostTwoReleases)` | `install` |

`ServiceCorrect`, `SupervisorCorrect`, `ReleasesCorrect`, `DatabaseCorrect`,
`ResourcesCorrect` and `RegistryCorrect` say that the inductive invariants below hold.
Each proof has the same shape: the invariant holds initially, one lemma per action or
group of actions says that it is kept, and the properties follow from it, the action
properties with a second look at the steps they are about.

### Assumptions

- The bounds are naturals; no proof uses that they are small. `MaxVersion` of
  ManagedResources and `Retention` of SelfUpdate are positive: something is published,
  and `MIGRATION_BACKUP_RETENTION` is 5.
- A marker for "absent" is not a value of the set it stands beside (`NoKeyAssumption`,
  `NoneAssumption`, `MarkersAssumption`, parts of the others): in the code it is
  `None` of an `Option`, or the variant of an enum. TLC evaluates them on each run.
- `UpdateAssumption`: versions are ordered like naturals, and each build has at least
  one migration. Nothing is assumed of how the migrations of two versions relate.
- `RegistryAssumption`: `Slugs`, the names a directory may be given, has no
  duplicates; the code numbers them.
- `SupervisorAssumption`: there are finitely many pids, and 0 is none of them.
- `HistoryAssumption`: the history keeps at least one row (`RECENT_JOB_LIMIT` is 100).
- `InstallAssumption`: a manifest selects a version for every track. Nothing is assumed
  of the versions of two manifests: a later manifest may go back.
- `InstallationsAreSound`, `FailedGroupsAreRestored` and `UpdatesBringLatest` are about
  one process (`Procs = {p}`), the first two about the time up to a second interruption.
  With two processes or two interruptions TLC shows the first to be false (section 6).
  What holds without these hypotheses is `PairsComeFromOneManifest`.

### The inductive invariants

**QueueInv** is the conjunction of `TypeOK`, `LockCoversWork`, `OneAtATime`,
`StartsInOrder`, `NoLostWakeup` and `RowsInOrder`; `QueueSafe` is its first five
conjuncts. None of them is inductive alone. `OneAtATime` (a task past `wait_for_turn`
is the active job, a waiting one is in the queue) needs the order of the queue, because
removing a job from a sequence only removes *all* of its occurrences when there is just
one. `StartsInOrder` (the queue is increasing and the active job is below it) needs
that a new id is above every id in use. That is `RowsInOrder`: every queued or active
job has a row, so `next_job_id`, which looks at the rows, exceeds it. `NoLostWakeup`
(the head of an idle queue is not parked) needs `OneAtATime` to know which tasks
`notify_waiters` wakes. The argument is one lemma per way the queue changes:
`EnqueueKeeps`, `StartKeeps`, `LeaveQueueKeeps`, `ReleaseActiveKeeps`, and
`QuietStepKeeps` for all steps that leave queue, active job and lock alone;
`WithoutIsRemoval` says what removal from an increasing sequence returns.

**ServiceInv** adds to QueueInv what callers rely on. `PromisesAreKept`: what a job
promised to those who joined it is not beyond the desired state, and a job that has read
the desired state has read at least that. `OneWaitsPerKey` makes the job to join unique.
`ClosuresAreAwaited`: while the daemon is up a blocking closure has its task, so an
active job, so the lock; this is what `UpdateExcludesWork` needs and what a shutdown
breaks. `RowsMatchTasks` and `RecordedIsClosed` go together. The refinement maps each
step on its own: an enqueue is a `Submit` or a stutter of one that joins, a start is
`Begin`, and so on; the mapped state of a step that ends a task is computed by
`EndingTaskWakes`.

**WatchInv** generalises the property from linked projects to *watched* ones
(`WatchedAreFollowed`), because a project may be linked again before the watcher
noticed that it was unlinked. `VersionsInOrder` says that nothing applied or failed is
newer than what is desired, so that a job that read the newest version closes it,
as applied, failed or failed without a row.

**SupervisorInv** says what the task holds at each of its steps (`TaskHolds`), that every
process of PV is recorded in both files or held by the task (`ProcessesAreKnown`), and
where the config of the beginning is at each step: in place, root moved, or both parts
moved (`ConfigIsKept`). `Recorded` ties the process to both files by pid,
start identity and binary, which is what survives the reuse of pids.

**ReleaseInv** is about the holder of the coordination lock: what it has read is still
so (`UpdateIsSound`), and nobody else changes the link or removes releases.
**DatabaseInv** is about processes that open the database at once: as long as nobody
migrated since it read the schema, every backup newer than its own is of that schema,
and once it has written its own, one at least as new as its own exists; pruning keeps
the newest, so that it cannot take the last of these.

**ResourceInv** is `RowsInv` and `JobInv`: what a job holds at each step is still what the
rows say, in spite of CLI commands between its steps (`DemandIsKnown`, `SecretIsKept`,
`TrackIsPrepared`). The secret of a track is minted before the data directory is
initialised and no step replaces it afterwards. That first free ports and the like
exist is `WFMin` of the library on the naturals.

**RegistryInv** has the types of rows, command and job, `HostnameRowsMatch`, and two
facts about time. `JobIsCurrent`: a job between reading and writing a project holds what
the project's row and file still are, or the project was requested again or is being
unlinked. `ProjectsAreCaredFor`: a project that is neither applied nor failed has a
request, a job or a command that will visit it. **ScopeInv** (a project's own job visits
only it) and **RouteInv** (what the active fragments lack is still due or is reported)
are the two halves of `RoutesFollowProjects`. `WrittenProject`, `ReplacedHostnames` and
`FreshSlug` say what the writes of the database do.

`ShimsFollowWorkers` needs three more invariants, because shim and worker resolve a
project independently: the shim from the project's row, the worker from the fragment
that a Gateway reconciliation made of the runtime plan. **JobTrimmed** and
**RowsTrimmed** say that neither the runtime a job has resolved nor the one a row records
loads an extension that was not requested; **KeyInv** that a route leads to the track of
its project's row, with extensions the row asks for, unless the project is reported as
failed or is still awaited. An install that fails and a Gateway reconciliation that fails
half way leave `gateway` different from `"ok"`, and the routes say nothing until a later
job has reached the end.

**HistoryInv** has the types, ids that are given out in order with the last one still in
the table (`Top`), rows whose starts grow with their ids (`WellKept`), and nothing later
than the clock. Pruning never takes the row with the largest id: either it is running, or
nothing is newer (`TopIsNewest`). That is why `next_job_id` never repeats itself, and,
since a new error has the largest id and the last outcome, why it is reported at once.
What the loop of `unresolved_job_failures` computes needs no reachable state, only a
well-formed one: `ScanFinds` is its loop invariant, that the accumulators after `n`
outcomes are what there is to find in the last `n` (`Found`), and `FoundStep` the step.

**SoundInv** follows the one process of ArtifactInstall and tells apart whether it has
been interrupted. Before that (`Perfect`) every release is whole, link and row agree
between commands, and a command knows what it looked at. After one interruption
(`Marred`) the link and the row of every track still name something (`Kept`) except the
track at hand, of which less is known, step by step (`Surmised`), and a rollback still
finds everything that it needs (`Returning`) and leaves what it has undone as it was
(`Returned`). `TypeInv` carries the shape of a command at each step (`Progress`).

Induction over data is by two lemmas of JobHistoryProofs without operator parameters,
which the provers can use: `Induction`, about the set of numbers that have a property,
from the library's theorem on least elements, and `Iterates`, that a value can be carried
through `n` steps. A recursive function is shown to satisfy its equation with the second
and is reasoned about with the first.

### What the proofs changed

- `FailureRestoresConfig` was not provable: the ghost `before` kept the config of an
  earlier task when a stale worker's removal began. TLC found it with four mishaps,
  the run has two. `before` is now set there too.
- `ServedRoutesCurrent` said that only served projects are routed. That is false
  when a project becomes resource-only and its job fails on its second visit: it then
  ends without a Gateway reconciliation (`daemon/src/jobs.rs:1003`), and the old route
  stays while the project is reported as failed. The property now says so; the
  documentation speaks of a successful transition (`DESIGN.md:352`).
- `ShimMatchesWorker` said that shim and worker load the same extensions. That is false
  (section 6): the shim uses what the project's row recorded, the worker what the
  installed release has. What holds is that both start the same track and neither loads
  an extension that `pv.yml` does not ask for. The same proof showed that `Applied` did
  not speak of the track, and that the model kept the list of projects through both
  rounds where the code reads it again.
- `Interrupt` of ArtifactInstall let an interrupted removal turn a gutted release back into
  one that passes `validate_installation`; a removal only takes files away, so a release
  that does not pass is left as it is.
- JobHistory picks elements of sequences by their places (`Subsequence`) where it used
  `SelectSeq`, of which the provers know nothing. The run has the same states as before.
- Overlapping guards of `CASE` expressions in ProjectRegistry and ProjectFiles were made
  disjoint: TLC takes the first that holds, the language leaves it open.

### Only model-checked

- Liveness (`AcceptedJobsEnd`, `EditsAreReconciled`, `RequestRepairs`) and everything about
  `ENABLED`: out of the prover's reach. The safety half of `AcceptedJobsEnd` is proved.
- `FailureStaysReported`: it compares the report before and after a step.
- HostSetup (`SuccessIsHealthy`, `RemovalLeavesNothing`, `RerunRepairs`,
  `UserContentKept`): what its commands decide rests on `SelectSeq` and folds over the
  lines of the shared files and on where a list of procedures stands; the provers know
  neither, and each of the thirteen commands would need an invariant of its own.
- ReleasePublication (`ClientsCanInstall`, `CompleteBuildPublishes`, `NothingWithdrawn`,
  `AppNeverOlder`): the plans are flattened sequences of sets in an order that is left
  open, and what a manifest selects is nested choices over records.
- ProjectFiles (`PreflightDecides`, `UserLinesKept`, `InitSafeToRerun`,
  `WrittenConfigReadsBack`): these compare what folds over trees and lines return (parser,
  renderer, managed block). A fold takes an operator as its parameter, which the provers
  cannot instantiate; each would have to be written as a function and given a loop
  invariant, as was done for the one loop of JobHistory.
- ArtifactInstall with two processes or more interruptions: false, see section 6.

## 6. Disagreements with the documentation

The models have the code's behaviour, so a property of the documented one fails on
them. Eight sentences of `DESIGN.md` are stated as properties in the modules; each is
refuted by TLC within seconds when it takes the place of the properties in the
configuration named:

| Property | Configuration | Sentence | What the code does |
| --- | --- | --- | --- |
| `NeverKillsByPidAlone` | `runtime.cfg` | `:251`, PV never kills a process based on PID alone | SIGKILL after the grace period goes to a pid that was verified before it (`supervisor.rs:757`) |
| `CurrentUntilVerified` | `history.cfg` | `:1382`, a failed outcome remains current until newer verification | `prune_old_jobs` and `recent_jobs` forget it once enough other jobs have started (`database.rs:4506`) |
| `VerifiedStaysResolved` | `history.cfg` | `:1392`, failures do not make status fail after newer verification | rows are pruned by their start: a job that started before a background error and succeeded after it is pruned first, its successes with it, and the error is reported again (`database.rs:4506`) |
| `InstallEnablesPf` | `host.cfg` | `:305`, `ports:install` enables pf if needed | "already matches" without enabling pf when the rules are loaded and pf is disabled (`ports.rs:163`) |
| `ResolverIsAnswered` | `host.cfg` | `:301`, the resolver can answer | `dns:uninstall` releases the DNS row while the daemon listens on its port; the next `dns:install` assigns another one, and nobody answers there until the daemon restarts (`dns.rs:267`) |
| `UninstallUnloadsRules` | `host.cfg` | `:305`, `ports:uninstall` removes PV-owned rules | an install rolled back after the reload, or a removal that dies before it (`pf.rs:641`), leaves redirects loaded without files, which the next `ports:uninstall` reports as already absent (`ports.rs:320`) |
| `ShimIsTheProjectsRuntime` | `registry.cfg` | `:790`, the shim uses the project's resolved runtime identity | the worker loads an extension that the row recorded as not loadable, because its track was not installed or not desired when the row was written; the shim starts without it until the next reconciliation (`php.rs:301`, `jobs.rs:1003`) |
| `HostnameComesFromLink` | `registry.cfg` | `:1010`, `:1300`, the hostname comes from `pv link` | a `link --hostname` between the two reads at the end of a job is overwritten with the old hostname (`project_env.rs:554`, `database.rs:1152`) |

The properties of the passing runs that touch these name the exception:
`FailureStaysReported` the limit, `SuccessIsHealthy` a pf found loaded and a daemon that
lost its row, `RemovalLeavesNothing` files found absent and a directive of an odd form.

Queue, runtimes, resources and installation:

- An edit whose reconciliation fails, and whose failure cannot be written to `pv.db`
  either, is neither applied nor reported: `serve` discards that error
  (`server.rs:58`). `NoEditForgotten` names the case.
- A shutdown between a job's success row and its terminal event rewrites the row
  to failed (`daemon/src/jobs.rs:703`; `DESIGN.md:1380` calls job rows immutable).
- A death between spawn and metadata leaves a process that every later start
  takes for a stranger (`supervisor.rs:210`; `DESIGN.md:776`).
- An artifact update of a probed resource leaves the old process running,
  unrecorded, beside the new one (`managed_resources/mod.rs:1041`;
  `DESIGN.md:263`).
- Two CLI commands on one track at once can leave `current` naming a release that
  the other one pruned, after which every install of the track fails
  (`install.rs:82`; `DESIGN.md:916`). `InstallationSound` fails with two members in
  `Procs`.
- Two failures in a row lose the installed version: the record of an install
  fails, so the link is ahead of the row; the next install prunes the release of
  the row and fails too (`install.rs:82`). `DESIGN.md:912` says that a failed
  installation leaves the previous version intact. `InstallationSound` fails with
  `MaxInterruptions = 2`.
- A damaged release that `current` names is removed before the link
  (`install.rs:123`); an interruption in between leaves the link dangling, and every
  later install fails. `InstallationSound` fails with `MaxInterruptions = 2`.
- `start` queues no reconciliation (`daemon/src/lib.rs:109`), while
  `DESIGN.md:776` says that startup reconciles again. Interrupted work waits for
  the next request.
- A shutdown frees the lock while a `spawn_blocking` closure still installs
  (`jobs.rs:769`); `DESIGN.md:666` says that the queue holds the lock while
  update work is running.
- `pv update --check` takes the shared flock and can thereby refuse a background
  job, which is not retried (`update_lock.rs:89`); `DESIGN.md:454` says that it
  does not take the lock.
- A managed-resource job covers its resource although the project that demands
  it failed (`jobs.rs:838`; `DESIGN.md:1386`).
- Readiness after a reload is answered by the process that still serves the old
  config, so the commit does not show that the new one works (`gateway.rs:1187`;
  `DESIGN.md:742`).
- A death between the two renames of the fragments leaves none, and an invalid
  edit after that drops the route (`gateway_config.rs:419`; `DESIGN.md:275`).
- No timer looks at child processes: a runtime that crashes stays down until the
  next request (`server.rs:116`; `DESIGN.md:239`).
- A death between `replace_project_managed_resources` and the replacement of the
  allocations leaves the allocations of a dropped resource active: the next job
  no longer sees the resource (`project_env.rs:748`).
- `uninstall` reads the usage count and records the removal in two transactions
  (`resources/src/command.rs:1025`); a project can start to require the track in
  between, although `DESIGN.md:692` has tracks in use kept without `--force`.
- The daemon never deletes the artifact of a removed track, which the comment in
  `record_removal_intent` (`command.rs:1468`) and `DESIGN.md:690` leave to it; a
  project that declares the track fails, while `DESIGN.md:692` says that
  reconciliation may reinstall it.
- A track moved to another port leaves the old port in the `.env` files of the
  projects that the job does not visit (`managed_resources/mod.rs:728`;
  `DESIGN.md:974`).

Host integration:

- A death between writing the plist and `bootstrap`, or between `bootout` and the
  removal of the file, leaves a current plist that is not loaded; enable, restart and
  setup then only `kickstart`, and fail (`daemon.rs:43`; `DESIGN.md:215`, `:223`).
  `RerunRepairs` excludes this state.
- Port rows are written before the privileged change; `DESIGN.md:307` says only after.
- A PV directive of an odd form in `pf.conf` is never removed; `doctor` compares the
  prepared with the system resolver file only.

Projects and their files:

- A fragment kept from an earlier promotion and a plan made from an edit that no job
  applied yet can give two projects one hostname; FrankenPHP then refuses the whole
  Gateway config until one is changed (`gateway.rs:1333`; `DESIGN.md:275`, `:1012`).
  The kept fragment may also name a worker that is no longer planned.
- A project that becomes resource-only and whose job fails on its second visit keeps its
  route while it is reported as failed: the job ends without a Gateway reconciliation
  (`jobs.rs:1003`). `DESIGN.md:352` promises the removal of routes for a successful
  transition only, so this is a gap rather than a contradiction.
- One project whose PHP runtime cannot be resolved, or whose FrankenPHP track is
  missing, fails the Gateway for all (`gateway.rs:633`; `DESIGN.md:1030`); so does one
  resource that cannot be installed, which ends the job before the Gateway
  (`managed_resources/mod.rs:655`, `jobs.rs:1122`).
- `unlink` deletes TLS files that a running job writes again.
- `php:uninstall` counts the users of a track and records the removal in two
  transactions.
- A user's save of `.env` between the daemon's read and its rename is lost
  (`config/src/env.rs:240`), and so is an edit of `pv.yml` while `pv init` waits at its
  prompt. CRLF becomes LF when PV writes.
- `pv init` reads PV's own block of `.env` as the project's wishes when there is no
  `.env.example`; `export KEY=` lines are not seen by it, but by the warning for
  duplicate keys; a resource deselected in the structured edit stays.
- Generated names of allocations can collide across projects; the second fails.

Self-update and releases:

- A daemon of another protocol version answers the health check with an error that
  the client does not take for an answer, so that an update across a protocol change
  is rolled back although the new daemon works (`daemon/src/client.rs:195`,
  `server.rs:193`; `DESIGN.md:648`).
- A death between `bootout` and `bootstrap` leaves no daemon loaded (`update.rs:287`).
- Of two processes that migrate a database at once the second fails to open it
  (`state/src/migrations.rs:64`).
- A migration that always fails is tried by launchd again and again, each time with a
  new backup, which rotates the older ones away (`state/src/backup.rs`).
- Records of an interrupted publication become part of the next manifest, PHP without
  its FrankenPHP included; a leftover of a new track for one platform blocks later
  publications until the other platform is built; an archive without a record blocks
  its version for good, because its object exists; the interrupted run itself cannot
  be repeated (`pv-release/src/publication.rs`).
- One record with a newer `minimum_pv_version` raises the minimum of the whole manifest.
- A revocation committed to `release/artifacts/revocations` makes the build workflow's
  validation fail, because the fixtures lack its target.
- The installer takes no update lock.

## 7. Not modelled

`PROJECT.json` names each component that is modelled in part or not at all, with
the reason. Left out on purpose:

- Command line, output, progress, logging: parsing and printing without state.
- Reporting commands, except what they derive from state and other commands rely on.
- Contents of generated files nothing is decided by: Caddyfiles, ini files, plist XML,
  server configuration of the adapters, the installer script's text.
- Encodings of others: X.509, archives and their checksums, HTTP, DNS packets, lines
  of the IPC protocol. A download or an unpacking is one step that may fail.
- The schema statements of single migrations, and plain reads of tables.

## 8. Plan

1. Done: queue, lock and daemon life cycle; watcher; history; runtimes; backing
   resources; artifact installation; host integration; registry, routes and PHP
   resolution; self-update and migrations; recipes, manifest and publication; project
   files. Twelve runs cover them.
2. Done: proofs of the queue and its refinement, the watcher, the history, the runtime
   supervisor, self-update and migrations, the backing resources, the registry with the
   shim, and artifact installation.
3. Next proofs: `FailureStaysReported`; `NothingWithdrawn` and `AppNeverOlder`, which
   need only that manifests list all published records and that the two workflows run
   one job at a time; then the parts of `SuccessIsHealthy` and `RemovalLeavesNothing`
   that do not scan files (launch agent, CA, ports).
4. An abstract specification of ArtifactInstall: per track a version and at most one
   fallback, changed atomically per group; the detailed module as its refinement.
5. Several named ports per track and several resources in one update.
