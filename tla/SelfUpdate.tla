----------------------------- MODULE SelfUpdate -----------------------------
(***************************************************************************)
(* pv update (cli/commands/update.rs): app releases and the active symlink *)
(* (state/app_release.rs), the app update manifest (self-update), restart  *)
(* and health of the daemon (daemon/lib.rs, client.rs, server.rs), and the *)
(* schema migrations with their backups that every process runs when it    *)
(* opens the database (state/migrations.rs, backup.rs).                    *)
(*                                                                         *)
(* Updaters are processes of pv update.  launchd runs at most one daemon,  *)
(* restarts it whenever the job is loaded (KeepAlive, RunAtLoad) and starts *)
(* what the active symlink names.  Other commands open the database at any *)
(* time.  A version is a number, an applied migration its name.            *)
(***************************************************************************)
EXTENDS Naturals, Sequences, FiniteSets, SequencesExt, FiniteSetsExt, TLC

CONSTANTS None,
          Updaters,     \* processes that run pv update
          Versions,     \* PV versions, as numbers
          Protocol,     \* PROTOCOL_VERSION of a version
          Migrations,   \* DEFAULT_MIGRATIONS of a version: a sequence of names
          Manifests,    \* app update manifests that may be published
          Retention,    \* MIGRATION_BACKUP_RETENTION
          MaxUpdates,   \* bound: update commands started
          MaxPublishes, \* bound: manifests published
          MaxCommands,  \* bound: other commands that open the database
          MaxSeconds,   \* bound: changes of the timestamp in backup names
          MaxFaults     \* bound: failing steps and deaths of processes

\* Versions are numbers; a manifest names one of them, every one of them has
\* migrations, and at least one backup is kept.
ASSUME UpdateAssumption ==
  /\ Versions # {} /\ Versions \subseteq Nat
  /\ None \notin Versions /\ None \notin Updaters
  /\ \A v \in Versions : Migrations[v] \in Seq(STRING) /\ Migrations[v] # <<>>
  /\ \A manifest \in Manifests : manifest.version \in Versions
  /\ Retention \in Nat \ {0}

VARIABLES
  published,  \* the app update manifest
  releases,   \* versions under bin/releases
  active,     \* what bin/pv points to
  plist,      \* the LaunchAgent file: "current", "stale", "missing" or "conflict"
  loaded,     \* has launchd loaded the job?
  daemon,     \* the daemon process
  marker,     \* the startup failure marker
  applied,    \* rows of pv_migrations, in order
  backups,    \* migration backups: [at |-> <<second, suffix>>, schema |-> what was applied]
  open,       \* Database::open in progress, in the daemon and in a command
  upd,        \* the update processes
  lock,       \* the updater with the coordination lock
  clock, updates, publishes, commands, faults

database == <<applied, backups, clock>>
system == <<plist, loaded, marker>>
bounds == <<updates, publishes, commands, faults>>
vars == <<published, releases, active, system, daemon, database, open, upd, lock, bounds>>

Stopped == [version |-> None, up |-> FALSE]
NotOpening == [version |-> None, step |-> "none"]
Ready == [pc |-> "idle"]

Fault == faults < MaxFaults /\ faults' = faults + 1

-----------------------------------------------------------------------------
(* The app update manifest *)

parse_assets(assets) ==
  /\ assets # <<>>
  /\ \A i, j \in DOMAIN assets : assets[i].platform = assets[j].platform => i = j
  /\ \A i \in DOMAIN assets : assets[i].size > 0

\* Refused unless schema and channel are known and this PV is new enough.
AppUpdateManifest_parse(raw, current) ==
  /\ raw.supported
  /\ raw.minimum <= current
  /\ parse_assets(raw.assets)

select_platform(manifest) ==
  {i \in DOMAIN manifest.assets : manifest.assets[i].platform = "darwin-arm64"}

-----------------------------------------------------------------------------
(* Migration backups *)

Older(a, b) == a[1] < b[1] \/ (a[1] = b[1] /\ a[2] < b[2])

\* The same second gets the suffixes 0, 1, ...
next_backup_suffix(second) ==
  LET used == {b.at[2] : b \in {c \in backups : c.at[1] = second}}
  IN IF used = {} THEN 0 ELSE Max(used) + 1

\* Mutant: the newest backups are pruned.
prune_newest(all) ==
  {b \in all : Cardinality({c \in all : Older(c.at, b.at)}) < Retention}

prune_migration_backups(all) ==
  {b \in all : Cardinality({c \in all : Older(b.at, c.at)}) < Retention}

-----------------------------------------------------------------------------
(* Database::open: read what is applied, back up, migrate *)

validate_applied_migration_names(version) ==
  \A i \in DOMAIN applied \cap DOMAIN Migrations[version] : applied[i] = Migrations[version][i]

OpenDatabase(version) == [version |-> version, step |-> "read"]

\* What the process does once the database is open, or could not be opened.
Opened(p) ==
  IF p = "daemon"
  THEN \/ /\ daemon' = [daemon EXCEPT !.up = TRUE] /\ marker' = None
          /\ UNCHANGED faults
       \/ /\ Fault /\ daemon' = Stopped /\ marker' = "startup_failed"
  ELSE UNCHANGED <<daemon, marker, faults>>

OpenFails(p, kind) ==
  /\ open' = [open EXCEPT ![p] = NotOpening]
  /\ IF p = "daemon" THEN daemon' = Stopped /\ marker' = kind
                     ELSE UNCHANGED <<daemon, marker>>

\* Pending migrations are found before the transaction begins.
ReadApplied(p) ==
  LET o == open[p]
  IN /\ o.step = "read"
     /\ CASE ~validate_applied_migration_names(o.version) ->
               OpenFails(p, "migration_failed") /\ UNCHANGED faults
          [] validate_applied_migration_names(o.version) /\ Len(applied) >= Len(Migrations[o.version]) ->
               open' = [open EXCEPT ![p] = NotOpening] /\ Opened(p)
          [] OTHER ->
               /\ open' = [open EXCEPT ![p] =
                    [version |-> o.version, step |-> IF applied = <<>> THEN "migrate" ELSE "backup",
                     seen |-> applied, at |-> <<clock, next_backup_suffix(clock)>>]]
               /\ UNCHANGED <<daemon, marker, faults>>
     /\ UNCHANGED <<published, releases, active, plist, loaded, database, upd, lock, updates, publishes, commands>>

\* VACUUM INTO refuses a file that exists.
WriteBackup(p) ==
  LET o == open[p]
  IN /\ o.step = "backup"
     /\ IF \E b \in backups : b.at = o.at
        THEN OpenFails(p, "startup_failed") /\ UNCHANGED backups
        ELSE /\ backups' = prune_migration_backups(backups \cup {[at |-> o.at, schema |-> applied]})
             /\ open' = [open EXCEPT ![p].step = "migrate"]
             /\ UNCHANGED <<daemon, marker>>
     /\ UNCHANGED <<published, releases, active, plist, loaded, applied, clock, upd, lock, bounds>>

\* One transaction: it fails on a migration that another process applied since
\* the read, and when a statement of a migration fails.
Migrate(p) ==
  LET o == open[p]
  IN /\ o.step = "migrate"
     /\ \/ applied # o.seen /\ OpenFails(p, "migration_failed") /\ UNCHANGED <<applied, faults>>
        \/ Fault /\ OpenFails(p, "migration_failed") /\ UNCHANGED applied
        \/ /\ applied = o.seen /\ applied' = Migrations[o.version]
           /\ open' = [open EXCEPT ![p] = NotOpening]
           /\ Opened(p)
     /\ UNCHANGED <<published, releases, active, plist, loaded, backups, clock, upd, lock, updates, publishes, commands>>

\* Any command of the active version opens the database.
CommandOpens ==
  /\ commands < MaxCommands /\ commands' = commands + 1
  /\ open["command"] = NotOpening /\ active \in releases
  /\ open' = [open EXCEPT !["command"] = OpenDatabase(active)]
  /\ UNCHANGED <<published, releases, active, system, daemon, database, upd, lock, updates, publishes, faults>>

SecondPasses ==
  /\ clock < MaxSeconds /\ clock' = clock + 1
  /\ UNCHANGED <<published, releases, active, system, daemon, applied, backups, open, upd, lock, bounds>>

-----------------------------------------------------------------------------
(* launchd and the daemon *)

LaunchdStarts ==
  /\ loaded /\ daemon = Stopped /\ active \in releases
  /\ daemon' = [version |-> active, up |-> FALSE]
  /\ open' = [open EXCEPT !["daemon"] = OpenDatabase(active)]
  /\ UNCHANGED <<published, releases, active, system, database, upd, lock, bounds>>

Kill == daemon' = Stopped /\ open' = [open EXCEPT !["daemon"] = NotOpening]

DaemonDies ==
  /\ daemon # Stopped /\ Fault
  /\ Kill
  /\ UNCHANGED <<published, releases, active, system, database, upd, lock, updates, publishes, commands>>

\* A request in another protocol is answered with an error.
handle_connection(client) ==
  [status |-> IF Protocol[client] = Protocol[daemon.version] THEN "ok" ELSE "error",
   protocol |-> Protocol[daemon.version]]

validate_response_protocol(client, response) == response.protocol = Protocol[client]

health_error_is_retryable == ~daemon.up

health(client) ==
  /\ validate_response_protocol(client, handle_connection(client))
  /\ handle_connection(client).status = "ok"

health_allowing_protocol_mismatch(client) == handle_connection(client).status = "ok"

-----------------------------------------------------------------------------
(* pv update *)

Goes(u, pc) == upd' = [upd EXCEPT ![u].pc = pc]
\* The process exits, with an error or not.
Ends(u) == upd' = [upd EXCEPT ![u] = Ready]
Releases(u) == lock' = IF lock = u THEN None ELSE lock

\* The user runs bin/pv; what runs is the version it points to now.
StartUpdate(u) ==
  /\ upd[u] = Ready /\ active \in releases
  /\ updates < MaxUpdates /\ updates' = updates + 1
  /\ upd' = [upd EXCEPT ![u] = [pc |-> "start", version |-> active, previous |-> None,
                                target |-> None, rollback |-> FALSE]]
  /\ UNCHANGED <<published, releases, active, system, daemon, database, open, lock, publishes, commands, faults>>

\* Mutant: any release that resolves will do.
ActiveReleaseExists(version) == active \in releases

active_release == IF active \in releases THEN active ELSE None

validate_active_release(version) == active_release = version

\* Mutant: the lock is not exclusive.
LockAlwaysFree(u) == TRUE

UpdateLock_acquire(u) == lock = None

\* A plist of PV is rewritten when it is stale; a missing or foreign one is an error.
normalize_launch_agent == IF plist \in {"current", "stale"} THEN "current" ELSE None

\* Lock, active release and LaunchAgent, in this order.
Preflight(u) ==
  /\ upd[u].pc = "start"
  /\ IF /\ UpdateLock_acquire(u)
        /\ validate_active_release(upd[u].version)
        /\ normalize_launch_agent # None
     THEN /\ lock' = u /\ plist' = normalize_launch_agent
          /\ upd' = [upd EXCEPT ![u].pc = "fetch", ![u].previous = active]
     ELSE Ends(u) /\ UNCHANGED <<lock, plist>>
  /\ UNCHANGED <<published, releases, active, loaded, marker, daemon, database, open, bounds>>

UpdateAvailable(u) == published.version > upd[u].version

fetch_app_update_manifest(u) ==
  /\ upd[u].pc = "fetch"
  /\ \/ /\ AppUpdateManifest_parse(published, upd[u].version)
        /\ ~UpdateAvailable(u)
        /\ Goes(u, "resources") /\ Releases(u) /\ UNCHANGED faults
     \/ /\ AppUpdateManifest_parse(published, upd[u].version)
        /\ UpdateAvailable(u) /\ select_platform(published) # {}
        /\ upd' = [upd EXCEPT ![u].pc = "download", ![u].target = published.version]
        /\ UNCHANGED <<lock, faults>>
     \/ /\ \/ ~AppUpdateManifest_parse(published, upd[u].version) /\ UNCHANGED faults
           \/ /\ AppUpdateManifest_parse(published, upd[u].version)
              /\ UpdateAvailable(u) /\ select_platform(published) = {}
              /\ UNCHANGED faults
           \/ Fault
        /\ Ends(u) /\ Releases(u)
  /\ UNCHANGED <<published, releases, active, system, daemon, database, open, updates, publishes, commands>>

\* A wrong size or digest, or an interrupted download: nothing is kept.
download_app_asset(u) ==
  /\ upd[u].pc = "download"
  /\ \/ Goes(u, "install") /\ UNCHANGED <<lock, faults>>
     \/ Fault /\ Ends(u) /\ Releases(u)
  /\ UNCHANGED <<published, releases, active, system, daemon, database, open, updates, publishes, commands>>

\* Copied and renamed; the update also stops when the download cannot be removed.
install_release_binary(u) ==
  /\ upd[u].pc = "install"
  /\ \/ /\ releases' = releases \cup {upd[u].target}
        /\ Goes(u, "activate") /\ UNCHANGED <<lock, faults>>
     \/ /\ Fault /\ releases' \in {releases, releases \cup {upd[u].target}}
        /\ Ends(u) /\ Releases(u)
  /\ UNCHANGED <<published, active, system, daemon, database, open, updates, publishes, commands>>

\* A step before or after the rename fails: after it, the new release is active,
\* the update ends all the same and nothing restarts the daemon.
activate_release(u) ==
  /\ upd[u].pc = "activate"
  /\ \/ /\ upd[u].target \in releases /\ active' = upd[u].target
        /\ Goes(u, "bootout") /\ UNCHANGED <<lock, faults>>
     \/ /\ \/ upd[u].target \notin releases /\ UNCHANGED <<active, faults>>
           \/ Fault /\ active' \in {active} \cup ({upd[u].target} \cap releases)
        /\ Ends(u) /\ Releases(u)
  /\ UNCHANGED <<published, releases, system, daemon, database, open, updates, publishes, commands>>

\* A failing restart is rolled back the first time and reported the second.
RestartFails(u) ==
  IF upd[u].rollback THEN Ends(u) /\ Releases(u)
                     ELSE Goes(u, "restore") /\ UNCHANGED lock

bootout_launch_agent_if_loaded(u) ==
  /\ upd[u].pc = "bootout"
  /\ \/ Goes(u, "bootstrap") /\ loaded' = FALSE /\ Kill /\ UNCHANGED <<lock, faults>>
     \/ Fault /\ RestartFails(u) /\ UNCHANGED <<loaded, daemon, open>>
  /\ UNCHANGED <<published, releases, active, plist, marker, database, updates, publishes, commands>>

bootstrap_launch_agent(u) ==
  /\ upd[u].pc = "bootstrap"
  /\ \/ Goes(u, "kickstart") /\ loaded' = TRUE /\ UNCHANGED <<lock, faults>>
     \/ Fault /\ RestartFails(u) /\ UNCHANGED loaded
  /\ UNCHANGED <<published, releases, active, plist, marker, daemon, database, open, updates, publishes, commands>>

\* The marker of an earlier start goes first; kickstart -k replaces the process
\* that bootstrap started.
kickstart_launch_agent(u) ==
  /\ upd[u].pc = "kickstart"
  /\ marker' = None
  /\ \/ Goes(u, "health") /\ Kill /\ UNCHANGED <<lock, faults>>
     \/ Fault /\ RestartFails(u) /\ UNCHANGED <<daemon, open>>
  /\ UNCHANGED <<published, releases, active, plist, loaded, database, updates, publishes, commands>>

\* What the restarted daemon must answer.
DaemonHealthCheck(u) ==
  IF upd[u].rollback THEN health(upd[u].version) ELSE health_allowing_protocol_mismatch(upd[u].version)

\* An answer is final, connection errors are retried until DAEMON_HEALTH_TIMEOUT.
wait_until_daemon_started(u) ==
  /\ upd[u].pc = "health"
  /\ \/ /\ ~health_error_is_retryable /\ DaemonHealthCheck(u)
        /\ Goes(u, IF upd[u].rollback THEN "rolledBack" ELSE "prune") /\ UNCHANGED lock
     \/ ~health_error_is_retryable /\ ~DaemonHealthCheck(u) /\ RestartFails(u)
     \/ health_error_is_retryable /\ RestartFails(u)
  /\ UNCHANGED <<published, releases, active, system, daemon, database, open, bounds>>

\* activate_release again, with the release the update came from.
RestorePrevious(u) ==
  /\ upd[u].pc = "restore"
  /\ \/ /\ upd[u].previous \in releases /\ active' = upd[u].previous
        /\ Goes(u, "remove") /\ UNCHANGED <<lock, faults>>
     \/ /\ \/ upd[u].previous \notin releases /\ UNCHANGED <<active, faults>>
           \/ Fault /\ active' \in {active} \cup ({upd[u].previous} \cap releases)
        /\ Ends(u) /\ Releases(u)
  /\ UNCHANGED <<published, releases, system, daemon, database, open, updates, publishes, commands>>

\* Mutant: the health of whatever daemon runs decides, without a restart.
RemoveWithoutRestart(u) ==
  /\ upd[u].pc = "remove"
  /\ releases' = releases \ {upd[u].target}
  /\ upd' = [upd EXCEPT ![u].pc = "health", ![u].rollback = TRUE]
  /\ UNCHANGED <<published, active, system, daemon, database, open, lock, bounds>>

\* A failing removal is a warning.
remove_release(u) ==
  /\ upd[u].pc = "remove"
  /\ \/ releases' = releases \ {upd[u].target} /\ UNCHANGED faults
     \/ Fault /\ UNCHANGED releases
  /\ upd' = [upd EXCEPT ![u].pc = "bootout", ![u].rollback = TRUE]
  /\ UNCHANGED <<published, active, system, daemon, database, open, lock, updates, publishes, commands>>

ReportRollback(u) ==
  /\ upd[u].pc = "rolledBack"
  /\ Ends(u) /\ Releases(u)
  /\ UNCHANGED <<published, releases, active, system, daemon, database, open, bounds>>

\* Everything but the active and the previous release; a failure is a warning.
\* The process then becomes the active release.
prune_releases(u) ==
  /\ upd[u].pc = "prune"
  /\ \/ releases' = releases \cap {active, upd[u].previous} /\ UNCHANGED faults
     \/ Fault /\ UNCHANGED releases
  /\ upd' = [upd EXCEPT ![u].pc = "continue", ![u].version = active]
  /\ Releases(u)
  /\ UNCHANGED <<published, active, system, daemon, database, open, updates, publishes, commands>>

run_managed_resource_continuation(u) ==
  /\ upd[u].pc = "continue"
  /\ IF validate_active_release(upd[u].version) THEN Goes(u, "resources") ELSE Ends(u)
  /\ UNCHANGED <<published, releases, active, system, daemon, database, open, lock, bounds>>

\* The update job of the daemon (ReconciliationQueue), if the daemon takes it:
\* whatever comes of it, the app release stays.
run_managed_resource_update_phase(u) ==
  /\ upd[u].pc = "resources"
  /\ Ends(u)
  /\ UNCHANGED <<published, releases, active, system, daemon, database, open, lock, bounds>>

UpdaterDies(u) ==
  /\ upd[u] # Ready /\ Fault
  /\ upd' = [upd EXCEPT ![u] = Ready]
  /\ Releases(u)
  /\ UNCHANGED <<published, releases, active, system, daemon, database, open, updates, publishes, commands>>

Publish(manifest) ==
  /\ publishes < MaxPublishes /\ publishes' = publishes + 1
  /\ manifest # published /\ published' = manifest
  /\ UNCHANGED <<releases, active, system, daemon, database, open, upd, lock, updates, commands, faults>>

-----------------------------------------------------------------------------
Init ==
  /\ published \in Manifests
  /\ active = Min(Versions) /\ releases = {active}
  /\ plist \in {"stale", "missing", "conflict"}
  /\ loaded = (plist = "stale")
  /\ daemon = Stopped /\ marker = None
  /\ applied = Migrations[active] /\ backups = {}
  /\ open = [p \in {"daemon", "command"} |-> NotOpening]
  /\ upd = [u \in Updaters |-> Ready] /\ lock = None
  /\ clock = 0 /\ updates = 0 /\ publishes = 0 /\ commands = 0 /\ faults = 0

UpdateStep(u) ==
  \/ Preflight(u)
  \/ fetch_app_update_manifest(u)
  \/ download_app_asset(u)
  \/ install_release_binary(u)
  \/ activate_release(u)
  \/ bootout_launch_agent_if_loaded(u)
  \/ bootstrap_launch_agent(u)
  \/ kickstart_launch_agent(u)
  \/ wait_until_daemon_started(u)
  \/ RestorePrevious(u)
  \/ remove_release(u)
  \/ ReportRollback(u)
  \/ prune_releases(u)
  \/ run_managed_resource_continuation(u)
  \/ run_managed_resource_update_phase(u)

OpenStep(p) == ReadApplied(p) \/ WriteBackup(p) \/ Migrate(p)

Next ==
  \/ \E u \in Updaters : StartUpdate(u) \/ UpdateStep(u) \/ UpdaterDies(u)
  \/ \E p \in {"daemon", "command"} : OpenStep(p)
  \/ LaunchdStarts
  \/ DaemonDies
  \/ CommandOpens
  \/ SecondPasses
  \/ \E manifest \in Manifests : Publish(manifest)

Spec == Init /\ [][Next]_vars

-----------------------------------------------------------------------------
(* Properties *)

\* bin/pv always resolves, and as long as an update may still have to roll back
\* the release it came from is there, whatever fails, dies or runs twice
\* (activate_release, remove_release, prune_releases, UpdateLock).
ActiveResolves ==
  /\ active \in releases
  /\ \A u \in Updaters :
       upd[u].pc \in {"activate", "bootout", "bootstrap", "kickstart", "health", "restore", "remove"}
         => upd[u].previous \in releases

\* An update that reports its rollback left the previous release active, and
\* only a daemon of that release may run (rollback_app_update).
RollbackServesPrevious ==
  \A u \in Updaters : upd[u].pc = "rolledBack" =>
    active = upd[u].previous /\ daemon.version \in {None, upd[u].previous}

\* The active release is replaced by an older one only when the update that
\* activated it rolls back to what it found (validate_active_release, the
\* comparison with the manifest), although manifests are republished and two
\* updates were started from the same release.
NeverDowngraded ==
  [][active' < active =>
       \E u \in Updaters : lock = u /\ upd[u].target = active /\ upd[u].previous = active']_vars

\* When migrations change the schema of a database, a backup of the schema
\* before them is on disk, although several processes open the database at
\* once, name their backups in the same second and prune each other's
\* (migrations::run, backup.rs).
MigrationHasBackup ==
  [][applied' # applied => \E b \in backups' : b.schema = applied]_vars

=============================================================================
