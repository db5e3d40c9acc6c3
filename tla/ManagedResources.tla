---------------------------- MODULE ManagedResources ----------------------------
(***************************************************************************)
(* One backing Managed Resource (MySQL, Redis, ...): its tracks, the       *)
(* Projects that declare it, and the reconciliation jobs that turn the     *)
(* declarations into installed artifacts, ports, running processes,        *)
(* Resource allocations and rendered .env files.                           *)
(*                                                                         *)
(* The daemon runs one job at a time (ReconciliationQueue).  Each SQLite   *)
(* transaction of a job, and each of its effects outside the database, is  *)
(* a step of its own: CLI commands write the same database, and processes, *)
(* ports and the daemon itself may go away between two steps.              *)
(***************************************************************************)
EXTENDS Integers, FiniteSets, FiniteSetsExt

CONSTANTS
  Projects,      \* project ids; linking a directory again makes a new id
  Tracks,        \* concrete tracks of the resource
  DefaultTrack,  \* the track the manifest resolves "latest" to
  Latest,        \* the selector of a config that names no track
  None,          \* an absent value
  Configs,       \* what pv.yml may say: valid, track (or None), alloc
  InitConfig,    \* what it says in each project directory at the start
  Checks,        \* readiness checks to look at: TRUE is TCP or HTTP, FALSE is PostgreSQL's
  Ports,         \* candidate ports, in the order they are tried
  Attempts,      \* RESOURCE_START_ATTEMPTS
  MaxVersion,    \* artifact versions ever published
  MaxEvents,     \* bound on commands, config edits, deaths and port takers
  MaxJobs        \* bound on reconciliation jobs

ASSUME ConstantsAssumption ==
  /\ DefaultTrack \in Tracks /\ Latest \notin Tracks /\ None \notin Tracks
  /\ None # Latest /\ None \notin Projects /\ IsFiniteSet(Projects)
  /\ Configs \subseteq [valid : BOOLEAN, track : Tracks \cup {Latest, None}, alloc : BOOLEAN]
  /\ InitConfig \in [Projects -> Configs]
  /\ Checks \subseteq BOOLEAN /\ Ports \subseteq Nat \ {0}
  /\ {Attempts, MaxVersion, MaxEvents, MaxJobs} \subseteq Nat /\ MaxVersion # 0

\* An absent value is none of the values that may be present.
ASSUME NoneAssumption ==
  /\ None \notin [track : Tracks, alloc : BOOLEAN]
  /\ None \notin [port : Nat, secret : Nat]
  /\ None \notin [track : Tracks, status : STRING, port : Nat]
  /\ None \notin [track : Tracks, artifact : Nat, port : Nat]

VARIABLES
  link,         \* projects table: "new", "linked" or "gone"
  requirement,  \* project_managed_resources: the track a project requires
  allocation,   \* resource_allocations: a project's one allocation
  row,          \* managed_resource_tracks
  usage,        \* its usage_count column
  port,         \* resource_ports: the port of a track, 0 when released
  observed,     \* project_env rows of observed_states
  config,       \* pv.yml in the project directory
  envFile,      \* what the PV block of the project's .env says
  data,         \* the secret a track's data directory was initialised with
  databases,    \* the allocations that exist inside a track's data directory
  files,        \* pid and metadata files of a track: the process they name
  procs,        \* live resource processes started by PV
  foreign,      \* ports held by processes that are not PV's
  probed,       \* the adapter's readiness check is a TCP or HTTP probe
  published,    \* artifact version the manifest offers
  minted,       \* secrets generated so far
  job,          \* the running reconciliation job
  cli,          \* the command a terminal is running
  events, jobs  \* used-up bounds

projectRows == <<link, requirement, allocation, usage>>
disk == <<config, envFile, data, databases>>
world == <<foreign, probed, published>>
bounds == <<events, jobs>>
vars == <<projectRows, row, port, observed, disk, files, procs, world, minted,
          job, cli, bounds>>

NoJob == [kind |-> None, pc |-> "idle", todo |-> {}, pass |-> 0, p |-> None,
          plan |-> None, left |-> {}, attempt |-> 0, env |-> None,
          artifact |-> 0, started |-> FALSE, changed |-> FALSE, failed |-> FALSE]

Init ==
  /\ link = [p \in Projects |-> "new"] /\ config = InitConfig
  /\ requirement = [p \in Projects |-> None]
  /\ allocation = [p \in Projects |-> None]
  /\ observed = [p \in Projects |-> None]
  /\ envFile = [p \in Projects |-> None]
  /\ row = [t \in Tracks |-> [desired |-> None, artifact |-> 0, env |-> None]]
  /\ usage = [t \in Tracks |-> 0] /\ port = [t \in Tracks |-> 0]
  /\ data = [t \in Tracks |-> 0] /\ databases = [t \in Tracks |-> {}]
  /\ files = [t \in Tracks |-> None] /\ procs = {} /\ foreign = {}
  /\ probed \in Checks /\ published = 1 /\ minted = 0
  /\ job = NoJob /\ cli = None /\ events = 0 /\ jobs = 0

-----------------------------------------------------------------------------
(* What the steps compute. *)

Linked == {p \in Projects : link[p] = "linked"}
Event == events < MaxEvents /\ events' = events + 1 /\ UNCHANGED jobs

\* local_loopback_port_available, negated.
Occupied(q) == q \in foreign \/ \E r \in procs : r.port = q

\* adopt_recorded: the pid and metadata files name a live process.
Recorded(t) == files[t] \in procs

\* A process of the track answers at its port.
Serving(t) == \E r \in procs : r.track = t /\ r.port = port[t]

\* recalculate_managed_resource_usage_counts_in_transaction and the triggers
\* of project_managed_resources.
UsageOf(req) == [t \in Tracks |-> Cardinality({p \in Projects : req[p] = t})]

\* resolved_project_resource_track: "latest" keeps the track already required.
ResolvedTrack(p) ==
  CASE config[p].track # Latest -> config[p].track
    [] config[p].track = Latest /\ requirement[p] # None -> requirement[p]
    [] OTHER -> DefaultTrack

\* upsert_managed_resource_track_desired_in_transaction: a removal whose
\* artifact is still there is not undone by a project's demand.
DesiredOnDemand(r) ==
  IF r.desired = "removed" /\ r.artifact # 0 THEN r ELSE [r EXCEPT !.desired = "installed"]

\* Mutant: an allocation stays ready when its project changes track.
ReadyOnAnyTrack(a, t, wanted) ==
  CASE wanted /\ a # None -> [a EXCEPT !.track = t, !.status = IF @ = "ready" THEN @ ELSE "desired"]
    [] wanted /\ a = None -> [track |-> t, status |-> "desired", port |-> 0]
    [] ~wanted /\ a # None -> [a EXCEPT !.status = "inactive"]
    [] OTHER -> None

\* replace_project_resource_allocations for a project that declares one
\* allocation, or none, on track t.
ReplacedAllocation(a, t, wanted) ==
  CASE wanted /\ a # None /\ a.track = t /\ a.status = "ready" -> a
    [] wanted /\ ~(a # None /\ a.track = t /\ a.status = "ready") ->
         [track |-> t, status |-> "desired", port |-> IF a = None THEN 0 ELSE a.port]
    [] ~wanted /\ a # None -> [a EXCEPT !.status = "inactive"]
    [] OTHER -> None

\* Mutant: only the plan's own demand is looked at.
UndemandedByPlan(demanded) == {t \in Tracks : row[t].desired # None /\ t # demanded}

\* stop_undemanded_catalog_runtimes: the tracks one query finds without a
\* project, other than the track the plan demands.
Undemanded(demanded) ==
  {t \in Tracks : row[t].desired # None /\ usage[t] = 0 /\ t # demanded}

\* assign_port: the assignment kept, or the first candidate that is neither
\* assigned to another track nor bound; 0 when there is none.
AssignedPort(t) ==
  LET free == {q \in Ports : (\A u \in Tracks : port[u] # q) /\ ~Occupied(q)}
  IN CASE port[t] # 0 -> port[t] [] port[t] = 0 /\ free # {} -> Min(free) [] OTHER -> 0

\* The process that reconciling the planned track at its port should run.
Expected(t) == [track |-> t, artifact |-> job.artifact, port |-> port[t]]

\* record_managed_resource_track_desired and record_managed_resource_track_installed.
RecordDesired(t) == row' = [row EXCEPT ![t].desired = "installed"]
RecordInstalled(t, version) ==
  row' = [row EXCEPT ![t].artifact = version,
                     ![t].desired = IF @ = None THEN "installed" ELSE @]

-----------------------------------------------------------------------------
(* Jobs: which projects and tracks are visited, in which order. *)

At(pc) == job.pc = pc
Goto(pc) == job' = [job EXCEPT !.pc = pc]
Project == job.p
Track == job.plan.track

\* A job of the queue starts: for one project, for every project once (a
\* managed-resource job) or twice (a system job), or for the updates.  An update
\* reads the manifest and the installed tracks, and leaves out those that have
\* the manifest's artifact (track_needs_update).
StartJob(kind, ps) ==
  /\ At("idle") /\ jobs < MaxJobs /\ jobs' = jobs + 1
  /\ job' = IF kind # "update"
            THEN [NoJob EXCEPT !.kind = kind, !.pass = 1, !.todo = ps, !.pc = "next"]
            ELSE [NoJob EXCEPT !.kind = kind, !.pass = 1, !.pc = "update", !.artifact = published,
                               !.left = {t \in Tracks : row[t].desired = "installed"
                                                          /\ row[t].artifact \notin {0, published}}]
  /\ UNCHANGED <<projectRows, row, port, observed, disk, files, procs, world, minted, cli, events>>

\* update_installed_backing_resources, one track: the desired state is recorded
\* before the download.
UpdateTrack(t) ==
  /\ At("update") /\ t \in job.left /\ RecordDesired(t)
  /\ job' = [job EXCEPT !.pc = "updating", !.plan = [track |-> t, alloc |-> FALSE]]
  /\ UNCHANGED <<projectRows, port, observed, disk, files, procs, world, minted, cli, bounds>>

\* The new artifact is installed and recorded.
UpdateInstalled ==
  /\ At("updating") /\ RecordInstalled(Track, job.artifact)
  /\ job' = [job EXCEPT !.pc = "update", !.left = @ \ {Track}, !.plan = None, !.changed = TRUE]
  /\ UNCHANGED <<projectRows, port, observed, disk, files, procs, world, minted, cli, bounds>>

\* The update ends: a failed download fails the job, an update that changed
\* nothing is done, and one that did reconciles the whole system.
UpdateEnds ==
  /\ \/ At("updating") /\ job' = NoJob
     \/ At("update") /\ job.left = {} /\ ~job.changed /\ job' = NoJob
     \/ At("update") /\ job.left = {} /\ job.changed
        /\ job' = [job EXCEPT !.pc = "next", !.todo = Linked]
  /\ UNCHANGED <<projectRows, row, port, observed, disk, files, procs, world, minted, cli, bounds>>

\* reconcile_project_env...: the project is read, then its pv.yml; the plan is
\* made from both.  A missing project or an invalid config ends it here.
LoadProject(p) ==
  /\ At("next") /\ p \in job.todo
  /\ LET loaded == [job EXCEPT !.todo = @ \ {p}, !.p = p, !.attempt = 1, !.pc = "require",
                               !.plan = IF config[p].track = None THEN None
                                        ELSE [track |-> ResolvedTrack(p), alloc |-> config[p].alloc]]
         failed == IF job.kind = "project" THEN NoJob ELSE [job EXCEPT !.todo = @ \ {p}]
     IN \/ p \notin Linked /\ job' = failed /\ UNCHANGED observed
        \/ p \in Linked /\ ~config[p].valid /\ job' = failed
           /\ observed' = [observed EXCEPT ![p] = "failed"]
        \/ p \in Linked /\ config[p].valid /\ job' = loaded /\ UNCHANGED observed
  /\ UNCHANGED <<projectRows, row, port, disk, files, procs, world, minted, cli, bounds>>

\* Every project of the pass was visited: the job is over, or the runtimes
\* without a project are stopped before the second pass.
PassEnds ==
  /\ At("next") /\ job.todo = {}
  /\ IF job.kind \in {"system", "update"} /\ job.pass = 1
     THEN job' = [job EXCEPT !.pc = "stop", !.left = Undemanded(None)]
     ELSE job' = NoJob
  /\ UNCHANGED <<projectRows, row, port, observed, disk, files, procs, world, minted, cli, bounds>>

\* An error of the project at hand: recorded while its row exists, and the end
\* of a job that was asked for this project only.
ProjectFails ==
  /\ observed' = [p \in Projects |-> IF p = Project /\ p \in Linked THEN "failed" ELSE observed[p]]
  /\ job' = IF job.kind = "project" THEN NoJob
            ELSE [job EXCEPT !.pc = "next", !.p = None, !.plan = None, !.left = {}]

-----------------------------------------------------------------------------
(* One project of a job. *)

\* replace_project_managed_resources
Require ==
  /\ At("require") /\ Project \in Linked
  /\ requirement' = [requirement EXCEPT ![Project] = IF job.plan = None THEN None ELSE Track]
  /\ usage' = UsageOf(requirement')
  /\ row' = IF job.plan = None THEN row ELSE [row EXCEPT ![Track] = DesiredOnDemand(@)]
  /\ job' = [job EXCEPT !.pc = IF job.plan = None /\ requirement[Project] = None
                               THEN "snapshot" ELSE "allocate"]
  /\ UNCHANGED <<link, allocation, port, observed, disk, files, procs, world, minted, cli, bounds>>

\* replace_project_resource_allocations, also for a resource just dropped.
Allocate ==
  /\ At("allocate") /\ Project \in Linked
  /\ allocation' = [allocation EXCEPT ![Project] =
       IF job.plan = None THEN ReplacedAllocation(@, None, FALSE)
       ELSE ReplacedAllocation(@, Track, job.plan.alloc)]
  /\ Goto("snapshot")
  /\ UNCHANGED <<link, requirement, usage, row, port, observed, disk, files, procs, world, minted, cli, bounds>>

\* Both transactions refuse a project that was unlinked meanwhile.
ProjectGone ==
  /\ job.pc \in {"require", "allocate", "finalize"} /\ Project \notin Linked
  /\ ProjectFails
  /\ UNCHANGED <<projectRows, row, port, disk, files, procs, world, minted, cli, bounds>>

\* stop_undemanded_catalog_runtimes reads the tracks once.
SnapshotTracks ==
  /\ At("snapshot")
  /\ job' = [job EXCEPT !.pc = "stop",
                        !.left = Undemanded(IF job.plan = None THEN None ELSE Track)]
  /\ UNCHANGED <<projectRows, row, port, observed, disk, files, procs, world, minted, cli, bounds>>

\* stop_resource_runtime: the recorded process is stopped, its files deleted
\* and its ports released.
StopTrack(t) ==
  /\ At("stop") /\ t \in job.left
  /\ procs' = procs \ {files[t]}
  /\ files' = [files EXCEPT ![t] = None] /\ port' = [port EXCEPT ![t] = 0]
  /\ job' = [job EXCEPT !.left = @ \ {t}]
  /\ UNCHANGED <<projectRows, row, observed, disk, world, minted, cli, bounds>>

\* The sweep is over: on to the planned track, to the end of a project that
\* declares no resource, or to the missing installs of a system job.
StopsDone ==
  /\ At("stop") /\ job.left = {}
  /\ job' = [job EXCEPT !.pc = CASE Project = None -> "missing"
                                 [] Project # None /\ job.plan = None -> "finalize"
                                 [] OTHER -> "artifact",
                        !.left = IF Project # None THEN {}
                                 ELSE {t \in Tracks : row[t].desired = "installed" /\ row[t].artifact = 0}]
  /\ UNCHANGED <<projectRows, row, port, observed, disk, files, procs, world, minted, cli, bounds>>

\* install_missing_desired_resource_tracks: a failed install is remembered and
\* the others are still tried; the second pass needs them all.
InstallMissing(t) ==
  /\ At("missing") /\ t \in job.left
  /\ \/ row' = [row EXCEPT ![t].desired = "installed", ![t].artifact = published]
        /\ job' = [job EXCEPT !.left = @ \ {t}]
     \/ RecordDesired(t) /\ job' = [job EXCEPT !.left = @ \ {t}, !.failed = TRUE]
  /\ UNCHANGED <<projectRows, port, observed, disk, files, procs, world, minted, cli, bounds>>

SecondPass ==
  /\ At("missing") /\ job.left = {}
  /\ job' = IF job.failed THEN NoJob
            ELSE [job EXCEPT !.pc = "next", !.pass = 2, !.todo = Linked]
  /\ UNCHANGED <<projectRows, row, port, observed, disk, files, procs, world, minted, cli, bounds>>

\* ensure_track_artifact: an installed track is used as it is, a removed one is
\* an error, a missing artifact is installed first.
EnsureArtifact ==
  /\ At("artifact")
  /\ LET r == row[Track] IN
     \/ r.artifact # 0 /\ r.desired # "removed" /\ row' = row /\ UNCHANGED observed
        /\ job' = [job EXCEPT !.pc = "ports", !.env = r.env, !.artifact = r.artifact]
     \/ r.artifact # 0 /\ r.desired = "removed" /\ row' = row /\ ProjectFails
     \/ r.artifact = 0 /\ RecordDesired(Track) /\ UNCHANGED observed
        /\ job' = [job EXCEPT !.pc = "install", !.artifact = published]
  /\ UNCHANGED <<projectRows, port, disk, files, procs, world, minted, cli, bounds>>

\* The artifact was downloaded and unpacked, or that failed.
InstallArtifact ==
  /\ At("install")
  /\ \/ RecordInstalled(Track, job.artifact) /\ Goto("artifact") /\ UNCHANGED observed
     \/ UNCHANGED row /\ ProjectFails
  /\ UNCHANGED <<projectRows, port, disk, files, procs, world, minted, cli, bounds>>

\* cleanup_resource_runtime_files and release_resource_track_ports before the
\* next attempt.
ReleaseAndRetry(t) ==
  /\ files' = [files EXCEPT ![t] = None] /\ port' = [port EXCEPT ![t] = 0]
  /\ job' = [job EXCEPT !.pc = "ports", !.attempt = @ + 1] /\ UNCHANGED observed

\* assign_named_ports, then ports_occupied_without_recorded_runtime.
AssignPorts ==
  /\ At("ports")
  /\ LET q == AssignedPort(Track)
         taken == Occupied(q) /\ ~Recorded(Track) /\ job.attempt < Attempts
     IN \/ q = 0 /\ ProjectFails /\ UNCHANGED <<port, files>>
        \/ q # 0 /\ taken /\ ReleaseAndRetry(Track)
        \/ q # 0 /\ ~taken /\ port' = [port EXCEPT ![Track] = q] /\ Goto("env")
           /\ UNCHANGED <<files, observed>>
  /\ UNCHANGED <<projectRows, row, disk, procs, world, minted, cli, bounds>>

\* Mutants: a secret per attempt; a context that is only written once.
MintEveryTime ==
  /\ At("env") /\ Goto("prepare") /\ minted' = minted + 1
  /\ row' = [row EXCEPT ![Track].env = [port |-> port[Track], secret |-> minted + 1]]
  /\ UNCHANGED <<projectRows, port, observed, disk, files, procs, world, cli, bounds>>
RecordEnvOnce ==
  /\ At("env") /\ Goto("prepare") /\ minted' = minted + 1
  /\ row' = [row EXCEPT ![Track].env =
       IF @ = None THEN [port |-> port[Track], secret |-> minted + 1] ELSE @]
  /\ UNCHANGED <<projectRows, port, observed, disk, files, procs, world, cli, bounds>>

\* record_managed_resource_track_env_context: the secret read with the track
\* is kept, a track that had none gets a new one.
RecordEnv ==
  /\ At("env")
  /\ LET secret == IF job.env = None THEN minted + 1 ELSE job.env.secret IN
     /\ row' = [row EXCEPT ![Track].env = [port |-> port[Track], secret |-> secret]]
     /\ minted' = IF job.env = None THEN minted + 1 ELSE minted
  /\ Goto("prepare")
  /\ UNCHANGED <<projectRows, port, observed, disk, files, procs, world, cli, bounds>>

\* prepare_runtime: PostgreSQL's data directory is initialised once, with the
\* secret of that moment.
PrepareRuntime ==
  /\ At("prepare")
  /\ \/ Goto("start") /\ UNCHANGED observed
        /\ data' = IF probed \/ data[Track] # 0 THEN data
                   ELSE [data EXCEPT ![Track] = row[Track].env.secret]
     \/ ProjectFails /\ UNCHANGED data
  /\ UNCHANGED <<projectRows, row, port, config, envFile, databases, files, procs, world, minted, cli, bounds>>

\* start_or_adopt_runtime up to the readiness wait.  A process recorded with
\* other arguments is not adopted; if it, or anyone, answers the probe, the
\* port is given up.  A process that cannot bind its port, and a SQL server
\* whose data directory is in use, exits; the readiness check of a SQL server
\* may be answered by the old one before that exit is noticed.
AdoptRuntime ==
  /\ At("start") /\ files[Track] = Expected(Track) /\ Recorded(Track)
  /\ job' = [job EXCEPT !.pc = "ready", !.started = FALSE]
  /\ UNCHANGED <<projectRows, row, port, observed, disk, files, procs, world, minted, cli, bounds>>

ForeignListener ==
  /\ At("start") /\ ~(files[Track] = Expected(Track) /\ Recorded(Track))
  /\ probed /\ Occupied(port[Track])
  /\ IF job.attempt < Attempts THEN ReleaseAndRetry(Track)
     ELSE ProjectFails /\ UNCHANGED <<files, port>>
  /\ UNCHANGED <<projectRows, row, disk, procs, world, minted, cli, bounds>>

StartRuntime ==
  /\ At("start") /\ ~(files[Track] = Expected(Track) /\ Recorded(Track))
  /\ ~(probed /\ \E r \in procs : r.port = port[Track])
  /\ LET exits == Occupied(port[Track]) \/ (~probed /\ \E r \in procs : r.track = Track) IN
     \/ exits /\ ~probed /\ Serving(Track) /\ procs' = procs /\ UNCHANGED observed
        /\ files' = [files EXCEPT ![Track] = Expected(Track)]
        /\ job' = [job EXCEPT !.pc = "ready", !.started = TRUE]
     \/ exits /\ files' = [files EXCEPT ![Track] = None] /\ procs' = procs /\ ProjectFails
     \/ ~exits /\ procs' = procs \cup {Expected(Track)} /\ UNCHANGED observed
        /\ files' = [files EXCEPT ![Track] = Expected(Track)]
        /\ job' = [job EXCEPT !.pc = "ready", !.started = TRUE]
  /\ UNCHANGED <<projectRows, row, port, disk, world, minted, cli, bounds>>

\* The readiness wait.  A SQL server is ready when it accepts the secret of
\* the track.  A process this job started is stopped when it is not ready in
\* time; an adopted one is left running.
RuntimeReady ==
  /\ At("ready") /\ Serving(Track)
  /\ probed \/ data[Track] = row[Track].env.secret
  /\ Goto("allocations")
  /\ UNCHANGED <<projectRows, row, port, observed, disk, files, procs, world, minted, cli, bounds>>

RuntimeNotReady ==
  /\ At("ready") /\ ProjectFails
  /\ procs' = IF job.started THEN procs \ {Expected(Track)} ELSE procs
  /\ files' = IF job.started THEN [files EXCEPT ![Track] = None] ELSE files
  /\ UNCHANGED <<projectRows, row, port, disk, world, minted, cli, bounds>>

\* desired_allocations, then create_database_if_missing inside the resource.
ReconcileAllocations ==
  /\ At("allocations")
  /\ LET a == allocation[Project]
         mine == job.plan.alloc /\ a # None /\ a.track = Track
     IN \/ mine /\ Serving(Track) /\ Goto("mark") /\ UNCHANGED observed
           /\ databases' = [databases EXCEPT ![Track] = @ \cup {Project}]
        \/ mine /\ ~Serving(Track) /\ ProjectFails /\ UNCHANGED databases
        \/ ~mine /\ Goto("render") /\ UNCHANGED <<databases, observed>>
  /\ UNCHANGED <<projectRows, row, port, config, envFile, data, files, procs, world, minted, cli, bounds>>

\* mark_resource_allocation_ready, or record_resource_allocation_env_context for
\* one that is ready already; the row may be gone with its project.
MarkAllocationReady ==
  /\ At("mark")
  /\ IF allocation[Project] # None
     THEN /\ allocation' = [allocation EXCEPT ![Project] =
               [track |-> Track, status |-> "ready", port |-> port[Track]]]
          /\ Goto("render") /\ UNCHANGED observed
     ELSE ProjectFails /\ UNCHANGED allocation
  /\ UNCHANGED <<link, requirement, usage, row, port, disk, files, procs, world, minted, cli, bounds>>

\* project_env_context_for_plan, then write_project_env_file.
RenderEnv ==
  /\ At("render")
  /\ LET a == allocation[Project]
         allocated == job.plan.alloc => (a # None /\ a.track = Track /\ a.status = "ready")
     IN IF allocated /\ row[Track].env # None
        THEN /\ envFile' = [envFile EXCEPT ![Project] =
                  [track |-> Track, port |-> row[Track].env.port, secret |-> row[Track].env.secret]]
             /\ Goto("finalize") /\ UNCHANGED observed
        ELSE ProjectFails /\ UNCHANGED envFile
  /\ UNCHANGED <<projectRows, row, port, config, data, databases, files, procs, world, minted, cli, bounds>>

\* finalize_project_reconciliation
Finalize ==
  /\ At("finalize") /\ Project \in Linked
  /\ observed' = [observed EXCEPT ![Project] = "rendered"]
  /\ job' = IF job.kind = "project" THEN NoJob
            ELSE [job EXCEPT !.pc = "next", !.p = None, !.plan = None]
  /\ UNCHANGED <<projectRows, row, port, disk, files, procs, world, minted, cli, bounds>>

-----------------------------------------------------------------------------
(* CLI commands.  Each first finds the coordination lock free, which it is   *)
(* while no job is queued or running, and then works without holding it.     *)

CliBegins(command) ==
  /\ At("idle") /\ cli = None /\ cli' = command
  /\ UNCHANGED <<projectRows, row, port, observed, disk, files, procs, world, minted, job>>

BeginLink(p) == link[p] = "new" /\ CliBegins([op |-> "link", p |-> p]) /\ UNCHANGED bounds
BeginUnlink(p) == Event /\ link[p] = "linked" /\ CliBegins([op |-> "unlink", p |-> p])
BeginInstall(t) == Event /\ CliBegins([op |-> "install", t |-> t, version |-> 0])
BeginUninstall(t, force) == Event /\ CliBegins([op |-> "uninstall", t |-> t, force |-> force])

Running(op) == cli # None /\ cli.op = op

LinkProject ==
  /\ Running("link") /\ link' = [link EXCEPT ![cli.p] = "linked"] /\ cli' = None
  /\ UNCHANGED <<requirement, allocation, usage, row, port, observed, disk, files, procs, world, minted, job, bounds>>

\* unlink_project: the rows of the project go with it.
UnlinkProject ==
  /\ Running("unlink") /\ link' = [link EXCEPT ![cli.p] = "gone"] /\ cli' = None
  /\ requirement' = [requirement EXCEPT ![cli.p] = None]
  /\ allocation' = [allocation EXCEPT ![cli.p] = None]
  /\ observed' = [observed EXCEPT ![cli.p] = None]
  /\ usage' = UsageOf(requirement')
  /\ UNCHANGED <<row, port, disk, files, procs, world, minted, job, bounds>>

\* install_track: desired state, download, installed state.
InstallTrack ==
  /\ \/ Running("install") /\ RecordDesired(cli.t)
        /\ cli' = [cli EXCEPT !.op = "download", !.version = published]
     \/ Running("download") /\ RecordInstalled(cli.t, cli.version) /\ cli' = None
     \/ Running("download") /\ UNCHANGED row /\ cli' = None
  /\ UNCHANGED <<projectRows, port, observed, disk, files, procs, world, minted, job, bounds>>

\* validate_uninstall_eligibility, then record_removal_intent in a transaction
\* of its own.
UninstallTrack ==
  /\ \/ /\ Running("uninstall") /\ UNCHANGED row
        /\ cli' = IF row[cli.t].desired = "installed" /\ row[cli.t].artifact # 0
                     /\ (usage[cli.t] = 0 \/ cli.force)
                  THEN [cli EXCEPT !.op = "remove"] ELSE None
     \/ Running("remove") /\ row' = [row EXCEPT ![cli.t].desired = "removed"] /\ cli' = None
  /\ UNCHANGED <<projectRows, port, observed, disk, files, procs, world, minted, job, bounds>>

-----------------------------------------------------------------------------
(* What happens around PV. *)

EditConfig(p, c) ==
  /\ Event /\ c # config[p] /\ config' = [config EXCEPT ![p] = c]
  /\ UNCHANGED <<projectRows, row, port, observed, envFile, data, databases, files, procs, world, minted, job, cli>>

ProcessDies(r) ==
  /\ Event /\ r \in procs /\ procs' = procs \ {r}
  /\ UNCHANGED <<projectRows, row, port, observed, disk, files, world, minted, job, cli>>

ForeignBinds(q) ==
  /\ Event /\ ~Occupied(q) /\ foreign' = foreign \cup {q}
  /\ UNCHANGED <<projectRows, row, port, observed, disk, files, procs, probed, published, minted, job, cli>>

Publish ==
  /\ published < MaxVersion /\ published' = published + 1
  /\ UNCHANGED <<projectRows, row, port, observed, disk, files, procs, foreign, probed, minted, job, cli, bounds>>

\* The daemon is killed or shut down: the job stops where it is, its children
\* live on.
DaemonDies ==
  /\ Event /\ ~At("idle") /\ job' = NoJob
  /\ UNCHANGED <<projectRows, row, port, observed, disk, files, procs, world, minted, cli>>

JobStep ==
  \/ \E kind \in {"resource", "system", "update"} : StartJob(kind, Linked)
  \/ \E p \in Linked : StartJob("project", {p})
  \/ \E t \in Tracks : UpdateTrack(t) \/ StopTrack(t) \/ InstallMissing(t)
  \/ \E p \in Projects : LoadProject(p)
  \/ UpdateInstalled \/ UpdateEnds \/ PassEnds \/ SecondPass
  \/ Require \/ Allocate \/ ProjectGone \/ SnapshotTracks \/ StopsDone
  \/ EnsureArtifact \/ InstallArtifact \/ AssignPorts \/ RecordEnv \/ PrepareRuntime
  \/ AdoptRuntime \/ ForeignListener \/ StartRuntime \/ RuntimeReady \/ RuntimeNotReady
  \/ ReconcileAllocations \/ MarkAllocationReady \/ RenderEnv \/ Finalize

CliStep ==
  \/ \E p \in Projects : BeginLink(p) \/ BeginUnlink(p)
  \/ \E t \in Tracks : BeginInstall(t) \/ \E force \in BOOLEAN : BeginUninstall(t, force)
  \/ LinkProject \/ UnlinkProject \/ InstallTrack \/ UninstallTrack

Environment ==
  \/ \E p \in Projects, c \in Configs : EditConfig(p, c)
  \/ \E r \in procs : ProcessDies(r)
  \/ \E q \in Ports : ForeignBinds(q)
  \/ Publish \/ DaemonDies

Next == JobStep \/ CliStep \/ Environment

Spec == Init /\ [][Next]_vars

-----------------------------------------------------------------------------
(* Properties. *)

ProcessType == [track : Tracks, artifact : 1..MaxVersion, port : Ports]

\* Types, and the uniqueness constraint of resource_ports.
ResourceTypeOK ==
  /\ link \in [Projects -> {"new", "linked", "gone"}]
  /\ requirement \in [Projects -> Tracks \cup {None}]
  /\ \A p \in Projects : allocation[p] # None =>
       allocation[p] \in [track : Tracks, status : {"desired", "ready", "inactive"}, port : Ports \cup {0}]
  /\ row \in [Tracks -> [desired : {None, "installed", "removed"}, artifact : 0..MaxVersion,
                         env : {None} \cup [port : Ports, secret : 1..minted]]]
  /\ usage \in [Tracks -> 0..Cardinality(Projects)]
  /\ port \in [Tracks -> Ports \cup {0}]
  /\ \A t, u \in Tracks : port[t] = port[u] /\ port[t] # 0 => t = u
  /\ observed \in [Projects -> {None, "failed", "rendered"}]
  /\ data \in [Tracks -> 0..minted] /\ databases \in [Tracks -> SUBSET Projects]
  /\ files \in [Tracks -> ProcessType \cup {None}] /\ procs \subseteq ProcessType

\* Stopping the runtimes nobody needs (stop_undemanded_catalog_runtimes) never
\* stops one whose track a linked project requires, although the tracks were
\* read before the first stop and projects come and go meanwhile.
NeededRuntimeKept ==
  [][At("stop") /\ job' # job =>
       \A r \in procs \ procs' : \A p \in Linked : requirement[p] # r.track]_vars

\* The secret stored for a track is the one its data directory was initialised
\* with, whatever attempt was cut short by an error or by the daemon's death:
\* PV can always log in to the server it starts.
SecretsMatchData ==
  \A t \in Tracks : data[t] # 0 => row[t].env # None /\ row[t].env.secret = data[t]

\* An allocation marked ready exists in the data directory of the very track
\* it is marked ready on, also after its project went to another track and back.
ReadyAllocationExists ==
  /\ ResourceTypeOK
  /\ \A p \in Projects : allocation[p] # None /\ allocation[p].status = "ready" =>
       p \in databases[allocation[p].track]

\* A project is reported rendered only with a .env that names the track it
\* requires, the port that track has now and the secret its server accepts.
RenderedEnvCurrent ==
  [][\A p \in Projects :
       At("finalize") /\ job' # job /\ job.p = p /\ job.plan # None
         /\ p \in Linked /\ observed'[p] = "rendered" =>
         LET t == requirement[p] IN
         /\ envFile[p].track = t /\ envFile[p].port = port[t]
         /\ envFile[p].secret = row[t].env.secret]_vars

=============================================================================
