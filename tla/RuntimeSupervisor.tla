------------------------- MODULE RuntimeSupervisor -------------------------
(***************************************************************************)
(* One supervised runtime, the Gateway or a PHP worker: promotion of its   *)
(* generated config (gateway_config.rs), starting, adopting, reloading and *)
(* stopping its process (gateway.rs, supervisor.rs), and the files under   *)
(* ~/.pv/run by which a later daemon finds the process.                    *)
(*                                                                         *)
(* The mutation queue runs one reconciliation at a time.  The daemon may   *)
(* die, or the task be dropped, between any two steps; processes live on.  *)
(***************************************************************************)
EXTENDS Naturals, FiniteSets

CONSTANTS Pids,          \* process ids
          MaxVersion,    \* bound: versions of the project's config
          MaxSpec,       \* bound: versions of binary and environment
          MaxMishaps     \* bound: failing steps and crashing processes, deaths of the
                         \* daemon and dropped tasks, foreign processes on a pid

ASSUME SupervisorAssumption ==
    /\ {MaxVersion, MaxSpec, MaxMishaps} \subseteq Nat
    /\ Pids \subseteq Nat /\ 0 \notin Pids /\ IsFiniteSet(Pids)

NoPid == 0
\* Start identities are only compared, so one that nothing mentions any more is
\* as good as a new one.
StartIds == 1..Cardinality(Pids) + 2
NoTarget == [root |-> 0, dir |-> 0, spec |-> 0]
NoMeta == [pid |-> NoPid, start |-> 0, spec |-> 0]

\* A config file or directory is missing, without a fragment (0), or rendered
\* from a version of the project's config.
Missing == MaxVersion + 1
Contents == 0..Missing

Free == [kind |-> "free", start |-> 0, spec |-> 0, loaded |-> 0, up |-> FALSE,
         signal |-> "none"]
Foreign == [Free EXCEPT !.kind = "foreign"]

VARIABLES
    proc,      \* the process table
    starts,    \* the start identity of the process being started, or 0
    pidFile,   \* <runtime>.pid
    meta,      \* <runtime>.json
    root, dir, \* active Caddyfile and active directory of fragments
    rootBak, dirBak, \* what PromotedConfigFile and PromotedConfigDir keep
    pc,        \* step of the reconciliation task
    target,    \* what the task promotes and starts
    child,     \* process held by the task as a child, or NoPid
    before,    \* <<root, dir>> when the task began, <<>> if its rollback failed
    observed,  \* recorded runtime status
    version, valid, \* the project's config file
    spec,      \* wanted binary and environment
    wanted,    \* some project still needs the runtime
    requested, \* a job for the runtime is queued
    foreign, faults, \* counters for the bounds
    interrupts, \* deaths of the daemon and dropped tasks
    misdirected \* signals that reached a foreign process

configVars == <<root, dir, rootBak, dirBak>>
fileVars == <<pidFile, meta>>
procVars == <<proc, starts>>
worldVars == <<version, valid, spec, wanted, foreign>>
ghostVars == <<before, interrupts, misdirected>>
vars == <<procVars, fileVars, configVars, pc, target, child, observed,
          worldVars, requested, faults, ghostVars>>

Steps == {"idle", "validate", "backupRoot", "placeRoot", "backupDir", "placeDir",
          "adopt", "reload", "reloadReady", "stopping", "killing", "spawn",
          "persistPid", "persistMeta", "ready", "commit", "unverified",
          "deleteDir", "restoreDir", "deleteRoot", "restoreRoot",
          "staleStopping", "staleKilling", "cleanupPid", "cleanupMeta", "cleanupConfig"}

SupervisorTypeOK ==
    /\ \A p \in Pids : /\ proc[p].kind \in {"free", "pv", "foreign"}
                       /\ proc[p].start \in StartIds \cup {0}
                       /\ proc[p].loaded \in Contents
                       /\ proc[p].signal \in {"none", "reload", "term", "kill"}
    /\ starts \in StartIds \cup {0}
    /\ pidFile \in Pids \cup {NoPid} /\ meta.pid \in Pids \cup {NoPid}
    /\ {root, dir, rootBak, dirBak} \subseteq Contents
    /\ pc \in Steps /\ child \in Pids \cup {NoPid}
    /\ observed \in {"none", "running", "degraded", "failed", "stopped"}
    /\ pc = "idle" => child = NoPid /\ rootBak = Missing /\ dirBak = Missing

Init ==
    /\ proc = [p \in Pids |-> Free] /\ starts = 0
    /\ pidFile = NoPid /\ meta = NoMeta
    /\ root = Missing /\ dir = Missing /\ rootBak = Missing /\ dirBak = Missing
    /\ pc = "idle" /\ target = NoTarget /\ child = NoPid
    /\ before = <<Missing, Missing>> /\ observed = "none"
    /\ version = 1 /\ valid = TRUE /\ spec = 1 /\ wanted = TRUE
    /\ requested = FALSE
    /\ foreign = 0 /\ faults = 0 /\ interrupts = 0 /\ misdirected = {}

-----------------------------------------------------------------------------
(***************************************************************************)
(* Ownership.                                                              *)
(***************************************************************************)

\* live_process_matches: start identity, executable and arguments.
LiveProcessMatches(p, start, s) ==
    proc[p].kind = "pv" /\ proc[p].start = start /\ proc[p].spec = s

\* adopt_recorded: the process that the files describe.
AdoptRecorded ==
    /\ pidFile # NoPid /\ meta.pid = pidFile
    /\ LiveProcessMatches(pidFile, meta.start, meta.spec)

\* verify_ownership: and they describe the wanted process.
VerifyOwnership == AdoptRecorded /\ meta.spec = target.spec

\* A probe of the runtime's port answers, whoever listens.
Listening == \E p \in Pids : proc[p].up

\* signal_process_group
Signal(p, s) ==
    /\ proc' = IF proc[p].kind = "free" THEN proc ELSE [proc EXCEPT ![p].signal = s]
    /\ misdirected' = IF proc[p].kind = "foreign" THEN misdirected \cup {s} ELSE misdirected
    /\ UNCHANGED <<starts, interrupts>>

Mishaps == faults + foreign + interrupts
Fault == Mishaps < MaxMishaps /\ faults' = faults + 1

Goto(step) == pc' = step
Finish(status) == pc' = "idle" /\ child' = NoPid /\ observed' = status

-----------------------------------------------------------------------------
(***************************************************************************)
(* Promotion of the config.                                                *)
(***************************************************************************)

\* The plan: an invalid config keeps the fragment that is active.
Begin ==
    /\ pc = "idle" /\ requested /\ wanted
    /\ requested' = FALSE
    /\ target' = [root |-> version, spec |-> spec,
                  dir |-> IF valid THEN version ELSE IF dir = Missing THEN 0 ELSE dir]
    /\ before' = <<root, dir>>
    /\ Goto("validate")
    /\ UNCHANGED <<procVars, fileVars, configVars, child, observed, worldVars, faults,
                   interrupts, misdirected>>

ValidateConfig ==
    /\ pc = "validate"
    /\ \/ Goto("backupRoot") /\ UNCHANGED <<child, observed, faults>>
       \/ Fault /\ Finish("failed")
    /\ UNCHANGED <<procVars, fileVars, configVars, target, worldVars, requested, ghostVars>>

BackupRoot ==
    /\ pc = "backupRoot"
    /\ \/ rootBak' = root /\ root' = Missing
          /\ Goto("placeRoot") /\ UNCHANGED <<child, observed, faults>>
       \/ Fault /\ Finish("failed") /\ UNCHANGED <<root, rootBak>>
    /\ UNCHANGED <<procVars, fileVars, dir, dirBak, target, worldVars, requested, ghostVars>>

PlaceRoot ==
    /\ pc = "placeRoot"
    /\ \/ root' = target.root /\ rootBak' = rootBak
          /\ Goto("backupDir") /\ UNCHANGED <<child, observed, faults>>
       \/ Fault /\ root' = rootBak /\ rootBak' = Missing /\ Finish("failed")
    /\ UNCHANGED <<procVars, fileVars, dir, dirBak, target, worldVars, requested, ghostVars>>

BackupDir ==
    /\ pc = "backupDir"
    /\ \/ dirBak' = dir /\ dir' = Missing
          /\ Goto("placeDir") /\ UNCHANGED <<observed, faults>>
       \/ Fault /\ Goto("deleteRoot") /\ observed' = "failed" /\ UNCHANGED <<dir, dirBak>>
    /\ UNCHANGED <<procVars, fileVars, root, rootBak, target, child, worldVars, requested,
                   ghostVars>>

\* promote_config_dir, and root.rollback() when it fails.
PlaceDir ==
    /\ pc = "placeDir"
    /\ \/ dir' = target.dir /\ dirBak' = dirBak
          /\ Goto("adopt") /\ UNCHANGED <<observed, faults>>
       \/ Fault /\ dir' = dirBak /\ dirBak' = Missing
          /\ Goto("deleteRoot") /\ observed' = "failed"
    /\ UNCHANGED <<procVars, fileVars, root, rootBak, target, child, worldVars, requested,
                   ghostVars>>

\* record_runtime_error, then promoted_config.rollback().
Rollback == Goto("deleteDir") /\ observed' = "failed"

DeleteDir ==
    /\ pc = "deleteDir" /\ dir' = Missing
    /\ Goto("restoreDir")
    /\ UNCHANGED <<procVars, fileVars, root, rootBak, dirBak, target, child, observed,
                   worldVars, requested, faults, ghostVars>>

\* Mutant: the new fragments are deleted and the old ones not renamed back.
DiscardBackupDir == dir' = dir /\ dirBak' = Missing

RenameBackupDir == dir' = dirBak /\ dirBak' = Missing

RestoreDir ==
    /\ pc = "restoreDir" /\ RenameBackupDir
    /\ Goto("deleteRoot")
    /\ UNCHANGED <<procVars, fileVars, root, rootBak, target, child, observed, worldVars,
                   requested, faults, ghostVars>>

DeleteRoot ==
    /\ pc = "deleteRoot" /\ root' = Missing
    /\ Goto("restoreRoot")
    /\ UNCHANGED <<procVars, fileVars, dir, rootBak, dirBak, target, child, observed,
                   worldVars, requested, faults, ghostVars>>

RestoreRoot ==
    /\ pc = "restoreRoot" /\ root' = rootBak /\ rootBak' = Missing
    /\ pc' = "idle" /\ child' = NoPid /\ target' = NoTarget
    /\ UNCHANGED <<procVars, fileVars, dir, dirBak, observed, worldVars,
                   requested, faults, ghostVars>>

\* A step of the rollback fails; the root is rolled back even so.
RollbackFails ==
    /\ pc \in {"deleteDir", "restoreDir", "deleteRoot", "restoreRoot"} /\ Fault
    /\ before' = <<>>
    /\ IF pc \in {"deleteDir", "restoreDir"}
       THEN Goto("deleteRoot") /\ dirBak' = Missing /\ UNCHANGED <<child, rootBak>>
       ELSE pc' = "idle" /\ child' = NoPid /\ rootBak' = Missing /\ UNCHANGED dirBak
    /\ UNCHANGED <<procVars, fileVars, root, dir, target, observed, worldVars, requested,
                   interrupts, misdirected>>

\* PromotedConfigTree::commit
DropBackups == rootBak' = Missing /\ dirBak' = Missing

\* commit, and the observation that follows it; it fails when a backup cannot
\* be deleted.
Commit ==
    /\ pc \in {"commit", "unverified"}
    /\ DropBackups /\ target' = NoTarget
    /\ \/ Finish(IF pc = "commit" THEN "running" ELSE "degraded") /\ UNCHANGED <<faults, before>>
       \/ Fault /\ before' = <<>> /\ Finish("failed")
    /\ UNCHANGED <<procVars, fileVars, root, dir, worldVars, requested, interrupts,
                   misdirected>>

-----------------------------------------------------------------------------
(***************************************************************************)
(* start_or_adopt_runtime                                                  *)
(***************************************************************************)
Adopt ==
    /\ pc = "adopt"
    /\ \/ VerifyOwnership /\ Goto("reload")
          /\ UNCHANGED <<procVars, observed, ghostVars>>
       \/ ~VerifyOwnership /\ AdoptRecorded
          /\ Signal(pidFile, "term") /\ Goto("stopping") /\ UNCHANGED <<observed, before>>
       \/ ~AdoptRecorded /\ Listening
          /\ Rollback /\ UNCHANGED <<procVars, ghostVars>>
       \/ ~AdoptRecorded /\ ~Listening
          /\ Goto("spawn") /\ UNCHANGED <<procVars, observed, ghostVars>>
    /\ UNCHANGED <<fileVars, configVars, target, child, worldVars, requested, faults>>

\* The files cannot be read or the process not inspected.
AdoptFails ==
    /\ pc \in {"adopt", "reload"} /\ Fault /\ Rollback
    /\ UNCHANGED <<procVars, fileVars, configVars, target, child, worldVars, requested,
                   ghostVars>>

\* reload verifies again.
Reload ==
    /\ pc = "reload"
    /\ \/ VerifyOwnership /\ Signal(pidFile, "reload") /\ Goto("reloadReady")
          /\ UNCHANGED <<observed, before>>
       \/ ~VerifyOwnership /\ Rollback /\ UNCHANGED <<procVars, ghostVars>>
    /\ UNCHANGED <<fileVars, configVars, target, child, worldVars, requested, faults>>

\* wait_for_readiness: an answer, or the timeout; PreserveRuntime keeps a
\* runtime whose routing is drifted or unknown.
ReloadReady ==
    /\ pc = "reloadReady"
    /\ \/ Listening /\ Goto("commit") /\ UNCHANGED <<observed, faults>>
       \/ Fault /\ VerifyOwnership /\ Goto("unverified") /\ UNCHANGED observed
       \/ Fault /\ Rollback
       \/ ~Listening /\ proc[pidFile].kind # "pv" /\ Rollback /\ UNCHANGED faults
    /\ UNCHANGED <<procVars, fileVars, configVars, target, child, worldVars, requested,
                   ghostVars>>

\* stop_process_group_by_pid: TERM was sent; the group exits or is killed.
StopRecorded(wait, kill, then) ==
    \/ /\ pc \in {wait, kill} /\ proc[pidFile].kind = "free"
       /\ Goto(then)
       /\ UNCHANGED <<procVars, observed, ghostVars, faults>>
    \/ /\ pc = wait /\ proc[pidFile].kind # "free"
       /\ Fault
       /\ Signal(pidFile, "kill") /\ Goto(kill)
       /\ UNCHANGED <<observed, before>>
    \/ /\ pc = kill /\ proc[pidFile].kind # "free"
       /\ Fault
       /\ IF then = "spawn" THEN Rollback ELSE pc' = "idle" /\ UNCHANGED observed
       /\ UNCHANGED <<procVars, ghostVars>>

Stop ==
    /\ StopRecorded("stopping", "killing", "spawn")
    /\ UNCHANGED <<fileVars, configVars, target, child, worldVars, requested>>

UnusedStart ==
    CHOOSE n \in StartIds : n # meta.start /\ \A p \in Pids : n # proc[p].start

\* ProcessSupervisor::start: the child leads a process group of its own.
Spawn ==
    /\ pc = "spawn"
    /\ starts' = UnusedStart
    /\ \E p \in Pids :
         /\ proc[p].kind = "free"
         /\ proc' = [proc EXCEPT ![p] = [Free EXCEPT !.kind = "pv", !.start = UnusedStart,
                                                     !.spec = target.spec]]
         /\ child' = p
    /\ Goto("persistPid")
    /\ UNCHANGED <<fileVars, configVars, target, observed, worldVars, requested, faults,
                   ghostVars>>

\* Mutant: the error is returned without terminating the child.
LeaveSpawnedChild == proc' = proc

\* terminate_spawned_child
TerminateSpawnedChild == proc' = [proc EXCEPT ![child] = Free]

PersistFails ==
    /\ TerminateSpawnedChild
    /\ Rollback /\ starts' = 0 /\ UNCHANGED <<pidFile, meta>>

\* persist_runtime_files: the identity of the live process, the pid file, and
\* then the metadata.
PersistPid ==
    /\ pc = "persistPid"
    /\ \/ /\ proc[child].kind = "pv"
          /\ pidFile' = child /\ meta' = meta
          /\ Goto("persistMeta") /\ UNCHANGED <<procVars, observed, faults>>
       \/ proc[child].kind # "pv" /\ PersistFails /\ UNCHANGED faults
       \/ Fault /\ PersistFails
    /\ UNCHANGED <<configVars, target, child, worldVars, requested, ghostVars>>

PersistMeta ==
    /\ pc = "persistMeta"
    /\ \/ /\ meta' = [pid |-> child, start |-> starts, spec |-> target.spec]
          /\ pidFile' = pidFile
          /\ Goto("ready") /\ starts' = 0 /\ UNCHANGED <<proc, observed, faults>>
       \/ Fault /\ PersistFails
    /\ UNCHANGED <<configVars, target, child, worldVars, requested, ghostVars>>

\* Readiness of the new process; one that is not ready is stopped, or left
\* when it cannot be.
Ready ==
    /\ pc = "ready"
    /\ \/ /\ Listening /\ proc[child].kind = "pv"
          /\ Goto("commit") /\ UNCHANGED <<procVars, observed, faults>>
       \/ /\ Listening /\ proc[child].kind # "pv"
          /\ Rollback /\ UNCHANGED <<procVars, faults>>
       \/ /\ Fault /\ proc[child].kind = "pv"
          /\ Goto("unverified") /\ UNCHANGED <<procVars, observed>>
       \/ /\ IF proc[child].kind = "pv" THEN Fault ELSE ~Listening /\ UNCHANGED faults
          /\ TerminateSpawnedChild /\ starts' = starts
          /\ Rollback
       \/ /\ Fault /\ proc[child].kind = "pv"
          /\ Rollback /\ UNCHANGED procVars
    /\ UNCHANGED <<fileVars, configVars, target, child, worldVars, requested, ghostVars>>

-----------------------------------------------------------------------------
(***************************************************************************)
(* stop_stale_worker_runtimes, for a runtime that no project needs.        *)
(***************************************************************************)
BeginStale ==
    /\ pc = "idle" /\ requested /\ ~wanted /\ meta # NoMeta
    /\ requested' = FALSE /\ before' = <<root, dir>>
    /\ \/ AdoptRecorded /\ Signal(pidFile, "term") /\ Goto("staleStopping")
       \/ ~AdoptRecorded /\ Goto("cleanupPid")
          /\ UNCHANGED <<procVars, interrupts, misdirected>>
    /\ UNCHANGED <<fileVars, configVars, target, child, observed, worldVars, faults>>

StopStale ==
    /\ StopRecorded("staleStopping", "staleKilling", "cleanupPid")
    /\ UNCHANGED <<fileVars, configVars, target, child, worldVars, requested>>

\* cleanup_stale_worker_runtime
CleanupPid ==
    /\ pc = "cleanupPid" /\ observed' = "stopped"
    /\ pidFile' = NoPid /\ Goto("cleanupMeta")
    /\ UNCHANGED <<procVars, meta, configVars, target, child, worldVars, requested, faults,
                   ghostVars>>

CleanupMeta ==
    /\ pc = "cleanupMeta" /\ meta' = NoMeta /\ Goto("cleanupConfig")
    /\ UNCHANGED <<procVars, pidFile, configVars, target, child, observed, worldVars,
                   requested, faults, ghostVars>>

CleanupConfig ==
    /\ pc = "cleanupConfig" /\ root' = Missing /\ dir' = Missing /\ pc' = "idle"
    /\ UNCHANGED <<procVars, fileVars, rootBak, dirBak, target, child, observed, worldVars,
                   requested, faults, ghostVars>>

-----------------------------------------------------------------------------
(***************************************************************************)
(* The processes, the daemon's death and the rest of the world.            *)
(***************************************************************************)
taskVars == <<configVars, fileVars, pc, target, child, observed, requested>>

\* The process reads the active config and listens, if nobody else does.
Boot(p) ==
    /\ proc[p].kind = "pv" /\ ~proc[p].up
    /\ \/ /\ root # Missing /\ ~Listening
          /\ proc' = [proc EXCEPT ![p].up = TRUE, ![p].loaded = IF dir = Missing THEN 0 ELSE dir]
       \/ /\ root = Missing \/ Listening
          /\ proc' = [proc EXCEPT ![p] = Free]
    /\ UNCHANGED <<starts, taskVars, worldVars, faults, ghostVars>>

\* SIGUSR1: the new config is loaded, or the old one stays in force.
HandleReload(p) ==
    /\ proc[p].kind = "pv" /\ proc[p].up /\ proc[p].signal = "reload"
    /\ \/ /\ root # Missing
          /\ proc' = [proc EXCEPT ![p].signal = "none",
                                  ![p].loaded = IF dir = Missing THEN 0 ELSE dir]
       \/ proc' = [proc EXCEPT ![p].signal = "none"]
    /\ UNCHANGED <<starts, taskVars, worldVars, faults, ghostVars>>

\* It exits on SIGTERM or SIGKILL, or crashes.
Exit(p) ==
    /\ proc[p].kind = "pv"
    /\ IF proc[p].signal \in {"term", "kill"} THEN UNCHANGED faults ELSE Fault
    /\ proc' = [proc EXCEPT ![p] = Free]
    /\ UNCHANGED <<starts, taskVars, worldVars, ghostVars>>

\* Another program gets a free pid, but not one of an unreaped child; one that
\* the files of PV do not name matters only if it listens.
TakePid(p) ==
    /\ proc[p].kind = "free" /\ p # child /\ Mishaps < MaxMishaps
    /\ foreign' = foreign + 1
    /\ \E listens \in BOOLEAN :
         /\ IF listens THEN ~Listening ELSE p \in {pidFile, meta.pid}
         /\ proc' = [proc EXCEPT ![p] = [Foreign EXCEPT !.up = listens]]
    /\ UNCHANGED <<starts, taskVars, version, valid, spec, wanted, faults, ghostVars>>

ForeignExits(p) ==
    /\ proc[p].kind = "foreign" /\ proc' = [proc EXCEPT ![p] = Free]
    /\ UNCHANGED <<starts, taskVars, worldVars, faults, ghostVars>>

\* The daemon dies or drops the task: what the task knows is lost.
Interrupt ==
    /\ pc # "idle" /\ Mishaps < MaxMishaps
    /\ pc' = "idle" /\ child' = NoPid /\ rootBak' = Missing /\ dirBak' = Missing
    /\ target' = NoTarget /\ starts' = 0 /\ interrupts' = interrupts + 1
    /\ UNCHANGED <<proc, fileVars, root, dir, observed, worldVars, requested,
                   faults, before, misdirected>>

\* The watcher or a command asks for a job.  A request during a job waits for its
\* end, so it is as good as one made then.
Request ==
    /\ pc = "idle" /\ ~requested /\ requested' = TRUE
    /\ UNCHANGED <<procVars, fileVars, configVars, pc, target, child, observed, worldVars,
                   faults, ghostVars>>

EditConfig(ok) ==
    /\ version < MaxVersion /\ version' = version + 1 /\ valid' = ok /\ requested' = TRUE
    /\ UNCHANGED <<procVars, fileVars, configVars, pc, target, child, observed, spec,
                   wanted, foreign, faults, ghostVars>>

Upgrade ==
    /\ spec < MaxSpec /\ spec' = spec + 1 /\ requested' = TRUE
    /\ UNCHANGED <<procVars, fileVars, configVars, pc, target, child, observed, version,
                   valid, wanted, foreign, faults, ghostVars>>

Unneed ==
    /\ wanted /\ wanted' = FALSE /\ requested' = TRUE
    /\ UNCHANGED <<procVars, fileVars, configVars, pc, target, child, observed, version,
                   valid, spec, foreign, faults, ghostVars>>

Task ==
    \/ Begin \/ ValidateConfig \/ BackupRoot \/ PlaceRoot \/ BackupDir \/ PlaceDir
    \/ DeleteDir \/ RestoreDir \/ DeleteRoot \/ RestoreRoot \/ RollbackFails \/ Commit
    \/ Adopt \/ AdoptFails \/ Reload \/ ReloadReady \/ Stop \/ Spawn \/ PersistPid \/ PersistMeta \/ Ready
    \/ BeginStale \/ StopStale \/ CleanupPid \/ CleanupMeta \/ CleanupConfig

Next ==
    \/ Task
    \/ \E p \in Pids : Boot(p) \/ HandleReload(p) \/ Exit(p) \/ TakePid(p) \/ ForeignExits(p)
    \/ Interrupt \/ Request \/ Upgrade \/ Unneed
    \/ \E ok \in BOOLEAN : EditConfig(ok)

Spec == Init /\ [][Next]_vars

\* The queue runs every step of a job; processes boot and obey signals.
FairSpec ==
    /\ Spec /\ WF_vars(Task)
    /\ \A p \in Pids : /\ WF_vars(Boot(p)) /\ WF_vars(HandleReload(p))
                       /\ WF_vars(proc[p].signal \in {"term", "kill"} /\ Exit(p))

-----------------------------------------------------------------------------
(* DESIGN.md:251, "PV never kills a process based on PID alone." *)
NeverKillsByPidAlone == misdirected = {}

(* A runtime that PV started is always found again: unless the daemon died or
   a task was dropped, every PV process is the one in the files, or is still
   held by the task. *)
NoOrphans ==
    /\ SupervisorTypeOK
    /\ interrupts = 0 =>
         \A p \in Pids : proc[p].kind = "pv" =>
           \/ p = child
           \/ meta.pid = p /\ pidFile = p /\ meta.start = proc[p].start

(* A reconciliation that fails before it commits, at any step, leaves the
   active config as it found it, unless the rollback fails too. *)
FailureRestoresConfig ==
    [][pc # "idle" /\ pc' = "idle" /\ observed' = "failed" /\ before' # <<>> /\ ~Interrupt
         => <<root', dir'>> = before]_vars

\* The runtime has the wanted binary and the project's config.
UpToDate == /\ root = version /\ dir = version
            /\ \E p \in Pids : proc[p].up /\ proc[p].spec = spec

(* Steps that failed, processes that crashed and upgrades that replaced the
   binary never leave PV stuck: whatever went wrong before, one accepted request
   after the last mishap is enough to bring the runtime to the wanted binary and
   the project's valid config, unless the daemon died or another program took
   the port. *)
RequestRepairs ==
    requested /\ wanted /\ valid /\ Mishaps = MaxMishaps /\ interrupts = 0 /\ foreign = 0
      ~> UpToDate \/ ~wanted \/ ~valid
=============================================================================
