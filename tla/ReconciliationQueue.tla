------------------------ MODULE ReconciliationQueue ------------------------
(***************************************************************************)
(* The daemon's mutation queue (crates/daemon/src/reconciliation.rs), the  *)
(* job tasks that wait in it and run from it (jobs.rs), the coordination   *)
(* file lock it shares with the CLI (crates/state/src/update_lock.rs) and  *)
(* the daemon's life cycle around it (lib.rs, server.rs).                  *)
(*                                                                         *)
(* The daemon runs a current-thread tokio runtime: a task's code between   *)
(* two awaits is one action.  Closures given to spawn_blocking run on      *)
(* threads of their own and outlive the task that awaits them.             *)
(*                                                                         *)
(* A job is owned by one task, whose program counter is pc[j]:             *)
(*    accepting  queued; the "job accepted" line is being written          *)
(*    ready      queued; about to look whether it is its turn              *)
(*    parked     queued; awaiting Notify                                   *)
(*    started    active; JobStarted is being written                       *)
(*    working    active; has read pv.db and the Project configs            *)
(*    blocking   active; awaiting a spawn_blocking closure                 *)
(*    returned   active; the closure has returned                          *)
(*    recorded   active; row is final, terminal events being written       *)
(*    gone       the task has ended or was dropped                         *)
(***************************************************************************)
EXTENDS Naturals, Sequences, FiniteSets

CONSTANTS Scopes,       \* reconciliation scopes: system, project:<id>, ...
          UpdateSystem, \* the queue key of the Managed Resource update job
          Probers,      \* CLI commands that test the lock before they act
          MaxJobs,      \* bound: rows the jobs table may get
          MaxChanges,   \* bound: changes of the desired state of one scope
          MaxFaults,    \* bound: failed writes to pv.db
          MaxRestarts   \* bound: daemon starts after a shutdown or a crash

ASSUME ConstantsAssumption ==
    /\ UpdateSystem \notin Scopes
    /\ MaxJobs \in Nat /\ MaxChanges \in Nat
    /\ MaxFaults \in Nat /\ MaxRestarts \in Nat

Jobs == 1..MaxJobs
None == 0                          \* "no job": job ids start at 1
Keys == Scopes \cup {UpdateSystem} \* ReconciliationQueueKey
NoKey == "no key"

ASSUME NoKeyAssumption == NoKey \notin Keys

VARIABLES
    queued,    \* QueueState.queued, job ids
    active,    \* QueueState.active, a job id or None
    pc,        \* where the task of a job is
    key,       \* the queue key of a job
    foreground,\* jobs started by an IPC request (the rest: background)
    open,      \* foreground jobs whose client stream is still open
    row,       \* status of a job's row in pv.db
    blocking,  \* jobs with a spawn_blocking closure still running
    exclusive, \* holder of the exclusive flock on the lock file
    shared,    \* CLI commands that hold the shared flock
    daemon,    \* down, up, stopping (serve has returned) or dropping
    desired,   \* version of the desired state of each key
    promised,  \* newest version a caller was told job j would reconcile
    seen,      \* version job j read
    applied,   \* version the last successful job of a key reconciled
    faults, restarts

queueVars == <<queued, active, exclusive>>
jobVars == <<pc, key, foreground, open, row, blocking, promised, seen>>
vars == <<queueVars, jobVars, shared, daemon, desired, applied, faults,
          restarts>>

WaitingPcs == {"accepting", "ready", "parked"}
RunningPcs == {"started", "working", "blocking", "returned", "recorded"}
Live(j) == pc[j] \in WaitingPcs \cup RunningPcs
Created(j) == row[j] # "none"

TypeOK ==
    /\ queued \in Seq(Jobs)
    /\ active \in Jobs \cup {None}
    /\ pc \in [Jobs -> WaitingPcs \cup RunningPcs \cup {"gone"}]
    /\ key \in [Jobs -> Keys \cup {NoKey}]
    /\ foreground \subseteq Jobs /\ open \subseteq Jobs
    /\ row \in [Jobs -> {"none", "running", "succeeded", "failed"}]
    /\ blocking \subseteq Jobs
    /\ exclusive \in {"nobody", "daemon", "cli"}
    /\ shared \subseteq Probers
    /\ daemon \in {"down", "up", "stopping", "dropping"}
    /\ desired \in [Keys -> Nat] /\ applied \in [Keys -> Nat]
    /\ promised \in [Jobs -> Nat] /\ seen \in [Jobs -> Nat]
    /\ faults \in 0..MaxFaults /\ restarts \in 0..MaxRestarts

Init ==
    /\ queued = <<>> /\ active = None
    /\ pc = [j \in Jobs |-> "gone"]
    /\ key = [j \in Jobs |-> NoKey]
    /\ foreground = {} /\ open = {}
    /\ row = [j \in Jobs |-> "none"]
    /\ blocking = {}
    /\ exclusive = "nobody" /\ shared = {}
    /\ daemon = "up"
    /\ desired = [k \in Keys |-> 0] /\ applied = [k \in Keys |-> 0]
    /\ promised = [j \in Jobs |-> 0] /\ seen = [j \in Jobs |-> 0]
    /\ faults = 0 /\ restarts = 0

-----------------------------------------------------------------------------
(***************************************************************************)
(* Helpers of reconciliation.rs and of the jobs table.                     *)
(***************************************************************************)

\* Mutant: coalescing with the active job too.
MatchActiveToo(k) ==
    {j \in Jobs : key[j] = k /\ (j = active \/ \E i \in 1..Len(queued) : queued[i] = j)}

\* matching_queued_job: only a job that still waits, never the active one.
MatchingQueuedJob(k) ==
    {j \in Jobs : key[j] = k /\ \E i \in 1..Len(queued) : queued[i] = j}

\* VecDeque::retain(|queued| queued.job_id != j)
Without(q, j) ==
    IF \E i \in 1..Len(q) : q[i] = j
      THEN LET p == CHOOSE i \in 1..Len(q) : q[i] = j
           IN  [n \in 1..(Len(q) - 1) |-> IF n < p THEN q[n] ELSE q[n + 1]]
      ELSE q

\* Mutant: nobody is woken.
NotifyNobody(p) == p

\* Notify::notify_waiters wakes every Notified future that exists.
NotifyWaiters(p) == [i \in Jobs |-> IF p[i] = "parked" THEN "ready" ELSE p[i]]

\* release_update_lock_if_idle, given the new active job and queue.
ReleaseUpdateLockIfIdle(a, q) ==
    exclusive' = IF a = None /\ q = <<>> /\ exclusive = "daemon"
                   THEN "nobody" ELSE exclusive

\* next_job_id: MAX(id) + 1.
IsNextJobId(j) == ~Created(j) /\ \A i \in Jobs : i < j => Created(i)

\* Mutant: a shared flock where an exclusive one is meant.
LockShared == shared = {}

\* UpdateLock::acquire: a non-blocking exclusive flock.
CanLockExclusively == exclusive = "nobody" /\ shared = {}

\* A write to pv.db either succeeds or, within the bound, fails.
DbWrites == faults' = faults
DbFails == faults < MaxFaults /\ faults' = faults + 1

\* A row a task writes: UPDATE jobs ... WHERE id = j, whatever its status.
WriteRow(j, status) ==
    \/ DbWrites /\ row' = [row EXCEPT ![j] = status]
    \/ DbFails /\ row' = row

-----------------------------------------------------------------------------
(***************************************************************************)
(* Enqueueing: enqueue_mutating_with_key, called by run_reconciliation_job *)
(* and run_update_job (foreground, while serve accepts connections) and by *)
(* run_background_reconciliation_job (background, as long as the runtime   *)
(* is driven).                                                             *)
(***************************************************************************)
MayEnqueue(k, fg) ==
    \/ fg /\ daemon = "up"
    \/ ~fg /\ k # UpdateSystem /\ daemon \in {"up", "stopping"}

Coalesce(k, fg) ==
    /\ MayEnqueue(k, fg)
    /\ \E j \in MatchingQueuedJob(k) :
         promised' = IF k = UpdateSystem THEN promised \* answered with an error
                     ELSE [promised EXCEPT ![j] = desired[k]]
    /\ UNCHANGED <<queueVars, pc, key, foreground, open, row, blocking, seen,
                   shared, daemon, desired, applied, faults, restarts>>

Enqueue(k, fg) ==
    /\ MayEnqueue(k, fg)
    /\ MatchingQueuedJob(k) = {}
    /\ exclusive = "daemon" \/ CanLockExclusively
    /\ \E j \in Jobs :
         /\ IsNextJobId(j)
         /\ row' = [row EXCEPT ![j] = "running"]
         /\ key' = [key EXCEPT ![j] = k]
         /\ foreground' = IF fg THEN foreground \cup {j} ELSE foreground
         /\ open' = IF fg THEN open \cup {j} ELSE open
         /\ promised' = [promised EXCEPT ![j] = desired[k]]
         /\ queued' = Append(queued, j)
         /\ exclusive' = "daemon"
         /\ pc' = NotifyWaiters([pc EXCEPT ![j] = IF fg THEN "accepting" ELSE "ready"])
    /\ UNCHANGED <<active, blocking, seen, shared, daemon, desired, applied,
                   faults, restarts>>

\* create_job_id fails: a lock taken for this job is given back.
EnqueueFails(k, fg) ==
    /\ MayEnqueue(k, fg)
    /\ MatchingQueuedJob(k) = {}
    /\ exclusive = "daemon" \/ CanLockExclusively
    /\ DbFails
    /\ exclusive' = IF exclusive = "daemon" THEN "daemon"
                    ELSE IF active = None /\ queued = <<>> THEN "nobody"
                    ELSE "daemon"
    /\ UNCHANGED <<queued, active, jobVars, shared, daemon, desired, applied,
                   restarts>>

-----------------------------------------------------------------------------
(***************************************************************************)
(* The task of a job.  Polled(j): the runtime may poll it.  serve aborts   *)
(* the connection tasks when it returns; an aborted task is only dropped.  *)
(***************************************************************************)
Polled(j) ==
    \/ daemon = "up"
    \/ daemon = "stopping" /\ j \notin foreground

\* Mutant: `?` on the accepted line, which drops the queued job.
WriteAcceptedOrDrop(j) ==
    /\ Polled(j) /\ pc[j] = "accepting"
    /\ \/ /\ pc' = [pc EXCEPT ![j] = "ready"]
          /\ UNCHANGED <<queueVars, open, row>>
       \/ /\ queued' = Without(queued, j) /\ active' = active
          /\ ReleaseUpdateLockIfIdle(active, Without(queued, j))
          /\ pc' = NotifyWaiters([pc EXCEPT ![j] = "gone"])
          /\ open' = open \ {j} /\ row' = [row EXCEPT ![j] = "failed"]
    /\ UNCHANGED <<key, foreground, blocking, promised, seen, shared, daemon,
                   desired, applied, faults, restarts>>

\* The accepted line is written, or the client has gone: either way the job
\* goes on to wait for its turn.
WriteAccepted(j) ==
    /\ Polled(j) /\ pc[j] = "accepting"
    /\ pc' = [pc EXCEPT ![j] = "ready"]
    /\ \/ open' = open
       \/ open' = open \ {j}
    /\ UNCHANGED <<queueVars, key, foreground, row, blocking, promised, seen,
                   shared, daemon, desired, applied, faults, restarts>>

\* Mutant: the active job is not looked at.
IsTurnAnyway(j) == queued # <<>> /\ Head(queued) = j

IsTurn(j) == active = None /\ queued # <<>> /\ Head(queued) = j

\* One pass of wait_for_turn's loop: Notified is created before the check.
WaitForTurn(j) ==
    /\ Polled(j) /\ pc[j] = "ready"
    /\ \/ /\ IsTurn(j)
          /\ queued' = Tail(queued) /\ active' = j
          /\ pc' = [pc EXCEPT ![j] = "started"]
       \/ /\ ~IsTurn(j)
          /\ pc' = [pc EXCEPT ![j] = "parked"]
          /\ UNCHANGED <<queued, active>>
    /\ UNCHANGED <<exclusive, key, foreground, open, row, blocking, promised,
                   seen, shared, daemon, desired, applied, faults, restarts>>

\* JobStarted and Log are written or fail; then the reconciliation reads the
\* desired state of its scope.
BeginWork(j) ==
    /\ Polled(j) /\ pc[j] = "started"
    /\ pc' = [pc EXCEPT ![j] = "working"]
    /\ seen' = [seen EXCEPT ![j] = desired[key[j]]]
    /\ \/ open' = open
       \/ j \in open /\ open' = open \ {j}
    /\ UNCHANGED <<queueVars, key, foreground, row, blocking, promised, shared,
                   daemon, desired, applied, faults, restarts>>

SpawnBlocking(j) ==
    /\ Polled(j) /\ pc[j] = "working"
    /\ pc' = [pc EXCEPT ![j] = "blocking"]
    /\ blocking' = blocking \cup {j}
    /\ UNCHANGED <<queueVars, key, foreground, open, row, promised, seen,
                   shared, daemon, desired, applied, faults, restarts>>

\* The closure returns; its task, if it still exists, goes on.
BlockingReturns(j) ==
    /\ j \in blocking
    /\ blocking' = blocking \ {j}
    /\ pc' = IF pc[j] = "blocking" THEN [pc EXCEPT ![j] = "returned"] ELSE pc
    /\ UNCHANGED <<queueVars, key, foreground, open, row, promised, seen,
                   shared, daemon, desired, applied, faults, restarts>>

\* A heartbeat or progress line cannot be written: the stream is given up,
\* the completion is still awaited.
ClientLost(j) ==
    /\ Polled(j) /\ j \in open
    /\ pc[j] \in {"working", "blocking", "returned"}
    /\ open' = open \ {j}
    /\ UNCHANGED <<queueVars, pc, key, foreground, row, blocking, promised,
                   seen, shared, daemon, desired, applied, faults, restarts>>

\* RunningReconciliation::finish, and the part of its Drop they share:
\* release_active_job.
ReleaseActiveJob(j) ==
    /\ active' = None /\ queued' = queued
    /\ ReleaseUpdateLockIfIdle(None, queued)
    /\ pc' = NotifyWaiters([pc EXCEPT ![j] = "gone"])

\* After the row is written a foreground task with an open stream still
\* writes its terminal events; every other task finishes without an await.
AfterRecord(j) ==
    IF j \in open
      THEN /\ pc' = [pc EXCEPT ![j] = "recorded"]
           /\ UNCHANGED <<queued, active, exclusive>>
      ELSE ReleaseActiveJob(j)

\* complete_job_with_coverage
RecordSuccess(j) ==
    /\ Polled(j) /\ pc[j] \in {"working", "returned"}
    /\ row' = [row EXCEPT ![j] = "succeeded"]
    /\ applied' = [applied EXCEPT ![key[j]] = seen[j]]
    /\ AfterRecord(j)
    /\ UNCHANGED <<key, foreground, open, blocking, promised, seen, shared,
                   daemon, desired, faults, restarts>>

\* The work, or writing its success, fails: fail_job, which may fail too and
\* then leaves the row running.
RecordFailure(j) ==
    /\ Polled(j) /\ pc[j] \in {"working", "returned"}
    /\ WriteRow(j, "failed")
    /\ AfterRecord(j)
    /\ UNCHANGED <<key, foreground, open, blocking, promised, seen, shared,
                   daemon, desired, applied, restarts>>

\* The terminal events are written, fail or time out; the task finishes.
WriteTerminalEvents(j) ==
    /\ Polled(j) /\ pc[j] = "recorded"
    /\ ReleaseActiveJob(j)
    /\ open' = open \ {j}
    /\ UNCHANGED <<key, foreground, row, blocking, promised, seen, shared,
                   daemon, desired, applied, faults, restarts>>

\* Drop of QueuedReconciliation / RunningReconciliation in a task that is
\* dropped before it finished: leave the queue, wake the others, and
\* abandon_job fails the row without looking at its status.
Abandon(j) ==
    IF pc[j] \in WaitingPcs
      THEN /\ queued' = Without(queued, j) /\ active' = active
           /\ ReleaseUpdateLockIfIdle(active, Without(queued, j))
           /\ pc' = NotifyWaiters([pc EXCEPT ![j] = "gone"])
      ELSE ReleaseActiveJob(j)

DropTask(j) ==
    /\ Live(j)
    /\ \/ daemon = "stopping" /\ j \in foreground
       \/ daemon = "dropping"
    /\ Abandon(j)
    /\ WriteRow(j, "failed")
    /\ open' = open \ {j}
    /\ UNCHANGED <<key, foreground, blocking, promised, seen, shared, daemon,
                   desired, applied, restarts>>

-----------------------------------------------------------------------------
(***************************************************************************)
(* The daemon's life cycle.                                                *)
(***************************************************************************)

\* A termination signal (or an error of the watcher or the resolver) makes
\* serve return; it aborts the connection tasks.
Shutdown ==
    /\ daemon = "up"
    /\ daemon' = "stopping"
    /\ UNCHANGED <<queueVars, jobVars, shared, desired, applied, faults,
                   restarts>>

\* block_on returns and the runtime is dropped: no task is polled again.
DropRuntime ==
    /\ daemon = "stopping"
    /\ daemon' = "dropping"
    /\ UNCHANGED <<queueVars, jobVars, shared, desired, applied, faults,
                   restarts>>

\* Dropping the runtime drops every task and waits for blocking closures.
Exit ==
    /\ daemon = "dropping"
    /\ \A j \in Jobs : ~Live(j)
    /\ blocking = {}
    /\ daemon' = "down"
    /\ UNCHANGED <<queueVars, jobVars, shared, desired, applied, faults,
                   restarts>>

\* The process dies: the kernel drops its flock, pv.db stays as it was.
Crash ==
    /\ daemon # "down" /\ restarts < MaxRestarts
    /\ daemon' = "down"
    /\ queued' = <<>> /\ active' = None
    /\ exclusive' = IF exclusive = "daemon" THEN "nobody" ELSE exclusive
    /\ pc' = [j \in Jobs |-> "gone"]
    /\ open' = {} /\ blocking' = {}
    /\ UNCHANGED <<key, foreground, row, promised, seen, shared, desired,
                   applied, faults, restarts>>

\* Mutant: rows left alone.
KeepRunningJobs(r) == r

\* start_with_runtime_catalog_inner: fail_running_jobs, then serve.  It
\* queues no job.
FailRunningJobs(r) == [j \in Jobs |-> IF r[j] = "running" THEN "failed" ELSE r[j]]

Start ==
    /\ daemon = "down" /\ restarts < MaxRestarts
    /\ daemon' = "up" /\ restarts' = restarts + 1
    /\ row' = FailRunningJobs(row)
    /\ UNCHANGED <<queueVars, pc, key, foreground, open, blocking, promised,
                   seen, shared, desired, applied, faults>>

-----------------------------------------------------------------------------
(***************************************************************************)
(* The environment: the user edits configs and the CLI uses the lock.      *)
(***************************************************************************)
Change(k) ==
    /\ desired[k] < MaxChanges
    /\ desired' = [desired EXCEPT ![k] = @ + 1]
    /\ UNCHANGED <<queueVars, jobVars, shared, daemon, applied, faults,
                   restarts>>

\* pv update holds the exclusive flock over the whole app update phase.
UpdateAcquire ==
    /\ CanLockExclusively
    /\ exclusive' = "cli"
    /\ UNCHANGED <<queued, active, jobVars, shared, daemon, desired, applied,
                   faults, restarts>>

UpdateRelease ==
    /\ exclusive = "cli"
    /\ exclusive' = "nobody"
    /\ UNCHANGED <<queued, active, jobVars, shared, daemon, desired, applied,
                   faults, restarts>>

\* require_no_update_in_progress: a shared flock, given back at once.
Probe(c) ==
    /\ c \notin shared /\ exclusive = "nobody"
    /\ shared' = shared \cup {c}
    /\ UNCHANGED <<queueVars, jobVars, daemon, desired, applied, faults,
                   restarts>>

Unprobe(c) ==
    /\ c \in shared
    /\ shared' = shared \ {c}
    /\ UNCHANGED <<queueVars, jobVars, daemon, desired, applied, faults,
                   restarts>>

-----------------------------------------------------------------------------
TaskStep(j) ==
    \/ WriteAccepted(j) \/ WaitForTurn(j) \/ BeginWork(j) \/ SpawnBlocking(j)
    \/ BlockingReturns(j) \/ ClientLost(j) \/ RecordSuccess(j)
    \/ RecordFailure(j) \/ WriteTerminalEvents(j) \/ DropTask(j)

Next ==
    \/ \E k \in Keys, fg \in BOOLEAN :
          Coalesce(k, fg) \/ Enqueue(k, fg) \/ EnqueueFails(k, fg)
    \/ \E j \in Jobs : TaskStep(j)
    \/ Shutdown \/ DropRuntime \/ Exit \/ Crash \/ Start
    \/ \E k \in Scopes : Change(k)
    \/ UpdateAcquire \/ UpdateRelease
    \/ \E c \in Probers : Probe(c) \/ Unprobe(c)

Spec == Init /\ [][Next]_vars
-----------------------------------------------------------------------------
(***************************************************************************)
(* Safety.                                                                 *)
(***************************************************************************)
InQueue(j) == \E i \in 1..Len(queued) : queued[i] = j

(* The queue holds the coordination lock exactly while work is queued or
   running: acquired by enqueue_mutating_with_key, given back by
   release_update_lock_if_idle on every way out of the queue. *)
LockCoversWork ==
    exclusive = "daemon" <=> active # None \/ queued # <<>>

(* Reconciliation jobs run one at a time: a task past wait_for_turn is the
   active job, and a task before it is in the queue, through any order of
   enqueues, finishes, aborts and restarts. *)
OneAtATime ==
    \A j \in Jobs :
      /\ pc[j] \in RunningPcs <=> (j = active /\ active # None)
      /\ pc[j] \in WaitingPcs <=> InQueue(j)

(* wait_for_turn loses no wakeup: when no job is active, the job at the head
   of the queue is not asleep in notified.await. *)
NoLostWakeup ==
    active = None /\ queued # <<>> => pc[Head(queued)] # "parked"

(* Jobs start in the order of their ids: the queue is sorted, and the active
   job came before everything in it.  push_back, pop_front and retain keep
   what create_job_id, called under the queue mutex, set up. *)
StartsInOrder ==
    /\ \A m, n \in 1..Len(queued) : m < n => queued[m] < queued[n]
    /\ active # None => \A n \in 1..Len(queued) : active < queued[n]

(* The daemon's queue is well formed: jobs run one at a time, in order, with
   the lock held for as long as there is work and nobody left asleep. *)
QueueSafe == TypeOK /\ OneAtATime /\ StartsInOrder /\ LockCoversWork /\ NoLostWakeup

(* A caller who is told that its request joined job j gets what it asked for:
   if j succeeds, j has read the desired state the caller saw.  This is why
   matching_queued_job skips the active job.  And there is one waiting job per
   key to join. *)
CoalescedRequestServed ==
    /\ \A j \in Jobs : row[j] = "succeeded" => seen[j] >= promised[j]
    /\ \A m, n \in 1..Len(queued) : key[queued[m]] = key[queued[n]] => m = n

(* While pv update holds the coordination lock no job of a running daemon has
   work in flight, on the runtime or on a blocking thread. *)
UpdateExcludesWork ==
    exclusive = "cli" /\ daemon = "up" => active = None /\ blocking = {}

(* Rows of pv.db and tasks agree.  A row says "running" only while a task owns
   the job, unless a write to pv.db failed: abandoned, failed and interrupted
   jobs all get their row closed before the daemon serves again.  And a task
   that has not recorded its result finds its row still running. *)
RowsMatchTasks ==
    /\ faults = 0 /\ daemon # "down" =>
          \A j \in Jobs : row[j] = "running" => Live(j)
    /\ \A j \in Jobs : Live(j) /\ pc[j] # "recorded" => row[j] = "running"

-----------------------------------------------------------------------------
(***************************************************************************)
(* Liveness.  A task that can be polled is polled, a job's work and every  *)
(* blocking closure end, dropped tasks are dropped; nothing is assumed of  *)
(* clients, of the CLI or of shutdowns.                                    *)
(***************************************************************************)
Progress(j) ==
    \/ WriteAccepted(j) \/ WaitForTurn(j) \/ BeginWork(j) \/ BlockingReturns(j)
    \/ RecordSuccess(j) \/ RecordFailure(j) \/ WriteTerminalEvents(j)
    \/ DropTask(j)

Fairness ==
    /\ \A j \in Jobs : WF_vars(Progress(j))
    /\ WF_vars(DropRuntime) /\ WF_vars(Exit)

FairSpec == Spec /\ Fairness

(* A queued job leaves the queue only by being started or with the daemon:
   losing its client never removes a job that another caller may have
   joined. *)
WaitsUntilStarted ==
    [][\A j \in Jobs : InQueue(j) /\ daemon = "up" /\ daemon' = "up"
          => InQueue(j)' \/ active' = j]_vars

(* Every job the daemon accepts is served: it waits until it is started, and
   its task finishes or is dropped, even with aborts of jobs before it and
   shutdowns. *)
AcceptedJobsEnd ==
    /\ WaitsUntilStarted
    /\ \A j \in Jobs : Live(j) ~> ~Live(j)
=============================================================================
