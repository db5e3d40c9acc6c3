---------------------------- MODULE ConfigWatch ----------------------------
(***************************************************************************)
(* Automatic reconciliation of Project configs: the polling watcher        *)
(* (watcher.rs), the debouncer (reconciliation.rs) and the background job  *)
(* tasks that server.rs spawns, composed with SerialQueue, the             *)
(* specification that the mutation queue implements.                       *)
(*                                                                         *)
(* The scopes of the queue are the projects.  desired[p] of the queue is   *)
(* the version of p's config file, and stands for its modification time.   *)
(***************************************************************************)
EXTENDS SerialQueue

VARIABLES
    linked,    \* projects in pv.db
    watched,   \* ProjectConfigWatcher.watched_configs: mtime or Unwatched
    pending,   \* DebounceInner.pending
    worker,    \* DebounceInner.worker_running
    spawned,   \* scopes whose background task has not been polled yet
    baseline,  \* version found at the first observation of a project
    failed,    \* newest version whose failure is in the job history
    unwritten  \* newest version whose failure could not be written there

outcomes == <<failed, unwritten>>
watchVars == <<linked, watched, pending, worker, spawned, baseline, outcomes>>
allVars == <<serialVars, watchVars>>

Unwatched == MaxChanges + 1

WatchTypeOK ==
    /\ linked \subseteq Scopes
    /\ watched \in [Scopes -> 0..Unwatched]
    /\ pending \subseteq Scopes /\ worker \in BOOLEAN
    /\ spawned \subseteq Scopes
    /\ baseline \in [Scopes -> 0..MaxChanges]
    /\ failed \in [Scopes -> 0..MaxChanges]
    /\ unwritten \in [Scopes -> 0..MaxChanges]

WatchInit ==
    /\ SerialInit
    /\ linked \in SUBSET Scopes
    /\ watched = [p \in Scopes |-> Unwatched]
    /\ pending = {} /\ worker = FALSE /\ spawned = {}
    /\ baseline = [p \in Scopes |-> 0] /\ failed = [p \in Scopes |-> 0]
    /\ unwritten = [p \in Scopes |-> 0]

-----------------------------------------------------------------------------
(***************************************************************************)
(* ReconciliationDebouncer.                                                *)
(***************************************************************************)

\* Mutant: the worker is not started when the set was empty before.
RequestWithoutWorker(ps) ==
    /\ pending' = pending \cup ps
    /\ worker' = worker

\* request, for every scope of ps: one worker sleeps for all of them.
Request(ps) ==
    /\ pending' = pending \cup ps
    /\ worker' = (worker \/ ps # {})

\* flush_after_delay: the handler spawns a task per scope.
Flush ==
    /\ worker /\ daemon \in {"up", "stopping"}
    /\ worker' = FALSE /\ pending' = {}
    /\ spawned' = spawned \cup pending
    /\ UNCHANGED <<serialVars, linked, watched, baseline, outcomes>>

-----------------------------------------------------------------------------
(***************************************************************************)
(* ProjectConfigWatcher.                                                   *)
(***************************************************************************)
Changed == {p \in linked : watched[p] # Unwatched /\ watched[p] # desired[p]}

\* poll_once: the first observation of a project is its baseline, a changed
\* one is requested, an unlinked project is forgotten.
Poll ==
    /\ daemon = "up"
    /\ Request(Changed)
    /\ watched' = [p \in Scopes |-> IF p \in linked THEN desired[p] ELSE Unwatched]
    /\ baseline' = [p \in Scopes |->
                      IF p \in linked /\ watched[p] = Unwatched THEN desired[p]
                                                                ELSE baseline[p]]
    /\ UNCHANGED <<serialVars, linked, spawned, outcomes>>

\* pv.db or a config cannot be read: run returns the error, and serve with it.
PollFails ==
    /\ daemon = "up" /\ daemon' = "stopping"
    /\ UNCHANGED <<waiting, running, phase, seen, exclusive, shared, desired,
                   applied, watchVars>>

\* The TLS health tick asks for served projects whose certificate is stale.
TlsHealthTick(p) ==
    /\ daemon = "up" /\ p \in linked
    /\ Request({p})
    /\ UNCHANGED <<serialVars, linked, watched, spawned, baseline, outcomes>>

-----------------------------------------------------------------------------
(***************************************************************************)
(* The background task: run_background_reconciliation_job, and, when that  *)
(* fails, record_background_reconciliation_error.                          *)
(***************************************************************************)
NoteVersion(f, p, v) == [f EXCEPT ![p] = IF @ > v THEN @ ELSE v]

\* The failed row is written, or cannot be: server.rs discards that error, so
\* nothing tells the user then.
Report(p, v) ==
    \/ failed' = NoteVersion(failed, p, v) /\ UNCHANGED unwritten
    \/ unwritten' = NoteVersion(unwritten, p, v) /\ UNCHANGED failed

Spawned(p) ==
    /\ daemon \in {"up", "stopping"}
    /\ p \in spawned /\ spawned' = spawned \ {p}
    /\ UNCHANGED <<linked, watched, pending, worker, baseline>>

\* Mutant: a request is also coalesced with the job that runs.
EnqueueOrJoinActive(p) ==
    /\ Spawned(p)
    /\ (running # p /\ Submit(p)) \/ (p \in waiting \cup {running} /\ UNCHANGED serialVars)
    /\ UNCHANGED outcomes

\* Queued, or coalesced with the request that already waits.
EnqueueBackground(p) ==
    /\ Spawned(p)
    /\ Submit(p) \/ (p \in waiting /\ UNCHANGED serialVars)
    /\ UNCHANGED outcomes

\* CoordinationLockHeld: the request is recorded as a failed job, not retried.
RefuseBackground(p) ==
    /\ Spawned(p)
    /\ p \notin waiting
    /\ exclusive = "cli" \/ (exclusive = "nobody" /\ shared # {})
    /\ Report(p, desired[p])
    /\ UNCHANGED serialVars

\* start_job fails.
FailBackground(p) ==
    /\ Spawned(p)
    /\ p \notin waiting
    /\ exclusive = "daemon" \/ (exclusive = "nobody" /\ shared = {})
    /\ Report(p, desired[p])
    /\ UNCHANGED serialVars

\* A job whose work fails closes the version it had read; fail_job, and for a
\* background job the second report, may fail too.
JobFails ==
    /\ Fail
    /\ \/ running \in Scopes /\ Report(running, seen)
       \/ running \notin Scopes /\ UNCHANGED outcomes
    /\ UNCHANGED <<linked, watched, pending, worker, spawned, baseline>>

-----------------------------------------------------------------------------
Link(p) ==
    /\ p \notin linked /\ linked' = linked \cup {p}
    /\ UNCHANGED <<serialVars, watched, pending, worker, spawned, baseline, outcomes>>

Unlink(p) ==
    /\ p \in linked /\ linked' = linked \ {p}
    /\ UNCHANGED <<serialVars, watched, pending, worker, spawned, baseline, outcomes>>

\* The watcher and the debouncer live in the process.
Forget ==
    /\ watched' = [p \in Scopes |-> Unwatched]
    /\ pending' = {} /\ worker' = FALSE /\ spawned' = {}
    /\ UNCHANGED <<linked, baseline, outcomes>>

\* Requests of the CLI, the steps of the queue and of the other users of the
\* lock.
QueueStep ==
    \/ \E k \in Keys : Submit(k) \/ Begin(k) \/ DropWaiting(k)
    \/ Read \/ Succeed \/ End \/ DropRunning
    \/ daemon \in {"up", "down"} /\ Stop
    \/ \E p \in Scopes : Edit(p)
    \/ UpdateLocks \/ UpdateUnlocks
    \/ \E c \in Probers : Check(c) \/ Uncheck(c)

WatchNext ==
    \/ Poll \/ PollFails \/ Flush \/ JobFails
    \/ \E p \in Scopes :
          \/ TlsHealthTick(p) \/ EnqueueBackground(p) \/ RefuseBackground(p)
          \/ FailBackground(p) \/ Link(p) \/ Unlink(p)
    \/ (Die \/ (daemon \in {"stopping", "dropping"} /\ Stop)) /\ Forget
    \/ QueueStep /\ UNCHANGED watchVars

WatchSpec == WatchInit /\ [][WatchNext]_allVars

-----------------------------------------------------------------------------
(* Where an edit of p's config still is, when it has not been applied: to be
   seen by the next poll, in the debouncer with a worker to flush it, in a
   spawned task, or in a job that has yet to read or has read it. *)
InPipeline(p) ==
    \/ watched[p] # desired[p]
    \/ p \in pending /\ worker
    \/ p \in spawned
    \/ p \in waiting
    \/ running = p /\ (phase = "begun" \/ (phase = "read" /\ seen = desired[p]))

(* No edit of a watched config is forgotten while the daemon runs: until it is
   applied, or its failure is in the job history, it is somewhere on the way
   from the watcher through the debouncer and the queue to a job.  The one
   exception is an edit whose reconciliation failed and whose failure could
   not be written to pv.db either: the error of that write is discarded. *)
NoEditForgotten ==
    /\ WatchTypeOK
    /\ \A p \in linked :
         daemon = "up" /\ watched[p] # Unwatched
           => \/ applied[p] = desired[p] \/ failed[p] = desired[p]
              \/ unwritten[p] = desired[p]
              \/ baseline[p] = desired[p]
              \/ InPipeline(p)

(* Timers fire, tasks are polled, jobs end, and the queue is first come first
   served (StartsInOrder of ReconciliationQueue), hence SF on Begin. *)
WatchFairness ==
    /\ WF_allVars(Poll) /\ WF_allVars(Flush)
    /\ \A p \in Scopes :
         WF_allVars(EnqueueBackground(p) \/ RefuseBackground(p) \/ FailBackground(p))
    /\ \A k \in Keys : SF_allVars(Begin(k) /\ UNCHANGED watchVars)
    /\ WF_allVars(((Read \/ Succeed \/ End) /\ UNCHANGED watchVars) \/ JobFails)

FairWatchSpec == WatchSpec /\ WatchFairness

(* Every edit seen after the baseline is reconciled: applied, or closed with a
   failure (in the job history unless writing it failed too), unless the
   project is unlinked or the daemon stops first. *)
EditsAreReconciled ==
    \A p \in Scopes :
      p \in linked /\ daemon = "up" /\ watched[p] # Unwatched /\ watched[p] < desired[p]
        ~> \/ applied[p] = desired[p] \/ failed[p] = desired[p]
           \/ unwritten[p] = desired[p]
           \/ p \notin linked \/ daemon # "up"
=============================================================================
