------------------- MODULE ReconciliationQueueRefinement -------------------
(***************************************************************************)
(* ReconciliationQueue implements SerialQueue: forget job ids, tasks, rows *)
(* and wakeups, and look at the keys of the queued and the active jobs.    *)
(***************************************************************************)
EXTENDS ReconciliationQueue

WaitingKeys == {key[queued[i]] : i \in 1..Len(queued)}
RunningKey == IF active = None THEN NoKey ELSE key[active]
RunningPhase ==
    IF active = None THEN "idle"
    ELSE IF pc[active] = "started" THEN "begun"
    ELSE IF pc[active] = "recorded" THEN "done"
    ELSE "read"
RunningSeen ==
    IF active = None \/ pc[active] = "started" THEN 0 ELSE seen[active]

Abstract == INSTANCE SerialQueue
              WITH waiting <- WaitingKeys, running <- RunningKey,
                   phase <- RunningPhase, seen <- RunningSeen

(* Every behaviour of the queue, its tasks and the daemon's life cycle is one
   the abstract queue allows. *)
ImplementsSerialQueue == Abstract!SerialSpec
=============================================================================
