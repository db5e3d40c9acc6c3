---------------------------- MODULE SerialQueue ----------------------------
(***************************************************************************)
(* What the daemon's mutation queue promises to the code around it, with   *)
(* job ids, tasks, rows and wakeups left out: per key at most one request  *)
(* waits, at most one runs, a run reads the desired state after it has     *)
(* begun, and the coordination lock belongs to the daemon exactly while    *)
(* something waits or runs.  ReconciliationQueue implements this           *)
(* specification, and ConfigWatch is composed with it.                     *)
(***************************************************************************)
EXTENDS Naturals

CONSTANTS Scopes, UpdateSystem, Probers, MaxChanges

ASSUME SerialAssumption == UpdateSystem \notin Scopes /\ MaxChanges \in Nat

Keys == Scopes \cup {UpdateSystem}
NoKey == "no key"

ASSUME NoKeyAssumption == NoKey \notin Keys

VARIABLES
    waiting,   \* keys with a queued request
    running,   \* key of the running request, or NoKey
    phase,     \* idle, begun, read (has read its input), done (row is final)
    seen,      \* version the running request has read
    exclusive, \* holder of the exclusive flock: nobody, daemon or cli
    shared,    \* CLI commands that hold the shared flock
    daemon,    \* down, up, stopping or dropping
    desired,   \* version of the desired state of each key
    applied    \* version the last successful run of a key applied

serialVars == <<waiting, running, phase, seen, exclusive, shared, daemon,
                desired, applied>>

SerialInit ==
    /\ waiting = {} /\ running = NoKey /\ phase = "idle" /\ seen = 0
    /\ exclusive = "nobody" /\ shared = {} /\ daemon = "up"
    /\ desired = [k \in Keys |-> 0] /\ applied = [k \in Keys |-> 0]

LockAfter(w, r) ==
    IF exclusive = "daemon" /\ w = {} /\ r = NoKey THEN "nobody" ELSE exclusive

Submit(k) ==
    /\ daemon \in {"up", "stopping"}
    /\ k \notin waiting
    /\ exclusive = "daemon" \/ (exclusive = "nobody" /\ shared = {})
    /\ waiting' = waiting \cup {k} /\ exclusive' = "daemon"
    /\ UNCHANGED <<running, phase, seen, shared, daemon, desired, applied>>

Begin(k) ==
    /\ daemon \in {"up", "stopping"}
    /\ running = NoKey /\ k \in waiting
    /\ waiting' = waiting \ {k} /\ running' = k /\ phase' = "begun"
    /\ UNCHANGED <<seen, exclusive, shared, daemon, desired, applied>>

Read ==
    /\ phase = "begun"
    /\ phase' = "read" /\ seen' = desired[running]
    /\ UNCHANGED <<waiting, running, exclusive, shared, daemon, desired, applied>>

Leave ==
    /\ running' = NoKey /\ phase' = "idle" /\ seen' = 0
    /\ exclusive' = LockAfter(waiting, NoKey)

\* The row is final; the run ends at once or after its terminal events.
Close ==
    \/ Leave
    \/ phase' = "done" /\ UNCHANGED <<running, seen, exclusive>>

Succeed ==
    /\ phase = "read"
    /\ applied' = [applied EXCEPT ![running] = seen]
    /\ Close
    /\ UNCHANGED <<waiting, shared, daemon, desired>>

Fail ==
    /\ phase = "read"
    /\ Close
    /\ UNCHANGED <<waiting, shared, daemon, desired, applied>>

End ==
    /\ phase = "done"
    /\ Leave
    /\ UNCHANGED <<waiting, shared, daemon, desired, applied>>

\* A task is dropped with the connections or the runtime.
DropWaiting(k) ==
    /\ daemon \in {"stopping", "dropping"} /\ k \in waiting
    /\ waiting' = waiting \ {k}
    /\ exclusive' = LockAfter(waiting \ {k}, running)
    /\ UNCHANGED <<running, phase, seen, shared, daemon, desired, applied>>

DropRunning ==
    /\ daemon \in {"stopping", "dropping"} /\ running # NoKey
    /\ Leave
    /\ UNCHANGED <<waiting, shared, daemon, desired, applied>>

Stop ==
    /\ \/ daemon = "up" /\ daemon' = "stopping"
       \/ daemon = "stopping" /\ daemon' = "dropping"
       \/ daemon = "dropping" /\ daemon' = "down" /\ waiting = {} /\ running = NoKey
       \/ daemon = "down" /\ daemon' = "up"
    /\ UNCHANGED <<waiting, running, phase, seen, exclusive, shared, desired, applied>>

Die ==
    /\ daemon # "down" /\ daemon' = "down"
    /\ waiting' = {} /\ running' = NoKey /\ phase' = "idle" /\ seen' = 0
    /\ exclusive' = IF exclusive = "daemon" THEN "nobody" ELSE exclusive
    /\ UNCHANGED <<shared, desired, applied>>

Edit(k) ==
    /\ desired[k] < MaxChanges
    /\ desired' = [desired EXCEPT ![k] = @ + 1]
    /\ UNCHANGED <<waiting, running, phase, seen, exclusive, shared, daemon, applied>>

UpdateLocks ==
    /\ exclusive = "nobody" /\ shared = {} /\ exclusive' = "cli"
    /\ UNCHANGED <<waiting, running, phase, seen, shared, daemon, desired, applied>>

UpdateUnlocks ==
    /\ exclusive = "cli" /\ exclusive' = "nobody"
    /\ UNCHANGED <<waiting, running, phase, seen, shared, daemon, desired, applied>>

Check(c) ==
    /\ c \notin shared /\ exclusive = "nobody" /\ shared' = shared \cup {c}
    /\ UNCHANGED <<waiting, running, phase, seen, exclusive, daemon, desired, applied>>

Uncheck(c) ==
    /\ c \in shared /\ shared' = shared \ {c}
    /\ UNCHANGED <<waiting, running, phase, seen, exclusive, daemon, desired, applied>>

SerialNext ==
    \/ \E k \in Keys : Submit(k) \/ Begin(k) \/ DropWaiting(k)
    \/ Read \/ Succeed \/ Fail \/ End \/ DropRunning \/ Stop \/ Die
    \/ \E k \in Scopes : Edit(k)
    \/ UpdateLocks \/ UpdateUnlocks
    \/ \E c \in Probers : Check(c) \/ Uncheck(c)

SerialSpec == SerialInit /\ [][SerialNext]_serialVars
=============================================================================
