--------------------- MODULE ReconciliationQueueProofs ---------------------
(***************************************************************************)
(* Proofs about ReconciliationQueue for every set of scopes, every number  *)
(* of jobs and every bound: first the shape of the queue, then what it     *)
(* gives its callers on top of it (joined requests are served, an update   *)
(* and a running job exclude each other, rows and tasks agree), and that   *)
(* ReconciliationQueue implements SerialQueue.                             *)
(***************************************************************************)
EXTENDS ReconciliationQueueRefinement, TLAPS

(* Rows are created in the order of their ids, and a task that lives has a
   row and a key. *)
RowsInOrder ==
    /\ \A i, j \in Jobs : i < j /\ Created(j) => Created(i)
    /\ \A j \in Jobs : Live(j) => Created(j) /\ key[j] \in Keys

QueueInv ==
    /\ TypeOK
    /\ LockCoversWork
    /\ OneAtATime
    /\ StartsInOrder
    /\ NoLostWakeup
    /\ RowsInOrder

-----------------------------------------------------------------------------
(* retain takes out the one entry with the job's id and keeps the rest in
   order. *)
LEMMA WithoutIsRemoval ==
    ASSUME NEW q \in Seq(Jobs), NEW j \in Jobs,
           \A m, n \in 1..Len(q) : m < n => q[m] < q[n],
           NEW p \in 1..Len(q), q[p] = j
    PROVE  /\ Without(q, j) = [n \in 1..(Len(q) - 1) |-> IF n < p THEN q[n] ELSE q[n + 1]]
           /\ Without(q, j) \in Seq(Jobs)
           /\ Len(Without(q, j)) = Len(q) - 1
<1> DEFINE c == CHOOSE i \in 1..Len(q) : q[i] = j
<1>1. c \in 1..Len(q) /\ q[c] = j
  OBVIOUS
<1>2. \A n \in 1..Len(q) : q[n] \in Nat
  BY ConstantsAssumption DEF Jobs
<1>3. c = p
  BY <1>1, <1>2
<1>4. Without(q, j) = [n \in 1..(Len(q) - 1) |-> IF n < p THEN q[n] ELSE q[n + 1]]
  BY <1>3 DEF Without
<1>5. Len(q) - 1 \in Nat
  OBVIOUS
<1>6. \A n \in 1..(Len(q) - 1) : (IF n < p THEN q[n] ELSE q[n + 1]) \in Jobs
  OBVIOUS
<1> HIDE DEF c
<1>7. [n \in 1..(Len(q) - 1) |-> IF n < p THEN q[n] ELSE q[n + 1]] \in Seq(Jobs)
  BY <1>5, <1>6
<1>8. Len([n \in 1..(Len(q) - 1) |-> IF n < p THEN q[n] ELSE q[n + 1]]) = Len(q) - 1
  BY <1>5, <1>7
<1> QED
  BY <1>4, <1>7, <1>8

Pcs == WaitingPcs \cup RunningPcs \cup {"gone"}

(* notify_waiters wakes tasks and moves none into or out of the queue. *)
LEMMA NotifyKeepsClass ==
    ASSUME NEW p \in [Jobs -> Pcs]
    PROVE  /\ NotifyWaiters(p) \in [Jobs -> Pcs]
           /\ \A i \in Jobs : /\ NotifyWaiters(p)[i] # "parked"
                              /\ NotifyWaiters(p)[i] \in WaitingPcs <=> p[i] \in WaitingPcs
                              /\ NotifyWaiters(p)[i] \in RunningPcs <=> p[i] \in RunningPcs
BY DEF NotifyWaiters, Pcs, WaitingPcs, RunningPcs

LEMMA QueueInvInit == Init => QueueInv
<1> SUFFICES ASSUME Init PROVE QueueInv
  OBVIOUS
<1>1. TypeOK
  BY ConstantsAssumption DEF Init, TypeOK
<1>2. LockCoversWork /\ StartsInOrder /\ NoLostWakeup
  BY DEF Init, LockCoversWork, StartsInOrder, NoLostWakeup
<1>3. OneAtATime
  BY DEF Init, OneAtATime, InQueue, WaitingPcs, RunningPcs
<1>4. RowsInOrder
  BY DEF Init, RowsInOrder, Created, Live, WaitingPcs, RunningPcs
<1> QED
  BY <1>1, <1>2, <1>3, <1>4 DEF QueueInv

(* What the queue invariant says of the queue itself. *)
LEMMA QueueFacts ==
    ASSUME QueueInv
    PROVE  /\ \A j \in Jobs : j \in Nat /\ j # None
           /\ \A n \in 1..Len(queued) : queued[n] \in Jobs
           /\ Len(queued) \in Nat
           /\ pc \in [Jobs -> Pcs]
BY ConstantsAssumption DEF QueueInv, TypeOK, Jobs, None, Pcs

(* release_active_job: the active job leaves, the lock is released when the
   queue is empty, and everyone is woken. *)
LEMMA ReleaseActiveKeeps ==
    ASSUME QueueInv, NEW j \in Jobs, pc[j] \in RunningPcs, ReleaseActiveJob(j),
           key' = key, row' \in [Jobs -> {"running", "succeeded", "failed", "none"}],
           \A i \in Jobs : row'[i] = "none" <=> row[i] = "none"
    PROVE  /\ active' \in Jobs \cup {None} /\ queued' \in Seq(Jobs)
           /\ pc' \in [Jobs -> Pcs]
           /\ exclusive' \in {"nobody", "daemon", "cli"}
           /\ LockCoversWork' /\ OneAtATime' /\ StartsInOrder'
           /\ NoLostWakeup' /\ RowsInOrder'
<1> DEFINE p == [pc EXCEPT ![j] = "gone"]
<1>1. p \in [Jobs -> Pcs] /\ pc' = NotifyWaiters(p)
  BY QueueFacts DEF Pcs, ReleaseActiveJob
<1>2. active = j /\ j # None /\ active' = None /\ queued' = queued
  BY QueueFacts DEF QueueInv, OneAtATime, ReleaseActiveJob
<1>3. /\ pc' \in [Jobs -> Pcs]
      /\ \A i \in Jobs : /\ pc'[i] # "parked"
                         /\ pc'[i] \in WaitingPcs <=> p[i] \in WaitingPcs
                         /\ pc'[i] \in RunningPcs <=> p[i] \in RunningPcs
  BY <1>1, NotifyKeepsClass
<1>4. \A i \in Jobs : /\ pc'[i] \in WaitingPcs <=> pc[i] \in WaitingPcs
                      /\ pc'[i] \in RunningPcs => pc[i] \in RunningPcs /\ i # j
  BY <1>1, <1>3, QueueFacts DEF WaitingPcs, RunningPcs
<1>5. LockCoversWork' /\ exclusive' \in {"nobody", "daemon", "cli"}
  BY <1>2 DEF QueueInv, LockCoversWork, ReleaseActiveJob, ReleaseUpdateLockIfIdle, TypeOK
<1>6. OneAtATime'
  BY <1>2, <1>4, QueueFacts DEF QueueInv, OneAtATime, InQueue
<1>7. StartsInOrder'
  BY <1>2 DEF QueueInv, StartsInOrder
<1>8. NoLostWakeup'
  BY <1>2, <1>3, QueueFacts DEF NoLostWakeup
<1>9. RowsInOrder'
  BY <1>4 DEF QueueInv, RowsInOrder, Created, Live
<1> QED
  BY <1>2, <1>3, <1>5, <1>6, <1>7, <1>8, <1>9 DEF QueueInv, TypeOK

(* A step that leaves the queue, the lock and the keys alone, wakes or parks
   tasks only where that is harmless, and creates no row. *)
LEMMA QuietStepKeeps ==
    ASSUME QueueInv, UNCHANGED <<queued, active, exclusive, key>>,
           pc' \in [Jobs -> Pcs],
           \A i \in Jobs : /\ pc'[i] \in WaitingPcs <=> pc[i] \in WaitingPcs
                           /\ pc'[i] \in RunningPcs <=> pc[i] \in RunningPcs
                           /\ pc'[i] = "parked" => pc[i] = "parked" \/ ~IsTurn(i)
                           /\ row'[i] = "none" <=> row[i] = "none"
    PROVE  /\ LockCoversWork' /\ OneAtATime' /\ StartsInOrder'
           /\ NoLostWakeup' /\ RowsInOrder'
<1>1. LockCoversWork' /\ StartsInOrder'
  BY DEF QueueInv, LockCoversWork, StartsInOrder
<1>2. OneAtATime'
  BY DEF QueueInv, OneAtATime, InQueue
<1>3. NoLostWakeup'
  BY QueueFacts DEF QueueInv, NoLostWakeup, IsTurn
<1>4. RowsInOrder'
  BY DEF QueueInv, RowsInOrder, Created, Live
<1> QED
  BY <1>1, <1>2, <1>3, <1>4

(* A new job goes to the back of the queue: its id is larger than every id
   in use. *)
LEMMA EnqueueKeeps ==
    ASSUME QueueInv, NEW k \in Keys, NEW fg \in BOOLEAN, Enqueue(k, fg)
    PROVE  QueueInv'
<1>1. PICK j \in Jobs :
         /\ IsNextJobId(j)
         /\ row' = [row EXCEPT ![j] = "running"]
         /\ key' = [key EXCEPT ![j] = k]
         /\ foreground' = IF fg THEN foreground \cup {j} ELSE foreground
         /\ open' = IF fg THEN open \cup {j} ELSE open
         /\ promised' = [promised EXCEPT ![j] = desired[k]]
         /\ queued' = Append(queued, j)
         /\ exclusive' = "daemon"
         /\ pc' = NotifyWaiters([pc EXCEPT ![j] = IF fg THEN "accepting" ELSE "ready"])
  BY DEF Enqueue
<1> DEFINE p == [pc EXCEPT ![j] = IF fg THEN "accepting" ELSE "ready"]
<1>2. UNCHANGED <<active, blocking, seen, shared, daemon, desired, applied,
                  faults, restarts>>
  BY DEF Enqueue
<1>3. p \in [Jobs -> Pcs]
  BY QueueFacts DEF Pcs, WaitingPcs
<1>4. /\ pc' \in [Jobs -> Pcs]
      /\ \A i \in Jobs : /\ pc'[i] # "parked"
                         /\ pc'[i] \in WaitingPcs <=> p[i] \in WaitingPcs
                         /\ pc'[i] \in RunningPcs <=> p[i] \in RunningPcs
  BY <1>1, <1>3, NotifyKeepsClass
<1>5. ~Live(j)
  BY <1>1 DEF QueueInv, RowsInOrder, IsNextJobId
<1>6. /\ pc'[j] \in WaitingPcs /\ pc'[j] \notin RunningPcs
      /\ \A i \in Jobs \ {j} : /\ pc'[i] \in WaitingPcs <=> pc[i] \in WaitingPcs
                               /\ pc'[i] \in RunningPcs <=> pc[i] \in RunningPcs
  BY <1>3, <1>4, QueueFacts DEF WaitingPcs, RunningPcs
<1>7. TypeOK'
  <2>1. TypeOK
    BY DEF QueueInv
  <2>2. foreground' \subseteq Jobs /\ open' \subseteq Jobs
    BY <1>1, <2>1 DEF TypeOK
  <2>3. desired[k] \in Nat
    BY <2>1 DEF TypeOK
  <2>4. queued' \in Seq(Jobs) /\ exclusive' \in {"nobody", "daemon", "cli"}
    BY <1>1, <2>1 DEF TypeOK
  <2>5. /\ row' \in [Jobs -> {"none", "running", "succeeded", "failed"}]
        /\ key' \in [Jobs -> Keys \cup {NoKey}]
        /\ promised' \in [Jobs -> Nat]
    BY <1>1, <2>1, <2>3 DEF TypeOK
  <2> QED
    BY <1>2, <1>4, <2>1, <2>2, <2>4, <2>5 DEF TypeOK, Pcs
<1>8. /\ Len(queued') = Len(queued) + 1 /\ queued'[Len(queued) + 1] = j
      /\ \A n \in 1..Len(queued) : queued'[n] = queued[n]
      /\ queued' # <<>>
  <2>1. queued' = Append(queued, j) /\ queued \in Seq(Jobs)
    BY <1>1 DEF QueueInv, TypeOK
  <2> QED
    BY <2>1
<1>9. LockCoversWork'
  BY <1>1, <1>8 DEF LockCoversWork
<1>10. active # j /\ active' = active
  BY <1>2, <1>5, QueueFacts DEF QueueInv, OneAtATime, Live
<1>11. \A i \in Jobs : InQueue(i)' <=> i = j \/ InQueue(i)
  BY <1>8, QueueFacts DEF InQueue
<1>12. OneAtATime'
  BY <1>5, <1>6, <1>10, <1>11 DEF QueueInv, OneAtATime, Live
<1>13. \A i \in Jobs : Live(i) => i < j
  BY <1>1, QueueFacts DEF QueueInv, RowsInOrder, IsNextJobId, Created
<1>14. /\ \A n \in 1..Len(queued) : queued[n] < j
       /\ active # None => active < j
  BY <1>13, QueueFacts DEF QueueInv, OneAtATime, InQueue, Live, TypeOK
<1>15. StartsInOrder'
  BY <1>8, <1>10, <1>14, QueueFacts DEF QueueInv, StartsInOrder
<1>16. NoLostWakeup'
  <2>1. Head(queued') \in Jobs
    BY <1>1, <1>8, QueueFacts DEF QueueInv, TypeOK
  <2> QED
    BY <2>1, <1>4 DEF NoLostWakeup
<1>17. RowsInOrder'
  <2>1. \A i \in Jobs : Created(i)' <=> i = j \/ Created(i)
    BY <1>1 DEF QueueInv, TypeOK, Created
  <2>2. \A i \in Jobs : Live(i)' <=> i = j \/ Live(i)
    BY <1>5, <1>6 DEF Live
  <2>3. \A i \in Jobs : i # j => key'[i] = key[i]
    BY <1>1 DEF QueueInv, TypeOK
  <2>4. key'[j] = k
    BY <1>1 DEF QueueInv, TypeOK
  <2> QED
    BY <1>1, <2>1, <2>2, <2>3, <2>4, QueueFacts DEF QueueInv, RowsInOrder, IsNextJobId
<1> QED
  BY <1>7, <1>9, <1>12, <1>15, <1>16, <1>17 DEF QueueInv

(* The head of the queue becomes the active job. *)
LEMMA StartKeeps ==
    ASSUME QueueInv, NEW j \in Jobs, pc[j] = "ready", IsTurn(j),
           queued' = Tail(queued), active' = j,
           pc' = [pc EXCEPT ![j] = "started"],
           UNCHANGED <<exclusive, key, row>>
    PROVE  /\ queued' \in Seq(Jobs)
           /\ LockCoversWork' /\ OneAtATime' /\ StartsInOrder'
           /\ NoLostWakeup' /\ RowsInOrder'
<1>1. /\ queued \in Seq(Jobs) /\ queued # <<>> /\ queued[1] = j
      /\ active = None /\ j # None
  BY QueueFacts DEF QueueInv, TypeOK, IsTurn
<1>2. /\ queued' \in Seq(Jobs) /\ Len(queued') = Len(queued) - 1
      /\ \A n \in 1..Len(queued') : queued'[n] = queued[n + 1]
      /\ Len(queued) \in Nat \ {0}
  BY <1>1
<1>3. LockCoversWork'
  BY <1>1 DEF QueueInv, LockCoversWork
<1>4. \A m, n \in 1..Len(queued) : m < n => queued[m] < queued[n]
  BY DEF QueueInv, StartsInOrder
<1>5. StartsInOrder'
  BY <1>1, <1>2, <1>4 DEF StartsInOrder
<1>6. \A n \in 1..Len(queued) : queued[n] \in Nat
  BY QueueFacts
<1>7. \A i \in Jobs : InQueue(i)' <=> InQueue(i) /\ i # j
  <2>1. ASSUME NEW i \in Jobs, InQueue(i)' PROVE InQueue(i) /\ i # j
    <3>1. PICK n \in 1..Len(queued') : queued'[n] = i
      BY <2>1 DEF InQueue
    <3>2. n + 1 \in 1..Len(queued) /\ queued[n + 1] = i /\ 1 < n + 1 /\ 1 \in 1..Len(queued)
      BY <1>2, <3>1
    <3> QED
      BY <1>1, <1>4, <1>6, <3>2 DEF InQueue
  <2>2. ASSUME NEW i \in Jobs, InQueue(i), i # j PROVE InQueue(i)'
    <3>1. PICK n \in 1..Len(queued) : queued[n] = i
      BY <2>2 DEF InQueue
    <3>2. n - 1 \in 1..Len(queued') /\ queued'[n - 1] = i
      BY <1>1, <1>2, <2>2, <3>1
    <3> QED
      BY <3>2 DEF InQueue
  <2> QED
    BY <2>1, <2>2
<1>8. \A i \in Jobs : pc'[i] = IF i = j THEN "started" ELSE pc[i]
  BY QueueFacts
<1>9. OneAtATime'
  BY <1>1, <1>7, <1>8 DEF QueueInv, OneAtATime, WaitingPcs, RunningPcs
<1>10. NoLostWakeup'
  BY <1>1 DEF NoLostWakeup
<1>11. RowsInOrder'
  BY <1>8 DEF QueueInv, RowsInOrder, Created, Live, WaitingPcs, RunningPcs
<1> QED
  BY <1>2, <1>3, <1>5, <1>9, <1>10, <1>11

(* A task dropped while it waits leaves the queue; the others stay in
   order. *)
LEMMA LeaveQueueKeeps ==
    ASSUME QueueInv, NEW j \in Jobs, pc[j] \in WaitingPcs,
           queued' = Without(queued, j), active' = active,
           ReleaseUpdateLockIfIdle(active, Without(queued, j)),
           pc' = NotifyWaiters([pc EXCEPT ![j] = "gone"]),
           key' = key, \A i \in Jobs : row'[i] = "none" <=> row[i] = "none"
    PROVE  /\ queued' \in Seq(Jobs) /\ pc' \in [Jobs -> Pcs]
           /\ exclusive' \in {"nobody", "daemon", "cli"}
           /\ LockCoversWork' /\ OneAtATime' /\ StartsInOrder'
           /\ NoLostWakeup' /\ RowsInOrder'
<1> DEFINE p == [pc EXCEPT ![j] = "gone"]
<1>1. queued \in Seq(Jobs) /\ \A m, n \in 1..Len(queued) : m < n => queued[m] < queued[n]
  BY DEF QueueInv, TypeOK, StartsInOrder
<1>2. PICK q \in 1..Len(queued) : queued[q] = j
  BY DEF QueueInv, OneAtATime, InQueue
<1>3. /\ queued' = [n \in 1..(Len(queued) - 1) |-> IF n < q THEN queued[n] ELSE queued[n + 1]]
      /\ queued' \in Seq(Jobs) /\ Len(queued') = Len(queued) - 1
  BY <1>1, <1>2, WithoutIsRemoval
<1>4. \A n \in 1..Len(queued') : queued'[n] = IF n < q THEN queued[n] ELSE queued[n + 1]
  BY <1>3
<1>5. Len(queued) \in Nat \ {0} /\ \A n \in 1..Len(queued) : queued[n] \in Nat
  BY <1>2, QueueFacts
<1>6. StartsInOrder'
  <2>1. ASSUME NEW m \in 1..Len(queued'), NEW n \in 1..Len(queued'), m < n
        PROVE  queued'[m] < queued'[n]
    <3>1. m \in 1..Len(queued) /\ n \in 1..Len(queued)
          /\ m + 1 \in 1..Len(queued) /\ n + 1 \in 1..Len(queued)
      BY <1>3, <1>5
    <3>2. /\ queued[m] < queued[n] /\ queued[m] < queued[n + 1]
          /\ queued[m + 1] < queued[n + 1]
      BY <1>1, <2>1, <3>1
    <3>3. n < q => m < q
      BY <2>1, <3>1
    <3> QED
      BY <1>4, <2>1, <3>2, <3>3
  <2>2. ASSUME active # None, NEW n \in 1..Len(queued')
        PROVE  active < queued'[n]
    <3>1. n \in 1..Len(queued) /\ n + 1 \in 1..Len(queued)
      BY <1>3, <1>5
    <3> QED
      BY <1>4, <2>2, <3>1 DEF QueueInv, StartsInOrder
  <2> QED
    BY <2>1, <2>2 DEF StartsInOrder
<1>7. \A i \in Jobs : InQueue(i)' <=> InQueue(i) /\ i # j
  <2>1. ASSUME NEW i \in Jobs, InQueue(i)' PROVE InQueue(i) /\ i # j
    <3>1. PICK n \in 1..Len(queued') : queued'[n] = i
      BY <2>1 DEF InQueue
    <3>2. PICK n2 \in 1..Len(queued) : queued[n2] = i /\ n2 # q
      BY <1>3, <1>4, <1>5, <3>1
    <3> QED
      BY <1>1, <1>2, <1>5, <3>2 DEF InQueue
  <2>2. ASSUME NEW i \in Jobs, InQueue(i), i # j PROVE InQueue(i)'
    <3>1. PICK n \in 1..Len(queued) : queued[n] = i
      BY <2>2 DEF InQueue
    <3>2. CASE n < q
      <4>1. n \in 1..Len(queued') /\ queued'[n] = i
        BY <1>3, <1>4, <1>5, <3>1, <3>2
      <4> QED
        BY <4>1 DEF InQueue
    <3>3. CASE n > q
      <4>1. n - 1 \in 1..Len(queued') /\ queued'[n - 1] = i
        BY <1>3, <1>4, <1>5, <3>1, <3>3
      <4> QED
        BY <4>1 DEF InQueue
    <3> QED
      BY <1>2, <2>2, <3>1, <3>2, <3>3
  <2> QED
    BY <2>1, <2>2
<1>8. p \in [Jobs -> Pcs]
  BY QueueFacts DEF Pcs
<1>9. /\ pc' \in [Jobs -> Pcs]
      /\ \A i \in Jobs : /\ pc'[i] # "parked"
                         /\ pc'[i] \in WaitingPcs <=> p[i] \in WaitingPcs
                         /\ pc'[i] \in RunningPcs <=> p[i] \in RunningPcs
  BY <1>8, NotifyKeepsClass
<1>10. \A i \in Jobs : /\ pc'[i] \in WaitingPcs <=> pc[i] \in WaitingPcs /\ i # j
                       /\ pc'[i] \in RunningPcs <=> pc[i] \in RunningPcs
  BY <1>9, QueueFacts DEF WaitingPcs, RunningPcs
<1>11. OneAtATime'
  BY <1>7, <1>10 DEF QueueInv, OneAtATime
<1>12. LockCoversWork' /\ exclusive' \in {"nobody", "daemon", "cli"}
  <2>1. queued # <<>>
    BY <1>2
  <2>2. exclusive = "daemon"
    BY <2>1 DEF QueueInv, LockCoversWork
  <2> QED
    BY <2>2 DEF LockCoversWork, ReleaseUpdateLockIfIdle
<1>13. NoLostWakeup'
  <2>1. queued' # <<>> => Head(queued') \in Jobs
    BY <1>3
  <2> QED
    BY <2>1, <1>9 DEF NoLostWakeup
<1>14. RowsInOrder'
  BY <1>10 DEF QueueInv, RowsInOrder, Created, Live
<1> QED
  BY <1>3, <1>6, <1>9, <1>11, <1>12, <1>13, <1>14

(* Each step of a job's task keeps the queue invariant. *)
LEMMA TaskStepKeeps ==
    ASSUME QueueInv, NEW j \in Jobs, TaskStep(j)
    PROVE  QueueInv'
<1>0. TypeOK /\ pc \in [Jobs -> Pcs]
  BY QueueFacts DEF QueueInv
<1>1. CASE WriteAccepted(j)
  <2>1. TypeOK' /\ pc' \in [Jobs -> Pcs]
    BY <1>0, <1>1 DEF WriteAccepted, TypeOK, queueVars, Pcs, WaitingPcs
  <2>2. \A i \in Jobs : pc'[i] = IF i = j THEN "ready" ELSE pc[i]
    BY <1>0, <1>1 DEF WriteAccepted
  <2> QED
    BY <1>1, <2>1, <2>2, QuietStepKeeps
       DEF WriteAccepted, queueVars, QueueInv, WaitingPcs, RunningPcs
<1>2. CASE WaitForTurn(j)
  <2>1. CASE IsTurn(j)
    <3>1. /\ pc[j] = "ready" /\ queued' = Tail(queued) /\ active' = j
          /\ pc' = [pc EXCEPT ![j] = "started"]
          /\ UNCHANGED <<exclusive, key, foreground, open, row, blocking,
                 promised, seen, shared, daemon, desired, applied, faults, restarts>>
      BY <1>2, <2>1 DEF WaitForTurn
    <3>2. /\ queued' \in Seq(Jobs)
          /\ LockCoversWork' /\ OneAtATime' /\ StartsInOrder'
          /\ NoLostWakeup' /\ RowsInOrder'
      BY <2>1, <3>1, StartKeeps
    <3>3. TypeOK'
      BY <1>0, <3>1, <3>2 DEF TypeOK, RunningPcs
    <3> QED
      BY <3>2, <3>3 DEF QueueInv
  <2>2. CASE ~IsTurn(j)
    <3>1. /\ pc[j] = "ready" /\ pc' = [pc EXCEPT ![j] = "parked"]
          /\ UNCHANGED <<queued, active, exclusive, key, foreground, open, row,
                 blocking, promised, seen, shared, daemon, desired, applied,
                 faults, restarts>>
      BY <1>2, <2>2 DEF WaitForTurn
    <3>2. TypeOK' /\ pc' \in [Jobs -> Pcs]
      BY <1>0, <3>1 DEF TypeOK, Pcs, WaitingPcs
    <3>3. \A i \in Jobs : pc'[i] = IF i = j THEN "parked" ELSE pc[i]
      BY <1>0, <3>1
    <3> QED
      BY <2>2, <3>1, <3>2, <3>3, QuietStepKeeps DEF QueueInv, WaitingPcs, RunningPcs
  <2> QED
    BY <2>1, <2>2
<1>3. CASE BeginWork(j)
  <2>1. pc[j] = "started" /\ key[j] \in Keys
    BY <1>3 DEF BeginWork, QueueInv, RowsInOrder, Live, RunningPcs
  <2>2. TypeOK' /\ pc' \in [Jobs -> Pcs]
    BY <1>0, <1>3, <2>1 DEF BeginWork, TypeOK, queueVars, Pcs, RunningPcs
  <2>3. \A i \in Jobs : pc'[i] = IF i = j THEN "working" ELSE pc[i]
    BY <1>0, <1>3 DEF BeginWork
  <2> QED
    BY <1>3, <2>1, <2>2, <2>3, QuietStepKeeps
       DEF BeginWork, queueVars, QueueInv, WaitingPcs, RunningPcs
<1>4. CASE SpawnBlocking(j)
  <2>1. TypeOK' /\ pc' \in [Jobs -> Pcs]
    BY <1>0, <1>4 DEF SpawnBlocking, TypeOK, queueVars, Pcs, RunningPcs
  <2>2. \A i \in Jobs : pc'[i] = IF i = j THEN "blocking" ELSE pc[i]
    BY <1>0, <1>4 DEF SpawnBlocking
  <2> QED
    BY <1>4, <2>1, <2>2, QuietStepKeeps
       DEF SpawnBlocking, queueVars, QueueInv, WaitingPcs, RunningPcs
<1>5. CASE BlockingReturns(j)
  <2>1. TypeOK' /\ pc' \in [Jobs -> Pcs]
    BY <1>0, <1>5 DEF BlockingReturns, TypeOK, queueVars, Pcs, RunningPcs
  <2>2. \A i \in Jobs : pc'[i] = IF i = j /\ pc[j] = "blocking" THEN "returned" ELSE pc[i]
    BY <1>0, <1>5 DEF BlockingReturns
  <2> QED
    BY <1>5, <2>1, <2>2, QuietStepKeeps
       DEF BlockingReturns, queueVars, QueueInv, WaitingPcs, RunningPcs
<1>6. CASE ClientLost(j)
  <2>1. TypeOK' /\ pc' = pc
    BY <1>0, <1>6 DEF ClientLost, TypeOK, queueVars
  <2> QED
    BY <1>0, <1>6, <2>1, QuietStepKeeps DEF ClientLost, queueVars, QueueInv
<1>7. ASSUME pc[j] \in RunningPcs, AfterRecord(j),
             NEW st \in {"running", "succeeded", "failed"},
             row' = [row EXCEPT ![j] = st],
             applied' \in [Keys -> Nat], faults' \in 0..MaxFaults,
             UNCHANGED <<key, foreground, open, blocking, promised, seen,
                         shared, daemon, desired, restarts>>
      PROVE  QueueInv'
  <2>1. Created(j)
    BY <1>7 DEF QueueInv, RowsInOrder, Live
  <2>2. /\ row' \in [Jobs -> {"none", "running", "succeeded", "failed"}]
        /\ \A i \in Jobs : row'[i] = "none" <=> row[i] = "none"
    BY <1>0, <1>7, <2>1 DEF TypeOK, Created
  <2>3. CASE j \in open
    <3>1. pc' = [pc EXCEPT ![j] = "recorded"] /\ UNCHANGED <<queued, active, exclusive>>
      BY <1>7, <2>3 DEF AfterRecord
    <3>2. \A i \in Jobs : pc'[i] = IF i = j THEN "recorded" ELSE pc[i]
      BY <1>0, <3>1
    <3>3. TypeOK' /\ pc' \in [Jobs -> Pcs]
      BY <1>0, <1>7, <2>2, <3>1 DEF TypeOK, Pcs, RunningPcs
    <3> QED
      BY <1>7, <2>2, <3>1, <3>2, <3>3, QuietStepKeeps DEF QueueInv, WaitingPcs, RunningPcs
  <2>4. CASE j \notin open
    <3>1. ReleaseActiveJob(j)
      BY <1>7, <2>4 DEF AfterRecord
    <3>2. /\ active' \in Jobs \cup {None} /\ queued' \in Seq(Jobs)
          /\ pc' \in [Jobs -> Pcs]
          /\ exclusive' \in {"nobody", "daemon", "cli"}
          /\ LockCoversWork' /\ OneAtATime' /\ StartsInOrder'
          /\ NoLostWakeup' /\ RowsInOrder'
      BY <1>7, <2>2, <3>1, ReleaseActiveKeeps
    <3>3. TypeOK'
      BY <1>0, <1>7, <2>2, <3>2 DEF TypeOK, Pcs
    <3> QED
      BY <3>2, <3>3 DEF QueueInv
  <2> QED
    BY <2>3, <2>4
<1>8. CASE RecordSuccess(j)
  <2>1. pc[j] \in RunningPcs /\ key[j] \in Keys
    BY <1>8 DEF RecordSuccess, QueueInv, RowsInOrder, Live, RunningPcs
  <2>2. applied' \in [Keys -> Nat] /\ faults' \in 0..MaxFaults
    BY <1>0, <1>8, <2>1 DEF RecordSuccess, TypeOK
  <2> QED
    BY <1>7, <1>8, <2>1, <2>2 DEF RecordSuccess
<1>9. CASE RecordFailure(j)
  <2>1. pc[j] \in RunningPcs
    BY <1>9 DEF RecordFailure, RunningPcs
  <2>2. applied' \in [Keys -> Nat] /\ faults' \in 0..MaxFaults
    BY <1>0, <1>9, ConstantsAssumption DEF RecordFailure, TypeOK, WriteRow, DbWrites, DbFails
  <2>3. PICK st \in {"running", "succeeded", "failed"} : row' = [row EXCEPT ![j] = st]
    <3>1. Created(j)
      BY <2>1 DEF QueueInv, RowsInOrder, Live
    <3>2. row[j] \in {"running", "succeeded", "failed"} /\ row = [row EXCEPT ![j] = row[j]]
      BY <1>0, <3>1 DEF TypeOK, Created
    <3> QED
      BY <1>9, <3>2 DEF RecordFailure, WriteRow
  <2> QED
    BY <1>7, <1>9, <2>1, <2>2, <2>3 DEF RecordFailure
<1>10. CASE WriteTerminalEvents(j)
  <2>1. pc[j] \in RunningPcs /\ ReleaseActiveJob(j) /\ row' = row /\ key' = key
    BY <1>10 DEF WriteTerminalEvents, RunningPcs
  <2>2. /\ active' \in Jobs \cup {None} /\ queued' \in Seq(Jobs)
        /\ pc' \in [Jobs -> Pcs]
        /\ exclusive' \in {"nobody", "daemon", "cli"}
        /\ LockCoversWork' /\ OneAtATime' /\ StartsInOrder'
        /\ NoLostWakeup' /\ RowsInOrder'
    BY <1>0, <2>1, ReleaseActiveKeeps DEF TypeOK
  <2>3. TypeOK'
    BY <1>0, <1>10, <2>2 DEF WriteTerminalEvents, TypeOK, Pcs
  <2> QED
    BY <2>2, <2>3 DEF QueueInv
<1>11. CASE DropTask(j)
  <2>1. /\ Live(j) /\ Abandon(j) /\ WriteRow(j, "failed")
        /\ open' = open \ {j}
        /\ UNCHANGED <<key, foreground, blocking, promised, seen, shared,
                       daemon, desired, applied, restarts>>
    BY <1>11 DEF DropTask
  <2>2. Created(j)
    BY <2>1 DEF QueueInv, RowsInOrder
  <2>3. /\ row' \in [Jobs -> {"none", "running", "succeeded", "failed"}]
        /\ \A i \in Jobs : row'[i] = "none" <=> row[i] = "none"
        /\ faults' \in 0..MaxFaults
    <3>1. faults' \in 0..MaxFaults
      BY <1>0, <2>1, ConstantsAssumption DEF TypeOK, WriteRow, DbWrites, DbFails
    <3>2. row' = row \/ row' = [row EXCEPT ![j] = "failed"]
      BY <2>1 DEF WriteRow
    <3> QED
      BY <1>0, <2>2, <3>1, <3>2 DEF TypeOK, Created
  <2>4. /\ active' \in Jobs \cup {None} /\ queued' \in Seq(Jobs)
        /\ pc' \in [Jobs -> Pcs]
        /\ exclusive' \in {"nobody", "daemon", "cli"}
        /\ LockCoversWork' /\ OneAtATime' /\ StartsInOrder'
        /\ NoLostWakeup' /\ RowsInOrder'
    <3>1. CASE pc[j] \in WaitingPcs
      <4>1. /\ queued' = Without(queued, j) /\ active' = active
            /\ ReleaseUpdateLockIfIdle(active, Without(queued, j))
            /\ pc' = NotifyWaiters([pc EXCEPT ![j] = "gone"])
        BY <2>1, <3>1 DEF Abandon
      <4>2. active' \in Jobs \cup {None}
        BY <1>0, <4>1 DEF TypeOK
      <4> QED
        BY <2>1, <2>3, <3>1, <4>1, <4>2, LeaveQueueKeeps
    <3>2. CASE pc[j] \notin WaitingPcs
      <4>1. pc[j] \in RunningPcs /\ ReleaseActiveJob(j)
        BY <2>1, <3>2 DEF Abandon, Live
      <4> QED
        BY <2>1, <2>3, <4>1, ReleaseActiveKeeps
    <3> QED
      BY <3>1, <3>2
  <2>5. TypeOK'
    BY <1>0, <2>1, <2>3, <2>4 DEF TypeOK, Pcs
  <2> QED
    BY <2>4, <2>5 DEF QueueInv
<1> QED
  BY <1>1, <1>2, <1>3, <1>4, <1>5, <1>6, <1>8, <1>9, <1>10, <1>11 DEF TaskStep

(* The queue invariant is inductive. *)
LEMMA QueueInvStep == QueueInv /\ [Next]_vars => QueueInv'
<1> SUFFICES ASSUME QueueInv, [Next]_vars PROVE QueueInv'
  OBVIOUS
<1>0. TypeOK /\ pc \in [Jobs -> Pcs]
  BY QueueFacts DEF QueueInv
<1>1. CASE UNCHANGED vars
  <2>1. TypeOK'
    BY <1>0, <1>1 DEF vars, queueVars, jobVars, TypeOK
  <2> QED
    BY <1>0, <1>1, <2>1, QuietStepKeeps DEF vars, queueVars, jobVars, QueueInv
<1>2. ASSUME NEW k \in Keys, NEW fg \in BOOLEAN, Coalesce(k, fg)
      PROVE  QueueInv'
  <2>1. promised' \in [Jobs -> Nat]
    <3>1. PICK j \in MatchingQueuedJob(k) :
            promised' = IF k = UpdateSystem THEN promised
                        ELSE [promised EXCEPT ![j] = desired[k]]
      BY <1>2 DEF Coalesce
    <3>2. j \in Jobs /\ desired[k] \in Nat
      BY <1>0 DEF MatchingQueuedJob, TypeOK
    <3> QED
      BY <1>0, <3>1, <3>2 DEF TypeOK
  <2>2. UNCHANGED <<queueVars, pc, key, foreground, open, row, blocking, seen,
                   shared, daemon, desired, applied, faults, restarts>>
    BY <1>2 DEF Coalesce
  <2>3. TypeOK'
    BY <1>0, <2>1, <2>2 DEF queueVars, TypeOK
  <2> QED
    BY <1>0, <2>2, <2>3, QuietStepKeeps DEF queueVars, QueueInv
<1>3. ASSUME NEW k \in Keys, NEW fg \in BOOLEAN, EnqueueFails(k, fg)
      PROVE  QueueInv'
  <2>1. /\ faults' \in 0..MaxFaults
        /\ UNCHANGED <<queued, active, jobVars, shared, daemon, desired,
                       applied, restarts>>
    BY <1>0, <1>3, ConstantsAssumption DEF EnqueueFails, DbFails, TypeOK
  <2>2. exclusive' = exclusive
    BY <1>3 DEF EnqueueFails, CanLockExclusively, QueueInv, LockCoversWork
  <2>3. TypeOK'
    BY <1>0, <2>1, <2>2 DEF jobVars, TypeOK
  <2> QED
    BY <1>0, <2>1, <2>2, <2>3, QuietStepKeeps DEF jobVars, QueueInv
<1>4. CASE Shutdown \/ DropRuntime \/ Exit
  <2>1. UNCHANGED <<queueVars, jobVars>>
    BY <1>4 DEF Shutdown, DropRuntime, Exit
  <2>2. TypeOK'
    BY <1>0, <1>4 DEF Shutdown, DropRuntime, Exit, queueVars, jobVars, TypeOK
  <2> QED
    BY <1>0, <2>1, <2>2, QuietStepKeeps DEF queueVars, jobVars, QueueInv
<1>5. CASE Crash
  <2>1. /\ queued' = <<>> /\ active' = None
        /\ exclusive' = IF exclusive = "daemon" THEN "nobody" ELSE exclusive
        /\ pc' = [j \in Jobs |-> "gone"] /\ UNCHANGED <<key, row>>
    BY <1>5 DEF Crash
  <2>2. TypeOK'
    BY <1>0, <1>5 DEF Crash, TypeOK
  <2>3. LockCoversWork' /\ StartsInOrder' /\ NoLostWakeup'
    BY <1>0, <2>1 DEF LockCoversWork, StartsInOrder, NoLostWakeup, TypeOK
  <2>4. OneAtATime'
    BY <2>1 DEF OneAtATime, InQueue, WaitingPcs, RunningPcs
  <2>5. RowsInOrder'
    BY <2>1 DEF QueueInv, RowsInOrder, Created, Live, WaitingPcs, RunningPcs
  <2> QED
    BY <2>2, <2>3, <2>4, <2>5 DEF QueueInv
<1>6. CASE Start
  <2>1. /\ row' \in [Jobs -> {"none", "running", "succeeded", "failed"}]
        /\ \A i \in Jobs : row'[i] = "none" <=> row[i] = "none"
    BY <1>0, <1>6 DEF Start, FailRunningJobs, TypeOK
  <2>2. /\ restarts' \in 0..MaxRestarts /\ daemon' = "up"
        /\ UNCHANGED <<queueVars, pc, key, foreground, open, blocking,
                       promised, seen, shared, desired, applied, faults>>
    BY <1>0, <1>6, ConstantsAssumption DEF Start, TypeOK
  <2>3. TypeOK'
    BY <1>0, <2>1, <2>2 DEF queueVars, TypeOK
  <2> QED
    BY <1>0, <2>1, <2>2, <2>3, QuietStepKeeps DEF queueVars, QueueInv
<1>7. ASSUME NEW k \in Scopes, Change(k) PROVE QueueInv'
  <2>1. UNCHANGED <<queueVars, jobVars>>
    BY <1>7 DEF Change
  <2>2. TypeOK'
    BY <1>0, <1>7 DEF Change, queueVars, jobVars, TypeOK, Keys
  <2> QED
    BY <1>0, <2>1, <2>2, QuietStepKeeps DEF queueVars, jobVars, QueueInv
<1>8. CASE UpdateAcquire \/ UpdateRelease
  <2>1. /\ UNCHANGED <<queued, active, jobVars, shared, daemon, desired,
                       applied, faults, restarts>>
        /\ exclusive' \in {"nobody", "cli"} /\ exclusive # "daemon"
    BY <1>8 DEF UpdateAcquire, UpdateRelease, CanLockExclusively
  <2>2. TypeOK'
    BY <1>0, <2>1 DEF jobVars, TypeOK
  <2>3. LockCoversWork' /\ StartsInOrder' /\ NoLostWakeup'
    BY <2>1 DEF jobVars, QueueInv, LockCoversWork, StartsInOrder, NoLostWakeup
  <2>4. OneAtATime' /\ RowsInOrder'
    BY <2>1 DEF jobVars, QueueInv, OneAtATime, InQueue, RowsInOrder, Created, Live
  <2> QED
    BY <2>2, <2>3, <2>4 DEF QueueInv
<1>9. ASSUME NEW c \in Probers, Probe(c) \/ Unprobe(c) PROVE QueueInv'
  <2>1. UNCHANGED <<queueVars, jobVars>>
    BY <1>9 DEF Probe, Unprobe
  <2>2. TypeOK'
    BY <1>0, <1>9 DEF Probe, Unprobe, queueVars, jobVars, TypeOK
  <2> QED
    BY <1>0, <2>1, <2>2, QuietStepKeeps DEF queueVars, jobVars, QueueInv
<1> QED
  BY <1>1, <1>2, <1>3, <1>4, <1>5, <1>6, <1>7, <1>8, <1>9, EnqueueKeeps,
     TaskStepKeeps DEF Next

-----------------------------------------------------------------------------
(* The daemon's queue serialises its jobs for every number of scopes, jobs,
   faults and restarts: types, one job at a time, started in order, with the
   coordination lock held exactly while there is work and no wakeup lost. *)
THEOREM QueueCorrect == Spec => []QueueInv
BY QueueInvInit, QueueInvStep, PTL DEF Spec

(* All of it under the name the model checker uses. *)
THEOREM QueueIsSafe == Spec => []QueueSafe
<1>1. QueueInv => QueueSafe
  BY DEF QueueInv, QueueSafe
<1> QED
  BY <1>1, QueueCorrect, PTL

(* The type invariant of the queue, its tasks, its rows and its lock. *)
THEOREM TypeCorrect == Spec => []TypeOK
<1>1. QueueInv => TypeOK
  BY DEF QueueInv
<1> QED
  BY <1>1, QueueCorrect, PTL

(* At most one job runs, and it is the active one; the rest wait in the
   queue. *)
THEOREM JobsRunOneAtATime == Spec => []OneAtATime
<1>1. QueueInv => OneAtATime
  BY DEF QueueInv
<1> QED
  BY <1>1, QueueCorrect, PTL

(* The coordination lock is the daemon's exactly while it has work. *)
THEOREM LockIsHeldForWork == Spec => []LockCoversWork
<1>1. QueueInv => LockCoversWork
  BY DEF QueueInv
<1> QED
  BY <1>1, QueueCorrect, PTL

(* The head of an idle queue is never asleep. *)
THEOREM WakeupsAreNotLost == Spec => []NoLostWakeup
<1>1. QueueInv => NoLostWakeup
  BY DEF QueueInv
<1> QED
  BY <1>1, QueueCorrect, PTL

(* Jobs start in the order in which they were accepted. *)
THEOREM JobsStartInOrder == Spec => []StartsInOrder
<1>1. QueueInv => StartsInOrder
  BY DEF QueueInv
<1> QED
  BY <1>1, QueueCorrect, PTL

-----------------------------------------------------------------------------
(* What the queue gives its callers *)

(* A daemon that is down has neither tasks nor closures, and a closure of a
   running daemon is awaited by its task. *)
ClosuresAreAwaited ==
    /\ daemon = "down" => blocking = {} /\ \A j \in Jobs : ~Live(j)
    /\ daemon = "up" => \A j \in blocking : pc[j] = "blocking"

(* A job that writes its terminal events has closed its row, unless a write
   failed. *)
RecordedIsClosed ==
    faults = 0 => \A j \in Jobs : pc[j] = "recorded" => row[j] # "running"

(* A promise made to a caller is within the desired state, and a job that has
   read the desired state has read all that it promised. *)
PromisesAreKept ==
    /\ \A j \in Jobs : Live(j) => promised[j] <= desired[key[j]]
    /\ \A j \in Jobs : pc[j] \in {"working", "blocking", "returned"} =>
                          seen[j] >= promised[j]
    /\ \A j \in Jobs : row[j] = "succeeded" => seen[j] >= promised[j]

(* One job waits per key. *)
OneWaitsPerKey ==
    \A i, j \in Jobs :
      pc[i] \in WaitingPcs /\ pc[j] \in WaitingPcs /\ key[i] = key[j] => i = j

ServiceInv ==
    /\ QueueInv
    /\ ClosuresAreAwaited
    /\ RowsMatchTasks
    /\ RecordedIsClosed
    /\ PromisesAreKept
    /\ OneWaitsPerKey

-----------------------------------------------------------------------------
(* A task that ends wakes the parked ones and leaves the others alone. *)
LEMMA EndingTaskWakes ==
    ASSUME pc \in [Jobs -> Pcs], NEW j \in Jobs,
           pc' = NotifyWaiters([pc EXCEPT ![j] = "gone"])
    PROVE  /\ pc'[j] = "gone"
           /\ \A i \in Jobs \ {j} :
                pc'[i] = pc[i] \/ (pc[i] = "parked" /\ pc'[i] = "ready")
BY DEF NotifyWaiters

LEMMA ServiceInvInit == Init => ServiceInv
<1> SUFFICES ASSUME Init PROVE ServiceInv
  OBVIOUS
<1>1. QueueInv
  BY QueueInvInit
<1>2. ClosuresAreAwaited /\ RowsMatchTasks /\ RecordedIsClosed /\ OneWaitsPerKey
  BY DEF Init, ClosuresAreAwaited, RowsMatchTasks, RecordedIsClosed,
         OneWaitsPerKey, Live, WaitingPcs, RunningPcs
<1>3. PromisesAreKept
  BY DEF Init, PromisesAreKept, Live, WaitingPcs, RunningPcs
<1> QED
  BY <1>1, <1>2, <1>3 DEF ServiceInv

(* A step in which one task moves: every other task stays where it is or is
   woken, and the step says what becomes of j. *)
OthersKeepGoing(j) ==
    \A i \in Jobs \ {j} : /\ pc'[i] = pc[i] \/ (pc[i] = "parked" /\ pc'[i] = "ready")
                          /\ row'[i] = row[i] /\ seen'[i] = seen[i]
                          /\ promised'[i] = promised[i]

(* The rest of the daemon stands still while the task of j moves. *)
TaskFrame == UNCHANGED <<key, foreground, promised, shared, daemon, desired, restarts>>

(* What a step of one task must respect for the service invariant. *)
LEMMA TaskMoveKeeps ==
    ASSUME ServiceInv, QueueInv', NEW j \in Jobs, OthersKeepGoing(j), TaskFrame,
           daemon # "down",
           faults \in Nat, faults' \in Nat, faults' >= faults,
           blocking' \subseteq blocking \cup {j},
           \* the closure of a task is awaited
           daemon = "up" /\ j \in blocking' => pc'[j] = "blocking",
           \* the row is closed by the step that ends the task's work
           pc'[j] \in WaitingPcs => pc[j] \in WaitingPcs,
           pc[j] # "gone",
           faults' = 0 /\ row'[j] = "running" => Live(j)' /\ pc'[j] # "recorded",
           Live(j)' /\ pc'[j] # "recorded" => row'[j] = "running",
           \* what is recorded as done covers what was promised
           pc'[j] \in {"working", "blocking", "returned"} => seen'[j] >= promised[j],
           row'[j] = "succeeded" => seen'[j] >= promised[j]
    PROVE  ServiceInv'
<1>0. pc' \in [Jobs -> Pcs] /\ pc \in [Jobs -> Pcs] /\ TypeOK
  BY QueueFacts DEF ServiceInv, QueueInv, TypeOK, Pcs
<1>1. ClosuresAreAwaited'
  BY <1>0 DEF ServiceInv, ClosuresAreAwaited, OthersKeepGoing, TaskFrame, TypeOK
<1>2. \A i \in Jobs \ {j} : /\ Live(i)' <=> Live(i)
                            /\ pc'[i] = "recorded" <=> pc[i] = "recorded"
                            /\ pc'[i] \in WaitingPcs <=> pc[i] \in WaitingPcs
                            /\ row'[i] = row[i]
                            /\ pc'[i] \in {"working", "blocking", "returned"}
                                 <=> pc[i] \in {"working", "blocking", "returned"}
  BY <1>0 DEF OthersKeepGoing, Live, WaitingPcs, RunningPcs
<1>3. faults' = 0 => faults = 0
  OBVIOUS
<1>4. RowsMatchTasks'
  BY <1>2, <1>3 DEF ServiceInv, RowsMatchTasks, TaskFrame
<1>5. RecordedIsClosed'
  BY <1>2, <1>3 DEF ServiceInv, RecordedIsClosed, Live, RunningPcs
<1>6. Live(j)
  BY <1>0 DEF Live, Pcs
<1>7. PromisesAreKept'
  BY <1>2, <1>6 DEF ServiceInv, PromisesAreKept, OthersKeepGoing, TaskFrame
<1>8. OneWaitsPerKey'
  BY <1>2 DEF ServiceInv, OneWaitsPerKey, TaskFrame
<1> QED
  BY <1>1, <1>4, <1>5, <1>7, <1>8 DEF ServiceInv

(* Every step of a job's task keeps the service invariant. *)
LEMMA TaskStepServes ==
    ASSUME ServiceInv, QueueInv', NEW j \in Jobs, TaskStep(j)
    PROVE  ServiceInv'
<1>0. /\ pc \in [Jobs -> Pcs] /\ TypeOK /\ faults \in Nat
      /\ \A i \in Jobs : Live(i) <=> pc[i] # "gone"
  <2>1. pc \in [Jobs -> Pcs] /\ TypeOK
    BY QueueFacts DEF ServiceInv, QueueInv
  <2>2. faults \in Nat
    BY <2>1, ConstantsAssumption DEF TypeOK
  <2>3. \A i \in Jobs : Live(i) <=> pc[i] # "gone"
    BY <2>1 DEF Pcs, Live, WaitingPcs, RunningPcs
  <2> QED
    BY <2>1, <2>2, <2>3
<1>1. /\ daemon # "down" \/ (\A i \in Jobs : ~Live(i))
      /\ Polled(j) => daemon # "down"
  BY DEF ServiceInv, ClosuresAreAwaited, Polled
<1>2. CASE WriteAccepted(j) \/ ClientLost(j)
  <2>1. /\ pc' = IF pc[j] = "accepting" THEN [pc EXCEPT ![j] = "ready"] ELSE pc
        /\ UNCHANGED <<row, seen, faults, blocking>> /\ TaskFrame /\ daemon # "down"
        /\ pc[j] \in {"accepting", "working", "blocking", "returned"}
    BY <1>1, <1>2 DEF WriteAccepted, ClientLost, TaskFrame
  <2>2. OthersKeepGoing(j) /\ (pc'[j] = pc[j] \/ (pc[j] = "accepting" /\ pc'[j] = "ready"))
    BY <1>0, <2>1 DEF OthersKeepGoing, TaskFrame
  <2> QED
    BY <1>0, <2>1, <2>2, TaskMoveKeeps
    DEF ServiceInv, ClosuresAreAwaited, RowsMatchTasks, PromisesAreKept, Live,
        WaitingPcs, RunningPcs
<1>3. CASE WaitForTurn(j)
  <2>1. /\ pc[j] = "ready" /\ daemon # "down"
        /\ pc' = [pc EXCEPT ![j] = "started"] \/ pc' = [pc EXCEPT ![j] = "parked"]
        /\ UNCHANGED <<row, seen, faults, blocking>> /\ TaskFrame
    BY <1>1, <1>3 DEF WaitForTurn, TaskFrame
  <2>2. OthersKeepGoing(j) /\ pc'[j] \in {"started", "parked"}
    BY <1>0, <2>1 DEF OthersKeepGoing, TaskFrame
  <2> QED
    BY <1>0, <2>1, <2>2, TaskMoveKeeps
    DEF ServiceInv, ClosuresAreAwaited, RowsMatchTasks, PromisesAreKept, Live,
        WaitingPcs, RunningPcs
<1>4. CASE BeginWork(j)
  <2>1. /\ pc[j] = "started" /\ daemon # "down"
        /\ pc' = [pc EXCEPT ![j] = "working"]
        /\ seen' = [seen EXCEPT ![j] = desired[key[j]]]
        /\ UNCHANGED <<row, faults, blocking>> /\ TaskFrame
    BY <1>1, <1>4 DEF BeginWork, TaskFrame
  <2>2. OthersKeepGoing(j) /\ pc'[j] = "working" /\ seen'[j] = desired[key[j]]
    BY <1>0, <2>1 DEF OthersKeepGoing, TaskFrame, TypeOK
  <2>3. promised[j] <= desired[key[j]] /\ row[j] = "running"
    BY <2>1 DEF ServiceInv, PromisesAreKept, RowsMatchTasks, Live, RunningPcs
  <2>4. desired[key[j]] >= promised[j]
    BY <1>0, <2>1, <2>3 DEF ServiceInv, QueueInv, RowsInOrder, TypeOK, Live, RunningPcs
  <2> QED
    BY <1>0, <2>1, <2>2, <2>3, <2>4, TaskMoveKeeps
    DEF ServiceInv, ClosuresAreAwaited, Live, WaitingPcs, RunningPcs
<1>5. CASE SpawnBlocking(j)
  <2>1. /\ pc[j] = "working" /\ daemon # "down"
        /\ pc' = [pc EXCEPT ![j] = "blocking"] /\ blocking' = blocking \cup {j}
        /\ UNCHANGED <<row, seen, faults>> /\ TaskFrame
    BY <1>1, <1>5 DEF SpawnBlocking, TaskFrame
  <2>2. OthersKeepGoing(j) /\ pc'[j] = "blocking"
    BY <1>0, <2>1 DEF OthersKeepGoing, TaskFrame
  <2> QED
    BY <1>0, <2>1, <2>2, TaskMoveKeeps
    DEF ServiceInv, RowsMatchTasks, PromisesAreKept, Live, WaitingPcs, RunningPcs
<1>6. CASE BlockingReturns(j) /\ pc[j] = "blocking"
  <2>1. /\ daemon # "down" /\ blocking' = blocking \ {j}
        /\ pc' = [pc EXCEPT ![j] = "returned"]
        /\ UNCHANGED <<row, seen, faults>> /\ TaskFrame
    BY <1>0, <1>1, <1>6 DEF BlockingReturns, TaskFrame
  <2>2. OthersKeepGoing(j) /\ pc'[j] = "returned"
    BY <1>0, <2>1 DEF OthersKeepGoing, TaskFrame
  <2> QED
    BY <1>0, <1>6, <2>1, <2>2, TaskMoveKeeps
    DEF ServiceInv, RowsMatchTasks, PromisesAreKept, Live, WaitingPcs, RunningPcs
<1>7. CASE BlockingReturns(j) /\ pc[j] # "blocking"
  <2>1. /\ blocking' = blocking \ {j} /\ UNCHANGED <<pc, row, seen, faults>>
        /\ TaskFrame
    BY <1>7 DEF BlockingReturns, TaskFrame
  <2> QED
    BY <2>1 DEF ServiceInv, ClosuresAreAwaited, RowsMatchTasks, RecordedIsClosed,
                PromisesAreKept, OneWaitsPerKey, TaskFrame, Live
<1>8. ASSUME Polled(j), pc[j] \in {"working", "returned"}, AfterRecord(j),
             UNCHANGED <<key, foreground, open, blocking, promised, seen, shared,
                         daemon, desired, restarts>>,
             \/ row' = [row EXCEPT ![j] = "succeeded"] /\ faults' = faults
             \/ WriteRow(j, "failed")
      PROVE  ServiceInv'
  <2>1. \/ pc' = [pc EXCEPT ![j] = "recorded"]
        \/ pc' = NotifyWaiters([pc EXCEPT ![j] = "gone"])
    BY <1>8 DEF AfterRecord, ReleaseActiveJob
  <2>2. /\ pc'[j] \in {"recorded", "gone"}
        /\ \A i \in Jobs \ {j} :
             pc'[i] = pc[i] \/ (pc[i] = "parked" /\ pc'[i] = "ready")
    <3>1. CASE pc' = [pc EXCEPT ![j] = "recorded"]
      BY <1>0, <3>1
    <3>2. CASE pc' = NotifyWaiters([pc EXCEPT ![j] = "gone"])
      BY <1>0, <3>2, EndingTaskWakes
    <3> QED
      BY <2>1, <3>1, <3>2
  <2>3. /\ row'[j] # "running" \/ faults' > 0
        /\ faults' \in Nat /\ faults' >= faults
        /\ \A i \in Jobs \ {j} : row'[i] = row[i]
    BY <1>0, <1>8 DEF WriteRow, DbWrites, DbFails, TypeOK
  <2>4. OthersKeepGoing(j) /\ TaskFrame /\ daemon # "down"
    BY <1>1, <1>8, <2>2, <2>3 DEF OthersKeepGoing, TaskFrame
  <2>5. seen'[j] >= promised[j]
    BY <1>8 DEF ServiceInv, PromisesAreKept
  <2>6. daemon = "up" => j \notin blocking'
    BY <1>8 DEF ServiceInv, ClosuresAreAwaited
  <2>7. Live(j)' => pc'[j] = "recorded"
    BY <2>2 DEF Live, WaitingPcs, RunningPcs
  <2> QED
    BY <1>0, <1>8, <2>2, <2>3, <2>4, <2>5, <2>6, <2>7, TaskMoveKeeps
    DEF WaitingPcs
<1>9. CASE RecordSuccess(j) \/ RecordFailure(j)
  BY <1>8, <1>9 DEF RecordSuccess, RecordFailure
<1>10. CASE WriteTerminalEvents(j)
  <2>1. /\ pc[j] = "recorded" /\ daemon # "down"
        /\ pc' = NotifyWaiters([pc EXCEPT ![j] = "gone"])
        /\ UNCHANGED <<row, seen, faults, blocking>> /\ TaskFrame
    BY <1>1, <1>10 DEF WriteTerminalEvents, ReleaseActiveJob, TaskFrame
  <2>2. OthersKeepGoing(j) /\ pc'[j] = "gone"
    BY <1>0, <2>1, EndingTaskWakes DEF OthersKeepGoing, TaskFrame
  <2>3. faults = 0 => row[j] # "running"
    BY <2>1 DEF ServiceInv, RecordedIsClosed
  <2>4. ~Live(j)' /\ pc'[j] \notin WaitingPcs
    BY <2>2 DEF Live, WaitingPcs, RunningPcs
  <2>5. daemon = "up" => j \notin blocking'
    BY <2>1 DEF ServiceInv, ClosuresAreAwaited
  <2>6. row'[j] = "succeeded" => seen'[j] >= promised[j]
    BY <2>1 DEF ServiceInv, PromisesAreKept
  <2> QED
    <3>1. pc[j] # "gone"
      BY <2>1
    <3>2. blocking' \subseteq blocking \cup {j}
      BY <2>1
    <3>3. ~(faults' = 0 /\ row'[j] = "running")
      BY <2>1, <2>3
    <3>4. pc'[j] \notin {"working", "blocking", "returned"}
      BY <2>2
    <3>5. faults' \in Nat /\ faults' >= faults
      BY <1>0, <2>1
    <3> QED
      BY <1>0, <2>1, <2>2, <2>4, <2>5, <2>6, <3>1, <3>2, <3>3, <3>4, <3>5, TaskMoveKeeps
<1>11. CASE DropTask(j)
  <2>1. /\ pc[j] # "gone" /\ daemon \in {"stopping", "dropping"}
        /\ pc' = NotifyWaiters([pc EXCEPT ![j] = "gone"])
        /\ WriteRow(j, "failed")
        /\ UNCHANGED <<seen, blocking>> /\ TaskFrame
    BY <1>0, <1>11 DEF DropTask, Abandon, ReleaseActiveJob, TaskFrame
  <2>2. /\ row'[j] = "failed" \/ (row'[j] = row[j] /\ faults' > 0)
        /\ faults' \in Nat /\ faults' >= faults
        /\ \A i \in Jobs \ {j} : row'[i] = row[i]
    BY <1>0, <2>1 DEF WriteRow, DbWrites, DbFails, TypeOK
  <2>3. OthersKeepGoing(j) /\ pc'[j] = "gone"
    BY <1>0, <2>1, <2>2, EndingTaskWakes DEF OthersKeepGoing, TaskFrame
  <2>4. ~Live(j)' /\ pc'[j] \notin WaitingPcs
    BY <2>3 DEF Live, WaitingPcs, RunningPcs
  <2>5. row'[j] = "succeeded" => seen'[j] >= promised[j]
    BY <2>1, <2>2 DEF ServiceInv, PromisesAreKept
  <2> QED
    <3>1. blocking' \subseteq blocking \cup {j} /\ daemon \notin {"up", "down"}
      BY <2>1
    <3>2. ~(faults' = 0 /\ row'[j] = "running")
      BY <2>2
    <3>3. pc'[j] \notin {"working", "blocking", "returned"}
      BY <2>3
    <3> QED
      BY <1>0, <2>1, <2>2, <2>3, <2>4, <2>5, <3>1, <3>2, <3>3, TaskMoveKeeps
<1> QED
  BY <1>2, <1>3, <1>4, <1>5, <1>6, <1>7, <1>9, <1>10, <1>11 DEF TaskStep

(* A request joins the waiting job of its key: the job has not read its input
   yet, so it may promise the state the caller sees. *)
LEMMA CoalesceServes ==
    ASSUME ServiceInv, QueueInv', NEW k \in Keys, NEW fg \in BOOLEAN, Coalesce(k, fg)
    PROVE  ServiceInv'
<1>1. PICK j \in MatchingQueuedJob(k) :
        promised' = IF k = UpdateSystem THEN promised
                    ELSE [promised EXCEPT ![j] = desired[k]]
  BY DEF Coalesce
<1>2. UNCHANGED <<queueVars, pc, key, row, blocking, seen, daemon, desired, faults>>
  BY DEF Coalesce
<1>3. j \in Jobs /\ key[j] = k /\ pc[j] \in WaitingPcs
  BY <1>1 DEF MatchingQueuedJob, ServiceInv, QueueInv, OneAtATime, InQueue
<1>4. promised \in [Jobs -> Nat] /\ desired[k] \in Nat
  BY DEF ServiceInv, QueueInv, TypeOK
<1>5. \A i \in Jobs : \/ promised'[i] = promised[i]
                      \/ i = j /\ promised'[i] = desired[key[i]] /\ desired[key[i]] \in Nat
  BY <1>1, <1>3, <1>4
<1>6. row[j] = "running" /\ pc[j] \notin {"working", "blocking", "returned"}
  BY <1>3 DEF ServiceInv, RowsMatchTasks, Live, WaitingPcs
<1>7. PromisesAreKept'
  BY <1>2, <1>5, <1>6 DEF ServiceInv, PromisesAreKept, Live
<1> QED
  BY <1>2, <1>7 DEF ServiceInv, ClosuresAreAwaited, RowsMatchTasks,
                    RecordedIsClosed, OneWaitsPerKey, Live

(* A new job waits alone for its key and promises the state of now. *)
LEMMA EnqueueServes ==
    ASSUME ServiceInv, QueueInv', NEW k \in Keys, NEW fg \in BOOLEAN, Enqueue(k, fg)
    PROVE  ServiceInv'
<1>1. PICK j \in Jobs :
         /\ IsNextJobId(j)
         /\ row' = [row EXCEPT ![j] = "running"]
         /\ key' = [key EXCEPT ![j] = k]
         /\ promised' = [promised EXCEPT ![j] = desired[k]]
         /\ pc' = NotifyWaiters([pc EXCEPT ![j] = IF fg THEN "accepting" ELSE "ready"])
  BY DEF Enqueue
<1>2. UNCHANGED <<blocking, seen, daemon, desired, faults>>
  BY DEF Enqueue
<1>3. daemon \in {"up", "stopping"}
  BY DEF Enqueue, MayEnqueue
<1>4. pc \in [Jobs -> Pcs] /\ TypeOK
  BY QueueFacts DEF ServiceInv, QueueInv
<1>5. /\ pc'[j] \in {"accepting", "ready"}
      /\ \A i \in Jobs \ {j} :
           pc'[i] = pc[i] \/ (pc[i] = "parked" /\ pc'[i] = "ready")
  BY <1>1, <1>4 DEF NotifyWaiters
<1>6. /\ row'[j] = "running" /\ key'[j] = k /\ promised'[j] = desired[k]
      /\ \A i \in Jobs \ {j} : row'[i] = row[i] /\ key'[i] = key[i]
                               /\ promised'[i] = promised[i]
  BY <1>1, <1>4 DEF TypeOK
<1>7. ~Live(j)
  BY <1>1 DEF ServiceInv, QueueInv, RowsInOrder, IsNextJobId
<1>8. \A i \in Jobs \ {j} : /\ Live(i)' <=> Live(i)
                            /\ pc'[i] = "recorded" <=> pc[i] = "recorded"
                            /\ pc'[i] = "blocking" <=> pc[i] = "blocking"
                            /\ pc'[i] \in WaitingPcs <=> pc[i] \in WaitingPcs
                            /\ pc'[i] \in {"working", "blocking", "returned"}
                                 <=> pc[i] \in {"working", "blocking", "returned"}
  BY <1>4, <1>5 DEF Live, WaitingPcs, RunningPcs
<1>9. Live(j)' /\ pc'[j] \notin {"working", "blocking", "returned", "recorded"}
  BY <1>5 DEF Live, WaitingPcs
<1>10. ClosuresAreAwaited'
  <2>1. daemon = "up" => j \notin blocking
    BY <1>7 DEF ServiceInv, ClosuresAreAwaited, Live, RunningPcs
  <2> QED
    BY <1>2, <1>3, <1>4, <1>8, <2>1 DEF ServiceInv, ClosuresAreAwaited, TypeOK
<1>11. RowsMatchTasks' /\ RecordedIsClosed'
  BY <1>2, <1>6, <1>8, <1>9 DEF ServiceInv, RowsMatchTasks, RecordedIsClosed
<1>12. PromisesAreKept'
  <2>1. desired[k] \in Nat /\ desired[k] <= desired[k]
    BY <1>4 DEF TypeOK
  <2> QED
    BY <1>2, <1>6, <1>8, <1>9, <2>1 DEF ServiceInv, PromisesAreKept
<1>13. \A i \in Jobs : pc[i] \in WaitingPcs => key[i] # k
  BY DEF Enqueue, MatchingQueuedJob, ServiceInv, QueueInv, OneAtATime, InQueue
<1>14. OneWaitsPerKey'
  BY <1>6, <1>8, <1>13 DEF ServiceInv, OneWaitsPerKey
<1> QED
  BY <1>10, <1>11, <1>12, <1>14 DEF ServiceInv

(* The service invariant is inductive. *)
LEMMA ServiceInvStep == ServiceInv /\ [Next]_vars => ServiceInv'
<1> SUFFICES ASSUME ServiceInv, [Next]_vars PROVE ServiceInv'
  OBVIOUS
<1>0. QueueInv' /\ TypeOK
  BY QueueInvStep DEF ServiceInv, QueueInv
<1>1. ASSUME UNCHANGED <<pc, key, row, blocking, promised, seen, daemon, desired>>,
             faults' \in Nat, faults \in Nat, faults' >= faults
      PROVE  ServiceInv'
  <2>1. faults' = 0 => faults = 0
    BY <1>1
  <2> QED
    BY <1>0, <1>1, <2>1 DEF ServiceInv, ClosuresAreAwaited, RowsMatchTasks,
        RecordedIsClosed, PromisesAreKept, OneWaitsPerKey, Live
<1>2. faults \in Nat
  BY <1>0, ConstantsAssumption DEF TypeOK
<1>3. CASE UNCHANGED vars \/ UpdateAcquire \/ UpdateRelease
           \/ \E c \in Probers : Probe(c) \/ Unprobe(c)
  BY <1>1, <1>2, <1>3 DEF vars, jobVars, queueVars, UpdateAcquire, UpdateRelease,
        Probe, Unprobe
<1>4. ASSUME NEW k \in Keys, NEW fg \in BOOLEAN, EnqueueFails(k, fg)
      PROVE  ServiceInv'
  BY <1>1, <1>2, <1>4 DEF EnqueueFails, DbFails, jobVars
<1>5. CASE Shutdown \/ DropRuntime
  BY <1>0, <1>5 DEF Shutdown, DropRuntime, queueVars, jobVars, ServiceInv,
        ClosuresAreAwaited, RowsMatchTasks, RecordedIsClosed, PromisesAreKept,
        OneWaitsPerKey, Live
<1>6. CASE Exit
  BY <1>0, <1>6 DEF Exit, queueVars, jobVars, ServiceInv,
        ClosuresAreAwaited, RowsMatchTasks, RecordedIsClosed, PromisesAreKept,
        OneWaitsPerKey, Live
<1>7. CASE Crash
  <2>1. /\ daemon' = "down" /\ blocking' = {} /\ pc' = [j \in Jobs |-> "gone"]
        /\ UNCHANGED <<key, row, promised, seen, desired, faults>>
    BY <1>7 DEF Crash
  <2>2. \A j \in Jobs : pc'[j] = "gone" /\ ~Live(j)'
    BY <2>1 DEF Live, WaitingPcs, RunningPcs
  <2> QED
    BY <1>0, <2>1, <2>2 DEF ServiceInv, ClosuresAreAwaited, RowsMatchTasks,
        RecordedIsClosed, PromisesAreKept, OneWaitsPerKey, WaitingPcs
<1>8. CASE Start
  <2>1. /\ daemon = "down" /\ daemon' = "up"
        /\ UNCHANGED <<pc, key, blocking, promised, seen, desired, faults>>
    BY <1>8 DEF Start
  <2>2. \A j \in Jobs : row'[j] # "running" /\ (row'[j] = "succeeded" => row[j] = "succeeded")
    BY <1>0, <1>8 DEF Start, FailRunningJobs, TypeOK
  <2>3. blocking = {} /\ \A j \in Jobs : ~Live(j)
    BY <2>1 DEF ServiceInv, ClosuresAreAwaited
  <2> QED
    BY <1>0, <2>1, <2>2, <2>3 DEF ServiceInv, ClosuresAreAwaited, RowsMatchTasks,
        RecordedIsClosed, PromisesAreKept, OneWaitsPerKey, Live
<1>9. ASSUME NEW k \in Scopes, Change(k) PROVE ServiceInv'
  <2>1. UNCHANGED <<pc, key, row, blocking, promised, seen, daemon, faults>>
    BY <1>9 DEF Change, jobVars
  <2>2. /\ desired \in [Keys -> Nat] /\ k \in Keys
        /\ desired' = [desired EXCEPT ![k] = @ + 1]
    BY <1>0, <1>9 DEF TypeOK, Change, Keys
  <2>3. \A l \in Keys : desired'[l] \in Nat /\ desired[l] \in Nat /\ desired'[l] >= desired[l]
    BY <2>2
  <2>4. \A j \in Jobs : promised[j] \in Nat /\ (Live(j) => key[j] \in Keys)
    BY <1>0 DEF TypeOK, ServiceInv, QueueInv, RowsInOrder
  <2>5. \A j \in Jobs : Live(j) => promised[j] <= desired'[key[j]]
    BY <2>3, <2>4 DEF ServiceInv, PromisesAreKept
  <2> QED
    BY <1>0, <2>1, <2>5 DEF ServiceInv, ClosuresAreAwaited, RowsMatchTasks,
        RecordedIsClosed, PromisesAreKept, OneWaitsPerKey, Live
<1> QED
  BY <1>0, <1>3, <1>4, <1>5, <1>6, <1>7, <1>8, <1>9, CoalesceServes, EnqueueServes,
     TaskStepServes DEF Next

(* The rows, the promises made to callers and the closures that run outside their
   tasks stay consistent with the queue, through every fault, shutdown and
   restart: the inductive invariant behind the theorems below. *)
THEOREM ServiceCorrect == Spec => []ServiceInv
BY ServiceInvInit, ServiceInvStep, PTL DEF Spec

(* A caller told that its request joined job j is served when j succeeds, and
   one job waits per key, for every number of scopes, jobs and changes. *)
THEOREM JoinedRequestsAreServed == Spec => []CoalescedRequestServed
<1>1. ServiceInv => CoalescedRequestServed
  <2> SUFFICES ASSUME ServiceInv PROVE CoalescedRequestServed
    OBVIOUS
  <2>1. ASSUME NEW m \in 1..Len(queued), NEW n \in 1..Len(queued),
               key[queued[m]] = key[queued[n]]
        PROVE  m = n
    <3>1. queued[m] \in Jobs /\ queued[n] \in Jobs
      BY QueueFacts DEF ServiceInv
    <3>2. pc[queued[m]] \in WaitingPcs /\ pc[queued[n]] \in WaitingPcs
      BY <3>1 DEF ServiceInv, QueueInv, OneAtATime, InQueue
    <3>3. queued[m] = queued[n] /\ queued[m] \in Nat
      BY <2>1, <3>1, <3>2, QueueFacts DEF ServiceInv, OneWaitsPerKey
    <3>4. ~(m < n) /\ ~(n < m)
      BY <3>3 DEF ServiceInv, QueueInv, StartsInOrder
    <3> QED
      BY <3>4
  <2> QED
    BY <2>1 DEF ServiceInv, PromisesAreKept, CoalescedRequestServed
<1> QED
  BY <1>1, ServiceCorrect, PTL

(* While pv update holds the coordination lock, a running daemon has no job
   and no closure in flight. *)
THEOREM UpdateAndWorkExclude == Spec => []UpdateExcludesWork
<1>1. ServiceInv => UpdateExcludesWork
  <2> SUFFICES ASSUME ServiceInv, exclusive = "cli", daemon = "up"
               PROVE  active = None /\ blocking = {}
    BY DEF UpdateExcludesWork
  <2>1. active = None
    BY DEF ServiceInv, QueueInv, LockCoversWork
  <2>2. \A j \in Jobs : pc[j] \notin RunningPcs
    BY <2>1 DEF ServiceInv, QueueInv, OneAtATime
  <2>3. blocking = {}
    BY <2>2 DEF ServiceInv, ClosuresAreAwaited, QueueInv, TypeOK, RunningPcs
  <2> QED
    BY <2>1, <2>3
<1> QED
  BY <1>1, ServiceCorrect, PTL

(* Rows of pv.db and tasks agree through failed writes, drops, crashes and
   restarts. *)
THEOREM RowsFollowTasks == Spec => []RowsMatchTasks
<1>1. ServiceInv => RowsMatchTasks
  BY DEF ServiceInv
<1> QED
  BY <1>1, ServiceCorrect, PTL

-----------------------------------------------------------------------------
(***************************************************************************)
(* The refinement.  A state of the queue maps to the keys that wait and    *)
(* the key, phase and input of the active job; every step of the queue is  *)
(* a step of SerialQueue or changes nothing there.                         *)
(***************************************************************************)

(* The mapping read off the tasks instead of the queue. *)
MappingShape ==
    /\ WaitingKeys = {key[j] : j \in {i \in Jobs : pc[i] \in WaitingPcs}}
    /\ WaitingKeys = {} <=> queued = <<>>
    /\ WaitingKeys \subseteq Keys
    /\ active # None => /\ active \in Jobs /\ pc[active] \in RunningPcs
                        /\ key[active] \in Keys /\ RunningKey # NoKey

(* The keys that wait are those of the waiting tasks, and the running key is
   the one of a job past wait_for_turn. *)
LEMMA MappingFacts == QueueInv => MappingShape
<1> SUFFICES ASSUME QueueInv PROVE MappingShape
  OBVIOUS
<1>1. WaitingKeys = {key[j] : j \in {i \in Jobs : pc[i] \in WaitingPcs}}
  BY QueueFacts DEF WaitingKeys, QueueInv, OneAtATime, InQueue
<1>2. WaitingKeys = {} <=> queued = <<>>
  <2>1. queued \in Seq(Jobs)
    BY DEF QueueInv, TypeOK
  <2>2. queued # <<>> => 1 \in 1..Len(queued)
    BY <2>1
  <2>3. queued = <<>> => 1..Len(queued) = {}
    BY <2>1
  <2> QED
    BY <2>2, <2>3 DEF WaitingKeys
<1>3. WaitingKeys \subseteq Keys
  BY <1>1 DEF QueueInv, RowsInOrder, Live
<1>4. ASSUME active # None
      PROVE  /\ active \in Jobs /\ pc[active] \in RunningPcs
             /\ key[active] \in Keys /\ RunningKey # NoKey
  BY <1>4, NoKeyAssumption
  DEF QueueInv, TypeOK, OneAtATime, RowsInOrder, Live, RunningKey
<1> QED
  BY <1>1, <1>2, <1>3, <1>4 DEF MappingShape

(* A step that starts and ends no job changes nothing in the mapping. *)
LEMMA MappingStays ==
    ASSUME QueueInv, QueueInv', active' = active,
           \A i \in Jobs : /\ pc'[i] \in WaitingPcs <=> pc[i] \in WaitingPcs
                           /\ Live(i) => key'[i] = key[i],
           active # None => /\ pc'[active] = "started" <=> pc[active] = "started"
                            /\ pc'[active] = "recorded" <=> pc[active] = "recorded"
                            /\ pc[active] # "started" => seen'[active] = seen[active]
    PROVE  UNCHANGED <<WaitingKeys, RunningKey, RunningPhase, RunningSeen>>
<1>1. WaitingKeys = {key[j] : j \in {i \in Jobs : pc[i] \in WaitingPcs}}
  BY MappingFacts DEF MappingShape
<1>2. WaitingKeys' = {key'[j] : j \in {i \in Jobs : pc'[i] \in WaitingPcs}}
  <2>1. MappingShape'
    BY MappingFacts, PTL
  <2> QED
    BY <2>1 DEF MappingShape
<1>3. WaitingKeys' = WaitingKeys
  BY <1>1, <1>2 DEF Live
<1>4. active # None => Live(active) /\ active \in Jobs
  BY MappingFacts DEF MappingShape, Live
<1> QED
  BY <1>3, <1>4 DEF RunningKey, RunningPhase, RunningSeen

(* When the active job leaves, the abstract run leaves: the mapping of
   release_active_job. *)
LEMMA ReleaseMaps ==
    ASSUME QueueInv, QueueInv', NEW j \in Jobs, pc[j] \in RunningPcs,
           ReleaseActiveJob(j), key' = key
    PROVE  Abstract!Leave /\ WaitingKeys' = WaitingKeys
<1>0. MappingShape /\ MappingShape'
  BY MappingFacts, PTL
<1>1. /\ active = j /\ active' = None /\ queued' = queued
      /\ exclusive' = IF queued = <<>> /\ exclusive = "daemon" THEN "nobody" ELSE exclusive
  BY DEF QueueInv, OneAtATime, ReleaseActiveJob, ReleaseUpdateLockIfIdle
<1>2. WaitingKeys' = WaitingKeys
  BY <1>1 DEF WaitingKeys
<1>3. RunningKey' = NoKey /\ RunningPhase' = "idle" /\ RunningSeen' = 0
  BY <1>1 DEF RunningKey, RunningPhase, RunningSeen
<1>4. exclusive' = Abstract!LockAfter(WaitingKeys, NoKey)
  BY <1>0, <1>1 DEF MappingShape, Abstract!LockAfter, Abstract!NoKey, NoKey
<1> QED
  BY <1>2, <1>3, <1>4 DEF Abstract!Leave, Abstract!NoKey, NoKey

(* Every step of a job's task is a step of the abstract queue or changes
   nothing there. *)
LEMMA TaskStepMaps ==
    ASSUME ServiceInv, QueueInv', NEW j \in Jobs, TaskStep(j)
    PROVE  [Abstract!SerialNext]_(Abstract!serialVars)
<1>0. /\ QueueInv /\ TypeOK /\ pc \in [Jobs -> Pcs] /\ MappingShape /\ MappingShape'
      /\ ClosuresAreAwaited
  <2>1. QueueInv /\ TypeOK /\ ClosuresAreAwaited
    BY DEF ServiceInv, QueueInv
  <2>2. MappingShape
    BY <2>1, MappingFacts
  <2>3. MappingShape'
    BY MappingFacts, PTL
  <2> QED
    BY <2>1, <2>2, <2>3, QueueFacts
<1>1. CASE WriteAccepted(j) \/ SpawnBlocking(j) \/ BlockingReturns(j) \/ ClientLost(j)
  <2>1. /\ UNCHANGED <<queued, active, exclusive, key, seen, shared, daemon, desired, applied>>
        /\ \/ pc' = pc
           \/ pc[j] = "accepting" /\ pc' = [pc EXCEPT ![j] = "ready"]
           \/ pc[j] = "working" /\ pc' = [pc EXCEPT ![j] = "blocking"]
           \/ pc[j] = "blocking" /\ pc' = [pc EXCEPT ![j] = "returned"]
    BY <1>1 DEF WriteAccepted, SpawnBlocking, BlockingReturns, ClientLost, queueVars
  <2>2. \A i \in Jobs : /\ pc'[i] \in WaitingPcs <=> pc[i] \in WaitingPcs
                        /\ pc'[i] = "started" <=> pc[i] = "started"
                        /\ pc'[i] = "recorded" <=> pc[i] = "recorded"
    BY <1>0, <2>1 DEF WaitingPcs
  <2>3. UNCHANGED <<WaitingKeys, RunningKey, RunningPhase, RunningSeen>>
    BY <1>0, <2>1, <2>2, MappingStays DEF MappingShape
  <2> QED
    BY <2>1, <2>3 DEF Abstract!serialVars
<1>2. CASE WaitForTurn(j) /\ ~IsTurn(j)
  <2>1. /\ UNCHANGED <<queued, active, exclusive, key, seen, shared, daemon, desired, applied>>
        /\ pc[j] = "ready" /\ pc' = [pc EXCEPT ![j] = "parked"]
    BY <1>2 DEF WaitForTurn
  <2>2. \A i \in Jobs : /\ pc'[i] \in WaitingPcs <=> pc[i] \in WaitingPcs
                        /\ pc'[i] = "started" <=> pc[i] = "started"
                        /\ pc'[i] = "recorded" <=> pc[i] = "recorded"
    BY <1>0, <2>1 DEF WaitingPcs
  <2>3. UNCHANGED <<WaitingKeys, RunningKey, RunningPhase, RunningSeen>>
    BY <1>0, <2>1, <2>2, MappingStays DEF MappingShape
  <2> QED
    BY <2>1, <2>3 DEF Abstract!serialVars
<1>3. CASE WaitForTurn(j) /\ IsTurn(j)
  <2>1. /\ active = None /\ active' = j /\ pc[j] = "ready" /\ pc' = [pc EXCEPT ![j] = "started"]
        /\ UNCHANGED <<exclusive, key, seen, shared, daemon, desired, applied>>
        /\ daemon \in {"up", "stopping"}
    BY <1>3 DEF WaitForTurn, IsTurn, Polled
  <2>2. j # None /\ key[j] \in Keys
    BY <1>0, <2>1, QueueFacts DEF QueueInv, RowsInOrder, Live, WaitingPcs
  <2>3. \A i \in Jobs : pc'[i] = IF i = j THEN "started" ELSE pc[i]
    BY <1>0, <2>1
  <2>4. key[j] \in WaitingKeys /\ WaitingKeys' = WaitingKeys \ {key[j]}
    <3>1. pc[j] \in WaitingPcs /\ pc'[j] \notin WaitingPcs
      BY <2>1, <2>3 DEF WaitingPcs
    <3>2. \A i \in Jobs : pc'[i] \in WaitingPcs <=> pc[i] \in WaitingPcs /\ i # j
      BY <2>3, <3>1
    <3>3. \A i \in Jobs : pc[i] \in WaitingPcs /\ key[i] = key[j] => i = j
      BY <3>1 DEF ServiceInv, OneWaitsPerKey
    <3> QED
      BY <1>0, <2>1, <3>1, <3>2, <3>3 DEF MappingShape
  <2>5. RunningKey = NoKey /\ RunningKey' = key[j]
    BY <2>1, <2>2 DEF RunningKey
  <2>6. RunningPhase' = "begun" /\ RunningSeen' = RunningSeen
    BY <2>1, <2>2, <2>3 DEF RunningPhase, RunningSeen
  <2>7. Abstract!Begin(key[j])
    BY <2>1, <2>4, <2>5, <2>6 DEF Abstract!Begin, Abstract!NoKey, NoKey
  <2> QED
    BY <2>2, <2>7 DEF Abstract!SerialNext, Abstract!Keys, Keys
<1>4. CASE BeginWork(j)
  <2>1. /\ pc[j] = "started" /\ pc' = [pc EXCEPT ![j] = "working"]
        /\ seen' = [seen EXCEPT ![j] = desired[key[j]]]
        /\ UNCHANGED <<queued, active, exclusive, key, shared, daemon, desired, applied>>
    BY <1>4 DEF BeginWork, queueVars
  <2>2. active = j /\ active # None
    BY <1>0, <2>1 DEF QueueInv, OneAtATime, RunningPcs
  <2>3. pc'[j] = "working" /\ seen'[j] = desired[key[j]]
    BY <1>0, <2>1 DEF TypeOK
  <2>4. WaitingKeys' = WaitingKeys
    BY <2>1 DEF WaitingKeys
  <2>5. RunningKey = key[j] /\ RunningKey' = RunningKey
    BY <2>1, <2>2 DEF RunningKey
  <2>6. RunningPhase = "begun" /\ RunningPhase' = "read" /\ RunningSeen' = desired[RunningKey]
    BY <2>1, <2>2, <2>3, <2>5 DEF RunningPhase, RunningSeen
  <2>7. Abstract!Read
    BY <2>1, <2>4, <2>5, <2>6 DEF Abstract!Read
  <2> QED
    BY <2>7 DEF Abstract!SerialNext
<1>5. ASSUME pc[j] \in {"working", "returned"}, AfterRecord(j),
             UNCHANGED <<key, open, seen>>
      PROVE  /\ RunningPhase = "read" /\ RunningKey = key[j] /\ RunningSeen = seen[j]
             /\ Abstract!Close /\ WaitingKeys' = WaitingKeys
  <2>1. active = j /\ active # None
    BY <1>0, <1>5 DEF QueueInv, OneAtATime, RunningPcs
  <2>2. RunningPhase = "read" /\ RunningKey = key[j] /\ RunningSeen = seen[j]
    BY <1>5, <2>1 DEF RunningPhase, RunningKey, RunningSeen
  <2>3. CASE j \in open
    <3>1. /\ pc' = [pc EXCEPT ![j] = "recorded"]
          /\ UNCHANGED <<queued, active, exclusive>>
      BY <1>5, <2>3 DEF AfterRecord
    <3>2. pc'[j] = "recorded"
      BY <1>0, <3>1
    <3>3. RunningPhase' = "done" /\ UNCHANGED <<RunningKey, RunningSeen, WaitingKeys>>
      BY <1>5, <2>1, <3>1, <3>2 DEF RunningPhase, RunningKey, RunningSeen, WaitingKeys
    <3> QED
      BY <2>2, <3>1, <3>3 DEF Abstract!Close
  <2>4. CASE j \notin open
    <3>1. ReleaseActiveJob(j) /\ pc[j] \in RunningPcs
      BY <1>5, <2>4 DEF AfterRecord, RunningPcs
    <3>2. Abstract!Leave /\ WaitingKeys' = WaitingKeys
      BY <1>0, <1>5, <3>1, ReleaseMaps
    <3> QED
      BY <2>2, <3>2 DEF Abstract!Close
  <2> QED
    BY <2>3, <2>4
<1>6. CASE RecordSuccess(j)
  <2>1. /\ pc[j] \in {"working", "returned"} /\ AfterRecord(j)
        /\ applied' = [applied EXCEPT ![key[j]] = seen[j]]
        /\ UNCHANGED <<key, open, seen, shared, daemon, desired>>
    BY <1>6 DEF RecordSuccess
  <2>2. Abstract!Succeed
    BY <1>5, <2>1 DEF Abstract!Succeed
  <2> QED
    BY <2>2 DEF Abstract!SerialNext
<1>7. CASE RecordFailure(j)
  <2>1. /\ pc[j] \in {"working", "returned"} /\ AfterRecord(j)
        /\ UNCHANGED <<key, open, seen, shared, daemon, desired, applied>>
    BY <1>7 DEF RecordFailure
  <2>2. Abstract!Fail
    BY <1>5, <2>1 DEF Abstract!Fail
  <2> QED
    BY <2>2 DEF Abstract!SerialNext
<1>8. CASE WriteTerminalEvents(j)
  <2>1. /\ pc[j] = "recorded" /\ pc[j] \in RunningPcs /\ ReleaseActiveJob(j)
        /\ UNCHANGED <<key, shared, daemon, desired, applied>>
    BY <1>8 DEF WriteTerminalEvents, RunningPcs
  <2>2. RunningPhase = "done"
    BY <1>0, <2>1 DEF QueueInv, OneAtATime, RunningPhase
  <2>3. Abstract!End
    BY <1>0, <2>1, <2>2, ReleaseMaps DEF Abstract!End
  <2> QED
    BY <2>3 DEF Abstract!SerialNext
<1>9. CASE DropTask(j) /\ pc[j] \notin WaitingPcs
  <2>1. /\ pc[j] \in RunningPcs /\ ReleaseActiveJob(j) /\ daemon \in {"stopping", "dropping"}
        /\ UNCHANGED <<key, shared, daemon, desired, applied>>
    BY <1>9 DEF DropTask, Abandon, Live
  <2>2. RunningKey # NoKey
    BY <1>0, <2>1 DEF QueueInv, OneAtATime, MappingShape
  <2>3. Abstract!DropRunning
    BY <1>0, <2>1, <2>2, ReleaseMaps DEF Abstract!DropRunning, Abstract!NoKey, NoKey
  <2> QED
    BY <2>3 DEF Abstract!SerialNext
<1>10. CASE DropTask(j) /\ pc[j] \in WaitingPcs
  <2>1. /\ daemon \in {"stopping", "dropping"}
        /\ queued' = Without(queued, j) /\ active' = active
        /\ exclusive' = IF active = None /\ queued' = <<>> /\ exclusive = "daemon"
                          THEN "nobody" ELSE exclusive
        /\ pc' = NotifyWaiters([pc EXCEPT ![j] = "gone"])
        /\ UNCHANGED <<key, seen, shared, daemon, desired, applied>>
    BY <1>10 DEF DropTask, Abandon, ReleaseUpdateLockIfIdle
  <2>2. /\ pc'[j] = "gone"
        /\ \A i \in Jobs \ {j} : pc'[i] = pc[i] \/ (pc[i] = "parked" /\ pc'[i] = "ready")
    BY <1>0, <2>1, EndingTaskWakes
  <2>3. \A i \in Jobs : pc'[i] \in WaitingPcs <=> pc[i] \in WaitingPcs /\ i # j
    BY <2>2 DEF WaitingPcs
  <2>4. \A i \in Jobs : pc[i] \in WaitingPcs /\ key[i] = key[j] => i = j
    BY <1>10 DEF ServiceInv, OneWaitsPerKey
  <2>5. key[j] \in WaitingKeys /\ WaitingKeys' = WaitingKeys \ {key[j]}
    BY <1>0, <1>10, <2>1, <2>3, <2>4 DEF MappingShape
  <2>6. active # None => pc'[active] = pc[active]
    BY <1>0, <1>10, <2>2 DEF MappingShape, RunningPcs, WaitingPcs
  <2>7. UNCHANGED <<RunningKey, RunningPhase, RunningSeen>>
    BY <2>1, <2>6 DEF RunningKey, RunningPhase, RunningSeen
  <2>8. exclusive' = Abstract!LockAfter(WaitingKeys \ {key[j]}, RunningKey)
    <3>1. RunningKey = NoKey <=> active = None
      BY <1>0 DEF MappingShape, RunningKey
    <3>2. queued' = <<>> <=> WaitingKeys \ {key[j]} = {}
      BY <1>0, <2>5 DEF MappingShape
    <3> QED
      BY <2>1, <3>1, <3>2 DEF Abstract!LockAfter, Abstract!NoKey, NoKey
  <2>9. Abstract!DropWaiting(key[j])
    BY <2>1, <2>5, <2>7, <2>8 DEF Abstract!DropWaiting
  <2> QED
    BY <1>0, <2>5, <2>9 DEF MappingShape, Abstract!SerialNext, Abstract!Keys, Keys
<1> QED
  BY <1>1, <1>2, <1>3, <1>4, <1>6, <1>7, <1>8, <1>9, <1>10 DEF TaskStep

(* A new job is a request submitted for its key. *)
LEMMA EnqueueMaps ==
    ASSUME ServiceInv, QueueInv', NEW k \in Keys, NEW fg \in BOOLEAN, Enqueue(k, fg)
    PROVE  Abstract!Submit(k)
<1>0. QueueInv /\ TypeOK /\ pc \in [Jobs -> Pcs] /\ MappingShape /\ MappingShape'
  <2>1. QueueInv /\ TypeOK
    BY DEF ServiceInv, QueueInv
  <2>2. MappingShape'
    BY MappingFacts, PTL
  <2> QED
    BY <2>1, <2>2, MappingFacts, QueueFacts
<1>1. PICK j \in Jobs :
         /\ IsNextJobId(j)
         /\ key' = [key EXCEPT ![j] = k]
         /\ pc' = NotifyWaiters([pc EXCEPT ![j] = IF fg THEN "accepting" ELSE "ready"])
  BY DEF Enqueue
<1>2. /\ UNCHANGED <<active, seen, shared, daemon, desired, applied>>
      /\ exclusive' = "daemon" /\ daemon \in {"up", "stopping"}
      /\ exclusive = "daemon" \/ (exclusive = "nobody" /\ shared = {})
  BY DEF Enqueue, MayEnqueue, CanLockExclusively
<1>3. /\ pc'[j] \in WaitingPcs /\ key'[j] = k
      /\ \A i \in Jobs \ {j} : /\ key'[i] = key[i]
                               /\ pc'[i] = pc[i] \/ (pc[i] = "parked" /\ pc'[i] = "ready")
  BY <1>0, <1>1 DEF NotifyWaiters, TypeOK, WaitingPcs
<1>4. ~Live(j)
  BY <1>0, <1>1 DEF QueueInv, RowsInOrder, IsNextJobId
<1>5. WaitingKeys' = WaitingKeys \cup {k}
  <2>1. \A i \in Jobs : pc'[i] \in WaitingPcs <=> pc[i] \in WaitingPcs \/ i = j
    BY <1>3 DEF WaitingPcs
  <2>2. \A i \in Jobs : pc[i] \in WaitingPcs => i # j
    BY <1>4 DEF Live
  <2> QED
    BY <1>0, <1>3, <2>1, <2>2 DEF MappingShape
<1>6. k \notin WaitingKeys
  BY <1>0, QueueFacts DEF Enqueue, MatchingQueuedJob, WaitingKeys
<1>7. active # None => active # j /\ pc'[active] = pc[active] /\ key'[active] = key[active]
  BY <1>0, <1>3, <1>4 DEF MappingShape, Live, RunningPcs
<1>8. UNCHANGED <<RunningKey, RunningPhase, RunningSeen>>
  BY <1>2, <1>7 DEF RunningKey, RunningPhase, RunningSeen
<1> QED
  BY <1>2, <1>5, <1>6, <1>8 DEF Abstract!Submit

(* Every step of the queue maps to a step of the abstract queue or to a
   stutter. *)
LEMMA StepMaps ==
    ServiceInv /\ QueueInv' /\ [Next]_vars => [Abstract!SerialNext]_(Abstract!serialVars)
<1> SUFFICES ASSUME ServiceInv, QueueInv', [Next]_vars
             PROVE  [Abstract!SerialNext]_(Abstract!serialVars)
  OBVIOUS
<1>0. QueueInv /\ TypeOK /\ MappingShape
  BY MappingFacts DEF ServiceInv, QueueInv
<1>1. ASSUME UNCHANGED <<queued, active, pc, key, seen>>
      PROVE  UNCHANGED <<WaitingKeys, RunningKey, RunningPhase, RunningSeen>>
  BY <1>1 DEF WaitingKeys, RunningKey, RunningPhase, RunningSeen
<1>2. CASE UNCHANGED vars
  BY <1>1, <1>2 DEF vars, queueVars, jobVars, Abstract!serialVars
<1>3. ASSUME NEW k \in Keys, NEW fg \in BOOLEAN, Coalesce(k, fg)
      PROVE  UNCHANGED Abstract!serialVars
  BY <1>1, <1>3 DEF Coalesce, queueVars, Abstract!serialVars
<1>4. ASSUME NEW k \in Keys, NEW fg \in BOOLEAN, EnqueueFails(k, fg)
      PROVE  UNCHANGED Abstract!serialVars
  <2>1. exclusive' = exclusive
    BY <1>0, <1>4 DEF EnqueueFails, CanLockExclusively, QueueInv, LockCoversWork
  <2> QED
    BY <1>1, <1>4, <2>1 DEF EnqueueFails, jobVars, Abstract!serialVars
<1>5. ASSUME NEW k \in Keys, NEW fg \in BOOLEAN, Enqueue(k, fg)
      PROVE  Abstract!SerialNext
  BY <1>5, EnqueueMaps DEF Abstract!SerialNext, Abstract!Keys, Keys
<1>6. CASE Shutdown \/ DropRuntime \/ Exit \/ Start
  <2>1. /\ UNCHANGED <<queued, active, pc, key, seen, exclusive, shared, desired, applied>>
        /\ \/ daemon = "up" /\ daemon' = "stopping"
           \/ daemon = "stopping" /\ daemon' = "dropping"
           \/ daemon = "dropping" /\ daemon' = "down" /\ \A j \in Jobs : ~Live(j)
           \/ daemon = "down" /\ daemon' = "up"
    BY <1>6 DEF Shutdown, DropRuntime, Exit, Start, queueVars, jobVars
  <2>2. (\A j \in Jobs : ~Live(j)) => WaitingKeys = {} /\ RunningKey = NoKey
    BY <1>0 DEF MappingShape, Live, RunningKey
  <2>3. Abstract!Stop
    BY <1>1, <2>1, <2>2 DEF Abstract!Stop, Abstract!NoKey, NoKey
  <2> QED
    BY <2>3 DEF Abstract!SerialNext
<1>7. CASE Crash
  <2>1. /\ daemon # "down" /\ daemon' = "down" /\ queued' = <<>> /\ active' = None
        /\ exclusive' = IF exclusive = "daemon" THEN "nobody" ELSE exclusive
        /\ UNCHANGED <<shared, desired, applied>>
    BY <1>7 DEF Crash
  <2>2. WaitingKeys' = {}
    <3>1. MappingShape'
      BY MappingFacts, PTL
    <3> QED
      BY <2>1, <3>1 DEF MappingShape
  <2>3. RunningKey' = NoKey /\ RunningPhase' = "idle" /\ RunningSeen' = 0
    BY <2>1 DEF RunningKey, RunningPhase, RunningSeen
  <2>4. Abstract!Die
    BY <2>1, <2>2, <2>3 DEF Abstract!Die, Abstract!NoKey, NoKey
  <2> QED
    BY <2>4 DEF Abstract!SerialNext
<1>8. ASSUME NEW k \in Scopes, Change(k) PROVE Abstract!SerialNext
  <2>1. Abstract!Edit(k)
    BY <1>1, <1>8 DEF Change, queueVars, jobVars, Abstract!Edit
  <2> QED
    BY <2>1 DEF Abstract!SerialNext
<1>9. CASE UpdateAcquire \/ UpdateRelease
  <2>1. Abstract!UpdateLocks \/ Abstract!UpdateUnlocks
    BY <1>1, <1>9 DEF UpdateAcquire, UpdateRelease, CanLockExclusively, jobVars,
       Abstract!UpdateLocks, Abstract!UpdateUnlocks
  <2> QED
    BY <2>1 DEF Abstract!SerialNext
<1>10. ASSUME NEW c \in Probers, Probe(c) \/ Unprobe(c) PROVE Abstract!SerialNext
  <2>1. Abstract!Check(c) \/ Abstract!Uncheck(c)
    BY <1>1, <1>10 DEF Probe, Unprobe, queueVars, jobVars, Abstract!Check, Abstract!Uncheck
  <2> QED
    BY <2>1 DEF Abstract!SerialNext
<1> QED
  BY <1>2, <1>3, <1>4, <1>5, <1>6, <1>7, <1>8, <1>9, <1>10, TaskStepMaps DEF Next

(* The queue of the daemon, with its tasks, rows, wakeups and life cycle,
   implements the serial queue that the code around it relies on. *)
THEOREM QueueImplementsSerialQueue == Spec => ImplementsSerialQueue
<1>1. Init => Abstract!SerialInit
  <2> SUFFICES ASSUME Init PROVE Abstract!SerialInit
    OBVIOUS
  <2>1. WaitingKeys = {}
    <3>1. MappingShape
      BY QueueInvInit, MappingFacts
    <3> QED
      BY <3>1 DEF MappingShape, Init
  <2> QED
    BY <2>1 DEF Init, RunningKey, RunningPhase, RunningSeen, Abstract!SerialInit,
       Abstract!NoKey, NoKey, Abstract!Keys, Keys
<1>2. ServiceInv => QueueInv
  BY DEF ServiceInv
<1> QED
  BY <1>1, <1>2, StepMaps, ServiceCorrect, PTL
  DEF Spec, ImplementsSerialQueue, Abstract!SerialSpec

(* An accepted job stays in the queue until it is started, as long as the
   daemon is up: no lost client and no failed write takes it out. *)
THEOREM AcceptedJobsWait == Spec => WaitsUntilStarted
<1>1. QueueInv /\ QueueInv' /\ [Next]_vars =>
        [\A j \in Jobs : InQueue(j) /\ daemon = "up" /\ daemon' = "up"
           => InQueue(j)' \/ active' = j]_vars
  <2> SUFFICES ASSUME QueueInv, QueueInv', Next, NEW j \in Jobs, InQueue(j),
                      daemon = "up", daemon' = "up"
               PROVE  InQueue(j)' \/ active' = j
    BY DEF vars, queueVars
  <2>0. queued \in Seq(Jobs)
    BY DEF QueueInv, TypeOK
  <2>1. CASE queued' = queued
    BY <2>1 DEF InQueue
  <2>2. ASSUME NEW k \in Keys, NEW fg \in BOOLEAN, Enqueue(k, fg)
        PROVE  InQueue(j)'
    <3>1. PICK i \in Jobs : queued' = Append(queued, i)
      BY <2>2 DEF Enqueue
    <3> QED
      BY <2>0, <3>1 DEF InQueue
  <2>3. ASSUME NEW i \in Jobs, WaitForTurn(i), IsTurn(i)
        PROVE  InQueue(j)' \/ active' = j
    <3>1. queued' = Tail(queued) /\ active' = i /\ queued # <<>> /\ queued[1] = i
      BY <2>0, <2>3 DEF WaitForTurn, IsTurn
    <3>2. PICK n \in 1..Len(queued) : queued[n] = j
      BY DEF InQueue
    <3>3. CASE n = 1
      BY <3>1, <3>2, <3>3
    <3>4. CASE n # 1
      <4>1. n - 1 \in 1..Len(queued') /\ queued'[n - 1] = j
        BY <2>0, <3>1, <3>2, <3>4
      <4> QED
        BY <4>1 DEF InQueue
    <3> QED
      BY <3>3, <3>4
  <2>4. CASE Start
    BY <2>1, <2>4 DEF Start, queueVars
  <2>5. ASSUME NEW i \in Jobs, TaskStep(i), ~(WaitForTurn(i) /\ IsTurn(i))
        PROVE  queued' = queued
    BY <2>5 DEF TaskStep, WriteAccepted, WaitForTurn, BeginWork, SpawnBlocking,
       BlockingReturns, ClientLost, RecordSuccess, RecordFailure, AfterRecord,
       ReleaseActiveJob, WriteTerminalEvents, DropTask, queueVars
  <2>6. CASE Shutdown \/ DropRuntime \/ Exit \/ Crash
    BY <2>6 DEF Shutdown, DropRuntime, Exit, Crash
  <2>7. ASSUME \/ \E k \in Keys, fg \in BOOLEAN : Coalesce(k, fg) \/ EnqueueFails(k, fg)
               \/ \E k \in Scopes : Change(k)
               \/ UpdateAcquire \/ UpdateRelease
               \/ \E c \in Probers : Probe(c) \/ Unprobe(c)
        PROVE  queued' = queued
    BY <2>7 DEF Coalesce, EnqueueFails, Change, UpdateAcquire, UpdateRelease, Probe,
       Unprobe, queueVars
  <2> QED
    BY <2>1, <2>2, <2>3, <2>4, <2>5, <2>6, <2>7 DEF Next
<1> QED
  BY <1>1, QueueCorrect, PTL DEF Spec, WaitsUntilStarted
=============================================================================
