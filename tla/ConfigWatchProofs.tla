------------------------- MODULE ConfigWatchProofs -------------------------
(***************************************************************************)
(* No edit of a watched Project config is forgotten, for every set of      *)
(* projects and every number of edits.                                     *)
(***************************************************************************)
EXTENDS ConfigWatch, TLAPS

(* The queue that the watcher is composed with: a key runs exactly when the
   phase says so. *)
SerialTypeOK ==
    /\ waiting \subseteq Keys
    /\ running \in Keys \cup {NoKey}
    /\ phase \in {"idle", "begun", "read", "done"}
    /\ running = NoKey <=> phase = "idle"
    /\ seen \in 0..MaxChanges
    /\ daemon \in {"up", "stopping", "dropping", "down"}
    /\ desired \in [Keys -> 0..MaxChanges]
    /\ applied \in [Keys -> 0..MaxChanges]

(* What was seen, applied or failed is not newer than what is desired, and a
   job that has read its input is at least as new as the last one. *)
VersionsInOrder ==
    /\ \A k \in Keys : applied[k] <= desired[k]
    /\ \A p \in Scopes : /\ failed[p] <= desired[p] /\ unwritten[p] <= desired[p]
                         /\ watched[p] # Unwatched => watched[p] <= desired[p]
    /\ phase = "read" => applied[running] <= seen /\ seen <= desired[running]

(* The watcher and the debouncer live as long as the runtime. *)
DiesWithRuntime ==
    daemon \in {"dropping", "down"} => \A p \in Scopes : watched[p] = Unwatched

(* The newest version of p's config is dealt with or on its way. *)
Followed(p) ==
    \/ applied[p] = desired[p] \/ failed[p] = desired[p] \/ unwritten[p] = desired[p]
    \/ baseline[p] = desired[p]
    \/ InPipeline(p)

(* Every watched project is followed, linked or not: a project may be linked
   again before the watcher has noticed that it was unlinked. *)
WatchedAreFollowed ==
    daemon = "up" => \A p \in Scopes : watched[p] # Unwatched => Followed(p)

WatchInv ==
    /\ WatchTypeOK
    /\ SerialTypeOK
    /\ pending # {} => worker
    /\ VersionsInOrder
    /\ DiesWithRuntime
    /\ WatchedAreFollowed

-----------------------------------------------------------------------------
LEMMA WatchInvInit == WatchInit => WatchInv
<1> SUFFICES ASSUME WatchInit PROVE WatchInv
  OBVIOUS
<1>1. MaxChanges \in Nat /\ 0 \in 0..MaxChanges /\ Unwatched \in 0..Unwatched
  BY SerialAssumption DEF Unwatched
<1>2. WatchTypeOK
  BY <1>1 DEF WatchInit, WatchTypeOK
<1>3. SerialTypeOK
  BY <1>1 DEF WatchInit, SerialInit, SerialTypeOK
<1>4. VersionsInOrder /\ DiesWithRuntime /\ WatchedAreFollowed
  BY <1>1 DEF WatchInit, SerialInit, VersionsInOrder, DiesWithRuntime,
              WatchedAreFollowed, Keys
<1> QED
  BY <1>2, <1>3, <1>4 DEF WatchInv, WatchInit

(* Facts about the constants and the versions that every case needs. *)
LEMMA WatchFacts ==
    ASSUME WatchInv
    PROVE  /\ MaxChanges \in Nat /\ Unwatched \in Nat /\ Unwatched > MaxChanges
           /\ \A k \in Keys : desired[k] \in 0..MaxChanges /\ applied[k] \in 0..MaxChanges
           /\ \A k \in Keys : desired[k] \in Nat /\ applied[k] \in Nat /\ desired[k] # Unwatched
           /\ \A p \in Scopes : /\ p \in Keys /\ p # NoKey /\ watched[p] \in Nat
                              /\ failed[p] \in Nat /\ unwritten[p] \in Nat
           /\ seen \in Nat
           /\ phase \in {"begun", "read", "done"} => running \in Keys /\ running # NoKey
<1>1. MaxChanges \in Nat /\ Unwatched \in Nat /\ Unwatched > MaxChanges
  BY SerialAssumption DEF Unwatched
<1>2. \A k \in Keys : desired[k] \in 0..MaxChanges /\ applied[k] \in 0..MaxChanges
  BY DEF WatchInv, SerialTypeOK
<1>3. \A p \in Scopes : p \in Keys /\ p # NoKey
  BY NoKeyAssumption DEF Keys
<1>4. \A p \in Scopes : watched[p] \in Nat /\ failed[p] \in Nat /\ unwritten[p] \in Nat
  BY <1>1 DEF WatchInv, WatchTypeOK
<1>5. seen \in Nat
  BY <1>1 DEF WatchInv, SerialTypeOK
<1>6. phase \in {"begun", "read", "done"} => running \in Keys /\ running # NoKey
  BY DEF WatchInv, SerialTypeOK
<1> QED
  BY <1>1, <1>2, <1>3, <1>4, <1>5, <1>6

(* The steps of the watcher, the debouncer and the background tasks. *)
LEMMA WatcherStepKeeps ==
    ASSUME WatchInv,
           \/ Poll \/ PollFails \/ Flush
           \/ \E p \in Scopes : TlsHealthTick(p) \/ Link(p) \/ Unlink(p)
    PROVE  WatchInv'
<1>0. /\ WatchTypeOK /\ SerialTypeOK /\ VersionsInOrder /\ DiesWithRuntime
      /\ WatchedAreFollowed /\ (pending # {} => worker)
  BY DEF WatchInv
<1>1. CASE Poll
  <2>1. /\ daemon = "up" /\ pending' = pending \cup Changed
        /\ worker' = (worker \/ Changed # {})
        /\ watched' = [p \in Scopes |-> IF p \in linked THEN desired[p] ELSE Unwatched]
        /\ baseline' = [p \in Scopes |->
                          IF p \in linked /\ watched[p] = Unwatched THEN desired[p]
                                                                    ELSE baseline[p]]
        /\ UNCHANGED <<waiting, running, phase, seen, exclusive, shared, daemon,
                       desired, applied, linked, spawned, failed, unwritten>>
    BY <1>1 DEF outcomes, Poll, Request, serialVars
  <2>2. \A p \in Scopes : desired[p] \in 0..MaxChanges /\ desired[p] \in 0..Unwatched
                          /\ Unwatched \in 0..Unwatched
    <3>1. MaxChanges \in Nat /\ Unwatched \in Nat /\ Unwatched > MaxChanges
      BY WatchFacts
    <3>2. \A p \in Scopes : desired[p] \in 0..MaxChanges
      BY WatchFacts
    <3>3. 0..MaxChanges \subseteq 0..Unwatched /\ Unwatched \in 0..Unwatched
      BY <3>1
    <3> QED
      BY <3>2, <3>3
  <2>3. WatchTypeOK'
    BY <1>0, <2>1, <2>2 DEF WatchTypeOK, Changed
  <2>4. SerialTypeOK'
    BY <1>0, <2>1 DEF SerialTypeOK
  <2>5. VersionsInOrder' /\ DiesWithRuntime'
    BY <1>0, <2>1, WatchFacts DEF VersionsInOrder, DiesWithRuntime
  <2>6. ASSUME NEW p \in Scopes, watched'[p] # Unwatched PROVE Followed(p)'
    <3>1. p \in linked /\ watched'[p] = desired[p]
      BY <2>1, <2>6
    <3>2. CASE watched[p] = Unwatched
      BY <2>1, <3>1, <3>2 DEF Followed
    <3>3. CASE watched[p] # Unwatched /\ watched[p] # desired[p]
      BY <2>1, <3>1, <3>3 DEF Followed, InPipeline, Changed
    <3>4. CASE watched[p] # Unwatched /\ watched[p] = desired[p]
      BY <1>0, <2>1, <3>1, <3>4 DEF WatchedAreFollowed, Followed, InPipeline
    <3> QED
      BY <3>2, <3>3, <3>4
  <2> QED
    BY <1>0, <2>1, <2>3, <2>4, <2>5, <2>6 DEF WatchInv, WatchedAreFollowed
<1>2. CASE PollFails
  BY <1>0, <1>2 DEF outcomes, PollFails, watchVars, WatchInv, WatchTypeOK, SerialTypeOK,
     VersionsInOrder, DiesWithRuntime, WatchedAreFollowed
<1>3. CASE Flush
  <2>1. /\ worker' = FALSE /\ pending' = {} /\ spawned' = spawned \cup pending
        /\ UNCHANGED <<waiting, running, phase, seen, exclusive, shared, daemon,
                       desired, applied, linked, watched, baseline, failed, unwritten>>
    BY <1>3 DEF outcomes, Flush, serialVars
  <2>2. WatchTypeOK' /\ SerialTypeOK' /\ VersionsInOrder' /\ DiesWithRuntime'
    BY <1>0, <2>1 DEF WatchTypeOK, SerialTypeOK, VersionsInOrder, DiesWithRuntime
  <2>3. WatchedAreFollowed'
    BY <1>0, <2>1 DEF WatchedAreFollowed, Followed, InPipeline
  <2> QED
    BY <2>1, <2>2, <2>3 DEF WatchInv
<1>4. ASSUME NEW q \in Scopes, TlsHealthTick(q) \/ Link(q) \/ Unlink(q)
      PROVE  WatchInv'
  <2>1. /\ pending \subseteq pending' /\ pending' \subseteq pending \cup {q}
        /\ worker' \in BOOLEAN /\ (worker => worker')
        /\ pending' # {} => worker'
        /\ linked' \subseteq linked \cup {q}
        /\ UNCHANGED <<waiting, running, phase, seen, exclusive, shared, daemon,
                       desired, applied, spawned, watched, baseline, failed, unwritten>>
    BY <1>0, <1>4 DEF outcomes, TlsHealthTick, Request, Link, Unlink, serialVars, WatchTypeOK
  <2>2. WatchTypeOK' /\ SerialTypeOK' /\ VersionsInOrder' /\ DiesWithRuntime'
    BY <1>0, <2>1 DEF WatchTypeOK, SerialTypeOK, VersionsInOrder, DiesWithRuntime
  <2>3. WatchedAreFollowed'
    BY <1>0, <2>1 DEF WatchedAreFollowed, Followed, InPipeline
  <2> QED
    BY <2>1, <2>2, <2>3 DEF WatchInv
<1> QED
  BY <1>1, <1>2, <1>3, <1>4

(* NoteVersion raises one entry to at least v and leaves the others alone. *)
LEMMA NotedVersion ==
    ASSUME MaxChanges \in Nat, NEW f \in [Scopes -> 0..MaxChanges], NEW p \in Scopes,
           NEW v \in 0..MaxChanges
    PROVE  /\ NoteVersion(f, p, v) \in [Scopes -> 0..MaxChanges]
           /\ \A q \in Scopes : /\ q # p => NoteVersion(f, p, v)[q] = f[q]
                                /\ NoteVersion(f, p, v)[q] >= f[q]
                                /\ NoteVersion(f, p, v)[q] \in {f[q], v}
           /\ NoteVersion(f, p, v)[p] >= v
  BY DEF NoteVersion

(* A report raises one of the two entries of its project to at least v. *)
LEMMA ReportedVersion ==
    ASSUME MaxChanges \in Nat, failed \in [Scopes -> 0..MaxChanges],
           unwritten \in [Scopes -> 0..MaxChanges],
           NEW p \in Scopes, NEW v \in 0..MaxChanges, Report(p, v)
    PROVE  /\ failed' \in [Scopes -> 0..MaxChanges] /\ unwritten' \in [Scopes -> 0..MaxChanges]
           /\ \A q \in Scopes : /\ failed'[q] >= failed[q] /\ unwritten'[q] >= unwritten[q]
                                /\ failed'[q] \in {failed[q], v}
                                /\ unwritten'[q] \in {unwritten[q], v}
                                /\ q # p => failed'[q] = failed[q] /\ unwritten'[q] = unwritten[q]
           /\ failed'[p] >= v \/ unwritten'[p] >= v
<1>1. CASE failed' = NoteVersion(failed, p, v) /\ UNCHANGED unwritten
  <2>1. \A q \in Scopes : unwritten[q] >= unwritten[q]
    OBVIOUS
  <2> QED
    BY <1>1, <2>1, NotedVersion
<1>2. CASE unwritten' = NoteVersion(unwritten, p, v) /\ UNCHANGED failed
  <2>1. \A q \in Scopes : failed[q] >= failed[q]
    OBVIOUS
  <2> QED
    BY <1>2, <2>1, NotedVersion
<1> QED
  BY <1>1, <1>2 DEF Report

(* A background task hands its scope to the queue or records the failure. *)
LEMMA BackgroundStepKeeps ==
    ASSUME WatchInv, NEW q \in Scopes,
           EnqueueBackground(q) \/ RefuseBackground(q) \/ FailBackground(q)
    PROVE  WatchInv'
<1>0. /\ WatchTypeOK /\ SerialTypeOK /\ VersionsInOrder /\ DiesWithRuntime
      /\ WatchedAreFollowed /\ (pending # {} => worker)
  BY DEF WatchInv
<1>1. /\ spawned' = spawned \ {q}
      /\ UNCHANGED <<linked, watched, pending, worker, baseline, running, phase,
                     seen, shared, daemon, desired, applied>>
  BY DEF EnqueueBackground, RefuseBackground, FailBackground, Spawned, Submit, serialVars
<1>2. CASE EnqueueBackground(q)
  <2>1. waiting' = waiting \cup {q} /\ UNCHANGED <<failed, unwritten>>
    BY <1>2 DEF outcomes, EnqueueBackground, Submit, serialVars
  <2>2. WatchTypeOK' /\ SerialTypeOK' /\ VersionsInOrder' /\ DiesWithRuntime'
    BY <1>0, <1>1, <2>1, WatchFacts
    DEF WatchTypeOK, SerialTypeOK, VersionsInOrder, DiesWithRuntime
  <2>3. WatchedAreFollowed'
    BY <1>0, <1>1, <2>1 DEF WatchedAreFollowed, Followed, InPipeline
  <2> QED
    BY <1>0, <1>1, <2>2, <2>3 DEF WatchInv
<1>3. CASE RefuseBackground(q) \/ FailBackground(q)
  <2>1. Report(q, desired[q]) /\ waiting' = waiting
    BY <1>3 DEF RefuseBackground, FailBackground, serialVars
  <2>2. /\ failed' \in [Scopes -> 0..MaxChanges] /\ unwritten' \in [Scopes -> 0..MaxChanges]
        /\ \A r \in Scopes : /\ failed'[r] >= failed[r] /\ unwritten'[r] >= unwritten[r]
                             /\ failed'[r] \in {failed[r], desired[q]}
                             /\ unwritten'[r] \in {unwritten[r], desired[q]}
                             /\ r # q => failed'[r] = failed[r] /\ unwritten'[r] = unwritten[r]
        /\ failed'[q] >= desired[q] \/ unwritten'[q] >= desired[q]
    <3>1. desired[q] \in 0..MaxChanges /\ MaxChanges \in Nat
      BY WatchFacts
    <3> HIDE DEF Report
    <3> QED
      BY <1>0, <2>1, <3>1, ReportedVersion DEF WatchTypeOK
  <2>3. WatchTypeOK'
    BY <1>0, <1>1, <2>2 DEF WatchTypeOK
  <2>4. SerialTypeOK' /\ DiesWithRuntime'
    BY <1>0, <1>1, <2>1 DEF SerialTypeOK, DiesWithRuntime
  <2>5. VersionsInOrder'
    <3>1. ASSUME NEW p \in Scopes PROVE failed'[p] <= desired[p] /\ unwritten'[p] <= desired[p]
      <4>1. failed[p] <= desired[p] /\ unwritten[p] <= desired[p]
        BY <1>0 DEF VersionsInOrder
      <4>2. desired[p] \in Nat /\ desired[q] <= desired[q]
        BY WatchFacts
      <4>3. /\ failed'[p] = failed[p] \/ (p = q /\ failed'[p] = desired[p])
            /\ unwritten'[p] = unwritten[p] \/ (p = q /\ unwritten'[p] = desired[p])
        BY <2>2
      <4> QED
        BY <4>1, <4>2, <4>3
    <3> QED
      BY <1>0, <1>1, <3>1 DEF VersionsInOrder
  <2>6. \A p \in Scopes : /\ failed[p] = desired[p] => failed'[p] = desired[p]
                          /\ unwritten[p] = desired[p] => unwritten'[p] = desired[p]
                          /\ p = q => failed'[p] = desired[p] \/ unwritten'[p] = desired[p]
    <3>1. \A p \in Scopes : failed'[p] <= desired[p] /\ unwritten'[p] <= desired[p]
      BY <1>1, <2>5 DEF VersionsInOrder
    <3>2. \A p \in Scopes : failed'[p] \in Nat /\ unwritten'[p] \in Nat /\ desired[p] \in Nat
      BY <2>2, WatchFacts
    <3> SUFFICES ASSUME NEW p \in Scopes
                 PROVE  /\ failed[p] = desired[p] => failed'[p] = desired[p]
                        /\ unwritten[p] = desired[p] => unwritten'[p] = desired[p]
                        /\ p = q => failed'[p] = desired[p] \/ unwritten'[p] = desired[p]
      OBVIOUS
    <3>3. /\ failed'[p] >= failed[p] /\ unwritten'[p] >= unwritten[p]
          /\ p = q => failed'[p] >= desired[p] \/ unwritten'[p] >= desired[p]
      BY <2>2
    <3>4. \A m, n \in Nat : m >= n /\ m <= n => m = n
      OBVIOUS
    <3> QED
      BY <3>1, <3>2, <3>3, <3>4
  <2>7. ASSUME NEW p \in Scopes, daemon = "up", watched[p] # Unwatched
        PROVE  Followed(p)'
    <3>1. Followed(p)
      BY <1>0, <2>7 DEF WatchedAreFollowed
    <3> QED
      BY <1>1, <2>1, <2>6, <3>1 DEF Followed, InPipeline
  <2>8. WatchedAreFollowed'
    BY <1>1, <2>7 DEF WatchedAreFollowed
  <2> QED
    BY <1>0, <1>1, <2>3, <2>4, <2>5, <2>8 DEF WatchInv
<1> QED
  BY <1>2, <1>3

(* A job that fails closes the version it has read; what it did not read is
   still on its way. *)
LEMMA JobFailsKeeps == ASSUME WatchInv, JobFails PROVE WatchInv'
<1>0. /\ WatchTypeOK /\ SerialTypeOK /\ VersionsInOrder /\ DiesWithRuntime
      /\ WatchedAreFollowed /\ (pending # {} => worker)
  BY DEF WatchInv
<1>1. /\ phase = "read" /\ phase' \in {"idle", "done"}
      /\ \/ running' = NoKey /\ phase' = "idle" /\ seen' = 0
         \/ running' = running /\ phase' = "done" /\ seen' = seen
      /\ UNCHANGED <<waiting, shared, daemon, desired, applied, linked, watched,
                     pending, worker, spawned, baseline>>
  BY DEF JobFails, Fail, Close, Leave
<1>2. /\ \A r \in Scopes : /\ failed'[r] \in {failed[r], seen}
                           /\ unwritten'[r] \in {unwritten[r], seen}
                           /\ r # running => /\ failed'[r] = failed[r]
                                             /\ unwritten'[r] = unwritten[r]
                           /\ failed'[r] >= failed[r] /\ unwritten'[r] >= unwritten[r]
                           /\ r = running => failed'[r] >= seen \/ unwritten'[r] >= seen
      /\ failed' \in [Scopes -> 0..MaxChanges] /\ unwritten' \in [Scopes -> 0..MaxChanges]
  <2>1. seen \in 0..MaxChanges /\ MaxChanges \in Nat
    BY <1>0, WatchFacts DEF SerialTypeOK
  <2>2. CASE running \in Scopes /\ Report(running, seen)
    BY <1>0, <2>1, <2>2, ReportedVersion DEF WatchTypeOK
  <2>3. CASE running \notin Scopes /\ UNCHANGED <<failed, unwritten>>
    <3>1. \A p \in Scopes : failed[p] \in Nat /\ unwritten[p] \in Nat
      BY WatchFacts
    <3> QED
      BY <1>0, <2>3, <3>1 DEF WatchTypeOK
  <2> QED
    BY <2>2, <2>3 DEF JobFails, outcomes
<1>3. WatchTypeOK'
  BY <1>0, <1>1, <1>2 DEF WatchTypeOK
<1>4. SerialTypeOK'
  BY <1>0, <1>1, WatchFacts DEF SerialTypeOK
<1>5. VersionsInOrder' /\ DiesWithRuntime'
  <2>1. ASSUME NEW p \in Scopes PROVE failed'[p] <= desired[p] /\ unwritten'[p] <= desired[p]
    <3>1. failed[p] <= desired[p] /\ unwritten[p] <= desired[p]
      BY <1>0 DEF VersionsInOrder
    <3>2. p = running => seen <= desired[p]
      BY <1>0, <1>1 DEF VersionsInOrder
    <3>3. /\ failed'[p] = failed[p] \/ (p = running /\ failed'[p] = seen)
          /\ unwritten'[p] = unwritten[p] \/ (p = running /\ unwritten'[p] = seen)
      BY <1>2
    <3> QED
      BY <3>1, <3>2, <3>3
  <2> QED
    BY <1>0, <1>1, <2>1 DEF VersionsInOrder, DiesWithRuntime
<1>6. ASSUME NEW p \in Scopes, daemon = "up", watched[p] # Unwatched
      PROVE  Followed(p)'
  <2>1. Followed(p)
    BY <1>0, <1>6 DEF WatchedAreFollowed
  <2>2. CASE failed[p] = desired[p] \/ unwritten[p] = desired[p] \/ (running = p /\ seen = desired[p])
    <3>1. failed'[p] >= desired[p] \/ unwritten'[p] >= desired[p]
      <4>1. failed'[p] >= failed[p] /\ unwritten'[p] >= unwritten[p]
        BY <1>2
      <4>2. p = running => failed'[p] >= seen \/ unwritten'[p] >= seen
        BY <1>2
      <4> QED
        BY <2>2, <4>1, <4>2
    <3>2. failed'[p] <= desired[p] /\ unwritten'[p] <= desired[p]
      BY <1>1, <1>5 DEF VersionsInOrder
    <3>3. failed'[p] \in Nat /\ unwritten'[p] \in Nat /\ desired[p] \in Nat
      BY <1>2, WatchFacts
    <3>4. \A m, n \in Nat : m >= n /\ m <= n => m = n
      OBVIOUS
    <3>5. failed'[p] = desired[p] \/ unwritten'[p] = desired[p]
      BY <3>1, <3>2, <3>3, <3>4
    <3> QED
      BY <1>1, <3>5 DEF Followed
  <2> QED
    BY <1>1, <2>1, <2>2 DEF Followed, InPipeline
<1>7. WatchedAreFollowed'
  BY <1>1, <1>6 DEF WatchedAreFollowed
<1> QED
  BY <1>0, <1>1, <1>3, <1>4, <1>5, <1>7 DEF WatchInv

(* The steps of the queue, of its other users and of the editor. *)
LEMMA QueueStepKeeps ==
    ASSUME WatchInv, QueueStep, UNCHANGED watchVars
    PROVE  WatchInv'
<1>0. /\ WatchTypeOK /\ SerialTypeOK /\ VersionsInOrder /\ DiesWithRuntime
      /\ WatchedAreFollowed /\ (pending # {} => worker)
  BY DEF WatchInv
<1>1. /\ UNCHANGED <<linked, watched, pending, worker, spawned, baseline, failed, unwritten>>
      /\ WatchTypeOK'
  BY <1>0 DEF outcomes, watchVars, WatchTypeOK
<1>2. ASSUME NEW k \in Keys, Submit(k) \/ Begin(k) PROVE WatchInv'
  <2>1. /\ UNCHANGED <<daemon, desired, applied, seen>>
        /\ \/ waiting' = waiting \cup {k} /\ UNCHANGED <<running, phase>>
           \/ /\ waiting' = waiting \ {k} /\ running' = k /\ phase' = "begun"
              /\ running = NoKey
    BY <1>2 DEF Submit, Begin
  <2>2. SerialTypeOK' /\ VersionsInOrder' /\ DiesWithRuntime'
    BY <1>0, <1>1, <2>1, NoKeyAssumption DEF SerialTypeOK, VersionsInOrder, DiesWithRuntime
  <2>3. WatchedAreFollowed'
    BY <1>0, <1>1, <2>1, WatchFacts DEF WatchedAreFollowed, Followed, InPipeline
  <2> QED
    BY <1>0, <1>1, <2>2, <2>3 DEF WatchInv
<1>3. ASSUME DropRunning \/ \E k \in Keys : DropWaiting(k) PROVE WatchInv'
  <2>1. /\ UNCHANGED <<daemon, desired, applied>> /\ daemon \in {"stopping", "dropping"}
        /\ waiting' \subseteq waiting
        /\ \/ UNCHANGED <<running, phase, seen>>
           \/ running' = NoKey /\ phase' = "idle" /\ seen' = 0
    BY <1>3 DEF DropRunning, DropWaiting, Leave
  <2>2. SerialTypeOK'
    BY <1>0, <2>1, WatchFacts DEF SerialTypeOK
  <2>3. VersionsInOrder' /\ DiesWithRuntime' /\ WatchedAreFollowed'
    BY <1>0, <1>1, <2>1 DEF VersionsInOrder, DiesWithRuntime, WatchedAreFollowed
  <2> QED
    BY <1>0, <1>1, <2>2, <2>3 DEF WatchInv
<1>4. CASE Read
  <2>1. /\ UNCHANGED <<daemon, desired, applied, waiting, running>>
        /\ phase = "begun" /\ phase' = "read" /\ seen' = desired[running]
    BY <1>4 DEF Read
  <2>2. running \in Keys
    BY <2>1, WatchFacts
  <2>3. SerialTypeOK'
    BY <1>0, <2>1, <2>2, WatchFacts DEF SerialTypeOK
  <2>4. VersionsInOrder' /\ DiesWithRuntime'
    BY <1>0, <1>1, <2>1, <2>2, WatchFacts DEF VersionsInOrder, DiesWithRuntime
  <2>5. WatchedAreFollowed'
    BY <1>0, <1>1, <2>1 DEF WatchedAreFollowed, Followed, InPipeline
  <2> QED
    BY <1>0, <1>1, <2>3, <2>4, <2>5 DEF WatchInv
<1>5. CASE Succeed
  <2>1. /\ UNCHANGED <<daemon, desired, waiting>> /\ phase = "read"
        /\ applied' = [applied EXCEPT ![running] = seen]
        /\ \/ running' = NoKey /\ phase' = "idle" /\ seen' = 0
           \/ running' = running /\ phase' = "done" /\ seen' = seen
    BY <1>5 DEF Succeed, Close, Leave
  <2>2. running \in Keys /\ seen \in 0..MaxChanges
    BY <1>0, <2>1, WatchFacts DEF SerialTypeOK
  <2>3. \A k \in Keys : applied'[k] = IF k = running THEN seen ELSE applied[k]
    BY <1>0, <2>1 DEF SerialTypeOK
  <2>4. SerialTypeOK'
    BY <1>0, <2>1, <2>2, WatchFacts DEF SerialTypeOK
  <2>5. VersionsInOrder' /\ DiesWithRuntime'
    BY <1>0, <1>1, <2>1, <2>2, <2>3 DEF VersionsInOrder, DiesWithRuntime
  <2>6. ASSUME NEW p \in Scopes, daemon = "up", watched[p] # Unwatched
        PROVE  Followed(p)'
    <3>1. Followed(p)
      BY <1>0, <2>6 DEF WatchedAreFollowed
    <3>2. applied[p] = desired[p] => applied'[p] = desired[p]
      BY <1>0, <2>1, <2>2, <2>3, WatchFacts DEF VersionsInOrder
    <3> QED
      BY <1>1, <2>1, <2>2, <2>3, <3>1, <3>2, WatchFacts DEF Followed, InPipeline
  <2>7. WatchedAreFollowed'
    BY <1>1, <2>1, <2>6 DEF WatchedAreFollowed
  <2> QED
    BY <1>0, <1>1, <2>4, <2>5, <2>7 DEF WatchInv
<1>6. CASE End
  <2>1. /\ UNCHANGED <<daemon, desired, applied, waiting>> /\ phase = "done"
        /\ running' = NoKey /\ phase' = "idle" /\ seen' = 0
    BY <1>6 DEF End, Leave
  <2>2. SerialTypeOK'
    BY <1>0, <2>1, WatchFacts DEF SerialTypeOK
  <2>3. VersionsInOrder' /\ DiesWithRuntime'
    BY <1>0, <1>1, <2>1 DEF VersionsInOrder, DiesWithRuntime
  <2>4. WatchedAreFollowed'
    BY <1>0, <1>1, <2>1 DEF WatchedAreFollowed, Followed, InPipeline
  <2> QED
    BY <1>0, <1>1, <2>2, <2>3, <2>4 DEF WatchInv
<1>7. CASE daemon \in {"up", "down"} /\ Stop
  <2>1. /\ UNCHANGED <<desired, applied, waiting, running, phase, seen>>
        /\ \/ daemon' = "stopping"
           \/ daemon = "down" /\ daemon' = "up"
    BY <1>7 DEF Stop
  <2>2. SerialTypeOK' /\ VersionsInOrder' /\ DiesWithRuntime'
    BY <1>0, <1>1, <2>1 DEF SerialTypeOK, VersionsInOrder, DiesWithRuntime
  <2>3. WatchedAreFollowed'
    BY <1>0, <1>1, <2>1 DEF DiesWithRuntime, WatchedAreFollowed
  <2> QED
    BY <1>0, <1>1, <2>2, <2>3 DEF WatchInv
<1>8. ASSUME NEW q \in Scopes, Edit(q) PROVE WatchInv'
  <2>1. /\ UNCHANGED <<daemon, applied, waiting, running, phase, seen>>
        /\ desired[q] < MaxChanges /\ desired' = [desired EXCEPT ![q] = @ + 1]
    BY <1>8 DEF Edit
  <2>2. \A k \in Keys : desired'[k] = IF k = q THEN desired[q] + 1 ELSE desired[k]
    BY <1>0, <2>1 DEF SerialTypeOK
  <2>3. desired[q] + 1 \in 0..MaxChanges
    BY <2>1, WatchFacts
  <2>4. SerialTypeOK'
    BY <1>0, <2>1, <2>3 DEF SerialTypeOK
  <2>5. VersionsInOrder' /\ DiesWithRuntime'
    BY <1>0, <1>1, <2>1, <2>2, WatchFacts DEF VersionsInOrder, DiesWithRuntime
  <2>6. ASSUME NEW p \in Scopes, daemon = "up", watched[p] # Unwatched
        PROVE  Followed(p)'
    <3>1. CASE p = q
      BY <1>0, <1>1, <2>2, <2>6, <3>1, WatchFacts DEF VersionsInOrder, Followed, InPipeline
    <3>2. CASE p # q
      BY <1>0, <1>1, <2>1, <2>2, <2>6, <3>2, WatchFacts
      DEF WatchedAreFollowed, Followed, InPipeline
    <3> QED
      BY <3>1, <3>2
  <2>7. WatchedAreFollowed'
    BY <1>1, <2>1, <2>6 DEF WatchedAreFollowed
  <2> QED
    BY <1>0, <1>1, <2>4, <2>5, <2>7 DEF WatchInv
<1>9. ASSUME UpdateLocks \/ UpdateUnlocks \/ \E c \in Probers : Check(c) \/ Uncheck(c)
      PROVE  WatchInv'
  <2>1. UNCHANGED <<daemon, desired, applied, waiting, running, phase, seen>>
    BY <1>9 DEF UpdateLocks, UpdateUnlocks, Check, Uncheck
  <2> QED
    BY <1>0, <1>1, <2>1 DEF WatchInv, SerialTypeOK, VersionsInOrder, DiesWithRuntime,
       WatchedAreFollowed, Followed, InPipeline
<1> QED
  BY <1>2, <1>3, <1>4, <1>5, <1>6, <1>7, <1>8, <1>9 DEF QueueStep

(* The watcher's invariant is inductive. *)
LEMMA WatchInvStep == WatchInv /\ [WatchNext]_allVars => WatchInv'
<1> SUFFICES ASSUME WatchInv, [WatchNext]_allVars PROVE WatchInv'
  OBVIOUS
<1>0. /\ WatchTypeOK /\ SerialTypeOK /\ VersionsInOrder /\ DiesWithRuntime
      /\ WatchedAreFollowed /\ (pending # {} => worker)
  BY DEF WatchInv
<1>1. CASE UNCHANGED allVars
  BY <1>0, <1>1 DEF allVars, serialVars, watchVars, outcomes, WatchInv, WatchTypeOK, SerialTypeOK,
     VersionsInOrder, DiesWithRuntime, WatchedAreFollowed, Followed, InPipeline
<1>2. CASE (Die \/ (daemon \in {"stopping", "dropping"} /\ Stop)) /\ Forget
  <2>1. /\ watched' = [p \in Scopes |-> Unwatched]
        /\ pending' = {} /\ worker' = FALSE /\ spawned' = {}
        /\ UNCHANGED <<linked, baseline, failed, unwritten>>
    BY <1>2 DEF outcomes, Forget
  <2>2. /\ daemon' \in {"dropping", "down"} /\ UNCHANGED <<desired, applied>>
        /\ \/ UNCHANGED <<waiting, running, phase, seen>>
           \/ waiting' = {} /\ running' = NoKey /\ phase' = "idle" /\ seen' = 0
    BY <1>2 DEF Die, Stop
  <2>3. Unwatched \in 0..Unwatched /\ 0 \in 0..MaxChanges
    BY WatchFacts
  <2>4. WatchTypeOK' /\ SerialTypeOK'
    BY <1>0, <2>1, <2>2, <2>3 DEF WatchTypeOK, SerialTypeOK
  <2>5. VersionsInOrder' /\ DiesWithRuntime' /\ WatchedAreFollowed'
    BY <1>0, <2>1, <2>2 DEF VersionsInOrder, DiesWithRuntime, WatchedAreFollowed
  <2> QED
    BY <2>1, <2>4, <2>5 DEF WatchInv
<1> QED
  BY <1>1, <1>2, WatcherStepKeeps, BackgroundStepKeeps, JobFailsKeeps, QueueStepKeeps
  DEF WatchNext

(* No edit of a watched Project config is forgotten while the daemon runs,
   for every set of projects and every number of edits. *)
THEOREM EditsAreNotForgotten == WatchSpec => []NoEditForgotten
<1>1. WatchInv => NoEditForgotten
  BY DEF WatchInv, WatchTypeOK, WatchedAreFollowed, Followed, NoEditForgotten
<1> QED
  BY <1>1, WatchInvInit, WatchInvStep, PTL DEF WatchSpec
=============================================================================
