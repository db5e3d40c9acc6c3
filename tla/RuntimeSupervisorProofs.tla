---------------------- MODULE RuntimeSupervisorProofs ----------------------
(***************************************************************************)
(* Proofs about RuntimeSupervisor for every set of process ids, every      *)
(* number of config and binary versions and every number of mishaps:       *)
(* no process is orphaned, and a failed reconciliation restores the        *)
(* active config.                                                          *)
(***************************************************************************)
EXTENDS RuntimeSupervisor, FiniteSetTheorems, TLAPS

Procs == [kind : {"free", "pv", "foreign"}, start : StartIds \cup {0}, spec : Nat,
          loaded : Contents, up : BOOLEAN, signal : {"none", "reload", "term", "kill"}]

RuntimeTypeOK ==
    /\ proc \in [Pids -> Procs]
    /\ starts \in StartIds \cup {0}
    /\ pidFile \in Pids \cup {NoPid}
    /\ meta \in [pid : Pids \cup {NoPid}, start : StartIds \cup {0}, spec : Nat]
    /\ root \in Contents /\ dir \in Contents
    /\ rootBak \in Contents /\ dirBak \in Contents
    /\ pc \in Steps
    /\ target \in [root : Contents, dir : Contents, spec : Nat]
    /\ child \in Pids \cup {NoPid}
    /\ before \in {<<>>} \cup (Contents \X Contents)
    /\ observed \in {"none", "running", "degraded", "failed", "stopped"}
    /\ version \in Contents /\ spec \in Nat /\ interrupts \in Nat

(* Steps at which the task has moved nothing, and steps at which it has moved
   the root config only. *)
Untouched == {"idle", "validate", "backupRoot", "staleStopping", "staleKilling",
              "cleanupPid", "cleanupMeta", "cleanupConfig"}
RootMoved == {"placeRoot", "backupDir", "deleteRoot", "restoreRoot"}

(* Steps before the task has spawned a process. *)
Childless == Untouched \cup {"placeRoot", "backupDir", "placeDir", "adopt", "reload",
                             "reloadReady", "stopping", "killing", "spawn"}

(* Steps at which no process of PV is left, and steps at which the only one is
   the child that the files do not describe yet. *)
Processless == {"spawn", "cleanupPid", "cleanupMeta"}
Persisting == {"persistPid", "persistMeta"}

(* What the task holds in memory at each step. *)
TaskHolds ==
    /\ pc \in Untouched => rootBak = Missing
    /\ pc \in Untouched \cup RootMoved => dirBak = Missing
    /\ pc \in Childless => child = NoPid
    /\ pc \in Persisting \cup {"ready"} => child \in Pids
    /\ pc = "persistMeta" => pidFile = child
    /\ pc \in Persisting /\ proc[child].kind = "pv" =>
         proc[child].start = starts /\ proc[child].spec = target.spec
    /\ pc \in {"cleanupMeta", "cleanupConfig"} => observed = "stopped"

(* The files describe the process with pid p. *)
Recorded(p) ==
    /\ meta.pid = p /\ pidFile = p
    /\ meta.start = proc[p].start /\ meta.spec = proc[p].spec

(* Where the processes of PV are, at each step. *)
ProcessesAreKnown ==
    interrupts = 0 =>
      \A p \in Pids : proc[p].kind = "pv" =>
        /\ pc \notin Processless
        /\ pc \in Persisting => p = child
        /\ pc \notin Persisting => Recorded(p)

(* Where the config is that was active when the task began, at each step. *)
ConfigIsKept ==
    before # <<>> =>
      /\ pc \in Untouched \ {"idle", "cleanupPid", "cleanupMeta", "cleanupConfig"} =>
           <<root, dir>> = before
      /\ pc \in RootMoved => <<rootBak, dir>> = before
      /\ pc \in Steps \ (Untouched \cup RootMoved) => <<rootBak, dirBak>> = before

SupervisorInv ==
    /\ RuntimeTypeOK
    /\ TaskHolds
    /\ ProcessesAreKnown
    /\ ConfigIsKept

-----------------------------------------------------------------------------
(* There is always a start identity that neither the files nor a process
   mentions: there are two more than processes. *)
LEMMA UnusedStartExists ==
    ASSUME RuntimeTypeOK
    PROVE  UnusedStart \in StartIds
<1> DEFINE f == [p \in Pids |-> proc[p].start]
           T == {proc[p].start : p \in Pids}
           U == T \cup {meta.start}
<1>1. IsFiniteSet(Pids) /\ Cardinality(Pids) \in Nat
  BY SupervisorAssumption, FS_CardinalityType
<1>2. f \in Surjection(Pids, T)
  BY DEF Surjection
<1>3. IsFiniteSet(T) /\ Cardinality(T) <= Cardinality(Pids)
  BY <1>1, <1>2, FS_Surjection
<1>4. IsFiniteSet(U) /\ Cardinality(U) <= Cardinality(T) + 1 /\ Cardinality(T) \in Nat
      /\ Cardinality(U) \in Nat
  <2>1. Cardinality(T) \in Nat
    BY <1>3, FS_CardinalityType
  <2> HIDE DEF T
  <2>2. ASSUME NEW x
        PROVE  /\ IsFiniteSet(T \cup {x})
               /\ Cardinality(T \cup {x}) = IF x \in T THEN Cardinality(T)
                                             ELSE Cardinality(T) + 1
    BY <1>3, FS_AddElement
  <2>3. IsFiniteSet(U) /\ Cardinality(U) = IF meta.start \in T THEN Cardinality(T)
                                           ELSE Cardinality(T) + 1
    BY <2>2
  <2> HIDE DEF U
  <2> QED
    BY <2>1, <2>3
<1>5. Cardinality(StartIds) = Cardinality(Pids) + 2
  <2>1. ASSUME NEW n \in Nat PROVE Cardinality(1..n) = n
    <3>1. 1 \in Int /\ n \in Int
      OBVIOUS
    <3>2. Cardinality(1..n) = IF 1 > n THEN 0 ELSE n - 1 + 1
      BY <3>1, FS_Interval, Zenon
    <3> QED
      BY <3>2
  <2>2. Cardinality(Pids) + 2 \in Nat
    BY <1>1
  <2> QED
    BY <2>1, <2>2 DEF StartIds
<1>6. ~(StartIds \subseteq U)
  <2> HIDE DEF T, U
  <2>1. StartIds \in SUBSET U => Cardinality(StartIds) <= Cardinality(U)
    BY <1>4, FS_Subset
  <2> QED
    BY <1>1, <1>3, <1>4, <1>5, <2>1
<1>7. \E n \in StartIds : n # meta.start /\ \A p \in Pids : n # proc[p].start
  BY <1>6
<1> QED
  BY <1>7 DEF UnusedStart

LEMMA SupervisorInvInit == Init => SupervisorInv
<1> SUFFICES ASSUME Init PROVE SupervisorInv
  OBVIOUS
<1>1. /\ MaxVersion \in Nat /\ Missing \in Contents /\ 0 \in Contents /\ 1 \in Contents
  BY SupervisorAssumption DEF Missing, Contents
<1>2. Free \in Procs
  BY <1>1 DEF Free, Procs
<1>3. RuntimeTypeOK
  BY <1>1, <1>2 DEF Init, RuntimeTypeOK, NoMeta, NoTarget, Steps
<1>4. TaskHolds
  BY DEF Init, TaskHolds, Persisting
<1>5. ProcessesAreKnown
  BY DEF Init, ProcessesAreKnown, Free
<1>6. ConfigIsKept
  BY DEF Init, ConfigIsKept, Untouched, RootMoved
<1> QED
  BY <1>3, <1>4, <1>5, <1>6 DEF SupervisorInv

(* A step of a process or of another program: what the task holds and has
   recorded stays, and no process becomes one of PV. *)
LEMMA ProcessStepKeeps ==
    ASSUME SupervisorInv, NEW p \in Pids,
           Boot(p) \/ HandleReload(p) \/ Exit(p) \/ TakePid(p) \/ ForeignExits(p)
    PROVE  SupervisorInv'
<1>0. RuntimeTypeOK /\ TaskHolds /\ ProcessesAreKnown /\ ConfigIsKept
  BY DEF SupervisorInv
<1>1. UNCHANGED <<starts, taskVars, version, spec, ghostVars>>
  BY DEF Boot, HandleReload, Exit, TakePid, ForeignExits, worldVars
<1>2. 0 \in Contents /\ Free \in Procs /\ Free.kind = "free"
  BY SupervisorAssumption DEF Free, Procs, Contents, Missing
<1>3. PICK r \in Procs : /\ proc' = [proc EXCEPT ![p] = r]
                         /\ r.kind = "pv" => /\ proc[p].kind = "pv"
                                             /\ r.start = proc[p].start
                                             /\ r.spec = proc[p].spec
  <2>0. proc[p] \in Procs /\ dir \in Contents
    BY <1>0 DEF RuntimeTypeOK
  <2>1. CASE Boot(p)
    <3>1. CASE proc' = [proc EXCEPT ![p] = Free]
      BY <1>2, <3>1
    <3>2. CASE proc' = [proc EXCEPT ![p].up = TRUE,
                                    ![p].loaded = IF dir = Missing THEN 0 ELSE dir]
      <4> DEFINE r == [proc[p] EXCEPT !.up = TRUE,
                                      !.loaded = IF dir = Missing THEN 0 ELSE dir]
      <4>1. r \in Procs /\ r.kind = proc[p].kind /\ r.start = proc[p].start
            /\ r.spec = proc[p].spec
        BY <1>2, <2>0 DEF Procs
      <4>2. proc' = [proc EXCEPT ![p] = r]
        BY <1>0, <3>2 DEF RuntimeTypeOK
      <4> QED
        BY <2>1, <4>1, <4>2 DEF Boot
    <3> QED
      BY <2>1, <3>1, <3>2 DEF Boot
  <2>2. CASE HandleReload(p)
    <3>1. CASE proc' = [proc EXCEPT ![p].signal = "none"]
      <4> DEFINE r == [proc[p] EXCEPT !.signal = "none"]
      <4>1. r \in Procs /\ r.kind = proc[p].kind /\ r.start = proc[p].start
            /\ r.spec = proc[p].spec
        BY <2>0 DEF Procs
      <4>2. proc' = [proc EXCEPT ![p] = r]
        BY <1>0, <3>1 DEF RuntimeTypeOK
      <4> QED
        BY <2>2, <4>1, <4>2 DEF HandleReload
    <3>2. CASE proc' = [proc EXCEPT ![p].signal = "none",
                                    ![p].loaded = IF dir = Missing THEN 0 ELSE dir]
      <4> DEFINE r == [proc[p] EXCEPT !.signal = "none",
                                      !.loaded = IF dir = Missing THEN 0 ELSE dir]
      <4>1. r \in Procs /\ r.kind = proc[p].kind /\ r.start = proc[p].start
            /\ r.spec = proc[p].spec
        BY <1>2, <2>0 DEF Procs
      <4>2. proc' = [proc EXCEPT ![p] = r]
        BY <1>0, <3>2 DEF RuntimeTypeOK
      <4> QED
        BY <2>2, <4>1, <4>2 DEF HandleReload
    <3> QED
      BY <2>2, <3>1, <3>2 DEF HandleReload
  <2>3. CASE Exit(p) \/ ForeignExits(p)
    BY <1>2, <2>3 DEF Exit, ForeignExits
  <2>4. CASE TakePid(p)
    <3>1. PICK listens \in BOOLEAN : proc' = [proc EXCEPT ![p] = [Foreign EXCEPT !.up = listens]]
      BY <2>4 DEF TakePid
    <3>2. [Foreign EXCEPT !.up = listens] \in Procs
          /\ [Foreign EXCEPT !.up = listens].kind = "foreign"
      BY <1>2 DEF Foreign, Free, Procs
    <3> QED
      BY <3>1, <3>2
  <2> QED
    BY <2>1, <2>2, <2>3, <2>4
<1>4. proc' \in [Pids -> Procs]
  BY <1>0, <1>3 DEF RuntimeTypeOK
<1>5. \A q \in Pids : proc'[q].kind = "pv" =>
        /\ proc[q].kind = "pv"
        /\ proc'[q].start = proc[q].start /\ proc'[q].spec = proc[q].spec
  BY <1>0, <1>3 DEF RuntimeTypeOK
<1>6. RuntimeTypeOK'
  BY <1>0, <1>1, <1>4 DEF RuntimeTypeOK, taskVars, configVars, fileVars, ghostVars
<1>7. TaskHolds'
  BY <1>0, <1>1, <1>5 DEF TaskHolds, taskVars, configVars, fileVars, Persisting
<1>8. ProcessesAreKnown'
  BY <1>0, <1>1, <1>5 DEF ProcessesAreKnown, Recorded, taskVars, fileVars, ghostVars
<1>9. ConfigIsKept'
  BY <1>0, <1>1 DEF ConfigIsKept, taskVars, configVars, ghostVars
<1> QED
  BY <1>6, <1>7, <1>8, <1>9 DEF SupervisorInv

(* The rest of the world, and the death of the daemon. *)
LEMMA WorldStepKeeps ==
    ASSUME SupervisorInv,
           Interrupt \/ Request \/ Upgrade \/ Unneed \/ \E ok \in BOOLEAN : EditConfig(ok)
    PROVE  SupervisorInv'
<1>0. /\ RuntimeTypeOK /\ TaskHolds /\ ProcessesAreKnown /\ ConfigIsKept
      /\ MaxVersion \in Nat
  BY SupervisorAssumption DEF SupervisorInv
<1>1. CASE Interrupt
  <2>1. /\ pc' = "idle" /\ child' = NoPid /\ rootBak' = Missing /\ dirBak' = Missing
        /\ target' = NoTarget /\ starts' = 0 /\ interrupts' = interrupts + 1
        /\ UNCHANGED <<proc, pidFile, meta, root, dir, observed, version, spec, before>>
    BY <1>1 DEF Interrupt, fileVars, worldVars
  <2>2. RuntimeTypeOK'
    BY <1>0, <2>1 DEF RuntimeTypeOK, NoTarget, Missing, Contents, Steps
  <2>3. TaskHolds' /\ ConfigIsKept'
    BY <2>1 DEF TaskHolds, ConfigIsKept, Untouched, RootMoved, Persisting
  <2>4. ProcessesAreKnown'
    BY <1>0, <2>1 DEF ProcessesAreKnown, RuntimeTypeOK
  <2> QED
    BY <2>2, <2>3, <2>4 DEF SupervisorInv
<1>2. CASE Request \/ Upgrade \/ Unneed \/ \E ok \in BOOLEAN : EditConfig(ok)
  <2>1. /\ UNCHANGED <<proc, starts, pidFile, meta, root, dir, rootBak, dirBak, pc, target,
                       child, before, observed, interrupts>>
        /\ version' \in Contents /\ spec' \in Nat
    <3>1. CASE Request
      BY <1>0, <3>1 DEF Request, procVars, fileVars, configVars, worldVars, ghostVars,
         RuntimeTypeOK
    <3>2. CASE Upgrade \/ Unneed
      BY <1>0, <3>2 DEF Upgrade, Unneed, procVars, fileVars, configVars, ghostVars,
         RuntimeTypeOK
    <3>3. ASSUME NEW ok \in BOOLEAN, EditConfig(ok) PROVE <2>1!:
      <4>1. version' = version + 1 /\ version < MaxVersion /\ version \in 0..(MaxVersion + 1)
        BY <1>0, <3>3 DEF EditConfig, RuntimeTypeOK, Contents, Missing
      <4> QED
        BY <1>0, <3>3, <4>1 DEF EditConfig, procVars, fileVars, configVars, ghostVars,
           RuntimeTypeOK, Contents, Missing
    <3> QED
      BY <1>2, <3>1, <3>2, <3>3
  <2>2. RuntimeTypeOK' /\ TaskHolds' /\ ProcessesAreKnown' /\ ConfigIsKept'
    BY <1>0, <2>1 DEF RuntimeTypeOK, TaskHolds, ProcessesAreKnown, Recorded, ConfigIsKept
  <2> QED
    BY <2>2 DEF SupervisorInv
<1> QED
  BY <1>1, <1>2

(* A step of the task that leaves processes and files alone. *)
LEMMA ProcessesStayKnown ==
    ASSUME ProcessesAreKnown, UNCHANGED <<proc, pidFile, meta, interrupts>>,
           pc \notin Processless \cup Persisting, pc' \notin Processless \cup Persisting
    PROVE  ProcessesAreKnown'
BY DEF ProcessesAreKnown, Recorded

(* Promotion, rollback and commit of the config. *)
LEMMA ConfigStepKeeps ==
    ASSUME SupervisorInv,
           \/ Begin \/ ValidateConfig \/ BackupRoot \/ PlaceRoot \/ BackupDir \/ PlaceDir
           \/ DeleteDir \/ RestoreDir \/ DeleteRoot \/ RestoreRoot \/ RollbackFails \/ Commit
    PROVE  SupervisorInv'
<1>0. /\ RuntimeTypeOK /\ TaskHolds /\ ProcessesAreKnown /\ ConfigIsKept
      /\ Missing \in Contents /\ 0 \in Contents
  BY SupervisorAssumption DEF SupervisorInv, Missing, Contents
<1>1. UNCHANGED <<proc, starts, pidFile, meta, version, spec, interrupts>>
  BY DEF Begin, ValidateConfig, BackupRoot, PlaceRoot, BackupDir, PlaceDir, DeleteDir,
     RestoreDir, DeleteRoot, RestoreRoot, RollbackFails, Commit, procVars, fileVars,
     worldVars, ghostVars
<1>2. CASE Begin
  <2>1. /\ pc = "idle" /\ pc' = "validate" /\ before' = <<root, dir>>
        /\ target' = [root |-> version, spec |-> spec,
                      dir |-> IF valid THEN version ELSE IF dir = Missing THEN 0 ELSE dir]
        /\ UNCHANGED <<root, dir, rootBak, dirBak, child, observed>>
    BY <1>2 DEF Begin, Goto, configVars
  <2>2. RuntimeTypeOK'
    BY <1>0, <1>1, <2>1 DEF RuntimeTypeOK, Steps
  <2>3. TaskHolds' /\ ConfigIsKept'
    BY <1>0, <2>1 DEF TaskHolds, ConfigIsKept, Untouched, RootMoved, Childless, Persisting
  <2>4. ProcessesAreKnown'
    BY <1>0, <1>1, <2>1, ProcessesStayKnown DEF Processless, Persisting
  <2> QED
    BY <2>2, <2>3, <2>4 DEF SupervisorInv
<1>3. CASE ValidateConfig \/ BackupRoot \/ PlaceRoot
  <2>1. /\ pc \in {"validate", "backupRoot", "placeRoot"}
        /\ UNCHANGED <<dir, dirBak, target, before>>
        /\ \/ /\ UNCHANGED <<child, observed>>
              /\ \/ pc = "validate" /\ pc' = "backupRoot" /\ UNCHANGED <<root, rootBak>>
                 \/ pc = "backupRoot" /\ pc' = "placeRoot" /\ rootBak' = root /\ root' = Missing
                 \/ pc = "placeRoot" /\ pc' = "backupDir" /\ root' = target.root /\ rootBak' = rootBak
           \/ /\ pc' = "idle" /\ child' = NoPid /\ observed' = "failed"
              /\ \/ pc # "placeRoot" /\ UNCHANGED <<root, rootBak>>
                 \/ pc = "placeRoot" /\ root' = rootBak /\ rootBak' = Missing
    BY <1>3 DEF ValidateConfig, BackupRoot, PlaceRoot, Goto, Finish, configVars, ghostVars
  <2>2. RuntimeTypeOK'
    BY <1>0, <1>1, <2>1 DEF RuntimeTypeOK, Steps
  <2>3. TaskHolds'
    BY <1>0, <2>1 DEF TaskHolds, Untouched, RootMoved, Childless, Persisting
  <2>4. ConfigIsKept'
    BY <1>0, <2>1 DEF ConfigIsKept, Untouched, RootMoved
  <2>5. ProcessesAreKnown'
    BY <1>0, <1>1, <2>1, ProcessesStayKnown DEF Processless, Persisting
  <2> QED
    BY <2>2, <2>3, <2>4, <2>5 DEF SupervisorInv
<1>4. CASE BackupDir \/ PlaceDir
  <2>1. /\ UNCHANGED <<root, rootBak, target, child, before>>
        /\ \/ /\ pc = "backupDir" /\ pc' = "placeDir" /\ dirBak' = dir /\ dir' = Missing
              /\ observed' = observed
           \/ /\ pc = "backupDir" /\ pc' = "deleteRoot" /\ observed' = "failed"
              /\ UNCHANGED <<dir, dirBak>>
           \/ /\ pc = "placeDir" /\ pc' = "adopt" /\ dir' = target.dir /\ dirBak' = dirBak
              /\ observed' = observed
           \/ /\ pc = "placeDir" /\ pc' = "deleteRoot" /\ dir' = dirBak /\ dirBak' = Missing
              /\ observed' = "failed"
    BY <1>4 DEF BackupDir, PlaceDir, Goto, ghostVars
  <2>2. RuntimeTypeOK'
    BY <1>0, <1>1, <2>1 DEF RuntimeTypeOK, Steps
  <2>3. TaskHolds'
    BY <1>0, <2>1 DEF TaskHolds, Untouched, RootMoved, Childless, Persisting
  <2>4. ConfigIsKept'
    BY <1>0, <2>1 DEF ConfigIsKept, Untouched, RootMoved, Steps
  <2>5. ProcessesAreKnown'
    BY <1>0, <1>1, <2>1, ProcessesStayKnown DEF Processless, Persisting
  <2> QED
    BY <2>2, <2>3, <2>4, <2>5 DEF SupervisorInv
<1>5. CASE DeleteDir \/ RestoreDir \/ DeleteRoot \/ RestoreRoot
  <2>1. /\ UNCHANGED <<observed, before>>
        /\ \/ /\ pc = "deleteDir" /\ pc' = "restoreDir" /\ dir' = Missing
              /\ UNCHANGED <<root, rootBak, dirBak, child, target>>
           \/ /\ pc = "restoreDir" /\ pc' = "deleteRoot" /\ dir' = dirBak /\ dirBak' = Missing
              /\ UNCHANGED <<root, rootBak, child, target>>
           \/ /\ pc = "deleteRoot" /\ pc' = "restoreRoot" /\ root' = Missing
              /\ UNCHANGED <<rootBak, dir, dirBak, child, target>>
           \/ /\ pc = "restoreRoot" /\ pc' = "idle" /\ root' = rootBak /\ rootBak' = Missing
              /\ child' = NoPid /\ target' = NoTarget /\ UNCHANGED <<dir, dirBak>>
    BY <1>5 DEF DeleteDir, RestoreDir, RenameBackupDir, DeleteRoot, RestoreRoot, Goto, ghostVars
  <2>2. RuntimeTypeOK'
    BY <1>0, <1>1, <2>1 DEF RuntimeTypeOK, Steps, NoTarget
  <2>3. TaskHolds'
    BY <1>0, <2>1 DEF TaskHolds, Untouched, RootMoved, Childless, Persisting
  <2>4. ConfigIsKept'
    BY <1>0, <2>1 DEF ConfigIsKept, Untouched, RootMoved, Steps
  <2>5. ProcessesAreKnown'
    BY <1>0, <1>1, <2>1, ProcessesStayKnown DEF Processless, Persisting
  <2> QED
    BY <2>2, <2>3, <2>4, <2>5 DEF SupervisorInv
<1>6. CASE RollbackFails
  <2>1. /\ UNCHANGED <<root, dir, target, observed>> /\ before' = <<>>
        /\ \/ /\ pc \in {"deleteDir", "restoreDir"} /\ pc' = "deleteRoot"
              /\ dirBak' = Missing /\ UNCHANGED <<child, rootBak>>
           \/ /\ pc \in {"deleteRoot", "restoreRoot"} /\ pc' = "idle" /\ child' = NoPid
              /\ rootBak' = Missing /\ dirBak' = dirBak
    BY <1>6 DEF RollbackFails, Goto
  <2>2. RuntimeTypeOK'
    BY <1>0, <1>1, <2>1 DEF RuntimeTypeOK, Steps
  <2>3. TaskHolds' /\ ConfigIsKept'
    BY <1>0, <2>1 DEF TaskHolds, ConfigIsKept, Untouched, RootMoved, Childless, Persisting
  <2>4. ProcessesAreKnown'
    BY <1>0, <1>1, <2>1, ProcessesStayKnown DEF Processless, Persisting
  <2> QED
    BY <2>2, <2>3, <2>4 DEF SupervisorInv
<1>7. CASE Commit
  <2>1. /\ pc \in {"commit", "unverified"} /\ pc' = "idle" /\ child' = NoPid
        /\ rootBak' = Missing /\ dirBak' = Missing /\ target' = NoTarget
        /\ observed' \in {"running", "degraded", "failed"}
        /\ before' = before \/ before' = <<>>
        /\ UNCHANGED <<root, dir>>
    BY <1>7 DEF Commit, DropBackups, Finish
  <2>2. RuntimeTypeOK'
    BY <1>0, <1>1, <2>1 DEF RuntimeTypeOK, Steps, NoTarget
  <2>3. TaskHolds' /\ ConfigIsKept'
    BY <2>1 DEF TaskHolds, ConfigIsKept, Untouched, RootMoved, Persisting
  <2>4. ProcessesAreKnown'
    BY <1>0, <1>1, <2>1, ProcessesStayKnown DEF Processless, Persisting
  <2> QED
    BY <2>2, <2>3, <2>4 DEF SupervisorInv
<1> QED
  BY <1>2, <1>3, <1>4, <1>5, <1>6, <1>7

(* A signal changes no process identity. *)
LEMMA SignalKeeps ==
    ASSUME RuntimeTypeOK, NEW p \in Pids \cup {NoPid}, NEW s \in {"reload", "term", "kill"},
           Signal(p, s)
    PROVE  /\ proc' \in [Pids -> Procs] /\ UNCHANGED <<starts, interrupts>>
           /\ \A q \in Pids : /\ proc'[q].kind = proc[q].kind
                              /\ proc'[q].start = proc[q].start
                              /\ proc'[q].spec = proc[q].spec
<1>1. proc \in [Pids -> Procs]
  BY DEF RuntimeTypeOK
<1>2. \A q \in Pids : /\ [proc[q] EXCEPT !.signal = s] \in Procs
                      /\ [proc[q] EXCEPT !.signal = s].kind = proc[q].kind
                      /\ [proc[q] EXCEPT !.signal = s].start = proc[q].start
                      /\ [proc[q] EXCEPT !.signal = s].spec = proc[q].spec
  BY <1>1 DEF Procs
<1>3. proc' = proc \/ proc' = [proc EXCEPT ![p] = [proc[p] EXCEPT !.signal = s]]
  BY DEF Signal
<1>4. UNCHANGED <<starts, interrupts>>
  BY DEF Signal
<1>5. CASE proc' = proc
  BY <1>1, <1>4, <1>5
<1>6. CASE proc' = [proc EXCEPT ![p] = [proc[p] EXCEPT !.signal = s]]
  <2>1. \A q \in Pids : proc'[q] = IF q = p THEN [proc[q] EXCEPT !.signal = s] ELSE proc[q]
    BY <1>1, <1>6
  <2>2. proc' \in [Pids -> Procs]
    BY <1>1, <1>2, <1>6
  <2> QED
    BY <1>2, <1>4, <2>1, <2>2
<1> QED
  BY <1>3, <1>5, <1>6

(* A process of PV that the files describe is the one adopt_recorded finds:
   when it finds none, there is none. *)
LEMMA NothingRecorded ==
    ASSUME SupervisorInv, interrupts = 0, pc \notin Persisting,
           ~AdoptRecorded \/ proc[pidFile].kind = "free"
    PROVE  \A p \in Pids : proc[p].kind # "pv"
<1>1. \A p \in Pids : proc[p].kind = "pv" => Recorded(p) /\ p # NoPid
  BY SupervisorAssumption DEF SupervisorInv, ProcessesAreKnown, NoPid
<1> QED
  BY <1>1 DEF Recorded, AdoptRecorded, LiveProcessMatches

(* A step of the task that keeps the identity of every process and the
   files. *)
LEMMA ProcessesStayRecorded ==
    ASSUME SupervisorInv, UNCHANGED <<pidFile, meta, interrupts>>,
           \A q \in Pids : proc'[q].kind = "pv" =>
              /\ proc[q].kind = "pv"
              /\ proc'[q].start = proc[q].start /\ proc'[q].spec = proc[q].spec,
           pc \notin Persisting, pc' \notin Persisting,
           pc' \in Processless => ~AdoptRecorded \/ proc[pidFile].kind = "free"
                                  \/ pc \in Processless
    PROVE  ProcessesAreKnown'
<1>1. ProcessesAreKnown
  BY DEF SupervisorInv
<1>2. interrupts = 0 /\ pc' \in Processless => \A p \in Pids : proc[p].kind # "pv"
  BY <1>1, NothingRecorded DEF ProcessesAreKnown
<1> QED
  BY <1>1, <1>2 DEF ProcessesAreKnown, Recorded

(* Adopting, reloading and stopping the recorded process. *)
LEMMA AdoptStepKeeps ==
    ASSUME SupervisorInv, Adopt \/ AdoptFails \/ Reload \/ ReloadReady \/ Stop
    PROVE  SupervisorInv'
<1>0. /\ RuntimeTypeOK /\ TaskHolds /\ ConfigIsKept
      /\ pidFile \in Pids \cup {NoPid}
  BY DEF SupervisorInv, RuntimeTypeOK
<1>1. /\ UNCHANGED <<pidFile, meta, root, dir, rootBak, dirBak, target, child, version, spec>>
      /\ pc \in {"adopt", "reload", "reloadReady", "stopping", "killing"}
      /\ pc' \in {"reload", "reloadReady", "stopping", "killing", "spawn", "commit",
                  "unverified", "deleteDir"}
      /\ pc' \in Childless \/ pc' \in {"commit", "unverified", "deleteDir"}
      /\ observed' \in {observed, "failed"} /\ before' = before
  BY DEF Adopt, AdoptFails, Reload, ReloadReady, Stop, StopRecorded, Goto, Rollback,
     fileVars, configVars, worldVars, ghostVars, procVars, Signal, Childless
<1>2. /\ proc' \in [Pids -> Procs] /\ UNCHANGED <<starts, interrupts>>
      /\ \A q \in Pids : /\ proc'[q].kind = proc[q].kind
                         /\ proc'[q].start = proc[q].start
                         /\ proc'[q].spec = proc[q].spec
  <2>1. \/ UNCHANGED <<procVars, interrupts>>
        \/ Signal(pidFile, "term") \/ Signal(pidFile, "reload") \/ Signal(pidFile, "kill")
    BY DEF Adopt, AdoptFails, Reload, ReloadReady, Stop, StopRecorded, ghostVars
  <2>2. CASE UNCHANGED <<procVars, interrupts>>
    BY <1>0, <2>2 DEF procVars, RuntimeTypeOK
  <2> QED
    BY <1>0, <2>1, <2>2, SignalKeeps
<1>3. pc' = "spawn" => ~AdoptRecorded \/ proc[pidFile].kind = "free"
  BY DEF Adopt, AdoptFails, Reload, ReloadReady, Stop, StopRecorded, Goto, Rollback
<1>4. RuntimeTypeOK'
  BY <1>0, <1>1, <1>2 DEF RuntimeTypeOK, Steps
<1>5. TaskHolds'
  BY <1>0, <1>1 DEF TaskHolds, Untouched, RootMoved, Childless, Persisting
<1>6. ProcessesAreKnown'
  BY <1>1, <1>2, <1>3, ProcessesStayRecorded DEF Processless, Persisting
<1>7. ConfigIsKept'
  BY <1>0, <1>1 DEF ConfigIsKept, Untouched, RootMoved, Steps
<1> QED
  BY <1>4, <1>5, <1>6, <1>7 DEF SupervisorInv

(* Starting a process: at Spawn there is no other, and the files describe it
   before the task lets go of it. *)
LEMMA StartStepKeeps ==
    ASSUME SupervisorInv, Spawn \/ PersistPid \/ PersistMeta \/ Ready
    PROVE  SupervisorInv'
<1>0. /\ RuntimeTypeOK /\ TaskHolds /\ ProcessesAreKnown /\ ConfigIsKept
      /\ 0 \in Contents /\ NoPid \notin Pids
  BY SupervisorAssumption DEF SupervisorInv, Contents, Missing, NoPid
<1>1. /\ UNCHANGED <<root, dir, rootBak, dirBak, target, version, spec, interrupts, before>>
      /\ pc \in {"spawn", "persistPid", "persistMeta", "ready"}
      /\ pc' \in {"persistPid", "persistMeta", "ready", "commit", "unverified", "deleteDir"}
      /\ observed' \in {observed, "failed"}
  BY DEF Spawn, PersistPid, PersistMeta, PersistFails, Ready, Goto, Rollback, configVars,
     worldVars, ghostVars
<1>2. ConfigIsKept'
  BY <1>0, <1>1 DEF ConfigIsKept, Untouched, RootMoved, Steps
<1>3. Free \in Procs /\ Free.kind = "free"
  BY <1>0 DEF Free, Procs
<1>4. CASE Spawn
  <2>1. PICK p \in Pids :
          /\ proc' = [proc EXCEPT ![p] = [Free EXCEPT !.kind = "pv", !.start = UnusedStart,
                                                      !.spec = target.spec]]
          /\ child' = p
    BY <1>4 DEF Spawn
  <2>2. /\ pc = "spawn" /\ pc' = "persistPid" /\ starts' = UnusedStart
        /\ UNCHANGED <<pidFile, meta, observed>>
    BY <1>4 DEF Spawn, Goto, fileVars
  <2> DEFINE r == [Free EXCEPT !.kind = "pv", !.start = UnusedStart, !.spec = target.spec]
  <2>3. /\ r \in Procs /\ r.start = UnusedStart /\ r.spec = target.spec
        /\ UnusedStart \in StartIds
    <3>1. UnusedStart \in StartIds /\ target.spec \in Nat
      BY <1>0, UnusedStartExists DEF RuntimeTypeOK
    <3> QED
      BY <1>0, <3>1 DEF Free, Procs
  <2>4. /\ proc' \in [Pids -> Procs] /\ proc'[p] = r
        /\ \A q \in Pids \ {p} : proc'[q] = proc[q]
    BY <1>0, <2>1, <2>3 DEF RuntimeTypeOK
  <2> HIDE DEF r
  <2>5. RuntimeTypeOK'
    BY <1>0, <1>1, <2>1, <2>2, <2>3, <2>4 DEF RuntimeTypeOK, Steps
  <2>6. TaskHolds'
    BY <1>0, <1>1, <2>1, <2>2, <2>3, <2>4
    DEF TaskHolds, Untouched, RootMoved, Childless, Persisting
  <2>7. ProcessesAreKnown'
    BY <1>0, <1>1, <2>1, <2>2, <2>4 DEF ProcessesAreKnown, Processless, Persisting
  <2> QED
    BY <1>2, <2>5, <2>6, <2>7 DEF SupervisorInv
<1>5. ASSUME pc \in {"persistPid", "persistMeta", "ready"}, TerminateSpawnedChild,
             Rollback, starts' \in {0, starts}, UNCHANGED <<pidFile, meta, child>>
      PROVE  SupervisorInv'
  <2>1. /\ child \in Pids /\ pc' = "deleteDir" /\ observed' = "failed"
        /\ proc' = [proc EXCEPT ![child] = Free]
    BY <1>0, <1>5 DEF TaskHolds, Persisting, Rollback, Goto, TerminateSpawnedChild
  <2>2. /\ proc' \in [Pids -> Procs] /\ proc'[child] = Free
        /\ \A q \in Pids \ {child} : proc'[q] = proc[q]
    BY <1>0, <1>3, <2>1 DEF RuntimeTypeOK
  <2>3. RuntimeTypeOK'
    BY <1>0, <1>1, <1>5, <2>1, <2>2 DEF RuntimeTypeOK, Steps
  <2>4. TaskHolds'
    BY <2>1 DEF TaskHolds, Untouched, RootMoved, Childless, Persisting
  <2>5. ProcessesAreKnown'
    BY <1>0, <1>1, <1>3, <1>5, <2>1, <2>2
    DEF ProcessesAreKnown, Recorded, Processless, Persisting
  <2> QED
    BY <1>2, <2>3, <2>4, <2>5 DEF SupervisorInv
<1>6. CASE PersistPid \/ PersistMeta
  <2>1. CASE PersistFails
    BY <1>5, <1>6, <2>1 DEF PersistPid, PersistMeta, PersistFails
  <2>2. CASE PersistPid /\ ~PersistFails
    <3>1. /\ pc = "persistPid" /\ pc' = "persistMeta" /\ pidFile' = child
          /\ UNCHANGED <<proc, starts, meta, child, observed>>
      BY <2>2 DEF PersistPid, Goto, procVars
    <3>2. RuntimeTypeOK'
      BY <1>0, <1>1, <3>1 DEF RuntimeTypeOK, Steps
    <3>3. TaskHolds'
      BY <1>0, <1>1, <3>1 DEF TaskHolds, Untouched, RootMoved, Childless, Persisting
    <3>4. ProcessesAreKnown'
      BY <1>0, <1>1, <3>1 DEF ProcessesAreKnown, Processless, Persisting
    <3> QED
      BY <1>2, <3>2, <3>3, <3>4 DEF SupervisorInv
  <2>3. CASE PersistMeta /\ ~PersistFails
    <3>1. /\ pc = "persistMeta" /\ pc' = "ready" /\ starts' = 0
          /\ meta' = [pid |-> child, start |-> starts, spec |-> target.spec]
          /\ UNCHANGED <<proc, pidFile, child, observed>>
      BY <2>3 DEF PersistMeta, Goto
    <3>2. RuntimeTypeOK'
      BY <1>0, <1>1, <3>1 DEF RuntimeTypeOK, Steps
    <3>3. TaskHolds'
      BY <1>0, <1>1, <3>1 DEF TaskHolds, Untouched, RootMoved, Childless, Persisting
    <3>4. ProcessesAreKnown'
      <4>1. /\ pidFile = child
            /\ proc[child].kind = "pv" => proc[child].start = starts
                                          /\ proc[child].spec = target.spec
        BY <1>0, <3>1 DEF TaskHolds, Persisting
      <4>2. meta'.pid = child /\ meta'.start = starts /\ meta'.spec = target.spec
        BY <3>1
      <4> QED
        BY <1>0, <1>1, <3>1, <4>1, <4>2
        DEF ProcessesAreKnown, Recorded, Processless, Persisting
    <3> QED
      BY <1>2, <3>2, <3>3, <3>4 DEF SupervisorInv
  <2> QED
    BY <1>6, <2>1, <2>2, <2>3
<1>7. CASE Ready
  <2>1. pc = "ready" /\ UNCHANGED <<pidFile, meta, child>>
    BY <1>7 DEF Ready, fileVars
  <2>2. CASE TerminateSpawnedChild /\ starts' = starts /\ Rollback
    BY <1>5, <2>1, <2>2
  <2>3. CASE UNCHANGED procVars /\ pc' \in {"commit", "unverified", "deleteDir"}
    <3>1. UNCHANGED <<proc, starts>>
      BY <2>3 DEF procVars
    <3>2. RuntimeTypeOK'
      BY <1>0, <1>1, <2>1, <3>1 DEF RuntimeTypeOK, Steps
    <3>3. TaskHolds'
      BY <2>3 DEF TaskHolds, Untouched, RootMoved, Childless, Persisting
    <3>4. ProcessesAreKnown'
      BY <1>0, <1>1, <2>1, <2>3, <3>1, ProcessesStayKnown DEF Processless, Persisting
    <3> QED
      BY <1>2, <3>2, <3>3, <3>4 DEF SupervisorInv
  <2> QED
    BY <1>7, <2>2, <2>3 DEF Ready, Goto, Rollback
<1> QED
  BY <1>4, <1>6, <1>7

(* Stopping a runtime that no project needs and removing its files. *)
LEMMA StaleStepKeeps ==
    ASSUME SupervisorInv, BeginStale \/ StopStale \/ CleanupPid \/ CleanupMeta \/ CleanupConfig
    PROVE  SupervisorInv'
<1>0. /\ RuntimeTypeOK /\ TaskHolds /\ ProcessesAreKnown /\ ConfigIsKept
      /\ Missing \in Contents /\ pidFile \in Pids \cup {NoPid}
  <2>1. RuntimeTypeOK /\ TaskHolds /\ ProcessesAreKnown /\ ConfigIsKept
    BY DEF SupervisorInv
  <2>2. Missing \in Contents
    BY SupervisorAssumption DEF Missing, Contents
  <2>3. pidFile \in Pids \cup {NoPid}
    BY <2>1 DEF RuntimeTypeOK
  <2> QED
    BY <2>1, <2>2, <2>3
<1>1. CASE BeginStale \/ StopStale
  <2>1. /\ UNCHANGED <<pidFile, meta, root, dir, rootBak, dirBak, target, child, version, spec,
                       observed>>
        /\ pc \in {"idle", "staleStopping", "staleKilling"}
        /\ pc' \in {"idle", "staleStopping", "staleKilling", "cleanupPid"}
        /\ \/ pc = "idle" /\ before' = <<root, dir>>
           \/ pc # "idle" /\ before' = before
    BY <1>1 DEF BeginStale, StopStale, StopRecorded, Goto, Signal, fileVars, configVars,
       worldVars, ghostVars
  <2>2. /\ proc' \in [Pids -> Procs] /\ UNCHANGED <<starts, interrupts>>
        /\ \A q \in Pids : /\ proc'[q].kind = proc[q].kind
                           /\ proc'[q].start = proc[q].start
                           /\ proc'[q].spec = proc[q].spec
    <3>1. \/ UNCHANGED <<procVars, interrupts>>
          \/ Signal(pidFile, "term") \/ Signal(pidFile, "kill")
      BY <1>1 DEF BeginStale, StopStale, StopRecorded, ghostVars
    <3>2. CASE UNCHANGED <<procVars, interrupts>>
      BY <1>0, <3>2 DEF procVars, RuntimeTypeOK
    <3> QED
      BY <1>0, <3>1, <3>2, SignalKeeps
  <2>3. pc' = "cleanupPid" => ~AdoptRecorded \/ proc[pidFile].kind = "free"
    BY <1>1 DEF BeginStale, StopStale, StopRecorded, Goto
  <2>4. RuntimeTypeOK'
    BY <1>0, <2>1, <2>2 DEF RuntimeTypeOK, Steps
  <2>5. TaskHolds'
    BY <1>0, <2>1 DEF TaskHolds, Untouched, RootMoved, Childless, Persisting
  <2>6. ProcessesAreKnown'
    BY <2>1, <2>2, <2>3, ProcessesStayRecorded DEF Processless, Persisting
  <2>7. ConfigIsKept'
    BY <1>0, <2>1 DEF ConfigIsKept, Untouched, RootMoved, Steps
  <2> QED
    BY <2>4, <2>5, <2>6, <2>7 DEF SupervisorInv
<1>2. CASE CleanupPid \/ CleanupMeta \/ CleanupConfig
  <2>1. /\ UNCHANGED <<proc, starts, rootBak, dirBak, target, child, version, spec, interrupts,
                       before>>
        /\ \/ /\ pc = "cleanupPid" /\ pc' = "cleanupMeta" /\ pidFile' = NoPid
              /\ observed' = "stopped" /\ UNCHANGED <<meta, root, dir>>
           \/ /\ pc = "cleanupMeta" /\ pc' = "cleanupConfig" /\ meta' = NoMeta
              /\ UNCHANGED <<pidFile, root, dir, observed>>
           \/ /\ pc = "cleanupConfig" /\ pc' = "idle" /\ root' = Missing /\ dir' = Missing
              /\ UNCHANGED <<pidFile, meta, observed>>
    BY <1>2 DEF CleanupPid, CleanupMeta, CleanupConfig, Goto, procVars, fileVars, configVars,
       worldVars, ghostVars
  <2>2. RuntimeTypeOK'
    BY <1>0, <2>1 DEF RuntimeTypeOK, Steps, NoMeta
  <2>3. TaskHolds'
    BY <1>0, <2>1 DEF TaskHolds, Untouched, RootMoved, Childless, Persisting
  <2>4. ProcessesAreKnown'
    BY <1>0, <2>1 DEF ProcessesAreKnown, Recorded, Processless, Persisting
  <2>5. ConfigIsKept'
    BY <2>1 DEF ConfigIsKept, Untouched, RootMoved
  <2> QED
    BY <2>2, <2>3, <2>4, <2>5 DEF SupervisorInv
<1> QED
  BY <1>1, <1>2

(* The supervisor's invariant is inductive. *)
LEMMA SupervisorInvStep == SupervisorInv /\ [Next]_vars => SupervisorInv'
<1> SUFFICES ASSUME SupervisorInv, [Next]_vars PROVE SupervisorInv'
  OBVIOUS
<1>1. CASE UNCHANGED vars
  BY <1>1 DEF vars, procVars, fileVars, configVars, worldVars, ghostVars, SupervisorInv,
     RuntimeTypeOK, TaskHolds, ProcessesAreKnown, Recorded, ConfigIsKept
<1> QED
  BY <1>1, ProcessStepKeeps, WorldStepKeeps, ConfigStepKeeps, AdoptStepKeeps, StartStepKeeps,
     StaleStepKeeps DEF Next, Task

(* Every process PV started is recorded or held by the task that started it, and
   the config on disk is the promoted one or has its backup, whatever dies or
   fails: the inductive invariant behind the theorems below. *)
THEOREM SupervisorCorrect == Spec => []SupervisorInv
BY SupervisorInvInit, SupervisorInvStep, PTL DEF Spec

-----------------------------------------------------------------------------
(* A process that PV started is in its files or held by the task, unless the
   daemon died or a task was dropped. *)
THEOREM NoProcessIsOrphaned == Spec => []NoOrphans
<1>1. SupervisorInv => NoOrphans
  <2> SUFFICES ASSUME SupervisorInv PROVE NoOrphans
    OBVIOUS
  <2>1. SupervisorTypeOK
    BY DEF SupervisorInv, RuntimeTypeOK, TaskHolds, SupervisorTypeOK, Procs, Untouched,
       Childless
  <2>2. interrupts = 0 =>
         \A p \in Pids : proc[p].kind = "pv" =>
           \/ p = child
           \/ meta.pid = p /\ pidFile = p /\ meta.start = proc[p].start
    BY DEF SupervisorInv, ProcessesAreKnown, Recorded
  <2> QED
    BY <2>1, <2>2 DEF NoOrphans
<1> QED
  BY <1>1, SupervisorCorrect, PTL

(* A reconciliation that fails at any step leaves the active config as it was
   when it began, unless its rollback failed too. *)
THEOREM FailedTasksRestoreConfig == Spec => FailureRestoresConfig
<1>1. SupervisorInv /\ [Next]_vars =>
        [pc # "idle" /\ pc' = "idle" /\ observed' = "failed" /\ before' # <<>> /\ ~Interrupt
           => <<root', dir'>> = before]_vars
  <2> SUFFICES ASSUME SupervisorInv, Next, pc # "idle", pc' = "idle", observed' = "failed",
                      before' # <<>>, ~Interrupt
               PROVE  <<root', dir'>> = before
    OBVIOUS
  <2>0. ConfigIsKept
    BY DEF SupervisorInv
  <2>1. CASE ValidateConfig \/ BackupRoot \/ PlaceRoot
    <3>1. /\ before' = before /\ dir' = dir
          /\ \/ pc \in {"validate", "backupRoot"} /\ root' = root
             \/ pc = "placeRoot" /\ root' = rootBak
      BY <2>1 DEF ValidateConfig, BackupRoot, PlaceRoot, Goto, Finish, configVars, ghostVars
    <3> QED
      BY <2>0, <3>1 DEF ConfigIsKept, Untouched, RootMoved
  <2>2. CASE RestoreRoot
    <3>1. before' = before /\ dir' = dir /\ pc = "restoreRoot" /\ root' = rootBak
      BY <2>2 DEF RestoreRoot, ghostVars
    <3> QED
      BY <2>0, <3>1 DEF ConfigIsKept, RootMoved
  <2>3. CASE StopStale
    <3>1. UNCHANGED <<before, root, dir>> /\ pc \in {"staleStopping", "staleKilling"}
      BY <2>3 DEF StopStale, StopRecorded, Goto, configVars, ghostVars
    <3> QED
      BY <2>0, <3>1 DEF ConfigIsKept, Untouched
  <2>4. CASE RollbackFails \/ Commit
    BY <2>4 DEF RollbackFails, Commit, Finish
  <2>5. CASE CleanupConfig
    <3>1. pc = "cleanupConfig" /\ observed' = observed
      BY <2>5 DEF CleanupConfig
    <3> QED
      BY <3>1 DEF SupervisorInv, TaskHolds
  <2>6. ~(\/ Begin \/ BackupDir \/ PlaceDir \/ DeleteDir \/ RestoreDir \/ DeleteRoot \/ Adopt
          \/ AdoptFails \/ Reload \/ ReloadReady \/ Stop \/ Spawn \/ PersistPid \/ PersistMeta
          \/ Ready \/ BeginStale \/ CleanupPid \/ CleanupMeta)
    BY DEF Begin, BackupDir, PlaceDir, DeleteDir, RestoreDir, DeleteRoot, Adopt, AdoptFails,
       Reload, ReloadReady, Stop, StopRecorded, Spawn, PersistPid, PersistMeta, PersistFails,
       Ready, BeginStale, CleanupPid, CleanupMeta, Goto, Rollback
  <2>7. ~(\/ \E p \in Pids : Boot(p) \/ HandleReload(p) \/ Exit(p) \/ TakePid(p) \/ ForeignExits(p)
          \/ Request \/ Upgrade \/ Unneed \/ \E ok \in BOOLEAN : EditConfig(ok))
    BY DEF Boot, HandleReload, Exit, TakePid, ForeignExits, taskVars, Request, Upgrade, Unneed,
       EditConfig
  <2> QED
    BY <2>1, <2>2, <2>3, <2>4, <2>5, <2>6, <2>7 DEF Next, Task
<1> QED
  BY <1>1, SupervisorCorrect, PTL DEF Spec, FailureRestoresConfig
=============================================================================
