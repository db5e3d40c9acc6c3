--------------------------- MODULE SelfUpdateProofs ---------------------------
(***************************************************************************)
(* Proofs about SelfUpdate for any number of update processes, versions,   *)
(* manifests and migrations: the active release resolves, a reported       *)
(* rollback serves the previous release, an update never downgrades, and   *)
(* migrations leave a backup of the schema they replace.                   *)
(***************************************************************************)
EXTENDS SelfUpdate, FiniteSetTheorems, WellFoundedInduction, TLAPS

Processes == {"daemon", "command"}

(* Steps of an update that holds the coordination lock. *)
Preparing == {"fetch", "download", "install", "activate"}
Restarting == {"bootout", "bootstrap", "kickstart", "health"}
Locked == Preparing \cup Restarting \cup {"restore", "remove", "rolledBack", "prune"}

Update == [pc : Locked \cup {"start", "continue", "resources"}, version : Versions,
           previous : Versions \cup {None}, target : Versions \cup {None},
           rollback : BOOLEAN]

DaemonProcess == [version : Versions \cup {None}, up : BOOLEAN]

UpdateTypeOK ==
  /\ published \in Manifests
  /\ active \in Versions
  /\ daemon \in DaemonProcess
  /\ upd \in [Updaters -> {Ready} \cup Update]
  /\ lock \in Updaters \cup {None}

(* The update is past a failed restart of the new release. *)
RollsBack(r) == r.rollback

(* What the update of u knows about the releases while it holds the lock. *)
UpdateIsSound(u) ==
  /\ upd[u].pc = "start" => ~RollsBack(upd[u])
  /\ upd[u].pc \in Locked =>
       /\ lock = u
       /\ upd[u].previous = upd[u].version /\ upd[u].previous \in releases
       /\ upd[u].pc # "fetch" => upd[u].target \in Versions /\ upd[u].target > upd[u].previous
       /\ upd[u].pc \in Preparing \cup {"restore", "prune"} => ~RollsBack(upd[u])
       /\ upd[u].pc \in Preparing => active = upd[u].previous
       /\ upd[u].pc \in Restarting \cup {"restore", "prune"} /\ ~RollsBack(upd[u]) =>
            active = upd[u].target
       /\ upd[u].pc \in {"remove", "rolledBack"} => active = upd[u].previous
       /\ upd[u].pc \in Restarting /\ RollsBack(upd[u]) => active = upd[u].previous
       /\ upd[u].pc \in {"bootstrap", "kickstart", "health", "rolledBack"} =>
            daemon.version \in {None, active}

ReleaseInv ==
  /\ UpdateTypeOK
  /\ active \in releases
  /\ \A u \in Updaters : UpdateIsSound(u)

-----------------------------------------------------------------------------
(* Releases and the updates *)

(* A nonempty set of naturals has a least element. *)
LEMMA LeastNatural ==
  ASSUME NEW T, T \subseteq Nat, T # {}
  PROVE  \E x \in T : \A y \in T : x <= y
<1> DEFINE R == OpToRel(<, Nat)
<1>1. \E x \in T : \A y \in T : ~(<<y, x>> \in R)
  <2>1. IsWellFoundedOn(R, Nat)
    BY NatLessThanWellFounded
  <2> HIDE DEF R
  <2> QED
    BY <2>1, WFMin
<1>2. \A x, y \in Nat : x < y => <<x, y>> \in R
  BY DEF OpToRel
<1> HIDE DEF R
<1>3. PICK x \in T : \A y \in T : ~(<<y, x>> \in R)
  BY <1>1
<1>4. ASSUME NEW y \in T PROVE x <= y
  <2>1. ~(y < x)
    BY <1>2, <1>3
  <2> QED
    BY <2>1
<1> QED
  BY <1>4

LEMMA OldestIsVersion == Min(Versions) \in Versions
<1>1. \E x \in Versions : \A y \in Versions : x =< y
  BY LeastNatural, UpdateAssumption
<1> QED
  BY <1>1 DEF Min

LEMMA StoppedIsProcess == Stopped \in DaemonProcess /\ Stopped.version = None
  BY DEF Stopped, DaemonProcess

LEMMA ReleaseInvInit == Init => ReleaseInv
<1> SUFFICES ASSUME Init PROVE ReleaseInv
  OBVIOUS
<1> USE DEF Init
<1>1. UpdateTypeOK
  BY OldestIsVersion, StoppedIsProcess DEF UpdateTypeOK
<1>2. ASSUME NEW u \in Updaters PROVE UpdateIsSound(u)
  BY DEF UpdateIsSound, Ready, Locked, Preparing, Restarting
<1> QED
  BY <1>1, <1>2 DEF ReleaseInv

(* An update that is not at its first step or over is a full record, and only
   one of them holds the lock. *)
LEMMA LockedUpdate ==
  ASSUME ReleaseInv, NEW u \in Updaters
  PROVE  /\ upd[u].pc # "idle" => upd[u] \in Update
         /\ upd[u].pc \in Locked => lock = u
         /\ \A w \in Updaters : upd[w].pc \in Locked => lock = w
<1>1. upd[u].pc # "idle" => upd[u] \in Update
  <2>1. upd[u] \in {Ready} \cup Update
    BY DEF ReleaseInv, UpdateTypeOK
  <2>2. upd[u] = Ready => upd[u].pc = "idle"
    BY DEF Ready
  <2> QED
    BY <2>1, <2>2
<1>2. \A w \in Updaters : upd[w].pc \in Locked => lock = w
  BY DEF ReleaseInv, UpdateIsSound
<1> QED
  BY <1>1, <1>2

(* When the holder of the lock takes a step, the other updates stay sound. *)
LEMMA OthersStaySound ==
  ASSUME ReleaseInv, NEW u \in Updaters, lock = u,
         NEW r, upd' = [upd EXCEPT ![u] = r], NEW w \in Updaters, w # u
  PROVE  UpdateIsSound(w)'
<1>1. upd'[w] = upd[w] /\ upd[w].pc \notin Locked /\ UpdateIsSound(w)
  BY LockedUpdate DEF ReleaseInv, UpdateTypeOK
<1> QED
  BY <1>1 DEF UpdateIsSound

(* A step that leaves the updates, the lock and the releases alone, and starts
   no daemon but one of the active release, keeps the invariant. *)
LEMMA QuietStepKeeps ==
  ASSUME ReleaseInv, releases' = releases, active' = active, upd' = upd, lock' = lock,
         published' \in Manifests,
         daemon' \in DaemonProcess,
         daemon'.version \in {None, active, daemon.version}
  PROVE  ReleaseInv'
<1>1. UpdateTypeOK'
  BY DEF ReleaseInv, UpdateTypeOK
<1>2. ASSUME NEW u \in Updaters PROVE UpdateIsSound(u)'
  <2>1. UpdateIsSound(u)
    BY DEF ReleaseInv
  <2> QED
    BY <2>1 DEF UpdateIsSound
<1> QED
  BY <1>1, <1>2 DEF ReleaseInv

LEMMA OpenStepKeepsReleases ==
  ASSUME ReleaseInv, NEW p \in Processes, OpenStep(p)
  PROVE  ReleaseInv'
<1>1. /\ published' = published /\ releases' = releases /\ active' = active
      /\ upd' = upd /\ lock' = lock
  BY DEF OpenStep, ReadApplied, WriteBackup, Migrate
<1>2. daemon \in DaemonProcess /\ published \in Manifests
  BY DEF ReleaseInv, UpdateTypeOK
<1>3. daemon' \in {daemon, Stopped, [daemon EXCEPT !.up = TRUE]}
  <2>1. CASE ReadApplied(p)
    BY <2>1 DEF ReadApplied, OpenFails, Opened
  <2>2. CASE WriteBackup(p)
    BY <2>2 DEF WriteBackup, OpenFails
  <2>3. CASE Migrate(p)
    BY <2>3 DEF Migrate, OpenFails, Opened
  <2> QED
    BY <2>1, <2>2, <2>3 DEF OpenStep
<1>4. /\ daemon' \in DaemonProcess
      /\ daemon'.version \in {None, active, daemon.version}
  <2>1. CASE daemon' = daemon
    BY <1>2, <2>1
  <2>2. CASE daemon' = Stopped
    BY <2>2, StoppedIsProcess
  <2>3. CASE daemon' = [daemon EXCEPT !.up = TRUE]
    BY <1>2, <2>3 DEF DaemonProcess
  <2> QED
    BY <1>3, <2>1, <2>2, <2>3
<1> QED
  BY <1>1, <1>2, <1>4, QuietStepKeeps

(* A step of the update that holds the lock. *)
LEMMA HolderStepKeeps ==
  ASSUME ReleaseInv, NEW u \in Updaters, lock = u,
         NEW r \in {Ready} \cup Update, upd' = [upd EXCEPT ![u] = r],
         lock' \in {u, None}, published' = published, daemon' \in {daemon, Stopped},
         active' \in Versions, active' \in releases', UpdateIsSound(u)'
  PROVE  ReleaseInv'
<1>1. UpdateTypeOK'
  BY StoppedIsProcess DEF ReleaseInv, UpdateTypeOK
<1>2. ASSUME NEW w \in Updaters PROVE UpdateIsSound(w)'
  BY OthersStaySound
<1> QED
  BY <1>1, <1>2 DEF ReleaseInv

(* The update that holds the lock ends. *)
LEMMA HolderEnds ==
  ASSUME ReleaseInv, NEW u \in Updaters, lock = u, Ends(u), Releases(u),
         published' = published, daemon' \in {daemon, Stopped},
         active' \in Versions, active' \in releases'
  PROVE  ReleaseInv'
<1>1. upd' = [upd EXCEPT ![u] = Ready] /\ lock' = None
  BY DEF Ends, Releases
<1>2. upd'[u] = Ready
  BY <1>1 DEF ReleaseInv, UpdateTypeOK
<1>3. UpdateIsSound(u)'
  BY <1>2 DEF UpdateIsSound, Ready, Locked, Preparing, Restarting
<1> QED
  BY <1>1, <1>3, HolderStepKeeps

(* The update that holds the lock goes on with the same versions. *)
LEMMA HolderGoes ==
  ASSUME ReleaseInv, NEW u \in Updaters, upd[u].pc \in Locked, NEW x \in Locked, Goes(u, x),
         lock' = lock
  PROVE  /\ upd[u] \in Update /\ lock = u
         /\ upd' = [upd EXCEPT ![u] = [upd[u] EXCEPT !.pc = x]]
         /\ [upd[u] EXCEPT !.pc = x] \in Update
         /\ upd'[u] = [upd[u] EXCEPT !.pc = x]
<1>1. upd[u] \in Update /\ lock = u
  <2>1. upd[u].pc # "idle"
    BY DEF Locked, Preparing, Restarting
  <2> QED
    BY <2>1, LockedUpdate
<1>2. upd' = [upd EXCEPT ![u] = [upd[u] EXCEPT !.pc = x]]
  BY DEF Goes
<1>3. [upd[u] EXCEPT !.pc = x] \in Update
  BY <1>1 DEF Update
<1>4. upd'[u] = [upd[u] EXCEPT !.pc = x]
  BY <1>2 DEF ReleaseInv, UpdateTypeOK
<1> QED
  BY <1>1, <1>2, <1>3, <1>4

(* An update begins, goes on or ends without the lock, or lets go of it. *)
LEMMA UnlockedStepKeeps ==
  ASSUME ReleaseInv, NEW u \in Updaters,
         NEW r \in {Ready} \cup Update, upd' = [upd EXCEPT ![u] = r],
         r.pc \notin Locked, r.pc = "start" => ~RollsBack(r),
         lock' = lock \/ Releases(u),
         published' = published, releases' = releases, active' = active, daemon' = daemon
  PROVE  ReleaseInv'
<1>1. UpdateTypeOK'
  BY DEF ReleaseInv, UpdateTypeOK, Releases
<1>2. ASSUME NEW w \in Updaters PROVE UpdateIsSound(w)'
  <2>1. CASE w # u
    <3>1. upd'[w] = upd[w] /\ UpdateIsSound(w)
      BY <2>1 DEF ReleaseInv, UpdateTypeOK
    <3>2. upd[w].pc \in Locked => lock = w
      BY LockedUpdate
    <3>3. CASE upd[w].pc \notin Locked
      BY <3>1, <3>3 DEF UpdateIsSound
    <3>4. CASE lock' = lock
      BY <3>1, <3>4 DEF UpdateIsSound
    <3> QED
      BY <2>1, <3>2, <3>3, <3>4 DEF Releases
  <2>2. CASE w = u
    <3>1. upd'[u] = r
      BY DEF ReleaseInv, UpdateTypeOK
    <3> QED
      BY <2>2, <3>1 DEF UpdateIsSound
  <2> QED
    BY <2>1, <2>2
<1> QED
  BY <1>1, <1>2 DEF ReleaseInv

LEMMA UpdateEnds ==
  ASSUME ReleaseInv, NEW u \in Updaters, Ends(u),
         lock' = lock \/ Releases(u),
         published' = published, releases' = releases, active' = active, daemon' = daemon
  PROVE  ReleaseInv'
<1>1. upd' = [upd EXCEPT ![u] = Ready]
  BY DEF Ends
<1>2. Ready.pc \notin Locked /\ Ready.pc # "start"
  BY DEF Ready, Locked, Preparing, Restarting
<1> QED
  BY <1>1, <1>2, UnlockedStepKeeps

LEMMA PreflightKeeps ==
  ASSUME ReleaseInv, NEW u \in Updaters, Preflight(u)
  PROVE  ReleaseInv'
<1>1. /\ published' = published /\ releases' = releases /\ active' = active
      /\ daemon' = daemon /\ upd[u].pc = "start"
  BY DEF Preflight
<1>2. upd[u] \in Update
  BY <1>1, LockedUpdate
<1>3. active \in Versions /\ active \in releases /\ upd \in [Updaters -> {Ready} \cup Update]
  BY DEF ReleaseInv, UpdateTypeOK
<1>4. CASE /\ lock = None /\ validate_active_release(upd[u].version) /\ lock' = u
           /\ upd' = [upd EXCEPT ![u].pc = "fetch", ![u].previous = active]
  <2> DEFINE r == [upd[u] EXCEPT !.pc = "fetch", !.previous = active]
  <2>1. upd' = [upd EXCEPT ![u] = r]
    BY <1>4
  <2>2. r \in Update
    BY <1>2, <1>3 DEF Update, Locked, Preparing
  <2>3. r.pc = "fetch" /\ r.previous = active /\ r.version = upd[u].version
    BY <1>2 DEF Update
  <2>4. upd[u].version = active
    BY <1>3, <1>4 DEF validate_active_release, active_release
  <2>5. UpdateTypeOK'
    BY <1>1, <1>4, <2>1, <2>2 DEF ReleaseInv, UpdateTypeOK
  <2>6. ASSUME NEW w \in Updaters PROVE UpdateIsSound(w)'
    <3>1. CASE w # u
      <4>1. upd'[w] = upd[w] /\ upd[w].pc \notin Locked /\ UpdateIsSound(w)
        BY <1>3, <1>4, <2>1, <3>1, LockedUpdate, UpdateAssumption DEF ReleaseInv
      <4> QED
        BY <4>1 DEF UpdateIsSound
    <3>2. CASE w = u
      <4>1. upd'[u] = r
        BY <1>3, <2>1
      <4>2. ~RollsBack(r)
        <5>1. RollsBack(r) <=> RollsBack(upd[u])
          BY <1>2 DEF RollsBack, Update
        <5> QED
          BY <1>1, <5>1 DEF ReleaseInv, UpdateIsSound
      <4> HIDE DEF r
      <4>3. /\ "fetch" \in Locked /\ "fetch" \in Preparing
            /\ "fetch" \notin Restarting \cup {"restore", "prune"}
        BY DEF Locked, Preparing, Restarting
      <4>4. upd'[u].pc = "fetch" /\ ~RollsBack(upd'[u])
        BY <2>3, <4>1, <4>2
      <4>5. upd'[u].previous = active' /\ upd'[u].version = active' /\ active' \in releases'
        BY <1>1, <1>3, <2>3, <2>4, <4>1
      <4> QED
        BY <1>4, <3>2, <4>3, <4>4, <4>5 DEF UpdateIsSound
    <3> QED
      BY <3>1, <3>2
  <2> HIDE DEF r
  <2> QED
    BY <1>1, <1>3, <2>5, <2>6 DEF ReleaseInv
<1>5. CASE Ends(u) /\ lock' = lock
  BY <1>1, <1>5, UpdateEnds
<1> QED
  BY <1>4, <1>5 DEF Preflight, UpdateLock_acquire

LEMMA FetchKeeps ==
  ASSUME ReleaseInv, NEW u \in Updaters, fetch_app_update_manifest(u)
  PROVE  ReleaseInv'
<1>1. /\ published' = published /\ releases' = releases /\ active' = active
      /\ daemon' = daemon /\ upd[u].pc = "fetch"
  BY DEF fetch_app_update_manifest
<1>2. upd[u] \in Update /\ lock = u
  BY <1>1, LockedUpdate DEF Locked, Preparing
<1>3. /\ active \in Versions /\ active \in releases /\ upd \in [Updaters -> {Ready} \cup Update]
      /\ published \in Manifests /\ UpdateIsSound(u)
  BY DEF ReleaseInv, UpdateTypeOK
<1>4. CASE Goes(u, "resources") /\ Releases(u)
  <2> DEFINE r == [upd[u] EXCEPT !.pc = "resources"]
  <2>1. r \in Update /\ r.pc = "resources"
    BY <1>2 DEF Update
  <2>2. upd' = [upd EXCEPT ![u] = r]
    BY <1>4 DEF Goes
  <2>3. "resources" \notin Locked
    BY DEF Locked, Preparing, Restarting
  <2> HIDE DEF r
  <2> QED
    BY <1>1, <1>4, <2>1, <2>2, <2>3, UnlockedStepKeeps
<1>5. CASE /\ UpdateAvailable(u) /\ lock' = lock
           /\ upd' = [upd EXCEPT ![u].pc = "download", ![u].target = published.version]
  <2> DEFINE r == [upd[u] EXCEPT !.pc = "download", !.target = published.version]
  <2>1. published.version \in Versions /\ published.version > upd[u].version
    BY <1>3, <1>5, UpdateAssumption DEF UpdateAvailable
  <2>2. /\ r \in Update /\ r.pc = "download" /\ r.target = published.version
        /\ r.previous = upd[u].previous /\ r.version = upd[u].version
        /\ RollsBack(r) <=> RollsBack(upd[u])
    BY <1>2, <2>1 DEF RollsBack, Update, Locked, Preparing
  <2>3. upd' = [upd EXCEPT ![u] = r] /\ upd'[u] = r
    BY <1>3, <1>5
  <2> HIDE DEF r
  <2>4. UpdateIsSound(u)'
    <3>1. /\ "fetch" \in Locked /\ "fetch" \in Preparing
          /\ "download" \in Locked /\ "download" \in Preparing
          /\ "download" \notin Restarting \cup {"restore", "prune"}
      BY DEF Locked, Preparing, Restarting
    <3> QED
      BY <1>1, <1>2, <1>3, <1>5, <2>1, <2>2, <2>3, <3>1 DEF UpdateIsSound
  <2> QED
    BY <1>1, <1>2, <1>3, <1>5, <2>2, <2>3, <2>4, HolderStepKeeps
<1>6. CASE Ends(u) /\ Releases(u)
  BY <1>1, <1>6, UpdateEnds
<1> QED
  BY <1>4, <1>5, <1>6 DEF fetch_app_update_manifest

(* What an update that holds the lock knows, in a form that names its step. *)
LEMMA HolderFacts ==
  ASSUME ReleaseInv, NEW u \in Updaters, upd[u].pc \in Locked
  PROVE  /\ upd[u] \in Update /\ lock = u
         /\ active \in Versions /\ active \in releases
         /\ upd[u].previous = upd[u].version /\ upd[u].previous \in releases
         /\ upd[u].previous \in Versions
         /\ upd[u].pc # "fetch" =>
              upd[u].target \in Versions /\ upd[u].target > upd[u].previous
<1>1. upd[u].pc # "idle"
  BY DEF Locked, Preparing, Restarting
<1>2. upd[u] \in Update /\ lock = u
  BY <1>1, LockedUpdate
<1>3. /\ active \in Versions /\ active \in releases
  BY DEF ReleaseInv, UpdateTypeOK
<1>4. UpdateIsSound(u)
  BY DEF ReleaseInv
<1>5. upd[u].version \in Versions
  BY <1>2 DEF Update
<1> QED
  BY <1>2, <1>3, <1>4, <1>5 DEF UpdateIsSound

(* A step of the holder to step x that keeps the versions it holds. *)
LEMMA HolderGoesOn ==
  ASSUME ReleaseInv, NEW u \in Updaters, upd[u].pc \in Locked, upd[u].pc # "fetch",
         NEW x \in Locked, x # "fetch", Goes(u, x), lock' = lock, published' = published,
         daemon' \in {daemon, Stopped}, active' \in releases', active' \in Versions,
         upd[u].previous \in releases',
         x \in Preparing \cup {"restore", "prune"} => ~RollsBack(upd[u]),
         x \in Preparing => active' = upd[u].previous,
         x \in Restarting \cup {"restore", "prune"} /\ ~RollsBack(upd[u]) =>
           active' = upd[u].target,
         x \in {"remove", "rolledBack"} => active' = upd[u].previous,
         x \in Restarting /\ RollsBack(upd[u]) => active' = upd[u].previous,
         x \in {"bootstrap", "kickstart", "health", "rolledBack"} =>
           daemon'.version \in {None, active'}
  PROVE  ReleaseInv'
<1>1. /\ upd[u] \in Update /\ lock = u
      /\ upd' = [upd EXCEPT ![u] = [upd[u] EXCEPT !.pc = x]]
      /\ [upd[u] EXCEPT !.pc = x] \in Update
      /\ upd'[u] = [upd[u] EXCEPT !.pc = x]
  BY HolderGoes
<1>2. /\ upd'[u].pc = x /\ upd'[u].previous = upd[u].previous
      /\ upd'[u].version = upd[u].version /\ upd'[u].target = upd[u].target
      /\ RollsBack(upd'[u]) <=> RollsBack(upd[u])
  BY <1>1 DEF Update, RollsBack
<1>3. x # "start"
  BY DEF Locked, Preparing, Restarting
<1>4. UpdateIsSound(u)'
  BY <1>1, <1>2, <1>3, HolderFacts DEF UpdateIsSound
<1> QED
  BY <1>1, <1>4, HolderStepKeeps

LEMMA InstallStepKeeps ==
  ASSUME ReleaseInv, NEW u \in Updaters,
         download_app_asset(u) \/ install_release_binary(u) \/ activate_release(u)
  PROVE  ReleaseInv'
<1> USE DEF Locked, Preparing, Restarting
<1>1. /\ upd[u].pc \in {"download", "install", "activate"}
      /\ published' = published /\ daemon' = daemon
  BY DEF download_app_asset, install_release_binary, activate_release
<1>2. /\ lock = u /\ active \in Versions /\ active \in releases
      /\ upd[u].previous \in releases
      /\ upd[u].target \in Versions /\ active = upd[u].previous /\ ~RollsBack(upd[u])
  <2>1. UpdateIsSound(u)
    BY DEF ReleaseInv
  <2> QED
    BY <1>1, <2>1, HolderFacts DEF UpdateIsSound
<1>3. CASE download_app_asset(u)
  <2>1. releases' = releases /\ active' = active
    BY <1>3 DEF download_app_asset
  <2>2. CASE Goes(u, "install") /\ lock' = lock
    BY <1>1, <1>2, <2>1, <2>2, HolderGoesOn
  <2>3. CASE Ends(u) /\ Releases(u)
    BY <1>1, <1>2, <2>1, <2>3, UpdateEnds
  <2> QED
    BY <1>3, <2>2, <2>3 DEF download_app_asset
<1>4. CASE install_release_binary(u)
  <2>1. active' = active /\ releases' \in {releases, releases \cup {upd[u].target}}
    BY <1>4 DEF install_release_binary
  <2>2. active' \in releases' /\ upd[u].previous \in releases'
    BY <1>2, <2>1
  <2>3. CASE Goes(u, "activate") /\ lock' = lock
    BY <1>1, <1>2, <2>1, <2>2, <2>3, HolderGoesOn
  <2>4. CASE Ends(u) /\ Releases(u)
    BY <1>1, <1>2, <2>1, <2>2, <2>4, HolderEnds
  <2> QED
    BY <1>4, <2>3, <2>4 DEF install_release_binary
<1>5. CASE activate_release(u)
  <2>1. releases' = releases
    BY <1>5 DEF activate_release
  <2>2. CASE /\ Goes(u, "bootout") /\ lock' = lock
             /\ upd[u].target \in releases /\ active' = upd[u].target
    BY <1>1, <1>2, <2>1, <2>2, HolderGoesOn
  <2>3. CASE Ends(u) /\ Releases(u) /\ active' \in {active} \cup ({upd[u].target} \cap releases)
    BY <1>1, <1>2, <2>1, <2>3, HolderEnds
  <2> QED
    BY <1>5, <2>2, <2>3 DEF activate_release
<1> QED
  BY <1>3, <1>4, <1>5

(* A failing restart leaves the releases alone: the update goes on to the
   rollback, or ends. *)
LEMMA RestartFailsKeeps ==
  ASSUME ReleaseInv, NEW u \in Updaters, upd[u].pc \in Restarting, RestartFails(u),
         published' = published, releases' = releases, active' = active, daemon' = daemon
  PROVE  ReleaseInv'
<1> USE DEF Locked, Preparing, Restarting
<1>1. /\ active \in Versions /\ active \in releases /\ upd[u].previous \in releases
      /\ upd[u].pc \in Locked /\ upd[u].pc # "fetch"
  BY HolderFacts
<1>2. UpdateIsSound(u)
  BY DEF ReleaseInv
<1>3. CASE RollsBack(upd[u])
  <2>1. Ends(u) /\ Releases(u)
    BY <1>3 DEF RestartFails, RollsBack
  <2> QED
    BY <2>1, UpdateEnds
<1>4. CASE ~RollsBack(upd[u])
  <2>1. Goes(u, "restore") /\ lock' = lock
    BY <1>4 DEF RestartFails, RollsBack
  <2>2. active = upd[u].target
    BY <1>1, <1>2, <1>4 DEF UpdateIsSound
  <2> QED
    BY <1>1, <1>4, <2>1, <2>2, HolderGoesOn
<1> QED
  BY <1>3, <1>4

LEMMA RestartStepKeeps ==
  ASSUME ReleaseInv, NEW u \in Updaters,
         \/ bootout_launch_agent_if_loaded(u) \/ bootstrap_launch_agent(u)
         \/ kickstart_launch_agent(u) \/ wait_until_daemon_started(u)
  PROVE  ReleaseInv'
<1> USE DEF Locked, Preparing, Restarting
<1>1. /\ upd[u].pc \in Restarting
      /\ published' = published /\ releases' = releases /\ active' = active
  BY DEF bootout_launch_agent_if_loaded, bootstrap_launch_agent, kickstart_launch_agent,
         wait_until_daemon_started
<1>2. /\ active \in Versions /\ active \in releases /\ upd[u].previous \in releases
      /\ upd[u].pc \in Locked /\ upd[u].pc # "fetch"
      /\ RollsBack(upd[u]) => active = upd[u].previous
      /\ ~RollsBack(upd[u]) => active = upd[u].target
      /\ upd[u].pc # "bootout" => daemon.version \in {None, active}
  <2>1. UpdateIsSound(u)
    BY DEF ReleaseInv
  <2> QED
    BY <1>1, <2>1, HolderFacts DEF UpdateIsSound
<1>3. ASSUME NEW x \in {"bootstrap", "kickstart", "health"}, Goes(u, x), lock' = lock,
             daemon' = Stopped \/ (daemon' = daemon /\ upd[u].pc # "bootout")
      PROVE  ReleaseInv'
  <2>1. daemon' \in {daemon, Stopped} /\ daemon'.version \in {None, active'}
    BY <1>1, <1>2, <1>3, StoppedIsProcess
  <2> QED
    BY <1>1, <1>2, <1>3, <2>1, HolderGoesOn
<1>4. CASE RestartFails(u) /\ daemon' = daemon
  BY <1>1, <1>4, RestartFailsKeeps
<1>5. CASE bootout_launch_agent_if_loaded(u)
  BY <1>3, <1>4, <1>5 DEF bootout_launch_agent_if_loaded, Kill
<1>6. CASE bootstrap_launch_agent(u)
  BY <1>3, <1>4, <1>6 DEF bootstrap_launch_agent
<1>7. CASE kickstart_launch_agent(u)
  BY <1>3, <1>4, <1>7 DEF kickstart_launch_agent, Kill
<1>8. CASE wait_until_daemon_started(u)
  <2>1. daemon' = daemon /\ upd[u].pc = "health"
    BY <1>8 DEF wait_until_daemon_started
  <2>2. CASE RollsBack(upd[u]) /\ Goes(u, "rolledBack") /\ lock' = lock
    BY <1>1, <1>2, <2>1, <2>2, HolderGoesOn
  <2>3. CASE ~RollsBack(upd[u]) /\ Goes(u, "prune") /\ lock' = lock
    BY <1>1, <1>2, <2>1, <2>3, HolderGoesOn
  <2> QED
    BY <1>4, <1>8, <2>1, <2>2, <2>3 DEF wait_until_daemon_started, RollsBack
<1> QED
  BY <1>5, <1>6, <1>7, <1>8

LEMMA RollbackStepKeeps ==
  ASSUME ReleaseInv, NEW u \in Updaters,
         RestorePrevious(u) \/ remove_release(u) \/ ReportRollback(u)
  PROVE  ReleaseInv'
<1> USE DEF Locked, Preparing, Restarting
<1>1. /\ upd[u].pc \in {"restore", "remove", "rolledBack"}
      /\ published' = published /\ daemon' = daemon
  BY DEF RestorePrevious, remove_release, ReportRollback
<1>2. /\ active \in Versions /\ active \in releases
      /\ upd[u].previous \in releases /\ upd[u].previous \in Versions
      /\ upd[u].target \in Versions /\ upd[u].target > upd[u].previous
      /\ upd[u].pc = "remove" => active = upd[u].previous
      /\ upd[u] \in Update /\ lock = u /\ upd[u].previous = upd[u].version
  <2>1. UpdateIsSound(u)
    BY DEF ReleaseInv
  <2> QED
    BY <1>1, <2>1, HolderFacts DEF UpdateIsSound
<1>3. CASE RestorePrevious(u)
  <2>1. releases' = releases
    BY <1>3 DEF RestorePrevious
  <2>2. CASE active' = upd[u].previous /\ Goes(u, "remove") /\ lock' = lock
    BY <1>1, <1>2, <2>1, <2>2, HolderGoesOn
  <2>3. CASE Ends(u) /\ Releases(u) /\ active' \in {active} \cup ({upd[u].previous} \cap releases)
    BY <1>1, <1>2, <2>1, <2>3, HolderEnds
  <2> QED
    BY <1>3, <2>2, <2>3 DEF RestorePrevious
<1>4. CASE remove_release(u)
  <2> DEFINE r == [upd[u] EXCEPT !.pc = "bootout", !.rollback = TRUE]
  <2>1. /\ releases' \in {releases, releases \ {upd[u].target}}
        /\ active' = active /\ lock' = lock /\ upd[u].pc = "remove"
        /\ upd' = [upd EXCEPT ![u] = r]
    BY <1>4 DEF remove_release
  <2>2. /\ r \in Update /\ r.pc = "bootout" /\ r.previous = upd[u].previous
        /\ r.target = upd[u].target /\ r.version = upd[u].version
    BY <1>2 DEF Update
  <2>3. RollsBack(r)
    BY <1>2 DEF Update, RollsBack
  <2>4. upd'[u] = r
    BY <2>1 DEF ReleaseInv, UpdateTypeOK
  <2> HIDE DEF r
  <2>5. upd[u].previous # upd[u].target
    <3>1. upd[u].previous \in Nat /\ upd[u].target \in Nat
      BY <1>2, UpdateAssumption
    <3> QED
      BY <1>2, <3>1
  <2>6. active' \in releases' /\ upd[u].previous \in releases'
    BY <1>2, <2>1, <2>5
  <2>7. /\ upd'[u].pc = "bootout" /\ RollsBack(upd'[u])
        /\ upd'[u].previous = upd'[u].version /\ upd'[u].previous \in releases'
        /\ upd'[u].target \in Versions /\ upd'[u].target > upd'[u].previous
        /\ active' = upd'[u].previous /\ lock' = u
    BY <1>2, <2>1, <2>2, <2>3, <2>4, <2>6
  <2>8. UpdateIsSound(u)'
    BY <2>7 DEF UpdateIsSound
  <2> QED
    BY <1>1, <1>2, <2>1, <2>2, <2>6, <2>8, HolderStepKeeps
<1>5. CASE ReportRollback(u)
  BY <1>1, <1>5, UpdateEnds DEF ReportRollback
<1> QED
  BY <1>3, <1>4, <1>5

LEMMA FinishStepKeeps ==
  ASSUME ReleaseInv, NEW u \in Updaters,
         \/ prune_releases(u) \/ run_managed_resource_continuation(u)
         \/ run_managed_resource_update_phase(u)
  PROVE  ReleaseInv'
<1> USE DEF Locked, Preparing, Restarting
<1>1. published' = published /\ daemon' = daemon /\ active' = active
  BY DEF prune_releases, run_managed_resource_continuation, run_managed_resource_update_phase
<1>2. /\ active \in Versions /\ active \in releases
      /\ upd \in [Updaters -> {Ready} \cup Update]
  BY DEF ReleaseInv, UpdateTypeOK
<1>3. CASE prune_releases(u)
  <2> DEFINE r == [upd[u] EXCEPT !.pc = "continue", !.version = active]
  <2>1. /\ upd[u].pc = "prune" /\ upd' = [upd EXCEPT ![u] = r] /\ Releases(u)
        /\ releases' \in {releases, releases \cap {active, upd[u].previous}}
    BY <1>3 DEF prune_releases
  <2>2. upd[u] \in Update /\ lock = u
    BY <2>1, HolderFacts
  <2>3. r \in Update /\ r.pc = "continue"
    BY <1>2, <2>2 DEF Update
  <2>4. upd'[u] = r
    BY <1>2, <2>1
  <2> HIDE DEF r
  <2>5. UpdateIsSound(u)'
    BY <2>3, <2>4 DEF UpdateIsSound
  <2>6. active' \in releases' /\ lock' \in {u, None}
    BY <1>1, <1>2, <2>1, <2>2 DEF Releases
  <2> QED
    BY <1>1, <1>2, <2>1, <2>2, <2>3, <2>5, <2>6, HolderStepKeeps
<1>4. CASE run_managed_resource_continuation(u)
  <2>1. upd[u].pc = "continue" /\ releases' = releases /\ lock' = lock
    BY <1>4 DEF run_managed_resource_continuation
  <2>2. CASE Goes(u, "resources")
    <3> DEFINE r == [upd[u] EXCEPT !.pc = "resources"]
    <3>1. upd[u] \in Update
      BY <2>1, LockedUpdate
    <3>2. r \in Update /\ r.pc = "resources"
      BY <3>1 DEF Update
    <3>3. upd' = [upd EXCEPT ![u] = r]
      BY <2>2 DEF Goes
    <3> HIDE DEF r
    <3> QED
      BY <1>1, <2>1, <3>2, <3>3, UnlockedStepKeeps
  <2>3. CASE Ends(u)
    BY <1>1, <2>1, <2>3, UpdateEnds
  <2> QED
    BY <1>4, <2>2, <2>3 DEF run_managed_resource_continuation
<1>5. CASE run_managed_resource_update_phase(u)
  BY <1>1, <1>5, UpdateEnds DEF run_managed_resource_update_phase
<1> QED
  BY <1>3, <1>4, <1>5

LEMMA StartUpdateKeeps ==
  ASSUME ReleaseInv, NEW u \in Updaters, StartUpdate(u)
  PROVE  ReleaseInv'
<1> DEFINE r == [pc |-> "start", version |-> active, previous |-> None, target |-> None,
                 rollback |-> FALSE]
<1>1. /\ published' = published /\ releases' = releases /\ active' = active
      /\ daemon' = daemon /\ lock' = lock /\ upd' = [upd EXCEPT ![u] = r]
  BY DEF StartUpdate
<1>2. r \in Update /\ ~RollsBack(r) /\ r.pc = "start"
  BY DEF Update, RollsBack, ReleaseInv, UpdateTypeOK
<1>3. "start" \notin Locked
  BY DEF Locked, Preparing, Restarting
<1> HIDE DEF r
<1> QED
  BY <1>1, <1>2, <1>3, UnlockedStepKeeps

LEMMA ReleaseInvStep == ReleaseInv /\ [Next]_vars => ReleaseInv'
<1> SUFFICES ASSUME ReleaseInv, [Next]_vars PROVE ReleaseInv'
  OBVIOUS
<1>1. daemon \in DaemonProcess /\ published \in Manifests /\ active \in Versions
  BY DEF ReleaseInv, UpdateTypeOK
<1>2. ASSUME NEW u \in Updaters, StartUpdate(u) PROVE ReleaseInv'
  BY <1>2, StartUpdateKeeps
<1>3. ASSUME NEW u \in Updaters, UpdateStep(u) PROVE ReleaseInv'
  BY <1>3, PreflightKeeps, FetchKeeps, InstallStepKeeps, RestartStepKeeps, RollbackStepKeeps,
     FinishStepKeeps DEF UpdateStep
<1>4. ASSUME NEW u \in Updaters, UpdaterDies(u) PROVE ReleaseInv'
  BY <1>4, UpdateEnds DEF UpdaterDies, Ends
<1>5. ASSUME NEW p \in Processes, OpenStep(p) PROVE ReleaseInv'
  BY <1>5, OpenStepKeepsReleases
<1>6. CASE LaunchdStarts
  <2>1. daemon' \in DaemonProcess /\ daemon'.version = active
    BY <1>1, <1>6 DEF LaunchdStarts, DaemonProcess
  <2> QED
    BY <1>1, <1>6, <2>1, QuietStepKeeps DEF LaunchdStarts
<1>7. CASE DaemonDies
  BY <1>1, <1>7, StoppedIsProcess, QuietStepKeeps DEF DaemonDies, Kill
<1>8. CASE CommandOpens \/ SecondPasses \/ UNCHANGED vars
  BY <1>1, <1>8, QuietStepKeeps DEF CommandOpens, SecondPasses, vars
<1>9. ASSUME NEW manifest \in Manifests, Publish(manifest) PROVE ReleaseInv'
  BY <1>1, <1>9, QuietStepKeeps DEF Publish
<1> QED
  BY <1>2, <1>3, <1>4, <1>5, <1>6, <1>7, <1>8, <1>9 DEF Next, Processes

(* The releases and the updates stay as ReleaseInv describes them: one update
   at a time holds the lock, the release it came from stays on disk, and what
   is active, what it installs and what runs fit the step it is at. *)
THEOREM ReleasesCorrect == Spec => []ReleaseInv
  BY ReleaseInvInit, ReleaseInvStep, PTL DEF Spec

(* bin/pv always resolves, and the release an update may roll back to stays on
   disk: for any number of updates, deaths and failing steps. *)
THEOREM ActiveReleaseResolves == Spec => []ActiveResolves
<1>1. ReleaseInv => ActiveResolves
  <2> SUFFICES ASSUME ReleaseInv PROVE ActiveResolves
    OBVIOUS
  <2>1. active \in releases
    BY DEF ReleaseInv
  <2>2. ASSUME NEW u \in Updaters, upd[u].pc \in Locked PROVE upd[u].previous \in releases
    BY <2>2, HolderFacts
  <2> QED
    BY <2>1, <2>2 DEF ActiveResolves, Locked, Preparing, Restarting
<1> QED
  BY <1>1, ReleasesCorrect, PTL

(* An update that reports its rollback left the previous release active, and
   no daemon of another release runs. *)
THEOREM RollbacksServePrevious == Spec => []RollbackServesPrevious
<1>1. ReleaseInv => RollbackServesPrevious
  BY DEF ReleaseInv, UpdateIsSound, RollbackServesPrevious, Locked
<1> QED
  BY <1>1, ReleasesCorrect, PTL

(* No step replaces the active release by an older one, except the rollback of
   the update that activated it. *)
THEOREM ReleasesAreNotDowngraded == Spec => NeverDowngraded
<1> DEFINE A == active' < active =>
             \E u \in Updaters : lock = u /\ upd[u].target = active /\ upd[u].previous = active'
<1>1. ReleaseInv /\ [Next]_vars => [A]_vars
  <2> SUFFICES ASSUME ReleaseInv, Next PROVE A
    OBVIOUS
  <2>1. active \in Nat
    BY UpdateAssumption DEF ReleaseInv, UpdateTypeOK
  <2>2. CASE active' = active
    BY <2>1, <2>2
  <2>3. ASSUME NEW u \in Updaters, activate_release(u), active' # active PROVE A
    <3>1. upd[u].pc = "activate" /\ active' = upd[u].target
      BY <2>3 DEF activate_release
    <3>2. upd[u].pc \in Locked /\ upd[u].pc \in Preparing /\ upd[u].pc # "fetch"
      BY <3>1 DEF Locked, Preparing
    <3>3. upd[u].target \in Versions /\ upd[u].target > upd[u].previous /\ active = upd[u].previous
      BY <3>2 DEF ReleaseInv, UpdateIsSound
    <3>4. active \in Nat /\ active' \in Nat /\ active' > active
      BY <2>1, <3>1, <3>3, UpdateAssumption
    <3> QED
      BY <3>4
  <2>4. ASSUME NEW u \in Updaters, RestorePrevious(u), active' # active PROVE A
    <3>1. upd[u].pc = "restore" /\ active' = upd[u].previous
      BY <2>4 DEF RestorePrevious
    <3>2. upd[u].pc \in Locked
      BY <3>1 DEF Locked
    <3>3. lock = u /\ active = upd[u].target
      BY <3>1, <3>2 DEF ReleaseInv, UpdateIsSound
    <3> QED
      BY <3>1, <3>3
  <2>5. ASSUME NEW u \in Updaters, UpdateStep(u), ~activate_release(u), ~RestorePrevious(u)
        PROVE  active' = active
    BY <2>5 DEF UpdateStep, Preflight, fetch_app_update_manifest, download_app_asset,
       install_release_binary, bootout_launch_agent_if_loaded, bootstrap_launch_agent,
       kickstart_launch_agent, wait_until_daemon_started, remove_release, ReportRollback,
       prune_releases, run_managed_resource_continuation, run_managed_resource_update_phase
  <2>6. CASE \E p \in Processes : OpenStep(p)
    BY <2>2, <2>6 DEF OpenStep, ReadApplied, WriteBackup, Migrate
  <2>7. ASSUME NEW u \in Updaters, StartUpdate(u) \/ UpdaterDies(u) PROVE A
    BY <2>2, <2>7 DEF StartUpdate, UpdaterDies
  <2>8. CASE LaunchdStarts \/ DaemonDies \/ CommandOpens \/ SecondPasses
    BY <2>2, <2>8 DEF LaunchdStarts, DaemonDies, CommandOpens, SecondPasses
  <2>9. ASSUME NEW manifest \in Manifests, Publish(manifest) PROVE A
    BY <2>2, <2>9 DEF Publish
  <2> HIDE DEF A
  <2> QED
    BY <2>2, <2>3, <2>4, <2>5, <2>6, <2>7, <2>8, <2>9 DEF Next, Processes
<1> QED
  BY <1>1, ReleasesCorrect, PTL DEF Spec, NeverDowngraded

-----------------------------------------------------------------------------
(* Database::open *)

Backup == [at : Nat \X Nat, schema : Seq(STRING)]

Opening == [version : Versions, step : {"backup", "migrate"}, seen : Seq(STRING), at : Nat \X Nat]

Process == {NotOpening} \cup [version : Versions, step : {"read"}] \cup Opening

DatabaseTypeOK ==
  /\ applied \in Seq(STRING) \ {<<>>}
  /\ IsFiniteSet(backups) /\ backups \subseteq Backup
  /\ clock \in Nat
  /\ open \in [Processes -> Process]

(* A process that has read what is applied: unless another one migrated since,
   every backup newer than its own is of what it read, and once it has written
   its own such a backup exists. *)
OpeningIsSound(o) ==
  /\ Len(o.seen) < Len(Migrations[o.version]) /\ Len(o.seen) <= Len(applied)
  /\ o.at[1] <= clock
  /\ Len(o.seen) = Len(applied) =>
       /\ o.seen = applied
       /\ \A b \in backups : Older(o.at, b.at) => b.schema = applied
       /\ o.step = "migrate" =>
            \E b \in backups : b.schema = applied /\ (b.at = o.at \/ Older(o.at, b.at))

DatabaseInv ==
  /\ DatabaseTypeOK
  /\ \A b \in backups : b.at[1] <= clock
  /\ \A p \in Processes : open[p].step \in {"backup", "migrate"} => OpeningIsSound(open[p])

-----------------------------------------------------------------------------
(* The newest of a finite set of naturals, and of the backups *)

LEMMA GreatestNatural ==
  ASSUME NEW S, IsFiniteSet(S), S \subseteq Nat, S # {}
  PROVE  Max(S) \in S /\ \A y \in S : Max(S) >= y
<1> DEFINE Above(x) == {y \in S : y > x}
           T == {Cardinality(Above(x)) : x \in S}
<1>1. ASSUME NEW x \in S PROVE IsFiniteSet(Above(x)) /\ Cardinality(Above(x)) \in Nat
  BY FS_Subset, FS_CardinalityType
<1>2. T \subseteq Nat /\ T # {}
  BY <1>1
<1>3. PICK n \in T : \A m \in T : n <= m
  BY <1>2, LeastNatural
<1>4. PICK x \in S : n = Cardinality(Above(x))
  BY <1>3
<1>5. ASSUME NEW y \in S, y > x PROVE FALSE
  <2>1. Above(y) \in SUBSET Above(x) /\ y \in Above(x) /\ y \notin Above(y)
    <3>1. x \in Nat /\ y \in Nat
      OBVIOUS
    <3>2. \A z \in S : z > y => z > x
      BY <1>5, <3>1
    <3>3. ~(y > y)
      BY <3>1
    <3> QED
      BY <1>5, <3>2, <3>3
  <2>2. Cardinality(Above(y)) <= Cardinality(Above(x)) /\ Cardinality(Above(y)) # Cardinality(Above(x))
    <3>1. IsFiniteSet(Above(x))
      BY <1>1
    <3>2. Cardinality(Above(y)) = Cardinality(Above(x)) => Above(x) = Above(y)
      BY <2>1, <3>1, FS_Subset, Zenon
    <3>3. Cardinality(Above(y)) <= Cardinality(Above(x))
      BY <2>1, <3>1, FS_Subset
    <3> HIDE DEF Above
    <3> QED
      BY <2>1, <3>2, <3>3
  <2>3. Cardinality(Above(y)) \in T
    OBVIOUS
  <2> HIDE DEF Above, T
  <2> QED
    BY <1>1, <1>3, <1>4, <2>2, <2>3
<1>6. \A y \in S : x >= y
  BY <1>5
<1> HIDE DEF T, Above
<1>7. \E z \in S : \A y \in S : z >= y
  BY <1>6
<1> QED
  BY <1>7 DEF Max

LEMMA OlderIsOrder ==
  ASSUME NEW a \in Nat \X Nat, NEW b \in Nat \X Nat, NEW c \in Nat \X Nat
  PROVE  ~Older(a, a) /\ (Older(a, b) /\ Older(b, c) => Older(a, c))
  BY DEF Older

(* Pruning keeps a backup of every nonempty set that is closed under newer. *)
LEMMA PruningKeepsNewest ==
  ASSUME NEW all, IsFiniteSet(all), all \subseteq Backup,
         NEW D \in SUBSET all, D # {},
         \A b \in D : \A c \in all : Older(b.at, c.at) => c \in D
  PROVE  \E b \in D : b \in prune_migration_backups(all)
<1> DEFINE Newer(b) == {c \in all : Older(b.at, c.at)}
           T == {Cardinality(Newer(b)) : b \in D}
<1>1. ASSUME NEW b \in all PROVE IsFiniteSet(Newer(b)) /\ Cardinality(Newer(b)) \in Nat
  BY FS_Subset, FS_CardinalityType
<1>2. T \subseteq Nat /\ T # {}
  BY <1>1
<1>3. PICK n \in T : \A m \in T : n <= m
  BY <1>2, LeastNatural
<1>4. PICK b \in D : n = Cardinality(Newer(b))
  BY <1>3
<1>5. ASSUME NEW c \in all, Older(b.at, c.at) PROVE FALSE
  <2>1. c \in D
    BY <1>5
  <2>2. b.at \in Nat \X Nat /\ c.at \in Nat \X Nat /\ \A d \in all : d.at \in Nat \X Nat
    BY DEF Backup
  <2>3. Newer(c) \in SUBSET Newer(b) /\ c \in Newer(b) /\ c \notin Newer(c)
    BY <1>5, <2>2, OlderIsOrder
  <2>4. Cardinality(Newer(c)) <= Cardinality(Newer(b)) /\ Cardinality(Newer(c)) # Cardinality(Newer(b))
    BY <1>1, <2>3, FS_Subset
  <2>5. Cardinality(Newer(c)) \in T
    BY <2>1
  <2> HIDE DEF Newer, T
  <2> QED
    BY <1>1, <1>3, <1>4, <2>1, <2>4, <2>5
<1>6. Newer(b) = {}
  BY <1>5
<1>7. Cardinality({c \in all : Older(b.at, c.at)}) = 0
  BY <1>6, FS_EmptySet
<1>8. b \in prune_migration_backups(all)
  BY <1>7, UpdateAssumption DEF prune_migration_backups
<1> HIDE DEF T, Newer
<1> QED
  BY <1>8

(* The name of a new backup: no backup of this second, or of an earlier one,
   is newer. *)
LEMMA SuffixIsNew ==
  ASSUME DatabaseInv
  PROVE  /\ next_backup_suffix(clock) \in Nat
         /\ \A b \in backups : ~Older(<<clock, next_backup_suffix(clock)>>, b.at)
<1> DEFINE Now == {c \in backups : c.at[1] = clock}
           used == {b.at[2] : b \in Now}
<1>1. /\ IsFiniteSet(backups) /\ clock \in Nat
      /\ \A b \in backups : b.at \in Nat \X Nat /\ b.at[1] <= clock
  BY DEF DatabaseInv, DatabaseTypeOK, Backup
<1>2. IsFiniteSet(used) /\ used \subseteq Nat
  <2>1. IsFiniteSet(Now)
    BY <1>1, FS_Subset
  <2>2. [b \in Now |-> b.at[2]] \in Surjection(Now, used)
    BY DEF Surjection
  <2> QED
    BY <1>1, <2>1, <2>2, FS_Surjection
<1>3. next_backup_suffix(clock) = IF used = {} THEN 0 ELSE Max(used) + 1
  BY DEF next_backup_suffix
<1>4. used # {} => Max(used) \in Nat /\ \A y \in used : Max(used) >= y
  BY <1>2, GreatestNatural
<1>5. next_backup_suffix(clock) \in Nat
  <2> HIDE DEF used
  <2> QED
    BY <1>3, <1>4
<1>6. ASSUME NEW b \in backups PROVE ~Older(<<clock, next_backup_suffix(clock)>>, b.at)
  <2>1. b.at[1] = clock => b.at[2] \in used
    OBVIOUS
  <2>2. b.at[1] \in Nat /\ b.at[2] \in Nat /\ b.at[1] <= clock
    BY <1>1
  <2> HIDE DEF used
  <2>3. b.at[1] = clock => b.at[2] < next_backup_suffix(clock)
    BY <1>3, <1>4, <2>1, <2>2
  <2> QED
    BY <1>1, <1>5, <2>2, <2>3 DEF Older
<1> QED
  BY <1>5, <1>6

-----------------------------------------------------------------------------
(* Database::open, step by step *)

LEMMA DatabaseInvInit == Init => DatabaseInv
<1> SUFFICES ASSUME Init PROVE DatabaseInv
  OBVIOUS
<1>1. applied \in Seq(STRING) \ {<<>>}
  BY OldestIsVersion, UpdateAssumption DEF Init
<1>2. IsFiniteSet(backups) /\ backups \subseteq Backup /\ clock \in Nat
  BY FS_EmptySet DEF Init
<1>3. open \in [Processes -> Process]
  BY DEF Init, Processes, Process
<1>4. \A p \in Processes : open[p].step \notin {"backup", "migrate"}
  BY DEF Init, Processes, NotOpening
<1> QED
  BY <1>1, <1>2, <1>3, <1>4 DEF Init, DatabaseInv, DatabaseTypeOK

(* One process goes to r, or none does, and the database stays. *)
LEMMA ProcessMoves ==
  ASSUME DatabaseInv, NEW p \in Processes, NEW r \in Process,
         open' = [open EXCEPT ![p] = r],
         applied' = applied, backups' = backups, clock' = clock,
         r.step \in {"backup", "migrate"} => OpeningIsSound(r)
  PROVE  DatabaseInv'
<1>1. DatabaseTypeOK'
  BY DEF DatabaseInv, DatabaseTypeOK
<1>2. \A b \in backups' : b.at[1] <= clock'
  BY DEF DatabaseInv
<1>3. ASSUME NEW q \in Processes, open'[q].step \in {"backup", "migrate"}
      PROVE  OpeningIsSound(open[q])'
  <2>1. open'[q] = IF q = p THEN r ELSE open[q]
    BY DEF DatabaseInv, DatabaseTypeOK
  <2>2. OpeningIsSound(open'[q])
    BY <1>3, <2>1 DEF DatabaseInv
  <2> QED
    BY <2>2 DEF OpeningIsSound
<1> QED
  BY <1>1, <1>2, <1>3 DEF DatabaseInv

LEMMA ProcessStops ==
  ASSUME DatabaseInv, NEW p \in Processes, open' = [open EXCEPT ![p] = NotOpening],
         applied' = applied, backups' = backups, clock' = clock
  PROVE  DatabaseInv'
<1>1. NotOpening \in Process /\ NotOpening.step \notin {"backup", "migrate"}
  BY DEF Process, NotOpening
<1> QED
  BY <1>1, ProcessMoves

LEMMA ProcessOpens ==
  ASSUME DatabaseInv, NEW p \in Processes, NEW v \in Versions,
         open' = [open EXCEPT ![p] = OpenDatabase(v)],
         applied' = applied, backups' = backups, clock' = clock
  PROVE  DatabaseInv'
<1>1. OpenDatabase(v) \in Process /\ OpenDatabase(v).step \notin {"backup", "migrate"}
  BY DEF Process, OpenDatabase
<1> QED
  BY <1>1, ProcessMoves

LEMMA ReadAppliedKeeps ==
  ASSUME DatabaseInv, NEW p \in Processes, ReadApplied(p)
  PROVE  DatabaseInv'
<1>1. applied' = applied /\ backups' = backups /\ clock' = clock /\ open[p].step = "read"
  BY DEF ReadApplied, database
<1>2. open[p].version \in Versions
  BY <1>1 DEF DatabaseInv, DatabaseTypeOK, Process, NotOpening, Opening
<1>3. CASE open' = [open EXCEPT ![p] = NotOpening]
  BY <1>1, <1>3, ProcessStops
<1>4. CASE /\ Len(applied) < Len(Migrations[open[p].version])
           /\ open' = [open EXCEPT ![p] =
                [version |-> open[p].version,
                 step |-> IF applied = <<>> THEN "migrate" ELSE "backup",
                 seen |-> applied, at |-> <<clock, next_backup_suffix(clock)>>]]
  <2> DEFINE r == [version |-> open[p].version, step |-> "backup",
                   seen |-> applied, at |-> <<clock, next_backup_suffix(clock)>>]
  <2>1. applied \in Seq(STRING) /\ applied # <<>> /\ clock \in Nat
    BY DEF DatabaseInv, DatabaseTypeOK
  <2>2. open' = [open EXCEPT ![p] = r]
    BY <1>4, <2>1
  <2>3. <<clock, next_backup_suffix(clock)>> \in Nat \X Nat
    BY <2>1, SuffixIsNew
  <2>4. r \in Process
    BY <1>2, <2>1, <2>3 DEF Process, Opening
  <2>5. OpeningIsSound(r)
    BY <1>4, <2>1, SuffixIsNew DEF OpeningIsSound
  <2> HIDE DEF r
  <2> QED
    BY <1>1, <2>2, <2>4, <2>5, ProcessMoves
<1>5. \/ open' = [open EXCEPT ![p] = NotOpening]
      \/ /\ ~(Len(applied) >= Len(Migrations[open[p].version]))
         /\ open' = [open EXCEPT ![p] =
              [version |-> open[p].version,
               step |-> IF applied = <<>> THEN "migrate" ELSE "backup",
               seen |-> applied, at |-> <<clock, next_backup_suffix(clock)>>]]
  BY DEF ReadApplied, OpenFails
<1>6. Len(applied) \in Nat /\ Len(Migrations[open[p].version]) \in Nat
  BY <1>2, UpdateAssumption DEF DatabaseInv, DatabaseTypeOK
<1> QED
  BY <1>3, <1>4, <1>5, <1>6

(* A process that has read what is applied. *)
LEMMA OpeningFacts ==
  ASSUME DatabaseInv, NEW p \in Processes, open[p].step \in {"backup", "migrate"}
  PROVE  /\ open[p] \in Opening /\ OpeningIsSound(open[p])
         /\ applied \in Seq(STRING) /\ Len(applied) \in Nat /\ Len(open[p].seen) \in Nat
         /\ Migrations[open[p].version] \in Seq(STRING)
         /\ Len(Migrations[open[p].version]) \in Nat
<1>1. open[p] \in Opening
  BY DEF DatabaseInv, DatabaseTypeOK, Process, NotOpening
<1>2. open[p].version \in Versions /\ open[p].seen \in Seq(STRING)
  BY <1>1 DEF Opening
<1>3. OpeningIsSound(open[p]) /\ applied \in Seq(STRING)
  BY DEF DatabaseInv, DatabaseTypeOK
<1> QED
  BY <1>1, <1>2, <1>3, UpdateAssumption

(* A new backup of what is applied serves every process that has read it. *)
LEMMA BackupServes ==
  ASSUME DatabaseInv, NEW o \in Opening, OpeningIsSound(o),
         NEW new \in Backup, new.schema = applied,
         NEW r \in Opening, r.version = o.version, r.seen = o.seen, r.at = o.at,
         r.step = "migrate" => o.step = "migrate" \/ new.at = o.at,
         backups' = prune_migration_backups(backups \cup {new}),
         applied' = applied, clock' = clock
  PROVE  OpeningIsSound(r)'
<1> DEFINE all == backups \cup {new}
<1>1. /\ IsFiniteSet(all) /\ all \subseteq Backup
      /\ backups' \in SUBSET all
  BY FS_AddElement DEF DatabaseInv, DatabaseTypeOK, prune_migration_backups
<1>2. o.at \in Nat \X Nat /\ \A b \in all : b.at \in Nat \X Nat
  BY <1>1 DEF Opening, Backup
<1>3. /\ Len(o.seen) < Len(Migrations[o.version]) /\ Len(o.seen) <= Len(applied)
      /\ o.at[1] <= clock
  BY DEF OpeningIsSound
<1>4. ASSUME Len(o.seen) = Len(applied)
      PROVE  o.seen = applied /\ \A b \in all : Older(o.at, b.at) => b.schema = applied
  BY <1>4 DEF OpeningIsSound
<1>5. ASSUME Len(o.seen) = Len(applied), r.step = "migrate"
      PROVE  \E b \in backups' : b.schema = applied /\ (b.at = o.at \/ Older(o.at, b.at))
  <2> DEFINE D == {c \in all : c.schema = applied /\ (c.at = o.at \/ Older(o.at, c.at))}
  <2>1. D # {}
    BY <1>5 DEF OpeningIsSound
  <2>2. ASSUME NEW b \in D, NEW c \in all, Older(b.at, c.at) PROVE c \in D
    <3>1. Older(o.at, c.at)
      BY <1>2, <2>2, OlderIsOrder
    <3> QED
      BY <1>4, <1>5, <3>1
  <2>3. \E b \in D : b \in prune_migration_backups(all)
    <3>1. D \in SUBSET all
      OBVIOUS
    <3> HIDE DEF D, all
    <3> QED
      BY <1>1, <2>1, <2>2, <3>1, PruningKeepsNewest
  <2> QED
    BY <2>3
<1> HIDE DEF all
<1> QED
  BY <1>1, <1>3, <1>4, <1>5 DEF OpeningIsSound

LEMMA WriteBackupKeeps ==
  ASSUME DatabaseInv, NEW p \in Processes, WriteBackup(p)
  PROVE  DatabaseInv'
<1>1. applied' = applied /\ clock' = clock /\ open[p].step = "backup"
  BY DEF WriteBackup
<1>2. /\ open[p] \in Opening /\ OpeningIsSound(open[p])
      /\ open \in [Processes -> Process] /\ IsFiniteSet(backups) /\ backups \subseteq Backup
      /\ applied \in Seq(STRING) \ {<<>>} /\ clock \in Nat
  BY <1>1, OpeningFacts DEF DatabaseInv, DatabaseTypeOK
<1>3. CASE open' = [open EXCEPT ![p] = NotOpening] /\ backups' = backups
  BY <1>1, <1>3, ProcessStops
<1>4. CASE /\ backups' = prune_migration_backups(backups \cup {[at |-> open[p].at, schema |-> applied]})
           /\ open' = [open EXCEPT ![p].step = "migrate"]
  <2>0. PICK new, r : /\ new = [at |-> open[p].at, schema |-> applied]
                      /\ r = [open[p] EXCEPT !.step = "migrate"]
    OBVIOUS
  <2>1. new \in Backup /\ new.schema = applied /\ new.at = open[p].at
    BY <1>2, <2>0 DEF Backup, Opening
  <2>2. /\ r \in Opening /\ r.version = open[p].version /\ r.seen = open[p].seen
        /\ r.at = open[p].at
    BY <1>2, <2>0 DEF Opening
  <2>3. open' = [open EXCEPT ![p] = r]
    BY <1>4, <2>0
  <2>4. backups' = prune_migration_backups(backups \cup {new})
    BY <1>4, <2>0
  <2>5. IsFiniteSet(backups') /\ backups' \subseteq backups \cup {new}
    <3>1. IsFiniteSet(backups \cup {new})
      BY <1>2, FS_AddElement
    <3>2. backups' \in SUBSET (backups \cup {new})
      BY <2>4 DEF prune_migration_backups
    <3> QED
      BY <3>1, <3>2, FS_Subset
  <2>6. DatabaseTypeOK'
    BY <1>1, <1>2, <2>1, <2>2, <2>3, <2>5 DEF DatabaseTypeOK, Process
  <2>7. \A b \in backups' : b.at[1] <= clock'
    BY <1>1, <1>2, <2>1, <2>5 DEF DatabaseInv, OpeningIsSound
  <2>8. ASSUME NEW q \in Processes, open'[q].step \in {"backup", "migrate"}
        PROVE  OpeningIsSound(open[q])'
    <3>1. CASE q = p
      <4>1. open'[q] = r
        BY <1>2, <2>3, <3>1
      <4>2. OpeningIsSound(r)'
        BY <1>1, <1>2, <2>1, <2>2, <2>4, BackupServes
      <4> QED
        BY <4>1, <4>2 DEF OpeningIsSound
    <3>2. CASE q # p
      <4>1. open'[q] = open[q]
        BY <1>2, <2>3, <3>2
      <4>2. open[q] \in Opening /\ OpeningIsSound(open[q])
        BY <2>8, <4>1, OpeningFacts
      <4>3. PICK o \in Opening : OpeningIsSound(o) /\ open'[q] = o
        BY <4>1, <4>2
      <4> QED
        BY <1>1, <2>1, <2>4, <4>3, BackupServes DEF OpeningIsSound
    <3> QED
      BY <3>1, <3>2
  <2> QED
    BY <2>6, <2>7, <2>8 DEF DatabaseInv
<1> QED
  BY <1>3, <1>4 DEF WriteBackup, OpenFails

LEMMA MigrateKeeps ==
  ASSUME DatabaseInv, NEW p \in Processes, Migrate(p)
  PROVE  DatabaseInv'
<1>1. backups' = backups /\ clock' = clock /\ open[p].step = "migrate"
      /\ open' = [open EXCEPT ![p] = NotOpening]
  BY DEF Migrate, OpenFails
<1>2. CASE applied' = applied
  BY <1>1, <1>2, ProcessStops
<1>3. CASE applied = open[p].seen /\ applied' = Migrations[open[p].version]
  <2>1. /\ applied' \in Seq(STRING) /\ Len(applied) \in Nat /\ Len(applied') \in Nat
        /\ Len(applied) < Len(applied')
    BY <1>1, <1>3, OpeningFacts DEF OpeningIsSound
  <2>2. applied' # <<>>
    BY <2>1
  <2>3. NotOpening \in Process /\ NotOpening.step \notin {"backup", "migrate"}
    BY DEF Process, NotOpening
  <2>4. DatabaseTypeOK'
    BY <1>1, <2>1, <2>2, <2>3 DEF DatabaseInv, DatabaseTypeOK
  <2>5. ASSUME NEW q \in Processes, open'[q].step \in {"backup", "migrate"}
        PROVE  OpeningIsSound(open[q])'
    <3>1. open'[q] = open[q] /\ q # p
      BY <1>1, <2>3, <2>5 DEF DatabaseInv, DatabaseTypeOK
    <3>2. OpeningIsSound(open[q]) /\ Len(open[q].seen) \in Nat
      BY <2>5, <3>1, OpeningFacts
    <3>3. Len(open[q].seen) < Len(applied') /\ Len(open[q].seen) <= Len(applied')
      BY <2>1, <3>2 DEF OpeningIsSound
    <3>4. Len(open[q].seen) # Len(applied')
      BY <2>1, <3>2, <3>3
    <3> QED
      BY <1>1, <3>1, <3>2, <3>3, <3>4 DEF OpeningIsSound
  <2> QED
    BY <1>1, <2>4, <2>5 DEF DatabaseInv
<1> QED
  BY <1>2, <1>3 DEF Migrate

LEMMA DatabaseInvStep == ReleaseInv /\ DatabaseInv /\ [Next]_vars => DatabaseInv'
<1> SUFFICES ASSUME ReleaseInv, DatabaseInv, [Next]_vars PROVE DatabaseInv'
  OBVIOUS
<1>1. active \in Versions
  BY DEF ReleaseInv, UpdateTypeOK
<1>2. CASE UNCHANGED <<applied, backups, clock, open>>
  BY <1>2 DEF DatabaseInv, DatabaseTypeOK, OpeningIsSound
<1>3. CASE Kill /\ UNCHANGED <<applied, backups, clock>>
  BY <1>3, ProcessStops DEF Kill, Processes
<1>4. ASSUME NEW p \in Processes, OpenStep(p) PROVE DatabaseInv'
  BY <1>4, ReadAppliedKeeps, WriteBackupKeeps, MigrateKeeps DEF OpenStep
<1>5. CASE LaunchdStarts \/ CommandOpens
  BY <1>1, <1>5, ProcessOpens DEF LaunchdStarts, CommandOpens, Processes, database
<1>6. CASE SecondPasses
  <2>1. /\ clock' = clock + 1 /\ clock \in Nat
        /\ applied' = applied /\ backups' = backups /\ open' = open
    BY <1>6 DEF SecondPasses, DatabaseInv, DatabaseTypeOK
  <2>2. DatabaseTypeOK'
    BY <2>1 DEF DatabaseInv, DatabaseTypeOK
  <2>3. \A b \in backups' : b.at[1] <= clock'
    <3>1. \A b \in backups : b.at[1] \in Nat /\ b.at[1] <= clock
      BY DEF DatabaseInv, DatabaseTypeOK, Backup
    <3> QED
      BY <2>1, <3>1
  <2>4. ASSUME NEW q \in Processes, open'[q].step \in {"backup", "migrate"}
        PROVE  OpeningIsSound(open[q])'
    <3>1. OpeningIsSound(open[q]) /\ open[q].at[1] \in Nat
      BY <2>1, <2>4, OpeningFacts DEF Opening
    <3>2. open[q].at[1] <= clock'
      BY <2>1, <3>1 DEF OpeningIsSound
    <3> QED
      BY <2>1, <3>1, <3>2 DEF OpeningIsSound
  <2> QED
    BY <2>2, <2>3, <2>4 DEF DatabaseInv
<1>7. ASSUME NEW u \in Updaters, UpdateStep(u) PROVE DatabaseInv'
  BY <1>2, <1>3, <1>7 DEF UpdateStep, Preflight, fetch_app_update_manifest, download_app_asset,
     install_release_binary, activate_release, bootout_launch_agent_if_loaded,
     bootstrap_launch_agent, kickstart_launch_agent, wait_until_daemon_started, RestorePrevious,
     remove_release, ReportRollback, prune_releases, run_managed_resource_continuation,
     run_managed_resource_update_phase, database
<1>8. ASSUME NEW u \in Updaters, StartUpdate(u) \/ UpdaterDies(u) PROVE DatabaseInv'
  BY <1>2, <1>8 DEF StartUpdate, UpdaterDies, database
<1>9. CASE DaemonDies \/ (\E manifest \in Manifests : Publish(manifest)) \/ UNCHANGED vars
  BY <1>2, <1>3, <1>9 DEF DaemonDies, Publish, vars, database
<1> QED
  BY <1>4, <1>5, <1>6, <1>7, <1>8, <1>9 DEF Next, Processes

(* The processes that open the database keep what DatabaseInv says: unless
   another one migrated since it read what is applied, every backup newer than
   the one it is about to write is of the schema it read. *)
THEOREM DatabaseCorrect == Spec => []DatabaseInv
<1>1. Init => DatabaseInv
  BY DatabaseInvInit
<1>2. ReleaseInv /\ DatabaseInv /\ [Next]_vars => DatabaseInv'
  BY DatabaseInvStep
<1> QED
  BY <1>1, <1>2, ReleasesCorrect, PTL DEF Spec

(* Migrations leave a backup of the schema they change, for any versions and
   migrations, any retention and any number of processes dying and retrying. *)
THEOREM MigrationsHaveBackups == Spec => MigrationHasBackup
<1> DEFINE A == applied' # applied => \E b \in backups' : b.schema = applied
<1>1. DatabaseInv /\ [Next]_vars => [A]_vars
  <2> SUFFICES ASSUME DatabaseInv, Next PROVE A
    OBVIOUS
  <2>1. CASE applied' = applied
    BY <2>1
  <2>2. ASSUME NEW p \in Processes, Migrate(p), applied' # applied PROVE A
    <3>1. open[p].step = "migrate" /\ applied = open[p].seen /\ backups' = backups
      BY <2>2 DEF Migrate
    <3>2. OpeningIsSound(open[p])
      BY <3>1, OpeningFacts
    <3> QED
      BY <3>1, <3>2 DEF OpeningIsSound
  <2>3. ASSUME NEW p \in Processes, ReadApplied(p) \/ WriteBackup(p) PROVE applied' = applied
    BY <2>3 DEF ReadApplied, WriteBackup, database
  <2>4. ASSUME NEW u \in Updaters, UpdateStep(u) PROVE applied' = applied
    BY <2>4 DEF UpdateStep, Preflight, fetch_app_update_manifest, download_app_asset,
       install_release_binary, activate_release, bootout_launch_agent_if_loaded,
       bootstrap_launch_agent, kickstart_launch_agent, wait_until_daemon_started,
       RestorePrevious, remove_release, ReportRollback, prune_releases,
       run_managed_resource_continuation, run_managed_resource_update_phase, database
  <2>5. ASSUME NEW u \in Updaters, StartUpdate(u) \/ UpdaterDies(u) PROVE applied' = applied
    BY <2>5 DEF StartUpdate, UpdaterDies, database
  <2>6. CASE LaunchdStarts \/ DaemonDies \/ CommandOpens \/ SecondPasses
    BY <2>1, <2>6 DEF LaunchdStarts, DaemonDies, CommandOpens, SecondPasses, database
  <2>7. ASSUME NEW manifest \in Manifests, Publish(manifest) PROVE applied' = applied
    BY <2>7 DEF Publish, database
  <2> HIDE DEF A
  <2> QED
    BY <2>1, <2>2, <2>3, <2>4, <2>5, <2>6, <2>7 DEF Next, OpenStep, Processes
<1> QED
  BY <1>1, DatabaseCorrect, PTL DEF Spec, MigrationHasBackup
=============================================================================
