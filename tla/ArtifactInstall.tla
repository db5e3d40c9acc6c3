-------------------------- MODULE ArtifactInstall --------------------------
(***************************************************************************)
(* Installation of Managed Resource artifacts: ManagedResourceCommands     *)
(* (crates/resources/src/command.rs) over ArtifactInstaller (install.rs),  *)
(* the manifest cache (cache.rs) and the rows of pv.db.                    *)
(*                                                                         *)
(* A track directory holds releases/<version> and a symbolic link current. *)
(* A command works through groups of resources.  A group of several (PHP   *)
(* with FrankenPHP, and Composer) is recorded in one transaction and       *)
(* rolled back when a member or the record fails; a group of one           *)
(* (install_track) records the wish first, and is never rolled back.       *)
(* Composer stands for the backing resources too, whose path is the same.  *)
(***************************************************************************)
EXTENDS Naturals, Sequences, FiniteSets, SequencesExt

CONSTANTS Procs,           \* processes that run commands: CLI, daemon
          MaxEdition,      \* bound: manifests published
          Version,         \* Version[e][r]: what select_latest gives in manifest e
          MaxCommands,     \* bound: commands run
          MaxInterruptions \* bound: errors, deaths and damaged releases

None == 0
Php == "php"
FrankenPhp == "frankenphp"
Composer == "composer"
Resources == {Php, FrankenPhp, Composer}
Editions == 1..MaxEdition

ASSUME InstallAssumption ==
    /\ MaxEdition \in Nat \ {0} /\ MaxCommands \in Nat /\ MaxInterruptions \in Nat
    /\ Version \in [Editions -> [Resources -> Nat \ {None}]]

Versions == {Version[e][r] : e \in Editions, r \in Resources}

\* A directory under releases/: absent, whole, or what an interrupted
\* remove_dir_all or a user left of it: dented (it still has the files that
\* validate_installation looks for) or gutted (it does not).
Contents == {"absent", "whole", "dented", "gutted"}

VARIABLES
    edition,       \* the manifest at the stable URL
    cache,         \* downloads/manifest.json: its edition, None if there is none
    releases,      \* releases[r][v]: the directory of a version
    current,       \* current[r]: the version the link names, None without link
    rows,          \* managed_resource_tracks of pv.db
    cmd,           \* cmd[p]: the command p runs or ran last
    commands,      \* commands started
    interruptions  \* errors, deaths and damages so far

vars == <<edition, cache, releases, current, rows, cmd, commands, interruptions>>

\* An ArtifactInstall that was prepared.
Install == [resource : Resources, version : Versions, prev : Versions \cup {None},
            existed : BOOLEAN]

Steps == {"desire", "look", "remove", "unlink", "download", "previous", "promote",
          "prune", "point", "record", "restore", "discard"}

\* before is the links at the start of the group, for FailedGroupRestored.
Idle == [pc |-> "idle", update |-> FALSE, edition |-> None, groups |-> <<>>,
         downloaded |-> FALSE, prev |-> None, existed |-> FALSE, done |-> <<>>,
         undo |-> <<>>, failed |-> FALSE, clean |-> TRUE,
         before |-> [r \in Resources |-> None]]

\* State is well formed; a command that runs has a group, and a resource to
\* prepare or to undo.
InstallTypeOK ==
    /\ edition \in Editions /\ cache \in Editions \cup {None}
    /\ releases \in [Resources -> [Versions -> Contents]]
    /\ current \in [Resources -> Versions \cup {None}]
    /\ rows \in [Resources -> [desired : BOOLEAN, version : Versions \cup {None}]]
    /\ commands \in 0..MaxCommands /\ interruptions \in 0..MaxInterruptions
    /\ \A p \in Procs :
         LET c == cmd[p] IN
         /\ DOMAIN c = DOMAIN Idle /\ c.pc \in Steps \cup {"idle", "ended"}
         /\ c.done \in Seq(Install) /\ c.undo \in Seq(Install)
         /\ c.pc \in Steps => c.edition \in Editions /\ Len(c.groups) > 0
         /\ c.pc \in {"restore", "discard"} => Len(c.undo) > 0
         /\ c.pc \in Steps \ {"record", "restore", "discard"}
              => Len(c.done) < Len(c.groups[1])

Init ==
    /\ edition = 1 /\ cache = None
    /\ releases = [r \in Resources |-> [v \in Versions |-> "absent"]]
    /\ current = [r \in Resources |-> None]
    /\ rows = [r \in Resources |-> [desired |-> FALSE, version |-> None]]
    /\ cmd = [p \in Procs |-> Idle]
    /\ commands = 0 /\ interruptions = 0

At(p, pc) == cmd[p].pc = pc

\* install_track handles one resource and never rolls back.
SingleTrack(c) == Len(c.groups[1]) = 1

\* The resource and the version a command is preparing.
Res(p) == cmd[p].groups[1][Len(cmd[p].done) + 1]
Ver(p) == Version[cmd[p].edition][Res(p)]

Present(r) == {v \in Versions : releases[r][v] # "absent"}

\* validate_installation
Valid(r, v) == releases[r][v] \in {"whole", "dented"}

\* current_release_name refuses a link whose release is gone.
Dangling(r) == current[r] # None /\ releases[r][current[r]] = "absent"

-----------------------------------------------------------------------------
\* How a command moves on.

\* The first step of the group at the head of groups, or the end.
EnterGroup(c, groups) ==
    LET pc == IF groups = <<>> THEN "ended"
              ELSE IF Len(groups[1]) = 1 THEN "desire" ELSE "look" IN
    [c EXCEPT !.groups = groups, !.pc = pc, !.downloaded = FALSE, !.prev = None,
              !.existed = FALSE, !.before = current,
              !.done = IF groups = <<>> THEN @ ELSE <<>>]

\* Mutant: the first install is forgotten.
UndoAllButFirst(c) == Reverse(SubSeq(c.done, 2, Len(c.done)))

\* rollback_prepared_installs gets the prepared installs, the last one first.
UndoList(c) == Reverse(c.done)

\* After one install was rolled back, whether that worked or not.
NextUndo(c) ==
    [c EXCEPT !.undo = Tail(@), !.pc = IF Tail(c.undo) = <<>> THEN "ended" ELSE "restore"]

\* The command after an error: rollback goes on with the next install and any
\* other step ends the command, after the rollback of a group.
Failed(c) ==
    IF c.pc \in {"restore", "discard"}
      THEN [NextUndo(c) EXCEPT !.clean = FALSE]
      ELSE LET undo == UndoList(c) IN
           [c EXCEPT !.failed = TRUE, !.undo = IF SingleTrack(c) THEN <<>> ELSE undo,
                     !.pc = IF SingleTrack(c) \/ undo = <<>> THEN "ended" ELSE "restore"]

\* The process dies.
Killed(c) == Idle

MayInterrupt ==
    /\ interruptions < MaxInterruptions
    /\ interruptions' = interruptions + 1

\* A step with its effect: it goes on, or the sync_directory that follows the
\* effect fails, or the process dies after it.
Outcome(p, rel, cur, next) ==
    /\ releases' = rel /\ current' = cur
    /\ \/ cmd' = [cmd EXCEPT ![p] = next] /\ UNCHANGED interruptions
       \/ /\ MayInterrupt
          /\ \E c \in {Failed(cmd[p]), Killed(cmd[p])} : cmd' = [cmd EXCEPT ![p] = c]
    /\ UNCHANGED <<edition, cache, rows, commands>>

\* A step that reads: it goes on with next.
Reads(p, next) ==
    /\ cmd' = [cmd EXCEPT ![p] = next]
    /\ UNCHANGED <<edition, cache, releases, current, rows, commands, interruptions>>

-----------------------------------------------------------------------------
\* Commands.

Publish ==
    /\ edition < MaxEdition
    /\ edition' = edition + 1
    /\ UNCHANGED <<cache, releases, current, rows, cmd, commands, interruptions>>

Begin(p, update, groups, e) ==
    /\ cmd[p].pc \in {"idle", "ended"} /\ commands < MaxCommands
    /\ commands' = commands + 1
    /\ cmd' = [cmd EXCEPT ![p] = EnterGroup([Idle EXCEPT !.update = update, !.edition = e], groups)]
    /\ UNCHANGED <<edition, releases, current, rows, interruptions>>

\* refresh_latest
FreshManifest(e) == e = edition /\ cache' = edition

\* refresh: the cached manifest if the request fails.
Manifest(e) == FreshManifest(e) \/ (e = cache /\ cache # None /\ UNCHANGED cache)

Pair == <<Php, FrankenPhp>>
PairWithComposer == <<Php, FrankenPhp, Composer>>

InstallPhpPair(p) == \E e \in Editions : Manifest(e) /\ Begin(p, FALSE, <<Pair>>, e)
InstallComposer(p) == \E e \in Editions : Manifest(e) /\ Begin(p, FALSE, <<<<Composer>>>>, e)
InstallComposerWithPhpPair(p) ==
    \E e \in Editions : Manifest(e) /\ Begin(p, FALSE, <<PairWithComposer>>, e)

\* ManagedResourceCommands::list
Installed == {r \in Resources : rows[r].desired /\ rows[r].version # None}

NeedsUpdate(r, e) == r \notin Installed \/ rows[r].version # Version[e][r]

\* Mutant: the pair is skipped when one of its tracks is up to date.
BothNeedUpdate(e) == NeedsUpdate(Php, e) /\ NeedsUpdate(FrankenPhp, e)

\* The pair is skipped when both of its tracks are up to date.
PairNeedsUpdate(e) == NeedsUpdate(Php, e) \/ NeedsUpdate(FrankenPhp, e)

UpdateGroups(e) ==
      (IF {Php, FrankenPhp} \cap Installed # {} /\ PairNeedsUpdate(e) THEN <<Pair>> ELSE <<>>)
   \o (IF Composer \in Installed /\ NeedsUpdate(Composer, e) THEN <<<<Composer>>>> ELSE <<>>)

UpdateAllInstalled(p) ==
    \E e \in Editions : FreshManifest(e) /\ Begin(p, TRUE, UpdateGroups(e), e)

\* update_php_pairs and update_composer do not ask whether an update is needed.
UpdatePhpPairs(p) ==
    /\ {Php, FrankenPhp} \cap Installed # {}
    /\ \E e \in Editions : FreshManifest(e) /\ Begin(p, FALSE, <<Pair>>, e)

-----------------------------------------------------------------------------
\* install_selected_artifact, for the resource Res(p).

\* install_track records the wish before it installs.
RecordDesired(p) ==
    /\ At(p, "desire")
    /\ rows' = [rows EXCEPT ![Res(p)].desired = TRUE]
    /\ cmd' = [cmd EXCEPT ![p].pc = "look"]
    /\ UNCHANGED <<edition, cache, releases, current, commands, interruptions>>

\* install_existing_release, called before the download and again by install.
Look(p) ==
    LET c == cmd[p]
        r == Res(p)
        found == [c EXCEPT !.prev = current[r], !.existed = TRUE] IN
    /\ At(p, "look")
    /\ Reads(p,
         CASE releases[r][Ver(p)] = "absent" ->
                [c EXCEPT !.pc = IF c.downloaded THEN "previous" ELSE "download"]
           [] releases[r][Ver(p)] # "absent" /\ Dangling(r) -> Failed(c)
           [] OTHER -> [found EXCEPT !.pc = IF Valid(r, Ver(p)) THEN "prune" ELSE "remove"])

\* An invalid release is removed, and then the link if it named it.
RemoveInvalid(p) ==
    /\ At(p, "remove")
    /\ Outcome(p, [releases EXCEPT ![Res(p)][Ver(p)] = "absent"], current,
               [cmd[p] EXCEPT !.pc = "unlink"])
Unlink(p) ==
    /\ At(p, "unlink")
    /\ Outcome(p, releases,
               [current EXCEPT ![Res(p)] = IF cmd[p].prev = Ver(p) THEN None ELSE @],
               [cmd[p] EXCEPT !.pc = IF cmd[p].downloaded THEN "previous" ELSE "download"])

\* Cached or fetched, and verified by its checksum either way.
Download(p) ==
    /\ At(p, "download")
    /\ Reads(p, [cmd[p] EXCEPT !.pc = "look", !.downloaded = TRUE])

ReadPrevious(p) ==
    /\ At(p, "previous")
    /\ Reads(p, IF Dangling(Res(p)) THEN Failed(cmd[p])
                ELSE [cmd[p] EXCEPT !.prev = current[Res(p)], !.existed = FALSE,
                                    !.pc = "promote"])

\* Unpack into a staging directory, validate, rename.  rename fails if another
\* process has put the release there in the meantime.
Promote(p) ==
    LET r == Res(p) IN
    /\ At(p, "promote")
    /\ IF releases[r][Ver(p)] = "absent"
         THEN Outcome(p, [releases EXCEPT ![r][Ver(p)] = "whole"], current,
                      [cmd[p] EXCEPT !.pc = "prune"])
         ELSE Reads(p, Failed(cmd[p]))

\* Mutant: only the new release stays.
StaleButNew(p) == Present(Res(p)) \ {Ver(p)}

\* prune_old_releases keeps the new release and the one current named.
Stale(p) == Present(Res(p)) \ {Ver(p), cmd[p].prev}

Prune(p) ==
    LET r == Res(p) IN
    /\ At(p, "prune")
    /\ Outcome(p, [releases EXCEPT ![r] = [v \in Versions |->
                      IF v \in Stale(p) THEN "absent" ELSE @[v]]], current,
               [cmd[p] EXCEPT !.pc = "point"])

\* update_current_pointer; the install is prepared.
Point(p) ==
    LET c == cmd[p]
        done == Append(c.done, [resource |-> Res(p), version |-> Ver(p),
                                prev |-> c.prev, existed |-> c.existed]) IN
    /\ At(p, "point")
    /\ Outcome(p, releases, [current EXCEPT ![Res(p)] = Ver(p)],
               [c EXCEPT !.done = done, !.downloaded = FALSE, !.prev = None, !.existed = FALSE,
                         !.pc = IF Len(done) = Len(c.groups[1]) THEN "record" ELSE "look"])

\* What is recorded in one transaction, after the defaults of the PHP track.
Recorded(p) == ToSet(cmd[p].done)

\* A group records the wish too; install_track has recorded it already.
Record(p) ==
    LET c == cmd[p]
        of(r) == {i \in Recorded(p) : i.resource = r} IN
    /\ At(p, "record")
    /\ rows' = [r \in Resources |->
                  IF of(r) = {} THEN rows[r]
                  ELSE [desired |-> rows[r].desired \/ ~SingleTrack(c),
                        version |-> (CHOOSE i \in of(r) : TRUE).version]]
    /\ cmd' = [cmd EXCEPT ![p] = EnterGroup(c, Tail(c.groups))]
    /\ UNCHANGED <<edition, cache, releases, current, commands, interruptions>>

-----------------------------------------------------------------------------
\* ArtifactInstaller::rollback, for the first install of undo.

\* The link goes back to the release it named, or away.
LinkBefore(i) == [current EXCEPT ![i.resource] = i.prev]

Restore(p) ==
    /\ At(p, "restore")
    /\ Outcome(p, releases, LinkBefore(Head(cmd[p].undo)), [cmd[p] EXCEPT !.pc = "discard"])

Discard(p) ==
    LET i == Head(cmd[p].undo) IN
    /\ At(p, "discard")
    /\ Outcome(p, [releases EXCEPT ![i.resource][i.version] = IF i.existed THEN @ ELSE "absent"],
               current, NextUndo(cmd[p]))

-----------------------------------------------------------------------------
\* Errors, deaths and damage.

\* The releases that the step p is at removes.
Doomed(p) ==
    CASE At(p, "remove") -> {<<Res(p), Ver(p)>>}
      [] At(p, "prune") -> {Res(p)} \X Stale(p)
      [] At(p, "discard") /\ ~Head(cmd[p].undo).existed ->
           {<<Head(cmd[p].undo).resource, Head(cmd[p].undo).version>>}
      [] OTHER -> {}

\* A step fails, or the process dies, before the step has its effect; a removal
\* stops after some releases and within another.
Interrupt(p) ==
    /\ cmd[p].pc \in Steps /\ MayInterrupt
    /\ \E gone \in SUBSET Doomed(p) :
       \E part \in {{}} \cup {{d} : d \in Doomed(p) \ gone}, left \in {"dented", "gutted"} :
         releases' = [r \in Resources |-> [v \in Versions |->
                        IF <<r, v>> \in gone THEN "absent"
                        ELSE IF <<r, v>> \in part /\ Valid(r, v) THEN left
                        ELSE releases[r][v]]]
    /\ \E c \in {Failed(cmd[p]), Killed(cmd[p])} : cmd' = [cmd EXCEPT ![p] = c]
    /\ UNCHANGED <<edition, cache, current, rows, commands>>

\* Someone removes files of a release.
Damage(r, v) ==
    /\ Valid(r, v) /\ MayInterrupt
    /\ releases' = [releases EXCEPT ![r][v] = "gutted"]
    /\ UNCHANGED <<edition, cache, current, rows, cmd, commands>>

StartCommand(p) ==
    \/ InstallPhpPair(p) \/ InstallComposer(p) \/ InstallComposerWithPhpPair(p)
    \/ UpdateAllInstalled(p) \/ UpdatePhpPairs(p)

Step(p) ==
    \/ RecordDesired(p) \/ Look(p) \/ RemoveInvalid(p) \/ Unlink(p) \/ Download(p)
    \/ ReadPrevious(p) \/ Promote(p) \/ Prune(p) \/ Point(p) \/ Record(p)
    \/ Restore(p) \/ Discard(p)

Next ==
    \/ Publish
    \/ \E p \in Procs : StartCommand(p) \/ Step(p) \/ Interrupt(p)
    \/ \E r \in Resources, v \in Versions : Damage(r, v)

Spec == Init /\ [][Next]_vars

-----------------------------------------------------------------------------
Settled == \A p \in Procs : cmd[p].pc \in {"idle", "ended"}

\* While no command runs, a link current names a release that is there: a
\* dangling link makes every later install of the track fail in
\* current_release_name.  One error, death or damaged release does not break it,
\* through reuse, repair, pruning and rollback.
CurrentResolves == Settled => \A r \in Resources : ~Dangling(r)

\* While no command runs, the release that pv.db records for a track is there:
\* prune_old_releases keeps what the link names, which after one failed record
\* is not yet what the row names.
RecordedReleaseKept ==
    Settled => \A r \in Resources : rows[r].version # None
                                      => releases[r][rows[r].version] # "absent"

\* A group that failed and was rolled back without a second error has put the
\* links of the prepared members back to what they were, to releases that are
\* there, and left no release it had unpacked.
FailedGroupRestored ==
    \A p \in Procs :
      LET c == cmd[p] IN
      (At(p, "ended") /\ c.failed /\ c.clean /\ Len(c.groups[1]) > 1) =>
        \A i \in ToSet(c.done) :
          /\ current[i.resource] = c.before[i.resource]
          /\ ~Dangling(i.resource)
          /\ ~i.existed => releases[i.resource][i.version] = "absent"

\* A command that succeeds leaves at most two releases of what it installed
\* last, however many earlier failures left behind.
AtMostTwoReleases ==
    \A p \in Procs : (At(p, "ended") /\ ~cmd[p].failed) =>
      \A i \in ToSet(cmd[p].done) : Cardinality(Present(i.resource)) <= 2

\* The versions recorded for PHP and FrankenPHP come from one manifest,
\* whichever commands failed or died between their two installs.
PairFromOneManifest ==
    (rows[Php].version # None \/ rows[FrankenPhp].version # None) =>
      \E e \in Editions : \A r \in {Php, FrankenPhp} : rows[r].version = Version[e][r]

\* Links, rows and releases agree, whatever failed on the way here.
InstallationSound ==
    InstallTypeOK /\ CurrentResolves /\ RecordedReleaseKept /\ AtMostTwoReleases /\ PairFromOneManifest

\* After update_all_installed succeeds, every installed track has the version of
\* the manifest it fetched, the skipped ones too.
UpdateBringsLatest ==
    \A p \in Procs : (At(p, "ended") /\ cmd[p].update /\ ~cmd[p].failed) =>
      \A r \in Installed : rows[r].version = Version[cmd[p].edition][r]
=============================================================================
