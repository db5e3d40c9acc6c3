----------------------- MODULE ArtifactInstallProofs -----------------------
(***************************************************************************)
(* Proofs about ArtifactInstall for any manifests and any number of        *)
(* commands: with any number of processes, errors and deaths, the versions *)
(* of the PHP pair come from one manifest; with one process at a time, an  *)
(* update brings the latest versions and at most two releases stay; and as *)
(* long as there was at most one error, death or damage, links, rows and   *)
(* releases agree and a failed group is restored.                          *)
(***************************************************************************)
EXTENDS ArtifactInstall, FiniteSetTheorems, TLAPS

(* The groups that commands are made of. *)
Kinds == {Pair, PairWithComposer, <<Composer>>}

Undoing == {"restore", "discard"}
Preparing == Steps \ {"record", "restore", "discard"}
Resting == {"idle", "ended"}

Command == [pc : Steps \cup Resting, update : BOOLEAN, edition : Editions \cup {None},
            groups : Seq(Kinds), downloaded : BOOLEAN, prev : Versions \cup {None},
            existed : BOOLEAN, done : Seq(Install), undo : Seq(Install), failed : BOOLEAN,
            clean : BOOLEAN, before : [Resources -> Versions \cup {None}]]

(* A command that runs has a manifest and a group; what it has prepared of the
   group are the group's first members, in the versions of that manifest.  What
   it still has to undo are the first of those, the last one first. *)
Progress(c) ==
    /\ c.pc \in Steps => c.edition \in Editions /\ c.groups # <<>>
    /\ c.pc \in Preparing => Len(c.done) < Len(c.groups[1])
    /\ c.pc = "record" => Len(c.done) = Len(c.groups[1])
    /\ c.pc \in Steps =>
         /\ Len(c.done) <= Len(c.groups[1])
         /\ \A k \in 1..Len(c.done) : /\ c.done[k].resource = c.groups[1][k]
                                      /\ c.done[k].version = Version[c.edition][c.groups[1][k]]
    /\ c.pc \in Undoing =>
         /\ c.failed /\ c.undo # <<>> /\ Len(c.undo) <= Len(c.done)
         /\ \A k \in 1..Len(c.undo) : c.undo[k] = c.done[Len(c.undo) + 1 - k]
    /\ c.pc \in Preparing \cup {"record", "idle"} => ~c.failed
    /\ c.pc = "ended" => c.failed \/ c.groups = <<>>

TypeInv ==
    /\ edition \in Editions /\ cache \in Editions \cup {None}
    /\ releases \in [Resources -> [Versions -> Contents]]
    /\ current \in [Resources -> Versions \cup {None}]
    /\ rows \in [Resources -> [desired : BOOLEAN, version : Versions \cup {None}]]
    /\ commands \in 0..MaxCommands /\ interruptions \in 0..MaxInterruptions
    /\ cmd \in [Procs -> Command]
    /\ \A p \in Procs : Progress(cmd[p])

-----------------------------------------------------------------------------
(* An update that has not failed has the rest of what is out of date before it. *)
LatestAhead(c) ==
    c.update /\ ~c.failed /\ c.pc # "idle" =>
      \A r \in Installed : \/ rows[r].version = Version[c.edition][r]
                           \/ \E g \in DOMAIN c.groups : r \in ToSet(c.groups[g])

(* Of what a command has prepared only the new release and the one before it
   are there. *)
Pruned(c) ==
    /\ \A k \in DOMAIN c.done : Present(c.done[k].resource) \subseteq {c.done[k].version, c.done[k].prev}
    /\ c.pc = "point" =>
         Present(c.groups[1][Len(c.done) + 1])
           \subseteq {Version[c.edition][c.groups[1][Len(c.done) + 1]], c.prev}

(* The row and the link of a track name releases that are there. *)
Kept(r) ==
    /\ ~Dangling(r)
    /\ rows[r].version # None => releases[r][rows[r].version] # "absent"

Members(c) == {c.done[k].resource : k \in DOMAIN c.done}

(* An install that can be rolled back: the row and the links before the group
   name the release before it, which is there and is not the one to discard. *)
Undoable(c, i) ==
    /\ rows[i.resource].version = i.prev /\ c.before[i.resource] = i.prev
    /\ i.prev # None => releases[i.resource][i.prev] # "absent"
    /\ ~i.existed => i.version # i.prev

(* Without an interruption nothing fails: releases are whole and links resolve;
   rows and links agree except for what the running group has prepared, which can
   be rolled back. *)
Intact ==
    /\ \A r \in Resources, v \in Versions : releases[r][v] \in {"absent", "whole"}
    /\ \A r \in Resources : ~Dangling(r)

Agreed == \A r \in Resources : rows[r].version = current[r]

Prepared(c) ==
    /\ \A r \in Resources \ Members(c) : rows[r].version = current[r] /\ c.before[r] = current[r]
    /\ \A k \in DOMAIN c.done :
         current[c.done[k].resource] = c.done[k].version /\ Undoable(c, c.done[k])

(* What a command that works on version v of track r knows of it. *)
Known(c, r, v) ==
    /\ c.pc \in {"previous", "promote"} => releases[r][v] = "absent"
    /\ c.pc \in {"promote", "prune", "point"} => c.prev = current[r]
    /\ c.pc \in {"prune", "point"} => releases[r][v] # "absent" /\ (~c.existed => v # c.prev)

Perfect(p) ==
    LET c == cmd[p] IN
    /\ Intact
    /\ ~c.failed /\ c.clean /\ c.pc \notin Undoing \cup {"remove", "unlink"}
    /\ c.pc \in Resting => Agreed
    /\ c.pc \in Steps => Prepared(c)
    /\ c.pc \in Preparing => Known(c, Res(p), Ver(p))

(* After the one interruption a command that goes on goes on to its end: the
   tracks it has not come to are kept, and what it has prepared is there. *)
Underway(c) ==
    \A k \in DOMAIN c.done : /\ current[c.done[k].resource] = c.done[k].version
                            /\ releases[c.done[k].resource][c.done[k].version] # "absent"

Ahead(c, r) == \A s \in Resources \ Members(c) : s # r => Kept(s)

Surmised(c, r, v) ==
    /\ c.pc \notin {"unlink", "point"} => ~Dangling(r)
    /\ c.pc = "unlink" =>
         /\ c.prev = current[r]
         /\ c.prev \notin {None, v} => releases[r][c.prev] # "absent"
    /\ c.pc \in {"unlink", "previous", "promote"} => releases[r][v] = "absent"
    /\ c.pc \in {"remove", "promote", "prune"} => c.prev = current[r]
    /\ c.pc \in {"prune", "point"} => releases[r][v] # "absent"

(* A rollback finds what it needs ... *)
Returning(c) ==
    /\ c.failed
    /\ \A k \in 1..Len(c.undo) : Undoable(c, c.done[k])
    /\ c.pc = "discard" => current[c.undo[1].resource] = c.undo[1].prev

(* ... and leaves an install as it was before the group. *)
Returned(c, i) ==
    /\ current[i.resource] = c.before[i.resource]
    /\ ~i.existed => releases[i.resource][i.version] = "absent"

Marred(p) ==
    LET c == cmd[p] IN
    /\ c.clean
    /\ c.pc \in Resting \cup Undoing => \A r \in Resources : Kept(r)
    /\ c.pc \in Preparing \cup {"record"} => Underway(c)
    /\ c.pc = "record" => \A r \in Resources \ Members(c) : Kept(r)
    /\ c.pc \in Preparing => Ahead(c, Res(p)) /\ Surmised(c, Res(p), Ver(p))
    /\ c.pc \in Undoing =>
         Returning(c) /\ \A k \in DOMAIN c.done : k > Len(c.undo) => Returned(c, c.done[k])
    /\ c.pc = "ended" /\ c.failed /\ Len(c.groups[1]) > 1 =>
         \A k \in DOMAIN c.done : Returned(c, c.done[k])

SoundInv(p) ==
    /\ LatestAhead(cmd[p]) /\ Pruned(cmd[p])
    /\ interruptions = 0 => Perfect(p)
    /\ interruptions = 1 => Marred(p)

-----------------------------------------------------------------------------
(* Manifests and groups *)

LEMMA VersionFacts ==
  /\ \A e \in Editions, r \in Resources : Version[e][r] \in Versions
  /\ Versions \subseteq Nat /\ None \notin Versions
  BY InstallAssumption DEF Versions, None

LEMMA KindFacts ==
  ASSUME NEW g \in Kinds
  PROVE  /\ g \in Seq(Resources) /\ Len(g) \in 1..3
         /\ \A m, n \in 1..Len(g) : g[m] = g[n] => m = n
         /\ \A m \in 1..Len(g) : g[m] \in Resources
         /\ ToSet(g) = {g[m] : m \in 1..Len(g)}
         /\ Php \in ToSet(g) <=> FrankenPhp \in ToSet(g)
<1>1. CASE g = Pair
  BY <1>1 DEF Pair, Resources, Php, FrankenPhp, Composer, ToSet
<1>2. CASE g = PairWithComposer
  BY <1>2 DEF PairWithComposer, Resources, Php, FrankenPhp, Composer, ToSet
<1>3. CASE g = <<Composer>>
  BY <1>3 DEF Resources, Php, FrankenPhp, Composer, ToSet
<1> QED
  BY <1>1, <1>2, <1>3 DEF Kinds

-----------------------------------------------------------------------------
(* Commands *)

LEMMA IdleCommand == Idle \in Command /\ Progress(Idle)
<1>1. Idle \in Command
  BY DEF Idle, Command, Resting, None
<1>2. Idle.pc = "idle" /\ ~Idle.failed
  BY DEF Idle
<1> QED
  BY <1>1, <1>2 DEF Progress, Steps, Preparing, Undoing

LEMMA ReversedSeq ==
  ASSUME NEW S, NEW s \in Seq(S)
  PROVE  /\ Reverse(s) \in Seq(S) /\ Len(Reverse(s)) = Len(s)
         /\ \A k \in 1..Len(s) : Reverse(s)[k] = s[Len(s) + 1 - k]
  BY DEF Reverse

(* An error ends the command or starts its rollback, and never stops one. *)
LEMMA FailedCommand ==
  ASSUME NEW c \in Command, Progress(c), c.pc \in Steps
  PROVE  Failed(c) \in Command /\ Progress(Failed(c))
<1> DEFINE d == Failed(c)
<1>0. /\ c.done \in Seq(Install) /\ c.undo \in Seq(Install) /\ c.pc \in Steps \cup Resting
      /\ c.update \in BOOLEAN /\ c.edition \in Editions \cup {None} /\ c.groups \in Seq(Kinds)
      /\ c.downloaded \in BOOLEAN /\ c.prev \in Versions \cup {None} /\ c.existed \in BOOLEAN
      /\ c.failed \in BOOLEAN /\ c.clean \in BOOLEAN /\ c.before \in [Resources -> Versions \cup {None}]
  BY DEF Command
<1>1. CASE c.pc \in Undoing
  <2>1. Tail(c.undo) \in Seq(Install) /\ Len(Tail(c.undo)) = Len(c.undo) - 1
        /\ \A k \in 1..(Len(c.undo) - 1) : Tail(c.undo)[k] = c.undo[k + 1]
    BY <1>0, <1>1 DEF Progress
  <2> DEFINE undo == Tail(c.undo)
             pc == IF undo = <<>> THEN "ended" ELSE "restore"
  <2>2. d = [c EXCEPT !.undo = undo, !.clean = FALSE, !.pc = pc]
    BY <1>1 DEF Failed, NextUndo, Undoing, Command
  <2>5. pc \in Steps \cup Resting /\ undo \in Seq(Install)
    BY <2>1 DEF Steps, Resting
  <2> HIDE DEF undo, pc, d
  <2>3. d \in Command
    BY <2>2, <2>5 DEF Command
  <2>4. Progress(d)
    <3>3. /\ d.undo = undo /\ d.done = c.done /\ d.groups = c.groups /\ d.edition = c.edition
          /\ d.failed = c.failed /\ d.pc = pc
      BY <2>2 DEF Command
    <3>1. /\ d.undo = Tail(c.undo) /\ d.done = c.done /\ d.groups = c.groups /\ d.edition = c.edition
          /\ d.failed = c.failed
          /\ d.pc = IF Tail(c.undo) = <<>> THEN "ended" ELSE "restore"
      BY <3>3 DEF undo, pc
    <3>2. d.pc = "restore" => \A k \in 1..Len(d.undo) : d.undo[k] = d.done[Len(d.undo) + 1 - k]
      BY <1>0, <1>1, <2>1, <3>1 DEF Progress
    <3> QED
      BY <1>0, <1>1, <2>1, <3>1, <3>2 DEF Progress, Steps, Preparing, Undoing
  <2> QED
    BY <2>3, <2>4 DEF d
<1>2. CASE c.pc \notin Undoing
  <2> DEFINE undo == IF SingleTrack(c) THEN <<>> ELSE Reverse(c.done)
             pc == IF SingleTrack(c) \/ Reverse(c.done) = <<>> THEN "ended" ELSE "restore"
  <2>1. d = [c EXCEPT !.failed = TRUE, !.undo = undo, !.pc = pc]
    BY <1>2 DEF Failed, Undoing, UndoList
  <2>2. undo \in Seq(Install) /\ pc \in Steps \cup Resting /\ pc \in {"ended", "restore"}
        /\ (pc = "restore" => undo = Reverse(c.done) /\ undo # <<>>)
    BY <1>0, ReversedSeq DEF Steps, Resting
  <2> HIDE DEF d, undo, pc
  <2>3. d \in Command
    BY <2>1, <2>2 DEF Command
  <2>4. /\ d.done = c.done /\ d.groups = c.groups /\ d.edition = c.edition /\ d.failed = TRUE
        /\ d.pc = pc /\ d.undo = undo
    BY <2>1 DEF Command
  <2>5. Progress(d)
    BY <1>0, <2>2, <2>4, ReversedSeq DEF Progress, Steps, Preparing, Undoing
  <2> QED
    BY <2>3, <2>5 DEF d
<1> QED
  BY <1>1, <1>2

LEMMA EnteredGroup ==
  ASSUME TypeInv, NEW c \in Command, c.edition \in Editions, ~c.failed, NEW gs \in Seq(Kinds)
  PROVE  EnterGroup(c, gs) \in Command /\ Progress(EnterGroup(c, gs))
<1> DEFINE d == EnterGroup(c, gs)
<1>1. /\ c.done \in Seq(Install) /\ c.undo \in Seq(Install)
      /\ c.update \in BOOLEAN /\ c.clean \in BOOLEAN /\ c.failed \in BOOLEAN
      /\ current \in [Resources -> Versions \cup {None}]
  BY DEF Command, TypeInv
<1> DEFINE pc == IF gs = <<>> THEN "ended" ELSE IF Len(gs[1]) = 1 THEN "desire" ELSE "look"
           done == IF gs = <<>> THEN c.done ELSE <<>>
<1>2. d = [c EXCEPT !.groups = gs, !.pc = pc, !.downloaded = FALSE, !.prev = None,
                    !.existed = FALSE, !.before = current, !.done = done]
  BY DEF EnterGroup, Command
<1>7. /\ pc \in Steps \cup Resting /\ done \in Seq(Install)
      /\ gs = <<>> => pc = "ended"
      /\ gs # <<>> => pc \in {"desire", "look"} /\ done = <<>> /\ gs[1] \in Kinds
  BY <1>1 DEF Steps, Resting
<1> HIDE DEF d, pc, done
<1>3. d \in Command
  BY <1>1, <1>2, <1>7 DEF Command, None
<1>4. d.groups = gs /\ d.edition = c.edition /\ ~d.failed /\ d.pc = pc /\ d.done = done
  BY <1>2 DEF Command
<1>5. gs # <<>> => Len(gs[1]) \in 1..3
  BY <1>7, KindFacts
<1>6. Progress(d)
  <2>1. CASE gs = <<>>
    BY <1>4, <1>7, <2>1 DEF Progress, Steps, Preparing, Undoing
  <2>2. CASE gs # <<>>
    <3>1. d.pc \in {"desire", "look"} /\ d.groups # <<>> /\ d.done = <<>> /\ Len(d.groups[1]) \in 1..3
          /\ d.edition \in Editions /\ ~d.failed /\ Len(d.done) = 0
      BY <1>4, <1>5, <1>7, <2>2
    <3>2. d.pc \in Preparing /\ d.pc \in Steps /\ d.pc \notin Undoing /\ d.pc # "record"
      BY <3>1 DEF Steps, Preparing, Undoing
    <3>3. \A n \in 1..3 : 0 < n /\ 0 <= n
      OBVIOUS
    <3>4. Len(d.done) < Len(d.groups[1]) /\ Len(d.done) <= Len(d.groups[1])
      BY <3>1, <3>3
    <3>5. \A k \in 1..Len(d.done) : FALSE
      BY <3>1
    <3> QED
      BY <3>1, <3>2, <3>4, <3>5 DEF Progress
  <2> QED
    BY <2>1, <2>2
<1> QED
  BY <1>3, <1>6 DEF d

LEMMA PreparedOne ==
  ASSUME TypeInv, NEW p \in Procs, cmd[p].pc \in Preparing
  PROVE  /\ cmd[p] \in Command /\ Progress(cmd[p]) /\ cmd[p].edition \in Editions
         /\ cmd[p].groups # <<>> /\ cmd[p].groups[1] \in Kinds
         /\ Len(cmd[p].done) + 1 \in 1..Len(cmd[p].groups[1])
         /\ Res(p) \in Resources /\ Ver(p) \in Versions
<1>1. /\ cmd[p] \in Command /\ Progress(cmd[p]) /\ cmd[p].done \in Seq(Install)
      /\ cmd[p].groups \in Seq(Kinds) /\ cmd[p].pc \in Steps
  BY DEF TypeInv, Command, Preparing
<1>2. cmd[p].edition \in Editions /\ cmd[p].groups # <<>> /\ Len(cmd[p].done) < Len(cmd[p].groups[1])
  BY <1>1 DEF Progress
<1>3. cmd[p].groups[1] \in Kinds
  BY <1>1, <1>2
<1>4. Len(cmd[p].done) + 1 \in 1..Len(cmd[p].groups[1])
  BY <1>1, <1>2, <1>3, KindFacts
<1>5. Res(p) \in Resources
  BY <1>3, <1>4, KindFacts DEF Res
<1> QED
  BY <1>1, <1>2, <1>3, <1>4, <1>5, VersionFacts DEF Ver

(* A command that is still preparing the same member of the same group. *)
LEMMA SameMember ==
  ASSUME NEW c \in Command, Progress(c), c.pc \in Preparing,
         NEW d \in Command, d.pc \in Preparing, d.done = c.done, d.groups = c.groups,
         d.edition = c.edition, d.failed = c.failed
  PROVE  Progress(d)
<1>1. c.pc \in Steps /\ d.pc \in Steps /\ d.pc \notin Undoing /\ c.pc \notin Undoing
      /\ d.pc # "record" /\ d.pc # "ended"
  BY DEF Preparing, Undoing, Steps
<1> QED
  BY <1>1 DEF Progress

LEMMA CommandMoves ==
  ASSUME TypeInv, NEW p \in Procs, NEW c \in Command, Progress(c), cmd' = [cmd EXCEPT ![p] = c]
  PROVE  cmd' \in [Procs -> Command] /\ (\A q \in Procs : Progress(cmd'[q])) /\ cmd'[p] = c
<1>1. cmd \in [Procs -> Command] /\ \A q \in Procs : Progress(cmd[q])
  BY DEF TypeInv
<1>2. \A q \in Procs : cmd'[q] = IF q = p THEN c ELSE cmd[q]
  BY <1>1
<1>3. \A q \in Procs : Progress(cmd'[q])
  BY <1>1, <1>2
<1> QED
  BY <1>1, <1>2, <1>3

LEMMA OutcomeTypes ==
  ASSUME TypeInv, NEW p \in Procs, cmd[p].pc \in Steps,
         NEW rel \in [Resources -> [Versions -> Contents]],
         NEW cur \in [Resources -> Versions \cup {None}],
         NEW next \in Command, Progress(next), Outcome(p, rel, cur, next)
  PROVE  TypeInv'
<1>1. cmd[p] \in Command /\ Progress(cmd[p])
  BY DEF TypeInv
<1>2. PICK c \in Command : Progress(c) /\ cmd' = [cmd EXCEPT ![p] = c]
  BY <1>1, FailedCommand, IdleCommand DEF Outcome, Killed
<1>3. cmd' \in [Procs -> Command] /\ \A q \in Procs : Progress(cmd'[q])
  BY <1>2, CommandMoves
<1>4. interruptions' \in 0..MaxInterruptions
  BY InstallAssumption DEF Outcome, MayInterrupt, TypeInv
<1> QED
  BY <1>3, <1>4 DEF Outcome, TypeInv

LEMMA ReadsTypes ==
  ASSUME TypeInv, NEW p \in Procs, NEW next \in Command, Progress(next), Reads(p, next)
  PROVE  TypeInv'
<1>1. cmd' \in [Procs -> Command] /\ \A q \in Procs : Progress(cmd'[q])
  BY CommandMoves DEF Reads
<1> QED
  BY <1>1 DEF Reads, TypeInv

-----------------------------------------------------------------------------
(* What each step does to the command that takes it *)

(* What the steps of one member leave alone. *)
SameTask(c, d) ==
    /\ d.done = c.done /\ d.groups = c.groups /\ d.edition = c.edition /\ d.update = c.update
    /\ d.failed = c.failed /\ d.clean = c.clean /\ d.before = c.before /\ d.undo = c.undo

(* The command goes on with the same member. *)
GoesOn(p, d, pc) ==
    d \in Command /\ Progress(d) /\ SameTask(cmd[p], d) /\ d.pc = pc

LEMMA FailedFields ==
  ASSUME NEW c \in Command, c.pc \in Steps \ Undoing
  PROVE  /\ Failed(c).done = c.done /\ Failed(c).groups = c.groups /\ Failed(c).edition = c.edition
         /\ Failed(c).update = c.update /\ Failed(c).failed = TRUE /\ Failed(c).clean = c.clean
         /\ Failed(c).before = c.before
         /\ Failed(c).pc \in {"ended", "restore"}
         /\ Failed(c).pc = "restore" => Failed(c).undo = Reverse(c.done)
         /\ Failed(c).pc = "ended" => SingleTrack(c) \/ c.done = <<>>
<1> DEFINE undo == IF SingleTrack(c) THEN <<>> ELSE Reverse(c.done)
           pc == IF SingleTrack(c) \/ Reverse(c.done) = <<>> THEN "ended" ELSE "restore"
           d == Failed(c)
<1>1. d = [c EXCEPT !.failed = TRUE, !.undo = undo, !.pc = pc]
  BY DEF Failed, Undoing, UndoList
<1>2. c.done \in Seq(Install)
  BY DEF Command
<1>3. /\ pc \in {"ended", "restore"} /\ (pc = "restore" => undo = Reverse(c.done))
      /\ pc = "ended" => SingleTrack(c) \/ c.done = <<>>
  BY <1>2, ReversedSeq
<1> HIDE DEF d, undo, pc
<1>4. /\ d.done = c.done /\ d.groups = c.groups /\ d.edition = c.edition
      /\ d.update = c.update /\ d.failed = TRUE /\ d.clean = c.clean
      /\ d.before = c.before /\ d.pc = pc /\ d.undo = undo
  BY <1>1 DEF Command
<1> QED
  BY <1>3, <1>4 DEF d

LEMMA DesireMoves ==
  ASSUME TypeInv, NEW p \in Procs, RecordDesired(p)
  PROVE  \E d : GoesOn(p, d, "look") /\ cmd' = [cmd EXCEPT ![p] = d]
<1>1. cmd[p].pc \in Preparing /\ cmd \in [Procs -> Command]
  BY DEF RecordDesired, At, Preparing, Steps, TypeInv
<1> DEFINE d == [cmd[p] EXCEPT !.pc = "look"]
<1>2. d \in Command /\ d.pc = "look" /\ SameTask(cmd[p], d)
  BY <1>1, PreparedOne DEF Command, SameTask, Steps
<1>3. cmd' = [cmd EXCEPT ![p] = d]
  BY <1>1 DEF RecordDesired
<1> HIDE DEF d
<1>4. Progress(d)
  BY <1>1, <1>2, PreparedOne, SameMember DEF Preparing, Steps, SameTask
<1> QED
  BY <1>2, <1>3, <1>4 DEF GoesOn

LEMMA LookMoves ==
  ASSUME TypeInv, NEW p \in Procs, Look(p)
  PROVE  \E d : /\ Reads(p, d)
                /\ \/ /\ releases[Res(p)][Ver(p)] = "absent"
                      /\ GoesOn(p, d, IF cmd[p].downloaded THEN "previous" ELSE "download")
                   \/ releases[Res(p)][Ver(p)] # "absent" /\ Dangling(Res(p)) /\ d = Failed(cmd[p])
                   \/ /\ releases[Res(p)][Ver(p)] # "absent" /\ ~Dangling(Res(p))
                      /\ GoesOn(p, d, IF Valid(Res(p), Ver(p)) THEN "prune" ELSE "remove")
                      /\ d.prev = current[Res(p)] /\ d.existed
<1>1. cmd[p].pc = "look" /\ cmd[p].pc \in Preparing
  BY DEF Look, At, Preparing, Steps
<1>2. /\ cmd[p] \in Command /\ Progress(cmd[p]) /\ Res(p) \in Resources /\ Ver(p) \in Versions
      /\ current[Res(p)] \in Versions \cup {None}
  BY <1>1, PreparedOne DEF TypeInv
<1>3. CASE releases[Res(p)][Ver(p)] = "absent"
  <2> DEFINE pc == IF cmd[p].downloaded THEN "previous" ELSE "download"
             d == [cmd[p] EXCEPT !.pc = pc]
  <2>1. Reads(p, d)
    BY <1>3 DEF Look
  <2>2. pc \in Preparing /\ pc \in Steps
    BY DEF Preparing, Steps
  <2> HIDE DEF pc
  <2>3. d \in Command /\ d.pc = pc /\ SameTask(cmd[p], d)
    BY <1>2, <2>2 DEF Command, SameTask
  <2> HIDE DEF d
  <2>4. Progress(d)
    BY <1>1, <1>2, <2>2, <2>3, SameMember DEF SameTask
  <2> QED
    BY <1>3, <2>1, <2>3, <2>4 DEF GoesOn, pc
<1>4. CASE releases[Res(p)][Ver(p)] # "absent" /\ Dangling(Res(p))
  BY <1>4 DEF Look
<1>5. CASE releases[Res(p)][Ver(p)] # "absent" /\ ~Dangling(Res(p))
  <2> DEFINE pc == IF Valid(Res(p), Ver(p)) THEN "prune" ELSE "remove"
             prev == current[Res(p)]
             d == [cmd[p] EXCEPT !.prev = prev, !.existed = TRUE, !.pc = pc]
  <2>1. Reads(p, d)
    BY <1>2, <1>5 DEF Look, Command
  <2>2. pc \in Preparing /\ pc \in Steps /\ prev \in Versions \cup {None}
    BY <1>2 DEF Preparing, Steps
  <2> HIDE DEF pc, prev
  <2>3. d \in Command /\ d.pc = pc /\ SameTask(cmd[p], d) /\ d.prev = prev /\ d.existed
    BY <1>2, <2>2 DEF Command, SameTask
  <2> HIDE DEF d
  <2>4. Progress(d)
    BY <1>1, <1>2, <2>2, <2>3, SameMember DEF SameTask
  <2> QED
    BY <1>5, <2>1, <2>3, <2>4 DEF GoesOn, pc, prev
<1> QED
  BY <1>3, <1>4, <1>5

LEMMA RemoveMoves ==
  ASSUME TypeInv, NEW p \in Procs, RemoveInvalid(p)
  PROVE  \E d : /\ GoesOn(p, d, "unlink")
                /\ d.prev = cmd[p].prev /\ d.existed = cmd[p].existed
                /\ Outcome(p, [releases EXCEPT ![Res(p)][Ver(p)] = "absent"],
                           current, d)
<1>1. cmd[p].pc = "remove" /\ cmd[p].pc \in Preparing
  BY DEF RemoveInvalid, At, Preparing, Steps
<1>2. cmd[p] \in Command /\ Progress(cmd[p])
  BY <1>1, PreparedOne
<1> DEFINE pc == "unlink"
           d == [cmd[p] EXCEPT !.pc = pc]
<1>3. Outcome(p, [releases EXCEPT ![Res(p)][Ver(p)] = "absent"],
              current, d)
  BY DEF RemoveInvalid
<1>4. pc \in Preparing /\ pc \in Steps
  BY DEF Preparing, Steps
<1> HIDE DEF pc
<1>5. /\ d \in Command /\ d.pc = pc /\ SameTask(cmd[p], d)
      /\ d.prev = cmd[p].prev /\ d.existed = cmd[p].existed
  BY <1>2, <1>4 DEF Command, SameTask
<1> HIDE DEF d
<1>6. Progress(d)
  BY <1>1, <1>2, <1>4, <1>5, SameMember DEF SameTask
<1> QED
  BY <1>3, <1>5, <1>6 DEF GoesOn, pc

LEMMA UnlinkMoves ==
  ASSUME TypeInv, NEW p \in Procs, Unlink(p)
  PROVE  \E d : /\ GoesOn(p, d, IF cmd[p].downloaded THEN "previous" ELSE "download")
                /\ d.prev = cmd[p].prev /\ d.existed = cmd[p].existed
                /\ Outcome(p, releases,
                           [current EXCEPT ![Res(p)] = IF cmd[p].prev = Ver(p) THEN None ELSE @], d)
<1>1. cmd[p].pc = "unlink" /\ cmd[p].pc \in Preparing
  BY DEF Unlink, At, Preparing, Steps
<1>2. cmd[p] \in Command /\ Progress(cmd[p])
  BY <1>1, PreparedOne
<1> DEFINE pc == IF cmd[p].downloaded THEN "previous" ELSE "download"
           d == [cmd[p] EXCEPT !.pc = pc]
<1>3. Outcome(p, releases,
              [current EXCEPT ![Res(p)] = IF cmd[p].prev = Ver(p) THEN None ELSE @], d)
  BY DEF Unlink
<1>4. pc \in Preparing /\ pc \in Steps
  BY DEF Preparing, Steps
<1> HIDE DEF pc
<1>5. /\ d \in Command /\ d.pc = pc /\ SameTask(cmd[p], d)
      /\ d.prev = cmd[p].prev /\ d.existed = cmd[p].existed
  BY <1>2, <1>4 DEF Command, SameTask
<1> HIDE DEF d
<1>6. Progress(d)
  BY <1>1, <1>2, <1>4, <1>5, SameMember DEF SameTask
<1> QED
  BY <1>3, <1>5, <1>6 DEF GoesOn, pc

LEMMA PruneMoves ==
  ASSUME TypeInv, NEW p \in Procs, Prune(p)
  PROVE  \E d : /\ GoesOn(p, d, "point")
                /\ d.prev = cmd[p].prev /\ d.existed = cmd[p].existed
                /\ Outcome(p, [releases EXCEPT ![Res(p)] = [v \in Versions |->
                           IF v \in Stale(p) THEN "absent" ELSE @[v]]],
                           current, d)
<1>1. cmd[p].pc = "prune" /\ cmd[p].pc \in Preparing
  BY DEF Prune, At, Preparing, Steps
<1>2. cmd[p] \in Command /\ Progress(cmd[p])
  BY <1>1, PreparedOne
<1> DEFINE pc == "point"
           d == [cmd[p] EXCEPT !.pc = pc]
<1>3. Outcome(p, [releases EXCEPT ![Res(p)] = [v \in Versions |->
                           IF v \in Stale(p) THEN "absent" ELSE @[v]]],
              current, d)
  BY DEF Prune
<1>4. pc \in Preparing /\ pc \in Steps
  BY DEF Preparing, Steps
<1> HIDE DEF pc
<1>5. /\ d \in Command /\ d.pc = pc /\ SameTask(cmd[p], d)
      /\ d.prev = cmd[p].prev /\ d.existed = cmd[p].existed
  BY <1>2, <1>4 DEF Command, SameTask
<1> HIDE DEF d
<1>6. Progress(d)
  BY <1>1, <1>2, <1>4, <1>5, SameMember DEF SameTask
<1> QED
  BY <1>3, <1>5, <1>6 DEF GoesOn, pc

LEMMA DownloadMoves ==
  ASSUME TypeInv, NEW p \in Procs, Download(p)
  PROVE  \E d : Reads(p, d) /\ GoesOn(p, d, "look")
<1>1. cmd[p].pc = "download" /\ cmd[p].pc \in Preparing
  BY DEF Download, At, Preparing, Steps
<1>2. cmd[p] \in Command /\ Progress(cmd[p])
  BY <1>1, PreparedOne
<1> DEFINE d == [cmd[p] EXCEPT !.pc = "look", !.downloaded = TRUE]
<1>3. Reads(p, d)
  BY DEF Download
<1>5. d \in Command /\ d.pc = "look" /\ SameTask(cmd[p], d)
  BY <1>2 DEF Command, SameTask, Steps
<1> HIDE DEF d
<1>6. Progress(d)
  BY <1>1, <1>2, <1>5, SameMember DEF SameTask, Preparing, Steps
<1> QED
  BY <1>3, <1>5, <1>6 DEF GoesOn

LEMMA PreviousMoves ==
  ASSUME TypeInv, NEW p \in Procs, ReadPrevious(p)
  PROVE  \E d : /\ Reads(p, d)
                /\ \/ Dangling(Res(p)) /\ d = Failed(cmd[p])
                   \/ /\ ~Dangling(Res(p)) /\ GoesOn(p, d, "promote")
                      /\ d.prev = current[Res(p)] /\ ~d.existed
<1>1. cmd[p].pc = "previous" /\ cmd[p].pc \in Preparing
  BY DEF ReadPrevious, At, Preparing, Steps
<1>2. cmd[p] \in Command /\ Progress(cmd[p]) /\ current[Res(p)] \in Versions \cup {None}
  BY <1>1, PreparedOne DEF TypeInv
<1>3. CASE Dangling(Res(p))
  BY <1>3 DEF ReadPrevious
<1>4. CASE ~Dangling(Res(p))
  <2> DEFINE prev == current[Res(p)]
             d == [cmd[p] EXCEPT !.prev = prev, !.existed = FALSE, !.pc = "promote"]
  <2>1. Reads(p, d)
    BY <1>4 DEF ReadPrevious
  <2>2. prev \in Versions \cup {None}
    BY <1>2
  <2> HIDE DEF prev
  <2>3. d \in Command /\ d.pc = "promote" /\ SameTask(cmd[p], d) /\ d.prev = prev /\ ~d.existed
    BY <1>2, <2>2 DEF Command, SameTask, Steps
  <2> HIDE DEF d
  <2>4. Progress(d)
    BY <1>1, <1>2, <2>3, SameMember DEF SameTask, Preparing, Steps
  <2> QED
    BY <1>4, <2>1, <2>3, <2>4 DEF GoesOn, prev
<1> QED
  BY <1>3, <1>4

LEMMA PromoteMoves ==
  ASSUME TypeInv, NEW p \in Procs, Promote(p)
  PROVE  \/ releases[Res(p)][Ver(p)] # "absent" /\ Reads(p, Failed(cmd[p]))
         \/ /\ releases[Res(p)][Ver(p)] = "absent"
            /\ \E d : /\ GoesOn(p, d, "prune")
                      /\ d.prev = cmd[p].prev /\ d.existed = cmd[p].existed
                      /\ Outcome(p, [releases EXCEPT ![Res(p)][Ver(p)] = "whole"], current, d)
<1>1. cmd[p].pc = "promote" /\ cmd[p].pc \in Preparing
  BY DEF Promote, At, Preparing, Steps
<1>2. cmd[p] \in Command /\ Progress(cmd[p])
  BY <1>1, PreparedOne
<1>3. CASE releases[Res(p)][Ver(p)] # "absent"
  BY <1>3 DEF Promote
<1>4. CASE releases[Res(p)][Ver(p)] = "absent"
  <2> DEFINE d == [cmd[p] EXCEPT !.pc = "prune"]
  <2>1. Outcome(p, [releases EXCEPT ![Res(p)][Ver(p)] = "whole"], current, d)
    BY <1>4 DEF Promote
  <2>3. /\ d \in Command /\ d.pc = "prune" /\ SameTask(cmd[p], d)
        /\ d.prev = cmd[p].prev /\ d.existed = cmd[p].existed
    BY <1>2 DEF Command, SameTask, Steps
  <2> HIDE DEF d
  <2>4. Progress(d)
    BY <1>1, <1>2, <2>3, SameMember DEF SameTask, Preparing, Steps
  <2> QED
    BY <1>4, <2>1, <2>3, <2>4 DEF GoesOn
<1> QED
  BY <1>3, <1>4

(* The install that Point adds to the prepared ones. *)
NewInstall(p) == [resource |-> Res(p), version |-> Ver(p),
                  prev |-> cmd[p].prev, existed |-> cmd[p].existed]

LEMMA PointMoves ==
  ASSUME TypeInv, NEW p \in Procs, Point(p)
  PROVE  /\ NewInstall(p) \in Install
         /\ \E d : /\ d \in Command /\ Progress(d) /\ d.done = Append(cmd[p].done, NewInstall(p))
                   /\ d.pc \in {"record", "look"} /\ d.groups = cmd[p].groups
                   /\ d.edition = cmd[p].edition /\ d.update = cmd[p].update
                   /\ d.failed = cmd[p].failed /\ d.clean = cmd[p].clean /\ d.before = cmd[p].before
                   /\ Outcome(p, releases, [current EXCEPT ![Res(p)] = Ver(p)], d)
<1>1. cmd[p].pc = "point" /\ cmd[p].pc \in Preparing
  BY DEF Point, At, Preparing, Steps
<1>2. /\ cmd[p] \in Command /\ Progress(cmd[p]) /\ Res(p) \in Resources /\ Ver(p) \in Versions
      /\ cmd[p].edition \in Editions /\ cmd[p].groups # <<>> /\ cmd[p].groups[1] \in Kinds
      /\ Len(cmd[p].done) + 1 \in 1..Len(cmd[p].groups[1])
  BY <1>1, PreparedOne
<1>3. NewInstall(p) \in Install /\ cmd[p].done \in Seq(Install)
  BY <1>2 DEF NewInstall, Install, Command
<1> DEFINE done == Append(cmd[p].done, NewInstall(p))
           pc == IF Len(done) = Len(cmd[p].groups[1]) THEN "record" ELSE "look"
           d == [cmd[p] EXCEPT !.done = done, !.downloaded = FALSE, !.prev = None,
                               !.existed = FALSE, !.pc = pc]
<1>4. Outcome(p, releases, [current EXCEPT ![Res(p)] = Ver(p)], d)
  BY DEF Point, NewInstall
<1>5. /\ done \in Seq(Install) /\ Len(done) = Len(cmd[p].done) + 1
      /\ \A k \in 1..Len(cmd[p].done) : done[k] = cmd[p].done[k]
      /\ done[Len(cmd[p].done) + 1] = NewInstall(p)
      /\ Len(cmd[p].done) \in Nat
  BY <1>3
<1>6. pc \in Steps \cup Resting /\ pc \in {"record", "look"}
      /\ (pc = "record" <=> Len(done) = Len(cmd[p].groups[1]))
  BY DEF Steps
<1>7. Len(cmd[p].groups[1]) \in Nat
  BY <1>2, KindFacts
<1> HIDE DEF done, pc
<1>8. d \in Command
  BY <1>2, <1>5, <1>6 DEF Command, None
<1>9. /\ d.done = done /\ d.pc = pc /\ d.groups = cmd[p].groups
      /\ d.edition = cmd[p].edition /\ d.update = cmd[p].update
      /\ d.failed = cmd[p].failed /\ d.clean = cmd[p].clean /\ d.before = cmd[p].before
  BY <1>2 DEF Command
<1> HIDE DEF d
<1>10. Progress(d)
  <2>1. cmd[p].pc \in Steps /\ ~cmd[p].failed
    BY <1>1, <1>2 DEF Progress, Preparing
  <2>2. \A k \in 1..Len(cmd[p].done) :
          /\ done[k].resource = cmd[p].groups[1][k]
          /\ done[k].version = Version[cmd[p].edition][cmd[p].groups[1][k]]
    BY <1>2, <1>5, <2>1 DEF Progress
  <2>3. /\ NewInstall(p).resource = cmd[p].groups[1][Len(cmd[p].done) + 1]
        /\ NewInstall(p).version = Version[cmd[p].edition][cmd[p].groups[1][Len(cmd[p].done) + 1]]
    BY DEF NewInstall, Res, Ver
  <2>4. \A k \in 1..Len(done) :
          /\ done[k].resource = cmd[p].groups[1][k]
          /\ done[k].version = Version[cmd[p].edition][cmd[p].groups[1][k]]
    BY <1>5, <2>2, <2>3
  <2>5. Len(done) <= Len(cmd[p].groups[1]) /\ (pc = "look" => Len(done) < Len(cmd[p].groups[1]))
    BY <1>2, <1>5, <1>6, <1>7
  <2>6. d.pc \in Steps /\ d.pc \notin Undoing /\ (d.pc \in Preparing => d.pc = "look")
    BY <1>6, <1>9 DEF Steps, Undoing, Preparing
  <2> QED
    BY <1>2, <1>6, <1>9, <2>1, <2>4, <2>5, <2>6 DEF Progress
<1> QED
  BY <1>3, <1>4, <1>6, <1>8, <1>9, <1>10 DEF done

LEMMA EnteredFields ==
  ASSUME NEW c \in Command, NEW gs \in Seq(Kinds)
  PROVE  /\ EnterGroup(c, gs).groups = gs /\ EnterGroup(c, gs).edition = c.edition
         /\ EnterGroup(c, gs).update = c.update /\ EnterGroup(c, gs).failed = c.failed
         /\ EnterGroup(c, gs).clean = c.clean /\ EnterGroup(c, gs).before = current
         /\ gs = <<>> => EnterGroup(c, gs).pc = "ended" /\ EnterGroup(c, gs).done = c.done
         /\ gs # <<>> => EnterGroup(c, gs).pc \in {"desire", "look"} /\ EnterGroup(c, gs).done = <<>>
<1> DEFINE pc == IF gs = <<>> THEN "ended" ELSE IF Len(gs[1]) = 1 THEN "desire" ELSE "look"
           done == IF gs = <<>> THEN c.done ELSE <<>>
           d == EnterGroup(c, gs)
<1>1. d = [c EXCEPT !.groups = gs, !.pc = pc, !.downloaded = FALSE, !.prev = None,
                    !.existed = FALSE, !.before = current, !.done = done]
  BY DEF EnterGroup, Command
<1>2. /\ gs = <<>> => pc = "ended" /\ done = c.done
      /\ gs # <<>> => pc \in {"desire", "look"} /\ done = <<>>
  OBVIOUS
<1> HIDE DEF d, pc, done
<1>3. /\ d.groups = gs /\ d.edition = c.edition /\ d.update = c.update /\ d.failed = c.failed
      /\ d.clean = c.clean /\ d.before = current /\ d.pc = pc /\ d.done = done
  BY <1>1 DEF Command
<1> QED
  BY <1>2, <1>3 DEF d

LEMMA RecordMoves ==
  ASSUME TypeInv, NEW p \in Procs, Record(p)
  PROVE  /\ cmd[p].pc = "record" /\ cmd[p] \in Command /\ Progress(cmd[p]) /\ ~cmd[p].failed
         /\ cmd[p].edition \in Editions /\ cmd[p].groups # <<>> /\ cmd[p].groups[1] \in Kinds
         /\ Tail(cmd[p].groups) \in Seq(Kinds)
         /\ EnterGroup(cmd[p], Tail(cmd[p].groups)) \in Command
         /\ Progress(EnterGroup(cmd[p], Tail(cmd[p].groups)))
         /\ cmd' = [cmd EXCEPT ![p] = EnterGroup(cmd[p], Tail(cmd[p].groups))]
<1>1. cmd[p].pc = "record" /\ cmd[p].pc \in Steps /\ cmd[p] \in Command /\ Progress(cmd[p])
  BY DEF Record, At, Steps, TypeInv
<1>2. cmd[p].edition \in Editions /\ cmd[p].groups # <<>> /\ ~cmd[p].failed /\ cmd[p].groups \in Seq(Kinds)
  BY <1>1 DEF Progress, Command
<1>3. Tail(cmd[p].groups) \in Seq(Kinds) /\ cmd[p].groups[1] \in Kinds
  BY <1>2
<1> QED
  BY <1>1, <1>2, <1>3, EnteredGroup DEF Record

LEMMA RestoreMoves ==
  ASSUME TypeInv, NEW p \in Procs, Restore(p)
  PROVE  /\ cmd[p].pc = "restore" /\ cmd[p] \in Command /\ Progress(cmd[p]) /\ Head(cmd[p].undo) \in Install
         /\ \E d : GoesOn(p, d, "discard") /\ Outcome(p, releases, LinkBefore(Head(cmd[p].undo)), d)
<1>1. cmd[p].pc = "restore" /\ cmd[p].pc \in Steps /\ cmd[p] \in Command /\ Progress(cmd[p])
  BY DEF Restore, At, Steps, TypeInv
<1> DEFINE d == [cmd[p] EXCEPT !.pc = "discard"]
<1>2. d \in Command /\ d.pc = "discard" /\ SameTask(cmd[p], d)
  BY <1>1 DEF Command, SameTask, Steps
<1>3. Outcome(p, releases, LinkBefore(Head(cmd[p].undo)), d)
  BY DEF Restore
<1> HIDE DEF d
<1>4. /\ d.pc \in Steps /\ d.pc \notin Preparing /\ d.pc # "record" /\ d.pc \in Undoing
      /\ d.pc # "idle" /\ cmd[p].pc \in Undoing
  BY <1>1, <1>2 DEF Steps, Preparing, Undoing
<1>5. Progress(d)
  BY <1>1, <1>2, <1>4 DEF SameTask, Progress
<1>6. cmd[p].undo \in Seq(Install) /\ cmd[p].undo # <<>>
  BY <1>1, <1>4 DEF Command, Progress
<1> QED
  BY <1>1, <1>2, <1>3, <1>5, <1>6 DEF GoesOn

LEMMA DiscardMoves ==
  ASSUME TypeInv, NEW p \in Procs, Discard(p)
  PROVE  /\ cmd[p].pc = "discard" /\ cmd[p] \in Command /\ Progress(cmd[p]) /\ Head(cmd[p].undo) \in Install
         /\ \E d : /\ d \in Command /\ Progress(d)
                   /\ d.done = cmd[p].done /\ d.groups = cmd[p].groups /\ d.edition = cmd[p].edition
                   /\ d.update = cmd[p].update /\ d.failed = cmd[p].failed /\ d.clean = cmd[p].clean
                   /\ d.before = cmd[p].before /\ d.undo = Tail(cmd[p].undo)
                   /\ d.pc = IF d.undo = <<>> THEN "ended" ELSE "restore"
                   /\ Outcome(p, [releases EXCEPT ![Head(cmd[p].undo).resource][Head(cmd[p].undo).version] =
                                    IF Head(cmd[p].undo).existed THEN @ ELSE "absent"], current, d)
<1>1. /\ cmd[p].pc = "discard" /\ cmd[p].pc \in Steps /\ cmd[p].pc \in Undoing
      /\ cmd[p] \in Command /\ Progress(cmd[p])
  BY DEF Discard, At, Steps, Undoing, TypeInv
<1>2. cmd[p].undo \in Seq(Install) /\ cmd[p].undo # <<>> /\ cmd[p].done \in Seq(Install)
  BY <1>1 DEF Command, Progress
<1> DEFINE undo == Tail(cmd[p].undo)
           pc == IF undo = <<>> THEN "ended" ELSE "restore"
           d == [cmd[p] EXCEPT !.undo = undo, !.pc = pc]
<1>3. Outcome(p, [releases EXCEPT ![Head(cmd[p].undo).resource][Head(cmd[p].undo).version] =
                    IF Head(cmd[p].undo).existed THEN @ ELSE "absent"], current, d)
  BY <1>1 DEF Discard, NextUndo, Command
<1>4. /\ undo \in Seq(Install) /\ Len(undo) = Len(cmd[p].undo) - 1 /\ Len(cmd[p].undo) \in Nat
      /\ \A k \in 1..Len(undo) : undo[k] = cmd[p].undo[k + 1]
      /\ Head(cmd[p].undo) \in Install
  BY <1>2
<1>5. pc \in Steps \cup Resting /\ pc \in {"ended", "restore"}
  BY DEF Steps, Resting
<1> HIDE DEF undo, pc
<1>6. d \in Command
  BY <1>1, <1>4, <1>5 DEF Command
<1>7. /\ d.done = cmd[p].done /\ d.groups = cmd[p].groups /\ d.edition = cmd[p].edition
      /\ d.update = cmd[p].update /\ d.failed = cmd[p].failed /\ d.clean = cmd[p].clean
      /\ d.before = cmd[p].before /\ d.undo = undo /\ d.pc = pc
  BY <1>1 DEF Command
<1> HIDE DEF d
<1>8. Progress(d)
  <2>1. Len(cmd[p].undo) <= Len(cmd[p].done)
        /\ \A k \in 1..Len(cmd[p].undo) : cmd[p].undo[k] = cmd[p].done[Len(cmd[p].undo) + 1 - k]
    BY <1>1 DEF Progress
  <2>2. Len(undo) <= Len(cmd[p].done) /\ \A k \in 1..Len(undo) : undo[k] = cmd[p].done[Len(undo) + 1 - k]
    BY <1>2, <1>4, <2>1
  <2>3. /\ d.pc \notin Preparing /\ d.pc \notin {"record", "idle"}
        /\ d.pc \in Steps => d.pc = "restore" /\ undo # <<>>
        /\ d.pc \in Undoing => d.pc \in Steps
    BY <1>5, <1>7 DEF Preparing, Steps, Undoing, pc
  <2> QED
    BY <1>1, <1>7, <2>2, <2>3 DEF Progress
<1> QED
  BY <1>1, <1>3, <1>4, <1>6, <1>7, <1>8 DEF pc, undo

(* The command that Begin starts. *)
LEMMA BeginMoves ==
  ASSUME TypeInv, NEW p \in Procs, NEW update \in BOOLEAN, NEW gs \in Seq(Kinds), NEW e \in Editions
  PROVE  LET c == [Idle EXCEPT !.update = update, !.edition = e] IN
         /\ c \in Command /\ c.update = update /\ c.edition = e /\ ~c.failed /\ c.clean /\ c.done = <<>>
         /\ EnterGroup(c, gs) \in Command /\ Progress(EnterGroup(c, gs))
<1> DEFINE c == [Idle EXCEPT !.update = update, !.edition = e]
<1>1. Idle \in Command /\ ~Idle.failed /\ Idle.clean /\ Idle.done = <<>>
  BY IdleCommand DEF Idle
<1>2. c \in Command /\ c.update = update /\ c.edition = e /\ ~c.failed /\ c.clean /\ c.done = <<>>
  BY <1>1 DEF Command
<1> HIDE DEF c
<1>3. EnterGroup(c, gs) \in Command /\ Progress(EnterGroup(c, gs))
  BY <1>2, EnteredGroup
<1> QED
  BY <1>2, <1>3 DEF c

(* What a command begins with. *)
LEMMA StartMoves ==
  ASSUME TypeInv, NEW p \in Procs, StartCommand(p)
  PROVE  \E update \in BOOLEAN, gs \in Seq(Kinds), e \in Editions :
           /\ Begin(p, update, gs, e) /\ cache' \in Editions \cup {None}
           /\ update => gs = UpdateGroups(e)
<1>1. /\ <<Pair>> \in Seq(Kinds) /\ <<<<Composer>>>> \in Seq(Kinds) /\ <<PairWithComposer>> \in Seq(Kinds)
      /\ <<>> \in Seq(Kinds)
  BY DEF Kinds
<1>2. \A e \in Editions : UpdateGroups(e) \in Seq(Kinds)
  BY <1>1 DEF UpdateGroups
<1>3. edition \in Editions /\ cache \in Editions \cup {None}
  BY DEF TypeInv
<1>4. \A e : Manifest(e) => cache' \in Editions \cup {None}
  BY <1>3 DEF Manifest, FreshManifest
<1>5. CASE UpdateAllInstalled(p)
  BY <1>2, <1>3, <1>5 DEF UpdateAllInstalled, FreshManifest
<1>6. CASE InstallPhpPair(p)
  BY <1>1, <1>4, <1>6 DEF InstallPhpPair
<1>7. CASE InstallComposer(p)
  BY <1>1, <1>4, <1>7 DEF InstallComposer
<1>8. CASE InstallComposerWithPhpPair(p)
  BY <1>1, <1>4, <1>8 DEF InstallComposerWithPhpPair
<1>9. CASE UpdatePhpPairs(p)
  BY <1>1, <1>3, <1>9 DEF UpdatePhpPairs, FreshManifest
<1> QED
  BY <1>5, <1>6, <1>7, <1>8, <1>9 DEF StartCommand

-----------------------------------------------------------------------------
(* Types *)

LEMMA TypeInvInit == Init => TypeInv
<1> SUFFICES ASSUME Init PROVE TypeInv
  OBVIOUS
<1>1. 1 \in Editions
  BY InstallAssumption DEF Editions
<1>2. cmd \in [Procs -> Command] /\ \A p \in Procs : Progress(cmd[p])
  BY IdleCommand DEF Init
<1>3. /\ releases \in [Resources -> [Versions -> Contents]]
      /\ current \in [Resources -> Versions \cup {None}]
      /\ rows \in [Resources -> [desired : BOOLEAN, version : Versions \cup {None}]]
  BY DEF Init, Contents
<1> QED
  BY <1>1, <1>2, <1>3, InstallAssumption DEF Init, TypeInv

(* What the steps make of the releases, the links and the rows. *)
LEMMA DataTypes ==
  ASSUME TypeInv, NEW r \in Resources, NEW v \in Versions, NEW w \in Versions \cup {None}
  PROVE  /\ \A x \in Contents : [releases EXCEPT ![r][v] = x] \in [Resources -> [Versions -> Contents]]
         /\ \A S : [releases EXCEPT ![r] = [u \in Versions |-> IF u \in S THEN "absent" ELSE @[u]]]
                     \in [Resources -> [Versions -> Contents]]
         /\ [current EXCEPT ![r] = w] \in [Resources -> Versions \cup {None}]
  BY DEF TypeInv, Contents

LEMMA StepTypes ==
  ASSUME TypeInv, NEW p \in Procs, Step(p)
  PROVE  TypeInv'
<1>0. /\ releases \in [Resources -> [Versions -> Contents]]
      /\ current \in [Resources -> Versions \cup {None}]
      /\ rows \in [Resources -> [desired : BOOLEAN, version : Versions \cup {None}]]
      /\ cmd \in [Procs -> Command]
  BY DEF TypeInv
<1>1. CASE RecordDesired(p)
  <2>1. cmd[p].pc \in Preparing
    BY <1>1 DEF RecordDesired, At, Preparing, Steps
  <2>2. Res(p) \in Resources
    BY <2>1, PreparedOne
  <2>3. rows' \in [Resources -> [desired : BOOLEAN, version : Versions \cup {None}]]
    BY <1>0, <1>1, <2>2 DEF RecordDesired
  <2>4. cmd' \in [Procs -> Command] /\ \A q \in Procs : Progress(cmd'[q])
    BY <1>1, DesireMoves, CommandMoves DEF GoesOn
  <2> QED
    BY <1>1, <2>3, <2>4 DEF RecordDesired, TypeInv
<1>2. CASE Look(p)
  <2>1. cmd[p].pc \in Steps /\ cmd[p] \in Command /\ Progress(cmd[p])
    BY <1>0, <1>2 DEF Look, At, Steps, TypeInv
  <2>2. PICK d : Reads(p, d) /\ d \in Command /\ Progress(d)
    BY <1>2, <2>1, LookMoves, FailedCommand DEF GoesOn
  <2> QED
    BY <2>2, ReadsTypes
<1>3. CASE RemoveInvalid(p)
  <2>1. cmd[p].pc \in Preparing /\ cmd[p].pc \in Steps
    BY <1>3 DEF RemoveInvalid, At, Preparing, Steps
  <2>2. [releases EXCEPT ![Res(p)][Ver(p)] = "absent"] \in [Resources -> [Versions -> Contents]]
    BY <2>1, PreparedOne, DataTypes DEF Contents, None
  <2> QED
    BY <1>0, <1>3, <2>1, <2>2, RemoveMoves, OutcomeTypes DEF GoesOn
<1>4. CASE Unlink(p)
  <2>1. cmd[p].pc \in Preparing /\ cmd[p].pc \in Steps
    BY <1>4 DEF Unlink, At, Preparing, Steps
  <2>2. [current EXCEPT ![Res(p)] = IF cmd[p].prev = Ver(p) THEN None ELSE @]
          \in [Resources -> Versions \cup {None}]
    BY <1>0, <2>1, PreparedOne
  <2> QED
    BY <1>0, <1>4, <2>1, <2>2, UnlinkMoves, OutcomeTypes DEF GoesOn
<1>5. CASE Download(p)
  BY <1>5, DownloadMoves, ReadsTypes DEF GoesOn
<1>6. CASE ReadPrevious(p)
  <2>1. cmd[p].pc \in Steps /\ cmd[p] \in Command /\ Progress(cmd[p])
    BY <1>0, <1>6 DEF ReadPrevious, At, Steps, TypeInv
  <2>2. PICK d : Reads(p, d) /\ d \in Command /\ Progress(d)
    BY <1>6, <2>1, PreviousMoves, FailedCommand DEF GoesOn
  <2> QED
    BY <2>2, ReadsTypes
<1>7. CASE Promote(p)
  <2>1. cmd[p].pc \in Preparing /\ cmd[p].pc \in Steps
    BY <1>7 DEF Promote, At, Preparing, Steps
  <2>2. [releases EXCEPT ![Res(p)][Ver(p)] = "whole"] \in [Resources -> [Versions -> Contents]]
    BY <2>1, PreparedOne, DataTypes DEF Contents, None
  <2>3. cmd[p] \in Command /\ Progress(cmd[p])
    BY <2>1, PreparedOne
  <2>4. CASE Reads(p, Failed(cmd[p]))
    BY <2>1, <2>3, <2>4, FailedCommand, ReadsTypes
  <2>5. CASE ~Reads(p, Failed(cmd[p]))
    BY <1>0, <1>7, <2>1, <2>2, <2>5, PromoteMoves, OutcomeTypes DEF GoesOn
  <2> QED
    BY <2>4, <2>5
<1>8. CASE Prune(p)
  <2>1. cmd[p].pc \in Preparing /\ cmd[p].pc \in Steps
    BY <1>8 DEF Prune, At, Preparing, Steps
  <2>2. [releases EXCEPT ![Res(p)] = [v \in Versions |-> IF v \in Stale(p) THEN "absent" ELSE @[v]]]
          \in [Resources -> [Versions -> Contents]]
    <3> DEFINE S == Stale(p)
               r == Res(p)
    <3>1. r \in Resources
      BY <2>1, PreparedOne
    <3> HIDE DEF S, r
    <3>2. [releases EXCEPT ![r] = [v \in Versions |-> IF v \in S THEN "absent" ELSE @[v]]]
            \in [Resources -> [Versions -> Contents]]
      BY <1>0, <3>1 DEF Contents
    <3> QED
      BY <3>2 DEF S, r
  <2> QED
    BY <1>0, <1>8, <2>1, <2>2, PruneMoves, OutcomeTypes DEF GoesOn
<1>9. CASE Point(p)
  <2>1. cmd[p].pc \in Preparing /\ cmd[p].pc \in Steps
    BY <1>9 DEF Point, At, Preparing, Steps
  <2>2. [current EXCEPT ![Res(p)] = Ver(p)] \in [Resources -> Versions \cup {None}]
    BY <1>0, <2>1, PreparedOne
  <2> QED
    BY <1>0, <1>9, <2>1, <2>2, PointMoves, OutcomeTypes
<1>10. CASE Record(p)
  <2>1. cmd' \in [Procs -> Command] /\ \A q \in Procs : Progress(cmd'[q])
    BY <1>10, RecordMoves, CommandMoves
  <2>2. cmd[p].done \in Seq(Install)
    BY <1>0 DEF Command
  <2>3. \A i \in Recorded(p) : i \in Install
    BY <2>2 DEF Recorded, ToSet
  <2>4. rows' \in [Resources -> [desired : BOOLEAN, version : Versions \cup {None}]]
    BY <1>0, <1>10, <2>3 DEF Record, SingleTrack, Install
  <2> QED
    BY <1>10, <2>1, <2>4 DEF Record, TypeInv
<1>11. CASE Restore(p)
  <2>1. LinkBefore(Head(cmd[p].undo)) \in [Resources -> Versions \cup {None}]
    BY <1>0, <1>11, RestoreMoves DEF LinkBefore, Install
  <2> QED
    BY <1>0, <1>11, <2>1, RestoreMoves, OutcomeTypes DEF GoesOn, Steps
<1>12. CASE Discard(p)
  <2>1. Head(cmd[p].undo).resource \in Resources /\ Head(cmd[p].undo).version \in Versions
    BY <1>12, DiscardMoves DEF Install
  <2>2. [releases EXCEPT ![Head(cmd[p].undo).resource][Head(cmd[p].undo).version] =
           IF Head(cmd[p].undo).existed THEN @ ELSE "absent"] \in [Resources -> [Versions -> Contents]]
    BY <1>0, <2>1 DEF Contents
  <2> DEFINE rel == [releases EXCEPT ![Head(cmd[p].undo).resource][Head(cmd[p].undo).version] =
                       IF Head(cmd[p].undo).existed THEN @ ELSE "absent"]
  <2>3. PICK d : d \in Command /\ Progress(d) /\ Outcome(p, rel, current, d)
    BY <1>12, DiscardMoves
  <2>4. cmd[p].pc \in Steps
    BY <1>12, DiscardMoves DEF Steps
  <2> HIDE DEF rel
  <2>5. rel \in [Resources -> [Versions -> Contents]]
    BY <2>2 DEF rel
  <2> QED
    BY <1>0, <2>3, <2>4, <2>5, OutcomeTypes
<1> QED
  BY <1>1, <1>2, <1>3, <1>4, <1>5, <1>6, <1>7, <1>8, <1>9, <1>10, <1>11, <1>12 DEF Step

LEMMA TypeInvStep == TypeInv /\ [Next]_vars => TypeInv'
<1> SUFFICES ASSUME TypeInv, [Next]_vars PROVE TypeInv'
  OBVIOUS
<1>1. CASE UNCHANGED vars
  BY <1>1 DEF vars, TypeInv
<1>2. CASE Publish
  BY <1>2, InstallAssumption DEF Publish, TypeInv, Editions
<1>3. ASSUME NEW p \in Procs, StartCommand(p) PROVE TypeInv'
  <2>1. PICK update \in BOOLEAN, gs \in Seq(Kinds), e \in Editions :
           Begin(p, update, gs, e) /\ cache' \in Editions \cup {None}
    BY <1>3, StartMoves
  <2>2. cmd' \in [Procs -> Command] /\ \A q \in Procs : Progress(cmd'[q])
    BY <2>1, BeginMoves, CommandMoves DEF Begin
  <2>3. commands' \in 0..MaxCommands
    BY <2>1, InstallAssumption DEF Begin, TypeInv
  <2> QED
    BY <2>1, <2>2, <2>3 DEF Begin, TypeInv
<1>4. ASSUME NEW p \in Procs, Interrupt(p) PROVE TypeInv'
  <2>1. cmd[p] \in Command /\ Progress(cmd[p]) /\ cmd[p].pc \in Steps
    BY <1>4 DEF Interrupt, TypeInv
  <2>2. PICK c \in Command : Progress(c) /\ cmd' = [cmd EXCEPT ![p] = c]
    BY <1>4, <2>1, FailedCommand, IdleCommand DEF Interrupt, Killed
  <2>3. cmd' \in [Procs -> Command] /\ \A q \in Procs : Progress(cmd'[q])
    BY <2>2, CommandMoves
  <2>4. interruptions' \in 0..MaxInterruptions
    BY <1>4, InstallAssumption DEF Interrupt, MayInterrupt, TypeInv
  <2>5. releases' \in [Resources -> [Versions -> Contents]]
    BY <1>4 DEF Interrupt, TypeInv, Contents
  <2> QED
    BY <1>4, <2>3, <2>4, <2>5 DEF Interrupt, TypeInv
<1>5. ASSUME NEW r \in Resources, NEW v \in Versions, Damage(r, v) PROVE TypeInv'
  <2>1. [releases EXCEPT ![r][v] = "gutted"] \in [Resources -> [Versions -> Contents]]
    BY DataTypes DEF Contents, None
  <2>2. interruptions' \in 0..MaxInterruptions
    BY <1>5, InstallAssumption DEF Damage, MayInterrupt, TypeInv
  <2> QED
    BY <1>5, <2>1, <2>2 DEF Damage, TypeInv
<1> QED
  BY <1>1, <1>2, <1>3, <1>4, <1>5, StepTypes DEF Next

(* The state is well formed, and a command that runs has a manifest, a group,
   and a member to prepare or to undo. *)
LEMMA TypeInvTypes == TypeInv => InstallTypeOK
<1> SUFFICES ASSUME TypeInv PROVE InstallTypeOK
  OBVIOUS
<1>1. ASSUME NEW p \in Procs
      PROVE  /\ DOMAIN cmd[p] = DOMAIN Idle /\ cmd[p].pc \in Steps \cup {"idle", "ended"}
             /\ cmd[p].done \in Seq(Install) /\ cmd[p].undo \in Seq(Install)
  BY DEF TypeInv, Command, Idle, Resting
<1>2. ASSUME NEW p \in Procs
      PROVE  /\ cmd[p].pc \in Steps => cmd[p].edition \in Editions /\ Len(cmd[p].groups) > 0
             /\ cmd[p].pc \in {"restore", "discard"} => Len(cmd[p].undo) > 0
             /\ cmd[p].pc \in Steps \ {"record", "restore", "discard"}
                  => Len(cmd[p].done) < Len(cmd[p].groups[1])
  <2>1. Progress(cmd[p]) /\ cmd[p].groups \in Seq(Kinds) /\ cmd[p].undo \in Seq(Install)
    BY DEF TypeInv, Command
  <2> QED
    BY <2>1 DEF Progress, Preparing, Undoing
<1> QED
  BY <1>1, <1>2 DEF InstallTypeOK, TypeInv

-----------------------------------------------------------------------------
(* The rows of the PHP pair *)

(* Record gives the members of the group, and no other track, the versions of
   the command's manifest. *)
LEMMA RecordedRows ==
  ASSUME TypeInv, NEW p \in Procs, Record(p), NEW r \in Resources
  PROVE  /\ r \in ToSet(cmd[p].groups[1]) => rows'[r].version = Version[cmd[p].edition][r]
         /\ r \notin ToSet(cmd[p].groups[1]) => rows'[r] = rows[r]
<1> DEFINE c == cmd[p]
           g == cmd[p].groups[1]
           of == {i \in Recorded(p) : i.resource = r}
<1>1. /\ c \in Command /\ Progress(c) /\ c.pc = "record" /\ g \in Kinds
  BY RecordMoves
<1>2. c.done \in Seq(Install) /\ Len(c.done) = Len(g) /\ Len(g) \in Nat
  BY <1>1, KindFacts DEF Command, Progress
<1>3. \A k \in 1..Len(g) : c.done[k].resource = g[k] /\ c.done[k].version = Version[c.edition][g[k]]
  BY <1>1, <1>2 DEF Progress, Steps
<1>4. Recorded(p) = {c.done[k] : k \in 1..Len(g)}
  BY <1>2 DEF Recorded, ToSet
<1>5. ToSet(g) = {g[k] : k \in 1..Len(g)}
  BY <1>1, KindFacts
<1>6. \A i \in of : r \in ToSet(g) /\ i.version = Version[c.edition][r]
  <2>1. SUFFICES ASSUME NEW i \in Recorded(p), i.resource = r
                 PROVE  r \in ToSet(g) /\ i.version = Version[c.edition][r]
    OBVIOUS
  <2>2. PICK k \in 1..Len(g) : i = c.done[k]
    BY <1>4
  <2>3. g[k] = r /\ i.version = Version[c.edition][g[k]]
    BY <1>3, <2>1, <2>2
  <2> QED
    BY <1>5, <2>3
<1>7. r \in ToSet(g) => of # {}
  BY <1>3, <1>4, <1>5
<1>8. rows'[r] = IF of = {} THEN rows[r]
                 ELSE [desired |-> rows[r].desired \/ ~SingleTrack(c),
                       version |-> (CHOOSE i \in of : TRUE).version]
  BY DEF Record
<1> HIDE DEF of
<1>9. of # {} => (CHOOSE i \in of : TRUE) \in of
  OBVIOUS
<1> QED
  BY <1>6, <1>7, <1>8, <1>9 DEF of

PairInv == TypeInv /\ PairFromOneManifest

LEMMA PairInvStep == PairInv /\ [Next]_vars => PairInv'
<1> SUFFICES ASSUME PairInv, [Next]_vars PROVE PairFromOneManifest'
  BY TypeInvStep DEF PairInv
<1>0. TypeInv /\ PairFromOneManifest /\ Php \in Resources /\ FrankenPhp \in Resources
  BY DEF PairInv, Resources
<1>1. CASE \A r \in Resources : rows'[r].version = rows[r].version
  BY <1>0, <1>1 DEF PairFromOneManifest
<1>2. ASSUME NEW p \in Procs, Record(p) PROVE PairFromOneManifest'
  <2>1. cmd[p].groups[1] \in Kinds /\ cmd[p].edition \in Editions
    BY <1>0, <1>2, RecordMoves
  <2>2. Php \in ToSet(cmd[p].groups[1]) <=> FrankenPhp \in ToSet(cmd[p].groups[1])
    BY <2>1, KindFacts
  <2>3. CASE Php \in ToSet(cmd[p].groups[1])
    <3>1. \A r \in {Php, FrankenPhp} : rows'[r].version = Version[cmd[p].edition][r]
      BY <1>0, <1>2, <2>2, <2>3, RecordedRows
    <3> QED
      BY <2>1, <3>1 DEF PairFromOneManifest
  <2>4. CASE Php \notin ToSet(cmd[p].groups[1])
    <3>1. \A r \in {Php, FrankenPhp} : rows'[r].version = rows[r].version
      BY <1>0, <1>2, <2>2, <2>4, RecordedRows
    <3> QED
      BY <1>0, <3>1 DEF PairFromOneManifest
  <2> QED
    BY <2>3, <2>4
<1>3. ASSUME NEW p \in Procs, RecordDesired(p) PROVE \A r \in Resources : rows'[r].version = rows[r].version
  BY <1>0, <1>3 DEF RecordDesired, TypeInv
<1>4. ASSUME NEW p \in Procs, StartCommand(p) PROVE rows' = rows
  BY <1>0, <1>4, StartMoves DEF Begin
<1>5. ASSUME NEW p \in Procs, Step(p), ~Record(p), ~RecordDesired(p) PROVE rows' = rows
  BY <1>5 DEF Step, Look, RemoveInvalid, Unlink, Download, ReadPrevious, Promote, Prune, Point,
     Restore, Discard, Outcome, Reads
<1>6. ASSUME NEW p \in Procs, Interrupt(p) PROVE rows' = rows
  BY <1>6 DEF Interrupt
<1>7. Publish \/ UNCHANGED vars \/ (\E r \in Resources, v \in Versions : Damage(r, v)) => rows' = rows
  BY DEF Publish, vars, Damage
<1> QED
  BY <1>1, <1>2, <1>3, <1>4, <1>5, <1>6, <1>7 DEF Next

(* install_php_pair, install_composer_with_php_pair and the updates: whichever
   processes interleave, fail or die, the state stays well formed, and the
   versions that pv.db records for PHP and FrankenPHP come from one manifest. *)
THEOREM PairsComeFromOneManifest == Spec => [](InstallTypeOK /\ PairFromOneManifest)
<1>1. Init => PairInv
  BY TypeInvInit DEF PairInv, Init, PairFromOneManifest, Resources
<1>2. PairInv => InstallTypeOK /\ PairFromOneManifest
  BY TypeInvTypes DEF PairInv
<1> QED
  BY <1>1, <1>2, PairInvStep, PTL DEF Spec

(* What a command has prepared of its group: distinct members, none of them the
   one it prepares now. *)
LEMMA DoneFacts ==
  ASSUME TypeInv, NEW p \in Procs, cmd[p].pc \in Steps
  PROVE  /\ cmd[p].done \in Seq(Install) /\ DOMAIN cmd[p].done = 1..Len(cmd[p].done)
         /\ Len(cmd[p].done) \in Nat
         /\ \A k \in DOMAIN cmd[p].done : /\ cmd[p].done[k] \in Install
                                          /\ cmd[p].done[k].resource \in Resources
                                          /\ cmd[p].done[k].version \in Versions
                                          /\ cmd[p].done[k].prev \in Versions \cup {None}
         /\ \A j, k \in DOMAIN cmd[p].done :
              cmd[p].done[j].resource = cmd[p].done[k].resource => j = k
         /\ cmd[p].pc \in Preparing => \A k \in DOMAIN cmd[p].done : cmd[p].done[k].resource # Res(p)
<1>1. cmd[p] \in Command /\ Progress(cmd[p]) /\ cmd[p].groups \in Seq(Kinds) /\ cmd[p].done \in Seq(Install)
  BY DEF TypeInv, Command
<1>2. cmd[p].groups # <<>>
  BY <1>1 DEF Progress
<1>3. cmd[p].groups[1] \in Kinds
  BY <1>1, <1>2
<1>4. /\ DOMAIN cmd[p].done = 1..Len(cmd[p].done) /\ Len(cmd[p].done) \in Nat
      /\ \A k \in DOMAIN cmd[p].done : cmd[p].done[k] \in Install
  BY <1>1
<1>5. \A i \in Install : i.resource \in Resources /\ i.version \in Versions /\ i.prev \in Versions \cup {None}
  BY DEF Install
<1>6. /\ Len(cmd[p].groups[1]) \in Nat /\ Len(cmd[p].done) <= Len(cmd[p].groups[1])
      /\ \A m, n \in 1..Len(cmd[p].groups[1]) : cmd[p].groups[1][m] = cmd[p].groups[1][n] => m = n
      /\ \A k \in 1..Len(cmd[p].done) : cmd[p].done[k].resource = cmd[p].groups[1][k]
  <2>1. Len(cmd[p].groups[1]) \in Nat
        /\ \A m, n \in 1..Len(cmd[p].groups[1]) : cmd[p].groups[1][m] = cmd[p].groups[1][n] => m = n
    BY <1>3, KindFacts
  <2>2. /\ Len(cmd[p].done) <= Len(cmd[p].groups[1])
        /\ \A k \in 1..Len(cmd[p].done) : cmd[p].done[k].resource = cmd[p].groups[1][k]
    BY <1>1 DEF Progress
  <2> QED
    BY <2>1, <2>2
<1>7. \A j, k \in DOMAIN cmd[p].done : cmd[p].done[j].resource = cmd[p].done[k].resource => j = k
  <2> SUFFICES ASSUME NEW j \in 1..Len(cmd[p].done), NEW k \in 1..Len(cmd[p].done),
                      cmd[p].done[j].resource = cmd[p].done[k].resource
               PROVE  j = k
    BY <1>4
  <2>1. j \in 1..Len(cmd[p].groups[1]) /\ k \in 1..Len(cmd[p].groups[1])
    BY <1>4, <1>6
  <2>2. cmd[p].groups[1][j] = cmd[p].groups[1][k]
    BY <1>6
  <2> QED
    BY <1>6, <2>1, <2>2
<1>8. cmd[p].pc \in Preparing => \A k \in DOMAIN cmd[p].done : cmd[p].done[k].resource # Res(p)
  BY <1>4, <1>6, PreparedOne DEF Res
<1> QED
  BY <1>1, <1>4, <1>5, <1>7, <1>8

LEMMA OutcomeMoves ==
  ASSUME TypeInv, NEW p \in Procs, NEW rel, NEW cur, NEW d, Outcome(p, rel, cur, d)
  PROVE  /\ releases' = rel /\ current' = cur /\ rows' = rows
         /\ interruptions' = interruptions => cmd'[p] = d
         /\ \/ cmd'[p] = d /\ interruptions' = interruptions
            \/ interruptions' = interruptions + 1 /\ cmd'[p] \in {Failed(cmd[p]), Idle}
<1>1. interruptions \in Nat /\ cmd \in [Procs -> Command]
  BY InstallAssumption DEF TypeInv
<1>2. interruptions + 1 # interruptions
  BY <1>1
<1> QED
  BY <1>1, <1>2 DEF Outcome, MayInterrupt, Killed

LEMMA ReadsMoves ==
  ASSUME TypeInv, NEW p \in Procs, NEW d, Reads(p, d)
  PROVE  /\ releases' = releases /\ current' = current /\ rows' = rows
         /\ cmd'[p] = d /\ interruptions' = interruptions
  BY DEF Reads, TypeInv


-----------------------------------------------------------------------------
(* Without an interruption *)

(* Steps for one member of a group leave the prepared ones alone. *)
LEMMA PreparedElsewhere ==
  ASSUME TypeInv, NEW p \in Procs, cmd[p].pc \in Preparing, SameTask(cmd[p], cmd'[p]),
         Prepared(cmd[p]),
         \A r \in Resources : rows'[r].version = rows[r].version /\ current'[r] = current[r],
         \A r \in Resources : r # Res(p) => releases'[r] = releases[r]
  PROVE  Prepared(cmd[p])'
<1>1. /\ \A k \in DOMAIN cmd[p].done : cmd[p].done[k].resource \in Resources
      /\ \A k \in DOMAIN cmd[p].done : cmd[p].done[k].resource # Res(p)
  BY DoneFacts DEF Preparing
<1>2. cmd'[p].done = cmd[p].done /\ cmd'[p].before = cmd[p].before
  BY DEF SameTask
<1>3. Members(cmd[p])' = Members(cmd[p])
  BY <1>2 DEF Members
<1>4. \A k \in DOMAIN cmd[p].done :
        Undoable(cmd[p], cmd[p].done[k]) => Undoable(cmd[p], cmd[p].done[k])'
  BY <1>1, <1>2 DEF Undoable
<1> QED
  BY <1>1, <1>2, <1>3, <1>4 DEF Prepared

LEMMA PerfectGoesOn ==
  ASSUME TypeInv, NEW p \in Procs, Perfect(p), cmd[p].pc \in Preparing, SameTask(cmd[p], cmd'[p]),
         cmd'[p].pc \in Preparing, cmd'[p].pc \notin {"remove", "unlink"}, Intact',
         \A r \in Resources : rows'[r].version = rows[r].version /\ current'[r] = current[r],
         \A r \in Resources : r # Res(p) => releases'[r] = releases[r],
         Res(p)' = Res(p) /\ Ver(p)' = Ver(p) => Known(cmd[p], Res(p), Ver(p))'
  PROVE  Perfect(p)'
<1>1. cmd[p].pc \in Steps /\ cmd'[p].pc \in Steps /\ cmd'[p].pc \notin Undoing \cup Resting
  BY DEF Preparing, Undoing, Resting, Steps
<1>2. Prepared(cmd[p])'
  BY <1>1, PreparedElsewhere DEF Perfect
<1>3. Res(p)' = Res(p) /\ Ver(p)' = Ver(p)
  BY DEF Res, Ver, SameTask
<1>4. ~cmd'[p].failed /\ cmd'[p].clean
  BY DEF Perfect, SameTask
<1> QED
  BY <1>1, <1>2, <1>3, <1>4 DEF Perfect

LEMMA PerfectDesire ==
  ASSUME TypeInv, NEW p \in Procs, Perfect(p), RecordDesired(p)
  PROVE  Perfect(p)'
<1>1. PICK d : GoesOn(p, d, "look") /\ cmd' = [cmd EXCEPT ![p] = d]
  BY DesireMoves
<1>2. cmd[p].pc \in Preparing /\ cmd'[p] = d /\ d.pc = "look" /\ d.pc \in Preparing
  BY <1>1 DEF RecordDesired, At, Preparing, Steps, GoesOn, TypeInv
<1>3. /\ \A r \in Resources : rows'[r].version = rows[r].version
      /\ current' = current /\ releases' = releases
  BY DEF RecordDesired, TypeInv
<1>4. Intact'
  BY <1>3 DEF Perfect, Intact, Dangling
<1>5. Known(cmd[p], Res(p), Ver(p))'
  BY <1>2, <1>3 DEF Known
<1> QED
  BY <1>1, <1>2, <1>3, <1>4, <1>5, PerfectGoesOn DEF GoesOn

LEMMA PerfectLook ==
  ASSUME TypeInv, NEW p \in Procs, Perfect(p), Look(p)
  PROVE  Perfect(p)'
<1>1. PICK d :  /\ Reads(p, d)
                /\ \/ /\ releases[Res(p)][Ver(p)] = "absent"
                      /\ GoesOn(p, d, IF cmd[p].downloaded THEN "previous" ELSE "download")
                   \/ releases[Res(p)][Ver(p)] # "absent" /\ Dangling(Res(p)) /\ d = Failed(cmd[p])
                   \/ /\ releases[Res(p)][Ver(p)] # "absent" /\ ~Dangling(Res(p))
                      /\ GoesOn(p, d, IF Valid(Res(p), Ver(p)) THEN "prune" ELSE "remove")
                      /\ d.prev = current[Res(p)] /\ d.existed
  BY LookMoves
<1>2. cmd[p].pc \in Preparing
  BY DEF Look, At, Preparing, Steps
<1>3. Res(p) \in Resources /\ Ver(p) \in Versions
  BY <1>2, PreparedOne
<1>4. ~Dangling(Res(p)) /\ releases[Res(p)][Ver(p)] \in {"absent", "whole"}
  BY <1>3 DEF Perfect, Intact
<1>5. /\ d.pc \in {"previous", "download", "prune"} /\ SameTask(cmd[p], d)
      /\ d.pc = "previous" => releases[Res(p)][Ver(p)] = "absent"
      /\ d.pc = "prune" => releases[Res(p)][Ver(p)] # "absent" /\ d.prev = current[Res(p)] /\ d.existed
  BY <1>1, <1>4 DEF GoesOn, Valid
<1>6. /\ releases' = releases /\ current' = current /\ rows' = rows /\ cmd'[p] = d
  BY <1>1, ReadsMoves
<1>7. d.pc \in Preparing /\ d.pc \notin {"remove", "unlink"}
  BY <1>5 DEF Preparing, Steps
<1>8. Intact'
  BY <1>6 DEF Perfect, Intact, Dangling
<1>9. Res(p)' = Res(p) /\ Ver(p)' = Ver(p) => Known(cmd[p], Res(p), Ver(p))'
  BY <1>5, <1>6 DEF Known
<1> QED
  BY <1>2, <1>5, <1>6, <1>7, <1>8, <1>9, PerfectGoesOn

LEMMA PerfectDownload ==
  ASSUME TypeInv, NEW p \in Procs, Perfect(p), Download(p)
  PROVE  Perfect(p)'
<1>1. PICK d : Reads(p, d) /\ GoesOn(p, d, "look")
  BY DownloadMoves
<1>2. cmd[p].pc \in Preparing /\ d.pc = "look" /\ d.pc \in Preparing
  BY <1>1 DEF Download, At, Preparing, Steps, GoesOn
<1>3. releases' = releases /\ current' = current /\ rows' = rows /\ cmd'[p] = d
  BY <1>1, ReadsMoves
<1>4. Intact'
  BY <1>3 DEF Perfect, Intact, Dangling
<1>5. Known(cmd[p], Res(p), Ver(p))'
  BY <1>2, <1>3 DEF Known
<1> QED
  BY <1>1, <1>2, <1>3, <1>4, <1>5, PerfectGoesOn DEF GoesOn

LEMMA PerfectPrevious ==
  ASSUME TypeInv, NEW p \in Procs, Perfect(p), ReadPrevious(p)
  PROVE  Perfect(p)'
<1>1. PICK d : /\ Reads(p, d)
               /\ \/ Dangling(Res(p)) /\ d = Failed(cmd[p])
                  \/ /\ ~Dangling(Res(p)) /\ GoesOn(p, d, "promote")
                     /\ d.prev = current[Res(p)] /\ ~d.existed
  BY PreviousMoves
<1>2. cmd[p].pc = "previous" /\ cmd[p].pc \in Preparing
  BY DEF ReadPrevious, At, Preparing, Steps
<1>3. Res(p) \in Resources /\ Ver(p) \in Versions
  BY <1>2, PreparedOne
<1>4. ~Dangling(Res(p)) /\ releases[Res(p)][Ver(p)] = "absent"
  BY <1>2, <1>3 DEF Perfect, Intact, Known
<1>5. d.pc = "promote" /\ SameTask(cmd[p], d) /\ d.prev = current[Res(p)] /\ d.pc \in Preparing
  BY <1>1, <1>4 DEF GoesOn, Preparing, Steps
<1>6. releases' = releases /\ current' = current /\ rows' = rows /\ cmd'[p] = d
  BY <1>1, ReadsMoves
<1>7. Intact'
  BY <1>6 DEF Perfect, Intact, Dangling
<1>8. Res(p)' = Res(p) /\ Ver(p)' = Ver(p) => Known(cmd[p], Res(p), Ver(p))'
  BY <1>4, <1>5, <1>6 DEF Known
<1> QED
  BY <1>2, <1>5, <1>6, <1>7, <1>8, PerfectGoesOn

LEMMA PerfectPromote ==
  ASSUME TypeInv, NEW p \in Procs, Perfect(p), Promote(p), interruptions' = interruptions
  PROVE  Perfect(p)'
<1>1. cmd[p].pc = "promote" /\ cmd[p].pc \in Preparing
  BY DEF Promote, At, Preparing, Steps
<1>2. Res(p) \in Resources /\ Ver(p) \in Versions
  BY <1>1, PreparedOne
<1>3. /\ ~Dangling(Res(p)) /\ releases[Res(p)][Ver(p)] = "absent" /\ cmd[p].prev = current[Res(p)]
      /\ Intact
  BY <1>1, <1>2 DEF Perfect, Intact, Known
<1>4. PICK d : /\ GoesOn(p, d, "prune")
               /\ d.prev = cmd[p].prev /\ d.existed = cmd[p].existed
               /\ Outcome(p, [releases EXCEPT ![Res(p)][Ver(p)] = "whole"], current, d)
  BY <1>3, PromoteMoves
<1>5. /\ releases' = [releases EXCEPT ![Res(p)][Ver(p)] = "whole"] /\ current' = current /\ rows' = rows
      /\ cmd'[p] = d
  BY <1>4, OutcomeMoves
<1>6. /\ \A r \in Resources : r # Res(p) => releases'[r] = releases[r]
      /\ \A r \in Resources, v \in Versions : releases'[r][v] = releases[r][v] \/ releases'[r][v] = "whole"
      /\ releases'[Res(p)][Ver(p)] = "whole"
  BY <1>2, <1>5 DEF TypeInv
<1>7. Intact'
  BY <1>3, <1>5, <1>6 DEF Intact, Dangling, TypeInv, None
<1>8. Ver(p) # cmd[p].prev
  BY <1>2, <1>3, VersionFacts DEF Dangling
<1>9. d.pc = "prune" /\ d.pc \in Preparing
  BY <1>4 DEF GoesOn, Preparing, Steps
<1>10. Res(p)' = Res(p) /\ Ver(p)' = Ver(p) => Known(cmd[p], Res(p), Ver(p))'
  BY <1>3, <1>4, <1>5, <1>6, <1>8, <1>9 DEF Known
<1> QED
  BY <1>1, <1>4, <1>5, <1>6, <1>7, <1>9, <1>10, PerfectGoesOn DEF GoesOn

(* What pruning does to the releases of the track. *)
LEMMA PruneEffect ==
  ASSUME TypeInv, NEW p \in Procs, cmd[p].pc \in Preparing,
         releases' = [releases EXCEPT ![Res(p)] = [v \in Versions |->
                        IF v \in Stale(p) THEN "absent" ELSE @[v]]]
  PROVE  /\ \A r \in Resources : r # Res(p) => releases'[r] = releases[r]
         /\ \A v \in Versions : releases'[Res(p)][v] = IF v \in {Ver(p), cmd[p].prev}
                                                         THEN releases[Res(p)][v] ELSE "absent"
<1>1. Res(p) \in Resources /\ releases \in [Resources -> [Versions -> Contents]]
  BY PreparedOne DEF TypeInv
<1> DEFINE S == Stale(p)
           R == Res(p)
<1>2. S = {v \in Versions : releases[R][v] # "absent"} \ {Ver(p), cmd[p].prev}
  BY DEF Stale, Present
<1>3. releases' = [releases EXCEPT ![R] = [v \in Versions |-> IF v \in S THEN "absent" ELSE @[v]]]
  OBVIOUS
<1> HIDE DEF S, R
<1>4. /\ \A r \in Resources : r # R => releases'[r] = releases[r]
      /\ \A v \in Versions : releases'[R][v] = IF v \in S THEN "absent" ELSE releases[R][v]
  BY <1>1, <1>3 DEF R
<1> QED
  BY <1>2, <1>4 DEF R

LEMMA PerfectPrune ==
  ASSUME TypeInv, NEW p \in Procs, Perfect(p), Prune(p), interruptions' = interruptions
  PROVE  Perfect(p)'
<1>1. cmd[p].pc = "prune" /\ cmd[p].pc \in Preparing
  BY DEF Prune, At, Preparing, Steps
<1>2. Res(p) \in Resources /\ Ver(p) \in Versions
  BY <1>1, PreparedOne
<1>3. /\ Intact /\ releases[Res(p)][Ver(p)] # "absent" /\ cmd[p].prev = current[Res(p)]
      /\ ~cmd[p].existed => Ver(p) # cmd[p].prev
  BY <1>1, <1>2 DEF Perfect, Known
<1>4. PICK d : /\ GoesOn(p, d, "point")
               /\ d.prev = cmd[p].prev /\ d.existed = cmd[p].existed
               /\ Outcome(p, [releases EXCEPT ![Res(p)] = [v \in Versions |->
                           IF v \in Stale(p) THEN "absent" ELSE @[v]]], current, d)
  BY PruneMoves
<1>5. /\ releases' = [releases EXCEPT ![Res(p)] = [v \in Versions |->
                        IF v \in Stale(p) THEN "absent" ELSE @[v]]]
      /\ current' = current /\ rows' = rows /\ cmd'[p] = d
  BY <1>4, OutcomeMoves
<1>6. /\ \A r \in Resources : r # Res(p) => releases'[r] = releases[r]
      /\ \A v \in Versions : releases'[Res(p)][v] = IF v \in {Ver(p), cmd[p].prev}
                                                      THEN releases[Res(p)][v] ELSE "absent"
  BY <1>1, <1>5, PruneEffect
<1>7. Intact'
  BY <1>2, <1>3, <1>5, <1>6 DEF Intact, Dangling, TypeInv, None
<1>8. d.pc = "point" /\ d.pc \in Preparing
  BY <1>4 DEF GoesOn, Preparing, Steps
<1>9. Res(p)' = Res(p) /\ Ver(p)' = Ver(p) => Known(cmd[p], Res(p), Ver(p))'
  BY <1>2, <1>3, <1>4, <1>5, <1>6, <1>8 DEF Known
<1> QED
  BY <1>1, <1>4, <1>5, <1>6, <1>7, <1>8, <1>9, PerfectGoesOn DEF GoesOn

LEMMA PerfectPoint ==
  ASSUME TypeInv, NEW p \in Procs, Perfect(p), Point(p), interruptions' = interruptions
  PROVE  Perfect(p)'
<1>1. cmd[p].pc = "point" /\ cmd[p].pc \in Preparing /\ cmd[p].pc \in Steps
  BY DEF Point, At, Preparing, Steps
<1>2. Res(p) \in Resources /\ Ver(p) \in Versions
  BY <1>1, PreparedOne
<1>3. /\ Intact /\ Prepared(cmd[p]) /\ releases[Res(p)][Ver(p)] # "absent"
      /\ cmd[p].prev = current[Res(p)] /\ (~cmd[p].existed => Ver(p) # cmd[p].prev)
      /\ ~cmd[p].failed /\ cmd[p].clean
  BY <1>1, <1>2 DEF Perfect, Known
<1>4. PICK d : /\ d \in Command /\ Progress(d) /\ d.done = Append(cmd[p].done, NewInstall(p))
               /\ d.pc \in {"record", "look"} /\ d.groups = cmd[p].groups
               /\ d.edition = cmd[p].edition /\ d.update = cmd[p].update
               /\ d.failed = cmd[p].failed /\ d.clean = cmd[p].clean /\ d.before = cmd[p].before
               /\ Outcome(p, releases, [current EXCEPT ![Res(p)] = Ver(p)], d)
  BY PointMoves
<1>5. /\ releases' = releases /\ current' = [current EXCEPT ![Res(p)] = Ver(p)] /\ rows' = rows
      /\ cmd'[p] = d
  BY <1>4, OutcomeMoves
<1>6. \A r \in Resources : current'[r] = IF r = Res(p) THEN Ver(p) ELSE current[r]
  BY <1>5 DEF TypeInv
<1>7. Intact'
  BY <1>2, <1>3, <1>5, <1>6 DEF Intact, Dangling
<1> DEFINE n == Len(cmd[p].done)
<1>8. /\ n \in Nat /\ DOMAIN cmd[p].done = 1..n /\ DOMAIN d.done = 1..(n + 1)
      /\ \A k \in 1..n : d.done[k] = cmd[p].done[k]
      /\ d.done[n + 1] = NewInstall(p)
      /\ \A k \in 1..n : cmd[p].done[k].resource \in Resources /\ cmd[p].done[k].resource # Res(p)
  BY <1>1, <1>4, DoneFacts, PointMoves
<1>9. /\ NewInstall(p).resource = Res(p) /\ NewInstall(p).version = Ver(p)
      /\ NewInstall(p).prev = cmd[p].prev /\ NewInstall(p).existed = cmd[p].existed
  BY DEF NewInstall
<1>10. \A k \in 1..(n + 1) : k \in 1..n \/ k = n + 1
  BY <1>8
<1>11. Res(p) \notin Members(cmd[p])
  BY <1>8 DEF Members
<1> HIDE DEF n
<1>12. \A r \in Resources \ Members(d) : r \in Resources \ Members(cmd[p]) /\ r # Res(p)
  <2>1. \A k \in 1..n : cmd[p].done[k].resource \in Members(d)
    BY <1>8 DEF Members
  <2>2. Res(p) \in Members(d)
    BY <1>8, <1>9 DEF Members
  <2> QED
    BY <1>8, <2>1, <2>2 DEF Members
<1>13. \A k \in 1..n : current'[d.done[k].resource] = d.done[k].version /\ Undoable(cmd[p], d.done[k])'
  BY <1>3, <1>4, <1>5, <1>6, <1>8 DEF Prepared, Undoable
<1>14. current'[NewInstall(p).resource] = NewInstall(p).version
  BY <1>2, <1>6, <1>9
<1>15. rows[Res(p)].version = current[Res(p)] /\ cmd[p].before[Res(p)] = current[Res(p)]
  BY <1>2, <1>3, <1>11 DEF Prepared
<1>16. \A i : i = NewInstall(p) => Undoable(cmd[p], i)'
  BY <1>2, <1>3, <1>4, <1>5, <1>9, <1>15 DEF Undoable, Intact, Dangling
<1>17. Prepared(cmd[p])'
  <2>1. \A r \in Resources \ Members(d) : rows'[r].version = current'[r] /\ d.before[r] = current'[r]
    BY <1>3, <1>4, <1>5, <1>6, <1>12 DEF Prepared
  <2>2. \A k \in 1..(n + 1) : current'[d.done[k].resource] = d.done[k].version /\ Undoable(cmd[p], d.done[k])'
    BY <1>8, <1>10, <1>13, <1>14, <1>16
  <2>3. Members(cmd[p])' = Members(d)
    BY <1>5 DEF Members
  <2> QED
    BY <1>5, <1>8, <2>1, <2>2, <2>3 DEF Prepared
<1>18. /\ d.pc \notin Undoing \cup {"remove", "unlink"} /\ d.pc \notin Resting
       /\ d.pc \in Preparing => d.pc = "look"
  BY <1>4 DEF Undoing, Resting, Preparing, Steps
<1>19. d.pc = "look" => Known(cmd[p], Res(p), Ver(p))'
  BY <1>5 DEF Known
<1> QED
  BY <1>3, <1>4, <1>5, <1>7, <1>17, <1>18, <1>19 DEF Perfect

(* The rows after Record: what was prepared, and else as before. *)
LEMMA RecordEffect ==
  ASSUME TypeInv, NEW p \in Procs, Record(p)
  PROVE  /\ \A k \in DOMAIN cmd[p].done : rows'[cmd[p].done[k].resource].version = cmd[p].done[k].version
         /\ \A r \in Resources \ Members(cmd[p]) : rows'[r] = rows[r]
         /\ ToSet(cmd[p].groups[1]) = Members(cmd[p])
<1> DEFINE c == cmd[p]
           g == cmd[p].groups[1]
<1>1. c \in Command /\ Progress(c) /\ c.pc = "record" /\ c.pc \in Steps /\ g \in Kinds
  BY RecordMoves DEF Steps
<1>2. DOMAIN c.done = 1..Len(c.done) /\ Len(c.done) = Len(g)
      /\ \A k \in DOMAIN c.done : c.done[k].resource \in Resources
  BY <1>1, DoneFacts DEF Progress
<1>3. \A k \in 1..Len(g) : c.done[k].resource = g[k] /\ c.done[k].version = Version[c.edition][g[k]]
  BY <1>1, <1>2 DEF Progress
<1>4. ToSet(g) = {g[k] : k \in 1..Len(g)}
  BY <1>1, KindFacts
<1>5. ToSet(g) = Members(c)
  BY <1>2, <1>3, <1>4 DEF Members
<1> HIDE DEF c, g
<1>6. \A r \in Resources : /\ r \in ToSet(g) => rows'[r].version = Version[c.edition][r]
                           /\ r \notin ToSet(g) => rows'[r] = rows[r]
  BY RecordedRows DEF c, g
<1>7. \A k \in DOMAIN c.done : rows'[c.done[k].resource].version = c.done[k].version
  <2> SUFFICES ASSUME NEW k \in DOMAIN c.done
               PROVE  rows'[c.done[k].resource].version = c.done[k].version
    OBVIOUS
  <2>1. c.done[k].resource = g[k] /\ c.done[k].version = Version[c.edition][g[k]] /\ g[k] \in Resources
        /\ g[k] \in ToSet(g)
    BY <1>2, <1>3, <1>4
  <2> QED
    BY <1>6, <2>1
<1> QED
  BY <1>5, <1>6, <1>7 DEF c, g

(* A command that enters a group when rows and links agree. *)
LEMMA PerfectEnter ==
  ASSUME NEW p, NEW c \in Command, NEW gs \in Seq(Kinds), ~c.failed, c.clean,
         cmd'[p] = EnterGroup(c, gs), Intact', Agreed', current' = current
  PROVE  Perfect(p)'
<1> DEFINE d == EnterGroup(c, gs)
<1>1. /\ d.pc \in {"ended", "desire", "look"} /\ ~d.failed /\ d.clean /\ d.before = current
      /\ d.pc # "ended" => d.done = <<>>
  BY EnteredFields
<1>2. cmd'[p] = d
  OBVIOUS
<1> HIDE DEF d
<1>3. /\ d.pc \notin Undoing \cup {"remove", "unlink"} /\ (d.pc \in Steps => d.pc # "ended")
  BY <1>1 DEF Undoing, Steps
<1>4. d.pc # "ended" => Prepared(cmd[p])'
  BY <1>1, <1>2 DEF Prepared, Agreed
<1>5. Known(cmd[p], Res(p), Ver(p))'
  BY <1>1, <1>2 DEF Known
<1> QED
  BY <1>1, <1>2, <1>3, <1>4, <1>5 DEF Perfect

LEMMA PerfectRecord ==
  ASSUME TypeInv, NEW p \in Procs, Perfect(p), Record(p)
  PROVE  Perfect(p)'
<1>1. /\ cmd[p].pc = "record" /\ cmd[p].pc \in Steps /\ cmd[p] \in Command
      /\ Tail(cmd[p].groups) \in Seq(Kinds)
  BY RecordMoves DEF Steps
<1>2. current' = current /\ releases' = releases /\ cmd'[p] = EnterGroup(cmd[p], Tail(cmd[p].groups))
  BY RecordMoves DEF Record, TypeInv
<1>3. Intact /\ Prepared(cmd[p]) /\ ~cmd[p].failed /\ cmd[p].clean
  BY <1>1 DEF Perfect
<1>4. Intact'
  BY <1>2, <1>3 DEF Intact, Dangling
<1>5. Agreed'
  <2>1. \A r \in Members(cmd[p]) : rows'[r].version = current[r]
    BY <1>3, RecordEffect DEF Members, Prepared
  <2>2. \A r \in Resources \ Members(cmd[p]) : rows'[r].version = current[r]
    BY <1>3, RecordEffect DEF Prepared
  <2> QED
    BY <1>2, <2>1, <2>2 DEF Agreed
<1> QED
  BY <1>1, <1>2, <1>3, <1>4, <1>5, PerfectEnter

LEMMA PerfectStart ==
  ASSUME TypeInv, NEW p \in Procs, Perfect(p), StartCommand(p)
  PROVE  Perfect(p)'
<1>1. PICK update \in BOOLEAN, gs \in Seq(Kinds), e \in Editions : Begin(p, update, gs, e)
  BY StartMoves
<1> DEFINE c == [Idle EXCEPT !.update = update, !.edition = e]
<1>2. c \in Command /\ ~c.failed /\ c.clean
  BY BeginMoves
<1>3. /\ cmd[p].pc \in Resting /\ cmd'[p] = EnterGroup(c, gs)
      /\ current' = current /\ releases' = releases /\ rows' = rows
  BY <1>1 DEF Begin, Resting, TypeInv
<1> HIDE DEF c
<1>4. Intact' /\ Agreed'
  BY <1>3 DEF Perfect, Intact, Agreed, Dangling
<1> QED
  BY <1>2, <1>3, <1>4, PerfectEnter

-----------------------------------------------------------------------------
(* The one interruption *)

(* Without an interruption, rows and links name releases that are there. *)
LEMMA PerfectKept ==
  ASSUME TypeInv, NEW p \in Procs, Perfect(p)
  PROVE  \A r \in Resources : Kept(r)
<1>1. cmd[p].pc \in Steps \/ cmd[p].pc \in Resting
  BY DEF TypeInv, Command
<1>2. \A r \in Resources : ~Dangling(r)
  BY DEF Perfect, Intact
<1>3. CASE cmd[p].pc \in Resting
  BY <1>2, <1>3 DEF Perfect, Agreed, Kept, Dangling
<1>4. CASE cmd[p].pc \in Steps
  <2>1. Prepared(cmd[p])
    BY <1>4 DEF Perfect
  <2>2. \A r \in Resources \ Members(cmd[p]) : Kept(r)
    BY <1>2, <2>1 DEF Prepared, Kept, Dangling
  <2>3. \A r \in Resources \cap Members(cmd[p]) : Kept(r)
    BY <1>2, <2>1 DEF Prepared, Kept, Members, Undoable
  <2> QED
    BY <2>2, <2>3
<1> QED
  BY <1>1, <1>3, <1>4

(* The command fails or dies after a step or in it. *)
LEMMA PerfectInterrupted ==
  ASSUME TypeInv, NEW p \in Procs, Perfect(p), cmd[p].pc \in Steps, rows' = rows,
         cmd'[p] \in {Failed(cmd[p]), Idle},
         \A r \in Resources, v \in Versions :
           /\ releases[r][v] # "absent"
           /\ cmd[p].pc = "prune" /\ r = Res(p) => v \in {Ver(p), cmd[p].prev}
           => releases'[r][v] # "absent",
         \/ current' = current
         \/ cmd[p].pc = "point" /\ current' = [current EXCEPT ![Res(p)] = Ver(p)]
  PROVE  Marred(p)'
<1>1. /\ Intact /\ Prepared(cmd[p]) /\ ~cmd[p].failed /\ cmd[p].clean /\ cmd[p].pc \notin Undoing
      /\ cmd[p] \in Command
  BY DEF Perfect, TypeInv
<1>2. /\ cmd[p].pc \in {"prune", "point"} =>
           /\ cmd[p].pc \in Preparing /\ Res(p) \in Resources /\ Ver(p) \in Versions
           /\ cmd[p].prev = current[Res(p)] /\ releases[Res(p)][Ver(p)] # "absent"
           /\ rows[Res(p)].version = current[Res(p)]
  <2> SUFFICES ASSUME cmd[p].pc \in {"prune", "point"}
               PROVE  /\ cmd[p].pc \in Preparing /\ Res(p) \in Resources /\ Ver(p) \in Versions
                      /\ cmd[p].prev = current[Res(p)] /\ releases[Res(p)][Ver(p)] # "absent"
                      /\ rows[Res(p)].version = current[Res(p)]
    OBVIOUS
  <2>1. cmd[p].pc \in Preparing
    BY DEF Preparing, Steps
  <2>2. Res(p) \in Resources /\ Ver(p) \in Versions /\ Known(cmd[p], Res(p), Ver(p))
    BY <2>1, PreparedOne DEF Perfect
  <2>3. Res(p) \notin Members(cmd[p])
    BY <2>1, DoneFacts DEF Members
  <2> QED
    BY <1>1, <2>1, <2>2, <2>3 DEF Known, Prepared
<1>3. \A r \in Resources : Kept(r)
  BY PerfectKept
<1>4. \A r \in Resources : current[r] \in Versions \cup {None} /\ rows[r].version \in Versions \cup {None}
  BY DEF TypeInv
<1>5. \A r \in Resources : (rows[r].version # None => releases'[r][rows[r].version] # "absent")
  BY <1>2, <1>3, <1>4 DEF Kept
<1>6. \A r \in Resources : ~Dangling(r)'
  <2>1. CASE current' = current
    BY <1>2, <1>3, <1>4, <2>1 DEF Kept, Dangling
  <2>2. CASE cmd[p].pc = "point" /\ current' = [current EXCEPT ![Res(p)] = Ver(p)]
    <3>1. \A r \in Resources : current'[r] = IF r = Res(p) THEN Ver(p) ELSE current[r]
      BY <2>2 DEF TypeInv
    <3> QED
      BY <1>2, <1>3, <1>4, <2>2, <3>1 DEF Kept, Dangling
  <2> QED
    BY <2>1, <2>2
<1>7. \A r \in Resources : Kept(r)'
  BY <1>5, <1>6 DEF Kept
<1>8. CASE cmd'[p] = Idle
  <2>1. Idle.pc = "idle" /\ ~Idle.failed /\ Idle.clean
    BY DEF Idle
  <2> QED
    BY <1>7, <1>8, <2>1 DEF Marred, Preparing, Steps, Undoing
<1>9. CASE cmd'[p] = Failed(cmd[p])
  <2>0. PICK d : d = Failed(cmd[p])
    OBVIOUS
  <2>1. /\ d.done = cmd[p].done /\ d.groups = cmd[p].groups /\ d.failed = TRUE /\ d.clean
        /\ d.before = cmd[p].before /\ d.pc \in {"ended", "restore"}
        /\ d.pc = "restore" => d.undo = Reverse(cmd[p].done)
        /\ d.pc = "ended" => SingleTrack(cmd[p]) \/ cmd[p].done = <<>>
    BY <1>1, <2>0, FailedFields
  <2>2. /\ cmd[p].done \in Seq(Install) /\ DOMAIN cmd[p].done = 1..Len(cmd[p].done)
        /\ Len(cmd[p].done) \in Nat
        /\ \A k \in DOMAIN cmd[p].done : /\ cmd[p].done[k].resource \in Resources
                                         /\ cmd[p].done[k].prev \in Versions \cup {None}
    BY DoneFacts
  <2>3. cmd'[p] = d
    BY <1>9, <2>0
  <2>4. CASE d.pc = "ended"
    <3>1. Len(d.groups[1]) > 1 => d.done = <<>>
      <4>1. SingleTrack(cmd[p]) => Len(d.groups[1]) = 1
        BY <2>1 DEF SingleTrack
      <4>2. SingleTrack(cmd[p]) \/ d.done = <<>>
        BY <2>1, <2>4
      <4>3. \A n : n = 1 => ~(n > 1)
        OBVIOUS
      <4> QED
        BY <4>1, <4>2, <4>3
    <3>2. d.pc \notin Preparing \cup Undoing /\ d.pc # "record"
      BY <2>4 DEF Preparing, Undoing, Steps
    <3> QED
      BY <1>7, <2>1, <2>3, <3>1, <3>2 DEF Marred
  <2>5. CASE d.pc = "restore"
    <3>1. Len(d.undo) = Len(d.done)
      BY <2>1, <2>2, <2>5, ReversedSeq
    <3>2. \A k \in DOMAIN cmd[p].done : Undoable(cmd[p], d.done[k])'
      <4> SUFFICES ASSUME NEW k \in DOMAIN cmd[p].done PROVE Undoable(cmd[p], d.done[k])'
        OBVIOUS
      <4> DEFINE i == cmd[p].done[k]
      <4>1. Undoable(cmd[p], i) /\ i.resource \in Resources /\ i.prev \in Versions \cup {None}
        BY <1>1, <2>2 DEF Prepared
      <4>2. d.done[k] = i /\ (cmd[p].pc = "prune" => i.resource # Res(p))
        BY <1>2, <2>1, DoneFacts
      <4> HIDE DEF i
      <4>3. i.prev # None => releases'[i.resource][i.prev] # "absent"
        BY <4>1, <4>2 DEF Undoable
      <4> QED
        BY <2>1, <2>3, <4>1, <4>2, <4>3 DEF Undoable
    <3>3. Returning(cmd[p])'
      BY <2>1, <2>2, <2>3, <2>5, <3>1, <3>2 DEF Returning
    <3>4. \A k \in DOMAIN d.done : ~(k > Len(d.undo))
      BY <2>1, <2>2, <3>1
    <3>5. d.pc \notin Preparing \cup {"record", "ended"}
      BY <2>5 DEF Preparing
    <3> QED
      BY <1>7, <2>1, <2>3, <3>3, <3>4, <3>5 DEF Marred
  <2> QED
    BY <2>1, <2>4, <2>5
<1> QED
  BY <1>8, <1>9

(* A step of a command that nothing has disturbed is interrupted after its effect. *)
LEMMA PerfectOutcome ==
  ASSUME TypeInv, NEW p \in Procs, Perfect(p), Step(p), interruptions' # interruptions
  PROVE  Marred(p)'
<1>1. cmd[p].pc \notin Undoing \cup {"remove", "unlink"}
  BY DEF Perfect
<1>2. Promote(p) \/ Prune(p) \/ Point(p)
  BY <1>1 DEF Step, RecordDesired, Look, Download, ReadPrevious, Record, Reads,
     RemoveInvalid, Unlink, Restore, Discard, At, Undoing
<1>3. CASE Promote(p)
  <2>1. cmd[p].pc = "promote" /\ cmd[p].pc \in Preparing /\ cmd[p].pc \in Steps
    BY <1>3 DEF Promote, At, Preparing, Steps
  <2>2. PICK d : Outcome(p, [releases EXCEPT ![Res(p)][Ver(p)] = "whole"], current, d)
    BY <1>3, PromoteMoves DEF Reads
  <2>3. /\ releases' = [releases EXCEPT ![Res(p)][Ver(p)] = "whole"] /\ current' = current
        /\ rows' = rows /\ cmd'[p] \in {Failed(cmd[p]), Idle}
    BY <2>2, OutcomeMoves
  <2>4. \A r \in Resources, v \in Versions : releases[r][v] # "absent" => releases'[r][v] # "absent"
    BY <2>1, <2>3, PreparedOne DEF TypeInv
  <2> QED
    BY <2>1, <2>3, <2>4, PerfectInterrupted
<1>4. CASE Prune(p)
  <2>1. cmd[p].pc = "prune" /\ cmd[p].pc \in Preparing /\ cmd[p].pc \in Steps
    BY <1>4 DEF Prune, At, Preparing, Steps
  <2>2. PICK d : Outcome(p, [releases EXCEPT ![Res(p)] = [v \in Versions |->
                           IF v \in Stale(p) THEN "absent" ELSE @[v]]], current, d)
    BY <1>4, PruneMoves
  <2>3. /\ releases' = [releases EXCEPT ![Res(p)] = [v \in Versions |->
                           IF v \in Stale(p) THEN "absent" ELSE @[v]]]
        /\ current' = current /\ rows' = rows /\ cmd'[p] \in {Failed(cmd[p]), Idle}
    BY <2>2, OutcomeMoves
  <2>4. /\ \A r \in Resources : r # Res(p) => releases'[r] = releases[r]
        /\ \A v \in Versions : releases'[Res(p)][v] = IF v \in {Ver(p), cmd[p].prev}
                                                        THEN releases[Res(p)][v] ELSE "absent"
    BY <2>1, <2>3, PruneEffect
  <2>5. \A r \in Resources, v \in Versions :
           releases[r][v] # "absent" /\ (r = Res(p) => v \in {Ver(p), cmd[p].prev})
             => releases'[r][v] # "absent"
    BY <2>4
  <2> QED
    BY <2>1, <2>3, <2>5, PerfectInterrupted
<1>5. CASE Point(p)
  <2>1. cmd[p].pc = "point" /\ cmd[p].pc \in Steps
    BY <1>5 DEF Point, At, Steps
  <2>2. PICK d : Outcome(p, releases, [current EXCEPT ![Res(p)] = Ver(p)], d)
    BY <1>5, PointMoves
  <2>3. /\ releases' = releases /\ current' = [current EXCEPT ![Res(p)] = Ver(p)]
        /\ rows' = rows /\ cmd'[p] \in {Failed(cmd[p]), Idle}
    BY <2>2, OutcomeMoves
  <2> QED
    BY <2>1, <2>3, PerfectInterrupted
<1> QED
  BY <1>2, <1>3, <1>4, <1>5

LEMMA PerfectInterrupt ==
  ASSUME TypeInv, NEW p \in Procs, Perfect(p), Interrupt(p)
  PROVE  Marred(p)'
<1>1. /\ cmd[p].pc \in Steps /\ rows' = rows /\ current' = current /\ cmd'[p] \in {Failed(cmd[p]), Idle}
  BY DEF Interrupt, Killed, TypeInv
<1>2. PICK gone \in SUBSET Doomed(p) :
       \E part \in {{}} \cup {{x} : x \in Doomed(p) \ gone}, left \in {"dented", "gutted"} :
         releases' = [r \in Resources |-> [v \in Versions |->
                        IF <<r, v>> \in gone THEN "absent"
                        ELSE IF <<r, v>> \in part /\ Valid(r, v) THEN left
                        ELSE releases[r][v]]]
  BY DEF Interrupt
<1>3. cmd[p].pc \notin {"remove", "discard"}
  BY DEF Perfect, Undoing
<1>4. \A r, v : <<r, v>> \in Doomed(p) => cmd[p].pc = "prune" /\ r = Res(p) /\ v \notin {Ver(p), cmd[p].prev}
  BY <1>3 DEF Doomed, At, Stale
<1>5. \A r \in Resources, v \in Versions :
           /\ releases[r][v] # "absent"
           /\ cmd[p].pc = "prune" /\ r = Res(p) => v \in {Ver(p), cmd[p].prev}
           => releases'[r][v] # "absent"
  BY <1>2, <1>4
<1> QED
  BY <1>1, <1>5, PerfectInterrupted

(* A release is damaged: the command goes on with what it knows. *)
LEMMA PerfectDamage ==
  ASSUME TypeInv, NEW p \in Procs, Perfect(p), NEW r \in Resources, NEW v \in Versions, Damage(r, v)
  PROVE  Marred(p)'
<1>1. /\ rows' = rows /\ current' = current /\ cmd' = cmd
      /\ \A s \in Resources, w \in Versions : releases'[s][w] = "absent" <=> releases[s][w] = "absent"
  BY DEF Damage, Valid, TypeInv
<1>2. \A s \in Resources : Kept(s)
  BY PerfectKept
<1>3. \A s \in Resources : current[s] \in Versions \cup {None} /\ rows[s].version \in Versions \cup {None}
  BY DEF TypeInv
<1>4. \A s \in Resources : Kept(s)'
  BY <1>1, <1>2, <1>3 DEF Kept, Dangling
<1>5. cmd[p].clean /\ ~cmd[p].failed /\ cmd[p].pc \notin Undoing \cup {"remove", "unlink"}
  BY DEF Perfect
<1>6. ASSUME cmd[p].pc \in Preparing \cup {"record"} PROVE Underway(cmd[p])'
  <2>1. cmd[p].pc \in Steps
    BY <1>6 DEF Preparing, Steps
  <2>2. \A k \in DOMAIN cmd[p].done : /\ current[cmd[p].done[k].resource] = cmd[p].done[k].version
                                      /\ cmd[p].done[k].resource \in Resources
                                      /\ cmd[p].done[k].version \in Versions
    BY <2>1, DoneFacts DEF Perfect, Prepared
  <2>3. \A k \in DOMAIN cmd[p].done : releases[cmd[p].done[k].resource][cmd[p].done[k].version] # "absent"
    BY <1>2, <2>2, VersionFacts DEF Kept, Dangling
  <2> QED
    BY <1>1, <2>2, <2>3 DEF Underway
<1>7. ASSUME cmd[p].pc \in Preparing PROVE (Ahead(cmd[p], Res(p)) /\ Surmised(cmd[p], Res(p), Ver(p)))'
  <2>1. Res(p)' = Res(p) /\ Ver(p)' = Ver(p)
    BY <1>1 DEF Res, Ver
  <2>2. Res(p) \in Resources /\ Ver(p) \in Versions /\ Known(cmd[p], Res(p), Ver(p))
    BY <1>7, PreparedOne DEF Perfect
  <2>3. \A s \in Resources : ~Dangling(s)'
    BY <1>4 DEF Kept
  <2>4. cmd'[p] = cmd[p] /\ cmd[p].pc \notin {"unlink", "remove"}
    BY <1>1, <1>5
  <2> QED
    BY <1>1, <1>4, <2>1, <2>2, <2>3, <2>4 DEF Surmised, Known, Ahead
<1> QED
  BY <1>1, <1>4, <1>5, <1>6, <1>7 DEF Marred

-----------------------------------------------------------------------------
(* After the interruption *)

LEMMA MarredGoesOn ==
  ASSUME TypeInv, NEW p \in Procs, Marred(p), cmd[p].pc \in Preparing, SameTask(cmd[p], cmd'[p]),
         cmd'[p].pc \in Preparing,
         \A r \in Resources : rows'[r].version = rows[r].version,
         \A r \in Resources : r # Res(p) => releases'[r] = releases[r] /\ current'[r] = current[r],
         Res(p)' = Res(p) /\ Ver(p)' = Ver(p) => Surmised(cmd[p], Res(p), Ver(p))'
  PROVE  Marred(p)'
<1>1. /\ cmd[p].pc \in Steps
      /\ cmd'[p].pc \notin Undoing \cup Resting /\ cmd'[p].pc \notin {"record", "ended"}
  BY DEF Preparing, Undoing, Resting, Steps
<1>2. Underway(cmd[p]) /\ Ahead(cmd[p], Res(p)) /\ cmd[p].clean
  BY DEF Marred
<1>3. cmd'[p].done = cmd[p].done /\ cmd'[p].clean
  BY <1>2 DEF SameTask
<1>4. Underway(cmd[p])'
  BY <1>1, <1>2, <1>3, DoneFacts DEF Underway
<1>5. Res(p)' = Res(p) /\ Ver(p)' = Ver(p)
  BY DEF Res, Ver, SameTask
<1>6. \A r \in Resources : r # Res(p) /\ Kept(r) => Kept(r)'
  BY DEF Kept, Dangling
<1>7. Ahead(cmd[p], Res(p))'
  BY <1>2, <1>3, <1>5, <1>6 DEF Ahead, Members
<1> QED
  BY <1>1, <1>3, <1>4, <1>5, <1>7 DEF Marred

LEMMA MarredDesire ==
  ASSUME TypeInv, NEW p \in Procs, Marred(p), RecordDesired(p)
  PROVE  Marred(p)'
<1>1. PICK d : GoesOn(p, d, "look") /\ cmd' = [cmd EXCEPT ![p] = d]
  BY DesireMoves
<1>2. cmd[p].pc = "desire" /\ cmd[p].pc \in Preparing /\ cmd'[p] = d /\ d.pc = "look" /\ d.pc \in Preparing
  BY <1>1 DEF RecordDesired, At, Preparing, Steps, GoesOn, TypeInv
<1>3. /\ \A r \in Resources : rows'[r].version = rows[r].version
      /\ current' = current /\ releases' = releases
  BY DEF RecordDesired, TypeInv
<1>4. Surmised(cmd[p], Res(p), Ver(p))
  BY <1>2 DEF Marred
<1>5. Res(p)' = Res(p) /\ Ver(p)' = Ver(p) => Surmised(cmd[p], Res(p), Ver(p))'
  BY <1>2, <1>3, <1>4 DEF Surmised, Dangling
<1> QED
  BY <1>1, <1>2, <1>3, <1>5, MarredGoesOn DEF GoesOn

LEMMA MarredLook ==
  ASSUME TypeInv, NEW p \in Procs, Marred(p), Look(p)
  PROVE  Marred(p)'
<1>1. PICK d :  /\ Reads(p, d)
                /\ \/ /\ releases[Res(p)][Ver(p)] = "absent"
                      /\ GoesOn(p, d, IF cmd[p].downloaded THEN "previous" ELSE "download")
                   \/ releases[Res(p)][Ver(p)] # "absent" /\ Dangling(Res(p)) /\ d = Failed(cmd[p])
                   \/ /\ releases[Res(p)][Ver(p)] # "absent" /\ ~Dangling(Res(p))
                      /\ GoesOn(p, d, IF Valid(Res(p), Ver(p)) THEN "prune" ELSE "remove")
                      /\ d.prev = current[Res(p)] /\ d.existed
  BY LookMoves
<1>2. cmd[p].pc = "look" /\ cmd[p].pc \in Preparing
  BY DEF Look, At, Preparing, Steps
<1>3. ~Dangling(Res(p))
  BY <1>2 DEF Marred, Surmised
<1>4. /\ d.pc \in {"previous", "download", "prune", "remove"} /\ SameTask(cmd[p], d)
      /\ d.pc = "previous" => releases[Res(p)][Ver(p)] = "absent"
      /\ d.pc \in {"prune", "remove"} => releases[Res(p)][Ver(p)] # "absent" /\ d.prev = current[Res(p)]
  BY <1>1, <1>3 DEF GoesOn
<1>5. releases' = releases /\ current' = current /\ rows' = rows /\ cmd'[p] = d
  BY <1>1, ReadsMoves
<1>6. d.pc \in Preparing
  BY <1>4 DEF Preparing, Steps
<1>7. Res(p)' = Res(p) /\ Ver(p)' = Ver(p) => Surmised(cmd[p], Res(p), Ver(p))'
  BY <1>3, <1>4, <1>5 DEF Surmised, Dangling
<1> QED
  BY <1>2, <1>4, <1>5, <1>6, <1>7, MarredGoesOn

LEMMA MarredRemove ==
  ASSUME TypeInv, NEW p \in Procs, Marred(p), RemoveInvalid(p), interruptions' = interruptions
  PROVE  Marred(p)'
<1>1. PICK d : /\ GoesOn(p, d, "unlink") /\ d.prev = cmd[p].prev
               /\ Outcome(p, [releases EXCEPT ![Res(p)][Ver(p)] = "absent"], current, d)
  BY RemoveMoves
<1>2. cmd[p].pc = "remove" /\ cmd[p].pc \in Preparing /\ d.pc = "unlink" /\ d.pc \in Preparing
  BY <1>1 DEF RemoveInvalid, At, Preparing, Steps, GoesOn
<1>3. Res(p) \in Resources /\ Ver(p) \in Versions
  BY <1>2, PreparedOne
<1>4. cmd[p].prev = current[Res(p)] /\ ~Dangling(Res(p))
  BY <1>2 DEF Marred, Surmised
<1>5. /\ releases' = [releases EXCEPT ![Res(p)][Ver(p)] = "absent"] /\ current' = current
      /\ rows' = rows /\ cmd'[p] = d
  BY <1>1, OutcomeMoves
<1>6. /\ \A r \in Resources : r # Res(p) => releases'[r] = releases[r]
      /\ releases'[Res(p)][Ver(p)] = "absent"
      /\ \A v \in Versions : v # Ver(p) => releases'[Res(p)][v] = releases[Res(p)][v]
  BY <1>3, <1>5 DEF TypeInv
<1>7. current[Res(p)] \in Versions \cup {None}
  BY <1>3 DEF TypeInv
<1>8. Res(p)' = Res(p) /\ Ver(p)' = Ver(p) => Surmised(cmd[p], Res(p), Ver(p))'
  BY <1>1, <1>2, <1>4, <1>5, <1>6, <1>7 DEF Surmised, Dangling
<1> QED
  BY <1>1, <1>2, <1>5, <1>6, <1>8, MarredGoesOn DEF GoesOn

LEMMA MarredUnlink ==
  ASSUME TypeInv, NEW p \in Procs, Marred(p), Unlink(p), interruptions' = interruptions
  PROVE  Marred(p)'
<1>1. PICK d : /\ GoesOn(p, d, IF cmd[p].downloaded THEN "previous" ELSE "download")
               /\ Outcome(p, releases,
                          [current EXCEPT ![Res(p)] = IF cmd[p].prev = Ver(p) THEN None ELSE @], d)
  BY UnlinkMoves
<1>2. /\ cmd[p].pc = "unlink" /\ cmd[p].pc \in Preparing
      /\ d.pc \in {"previous", "download"} /\ d.pc \in Preparing
  BY <1>1 DEF Unlink, At, Preparing, Steps, GoesOn
<1>3. Res(p) \in Resources /\ Ver(p) \in Versions
  BY <1>2, PreparedOne
<1>4. /\ cmd[p].prev = current[Res(p)] /\ releases[Res(p)][Ver(p)] = "absent"
      /\ cmd[p].prev \notin {None, Ver(p)} => releases[Res(p)][cmd[p].prev] # "absent"
  BY <1>2 DEF Marred, Surmised
<1>5. /\ releases' = releases
      /\ current' = [current EXCEPT ![Res(p)] = IF cmd[p].prev = Ver(p) THEN None ELSE @]
      /\ rows' = rows /\ cmd'[p] = d
  BY <1>1, OutcomeMoves
<1>6. /\ \A r \in Resources : r # Res(p) => current'[r] = current[r]
      /\ current'[Res(p)] = IF cmd[p].prev = Ver(p) THEN None ELSE current[Res(p)]
  BY <1>3, <1>5 DEF TypeInv
<1>7. Res(p)' = Res(p) /\ Ver(p)' = Ver(p) => Surmised(cmd[p], Res(p), Ver(p))'
  BY <1>2, <1>4, <1>5, <1>6 DEF Surmised, Dangling
<1> QED
  BY <1>1, <1>2, <1>5, <1>6, <1>7, MarredGoesOn DEF GoesOn

LEMMA MarredDownload ==
  ASSUME TypeInv, NEW p \in Procs, Marred(p), Download(p)
  PROVE  Marred(p)'
<1>1. PICK d : Reads(p, d) /\ GoesOn(p, d, "look")
  BY DownloadMoves
<1>2. cmd[p].pc = "download" /\ cmd[p].pc \in Preparing /\ d.pc = "look" /\ d.pc \in Preparing
  BY <1>1 DEF Download, At, Preparing, Steps, GoesOn
<1>3. releases' = releases /\ current' = current /\ rows' = rows /\ cmd'[p] = d
  BY <1>1, ReadsMoves
<1>4. ~Dangling(Res(p))
  BY <1>2 DEF Marred, Surmised
<1>5. Res(p)' = Res(p) /\ Ver(p)' = Ver(p) => Surmised(cmd[p], Res(p), Ver(p))'
  BY <1>2, <1>3, <1>4 DEF Surmised, Dangling
<1> QED
  BY <1>1, <1>2, <1>3, <1>5, MarredGoesOn DEF GoesOn

LEMMA MarredPrevious ==
  ASSUME TypeInv, NEW p \in Procs, Marred(p), ReadPrevious(p)
  PROVE  Marred(p)'
<1>1. PICK d : /\ Reads(p, d)
               /\ \/ Dangling(Res(p)) /\ d = Failed(cmd[p])
                  \/ /\ ~Dangling(Res(p)) /\ GoesOn(p, d, "promote")
                     /\ d.prev = current[Res(p)] /\ ~d.existed
  BY PreviousMoves
<1>2. cmd[p].pc = "previous" /\ cmd[p].pc \in Preparing
  BY DEF ReadPrevious, At, Preparing, Steps
<1>3. ~Dangling(Res(p)) /\ releases[Res(p)][Ver(p)] = "absent"
  BY <1>2 DEF Marred, Surmised
<1>4. d.pc = "promote" /\ d.pc \in Preparing /\ SameTask(cmd[p], d) /\ d.prev = current[Res(p)]
  BY <1>1, <1>3 DEF GoesOn, Preparing, Steps
<1>5. releases' = releases /\ current' = current /\ rows' = rows /\ cmd'[p] = d
  BY <1>1, ReadsMoves
<1>6. Res(p)' = Res(p) /\ Ver(p)' = Ver(p) => Surmised(cmd[p], Res(p), Ver(p))'
  BY <1>3, <1>4, <1>5 DEF Surmised, Dangling
<1> QED
  BY <1>2, <1>4, <1>5, <1>6, MarredGoesOn

LEMMA MarredPromote ==
  ASSUME TypeInv, NEW p \in Procs, Marred(p), Promote(p), interruptions' = interruptions
  PROVE  Marred(p)'
<1>1. cmd[p].pc = "promote" /\ cmd[p].pc \in Preparing
  BY DEF Promote, At, Preparing, Steps
<1>2. Res(p) \in Resources /\ Ver(p) \in Versions
  BY <1>1, PreparedOne
<1>3. ~Dangling(Res(p)) /\ releases[Res(p)][Ver(p)] = "absent" /\ cmd[p].prev = current[Res(p)]
  BY <1>1 DEF Marred, Surmised
<1>4. PICK d : /\ GoesOn(p, d, "prune") /\ d.prev = cmd[p].prev
               /\ Outcome(p, [releases EXCEPT ![Res(p)][Ver(p)] = "whole"], current, d)
  BY <1>3, PromoteMoves
<1>5. /\ releases' = [releases EXCEPT ![Res(p)][Ver(p)] = "whole"] /\ current' = current /\ rows' = rows
      /\ cmd'[p] = d
  BY <1>4, OutcomeMoves
<1>6. /\ \A r \in Resources : r # Res(p) => releases'[r] = releases[r]
      /\ \A v \in Versions : releases'[Res(p)][v] = releases[Res(p)][v] \/ releases'[Res(p)][v] = "whole"
      /\ releases'[Res(p)][Ver(p)] = "whole"
  BY <1>2, <1>5 DEF TypeInv
<1>7. current[Res(p)] \in Versions \cup {None}
  BY <1>2 DEF TypeInv
<1>8. d.pc = "prune" /\ d.pc \in Preparing
  BY <1>4 DEF GoesOn, Preparing, Steps
<1>9. Res(p)' = Res(p) /\ Ver(p)' = Ver(p) => Surmised(cmd[p], Res(p), Ver(p))'
  BY <1>3, <1>4, <1>5, <1>6, <1>7, <1>8 DEF Surmised, Dangling
<1> QED
  BY <1>1, <1>4, <1>5, <1>6, <1>8, <1>9, MarredGoesOn DEF GoesOn

LEMMA MarredPrune ==
  ASSUME TypeInv, NEW p \in Procs, Marred(p), Prune(p), interruptions' = interruptions
  PROVE  Marred(p)'
<1>1. cmd[p].pc = "prune" /\ cmd[p].pc \in Preparing
  BY DEF Prune, At, Preparing, Steps
<1>2. Res(p) \in Resources /\ Ver(p) \in Versions /\ releases[Res(p)][Ver(p)] # "absent"
  BY <1>1, PreparedOne DEF Marred, Surmised
<1>3. PICK d : /\ GoesOn(p, d, "point")
               /\ Outcome(p, [releases EXCEPT ![Res(p)] = [v \in Versions |->
                           IF v \in Stale(p) THEN "absent" ELSE @[v]]], current, d)
  BY PruneMoves
<1>4. /\ releases' = [releases EXCEPT ![Res(p)] = [v \in Versions |->
                        IF v \in Stale(p) THEN "absent" ELSE @[v]]]
      /\ current' = current /\ rows' = rows /\ cmd'[p] = d
  BY <1>3, OutcomeMoves
<1>5. /\ \A r \in Resources : r # Res(p) => releases'[r] = releases[r]
      /\ releases'[Res(p)][Ver(p)] # "absent"
  BY <1>1, <1>2, <1>4, PruneEffect
<1>6. d.pc = "point" /\ d.pc \in Preparing
  BY <1>3 DEF GoesOn, Preparing, Steps
<1>7. Res(p)' = Res(p) /\ Ver(p)' = Ver(p) => Surmised(cmd[p], Res(p), Ver(p))'
  BY <1>4, <1>5, <1>6 DEF Surmised
<1> QED
  BY <1>1, <1>3, <1>4, <1>5, <1>6, <1>7, MarredGoesOn DEF GoesOn

LEMMA MarredPoint ==
  ASSUME TypeInv, NEW p \in Procs, Marred(p), Point(p), interruptions' = interruptions
  PROVE  Marred(p)'
<1>1. cmd[p].pc = "point" /\ cmd[p].pc \in Preparing /\ cmd[p].pc \in Steps
  BY DEF Point, At, Preparing, Steps
<1>2. /\ Res(p) \in Resources /\ Ver(p) \in Versions /\ cmd[p].groups[1] \in Kinds
      /\ Len(cmd[p].done) + 1 \in 1..Len(cmd[p].groups[1])
  BY <1>1, PreparedOne
<1>3. /\ Underway(cmd[p]) /\ Ahead(cmd[p], Res(p)) /\ releases[Res(p)][Ver(p)] # "absent" /\ cmd[p].clean
  BY <1>1 DEF Marred, Surmised
<1>4. PICK d : /\ d \in Command /\ Progress(d) /\ d.done = Append(cmd[p].done, NewInstall(p))
               /\ d.pc \in {"record", "look"} /\ d.groups = cmd[p].groups
               /\ d.clean = cmd[p].clean
               /\ Outcome(p, releases, [current EXCEPT ![Res(p)] = Ver(p)], d)
  BY PointMoves
<1>5. /\ releases' = releases /\ current' = [current EXCEPT ![Res(p)] = Ver(p)] /\ rows' = rows
      /\ cmd'[p] = d
  BY <1>4, OutcomeMoves
<1>6. \A r \in Resources : current'[r] = IF r = Res(p) THEN Ver(p) ELSE current[r]
  BY <1>5 DEF TypeInv
<1> DEFINE n == Len(cmd[p].done)
<1>7. /\ n \in Nat /\ DOMAIN cmd[p].done = 1..n /\ DOMAIN d.done = 1..(n + 1)
      /\ Len(d.done) = n + 1
      /\ \A k \in 1..n : d.done[k] = cmd[p].done[k]
      /\ d.done[n + 1] = NewInstall(p)
      /\ \A k \in 1..n : cmd[p].done[k].resource \in Resources /\ cmd[p].done[k].resource # Res(p)
  BY <1>1, <1>4, DoneFacts, PointMoves
<1>8. /\ NewInstall(p).resource = Res(p) /\ NewInstall(p).version = Ver(p)
  BY DEF NewInstall
<1>9. \A k \in 1..(n + 1) : k \in 1..n \/ k = n + 1
  BY <1>7
<1> HIDE DEF n
<1>10. \A r \in Resources \ Members(d) : r \in Resources \ Members(cmd[p]) /\ r # Res(p)
  <2>1. \A k \in 1..n : cmd[p].done[k].resource \in Members(d)
    BY <1>7 DEF Members
  <2>2. Res(p) \in Members(d)
    BY <1>7, <1>8 DEF Members
  <2> QED
    BY <1>7, <2>1, <2>2 DEF Members
<1>11. Underway(cmd[p])'
  <2>1. \A k \in 1..n : current'[d.done[k].resource] = d.done[k].version
                        /\ releases'[d.done[k].resource][d.done[k].version] # "absent"
    BY <1>3, <1>5, <1>6, <1>7 DEF Underway
  <2>2. /\ current'[d.done[n + 1].resource] = d.done[n + 1].version
        /\ releases'[d.done[n + 1].resource][d.done[n + 1].version] # "absent"
    BY <1>2, <1>3, <1>5, <1>6, <1>7, <1>8
  <2> QED
    BY <1>5, <1>7, <1>9, <2>1, <2>2 DEF Underway
<1>12. \A r \in Resources \ Members(d) : Kept(r)'
  <2>1. \A r \in Resources \ Members(d) : Kept(r) /\ current'[r] = current[r]
    BY <1>3, <1>6, <1>10 DEF Ahead
  <2> QED
    BY <1>5, <2>1 DEF Kept, Dangling
<1>13. Members(cmd[p])' = Members(d)
  BY <1>5 DEF Members
<1>14. d.pc = "look" => (Ahead(cmd[p], Res(p)) /\ Surmised(cmd[p], Res(p), Ver(p)))'
  <2> SUFFICES ASSUME d.pc = "look" PROVE (Ahead(cmd[p], Res(p)) /\ Surmised(cmd[p], Res(p), Ver(p)))'
    OBVIOUS
  <2>1. Len(d.done) < Len(d.groups[1])
    BY <1>4 DEF Progress, Preparing, Steps
  <2>2. /\ Len(cmd[p].groups[1]) \in Nat
        /\ \A k, m \in 1..Len(cmd[p].groups[1]) : cmd[p].groups[1][k] = cmd[p].groups[1][m] => k = m
        /\ \A m \in 1..Len(cmd[p].groups[1]) : cmd[p].groups[1][m] \in Resources
    BY <1>2, KindFacts
  <2>3. n + 2 \in 1..Len(cmd[p].groups[1])
    BY <1>4, <1>7, <2>1, <2>2
  <2> DEFINE r == cmd[p].groups[1][n + 2]
  <2>4. r \in Resources
    BY <2>2, <2>3
  <2>5. \A k \in 1..(n + 1) : k \in 1..Len(cmd[p].groups[1]) /\ k # n + 2
    BY <1>7, <2>2, <2>3
  <2>6. \A k \in 1..(n + 1) : d.done[k].resource = cmd[p].groups[1][k]
    BY <1>4, <1>7 DEF Progress, Steps
  <2>7. \A k \in 1..(n + 1) : d.done[k].resource # r
    BY <2>2, <2>3, <2>5, <2>6
  <2>8. r \in Resources \ Members(d)
    BY <1>7, <2>4, <2>7 DEF Members
  <2>9. Res(p)' = r
    BY <1>4, <1>5, <1>7 DEF Res
  <2> HIDE DEF r
  <2>10. ~Dangling(Res(p))'
    BY <1>12, <2>8, <2>9 DEF Kept, Dangling
  <2>11. Ahead(cmd[p], Res(p))'
    BY <1>12, <1>13 DEF Ahead
  <2> QED
    BY <1>5, <2>10, <2>11 DEF Surmised
<1>15. d.pc \notin Undoing \cup Resting /\ (d.pc \in Preparing => d.pc = "look") /\ d.pc # "ended"
  BY <1>4 DEF Undoing, Resting, Preparing, Steps
<1> QED
  BY <1>3, <1>4, <1>5, <1>11, <1>12, <1>13, <1>14, <1>15 DEF Marred

(* A command that enters a group when everything is kept. *)
LEMMA MarredEnter ==
  ASSUME NEW p, NEW c \in Command, NEW gs \in Seq(Kinds), ~c.failed, c.clean,
         cmd'[p] = EnterGroup(c, gs), \A r \in Resources : Kept(r)'
  PROVE  Marred(p)'
<1>0. PICK d : d = EnterGroup(c, gs)
  OBVIOUS
<1>1. /\ d.pc \in {"ended", "desire", "look"} /\ ~d.failed /\ d.clean /\ d.groups = gs
      /\ d.pc # "ended" => d.done = <<>> /\ gs # <<>>
  BY <1>0, EnteredFields
<1>2. cmd'[p] = d
  BY <1>0
<1>3. d.pc \notin Undoing /\ d.pc # "record" /\ (d.pc \in Preparing => d.pc \in {"desire", "look"})
  BY <1>1 DEF Undoing, Preparing, Steps
<1>4. d.pc \in {"desire", "look"} => Res(p)' \in Resources
  <2> SUFFICES ASSUME d.pc \in {"desire", "look"} PROVE Res(p)' \in Resources
    OBVIOUS
  <2>1. gs # <<>> /\ d.done = <<>>
    BY <1>1
  <2>2. gs[1] \in Kinds
    BY <2>1
  <2>5. Len(gs[1]) \in 1..3 /\ \A m \in 1..Len(gs[1]) : gs[1][m] \in Resources
    BY <2>2, KindFacts
  <2>3. gs[1][1] \in Resources
    BY <2>5
  <2>4. Res(p)' = d.groups[1][Len(d.done) + 1] /\ Len(d.done) + 1 = 1
    BY <1>2, <2>1 DEF Res
  <2> QED
    BY <1>1, <2>3, <2>4
<1>5. d.pc \in {"desire", "look"} => (Ahead(cmd[p], Res(p)) /\ Surmised(cmd[p], Res(p), Ver(p)))'
  <2> SUFFICES ASSUME d.pc \in {"desire", "look"}
               PROVE  (Ahead(cmd[p], Res(p)) /\ Surmised(cmd[p], Res(p), Ver(p)))'
    OBVIOUS
  <2>1. ~Dangling(Res(p))'
    BY <1>4 DEF Kept, Dangling
  <2> QED
    BY <1>2, <2>1 DEF Ahead, Surmised
<1>6. d.pc \in {"desire", "look"} => Underway(cmd[p])'
  BY <1>1, <1>2 DEF Underway
<1> QED
  BY <1>1, <1>2, <1>3, <1>5, <1>6 DEF Marred

LEMMA MarredRecord ==
  ASSUME TypeInv, NEW p \in Procs, Marred(p), Record(p)
  PROVE  Marred(p)'
<1>1. /\ cmd[p].pc = "record" /\ cmd[p].pc \in Steps /\ cmd[p] \in Command /\ ~cmd[p].failed
      /\ Tail(cmd[p].groups) \in Seq(Kinds)
  BY RecordMoves DEF Steps
<1>2. current' = current /\ releases' = releases /\ cmd'[p] = EnterGroup(cmd[p], Tail(cmd[p].groups))
  BY RecordMoves DEF Record, TypeInv
<1>3. Underway(cmd[p]) /\ cmd[p].clean /\ \A r \in Resources \ Members(cmd[p]) : Kept(r)
  BY <1>1 DEF Marred
<1>4. \A r \in Resources \ Members(cmd[p]) : Kept(r)'
  BY <1>2, <1>3, RecordEffect DEF Kept, Dangling
<1>5. \A k \in DOMAIN cmd[p].done : \A r : r = cmd[p].done[k].resource => Kept(r)'
  BY <1>2, <1>3, RecordEffect DEF Kept, Dangling, Underway
<1>6. \A r \in Resources : Kept(r)'
  BY <1>4, <1>5 DEF Members
<1> QED
  BY <1>1, <1>2, <1>3, <1>6, MarredEnter

LEMMA MarredStart ==
  ASSUME TypeInv, NEW p \in Procs, Marred(p), StartCommand(p)
  PROVE  Marred(p)'
<1>1. PICK update \in BOOLEAN, gs \in Seq(Kinds), e \in Editions : Begin(p, update, gs, e)
  BY StartMoves
<1> DEFINE c == [Idle EXCEPT !.update = update, !.edition = e]
<1>2. c \in Command /\ ~c.failed /\ c.clean
  BY BeginMoves
<1>3. /\ cmd[p].pc \in Resting /\ cmd'[p] = EnterGroup(c, gs)
      /\ current' = current /\ releases' = releases /\ rows' = rows
  BY <1>1 DEF Begin, Resting, TypeInv
<1> HIDE DEF c
<1>4. \A r \in Resources : Kept(r)'
  BY <1>3 DEF Marred, Kept, Dangling
<1> QED
  BY <1>2, <1>3, <1>4, MarredEnter

(* The install that is rolled back is the last of those still to undo. *)
LEMMA UndoFacts ==
  ASSUME TypeInv, NEW p \in Procs, cmd[p].pc \in Undoing
  PROVE  LET m == Len(cmd[p].undo)
             i == cmd[p].undo[1] IN
         /\ m \in DOMAIN cmd[p].done /\ m \in Nat /\ m >= 1 /\ i = cmd[p].done[m]
         /\ i = Head(cmd[p].undo)
         /\ DOMAIN cmd[p].done = 1..Len(cmd[p].done) /\ Len(cmd[p].done) \in Nat
         /\ i.resource \in Resources /\ i.version \in Versions /\ i.prev \in Versions \cup {None}
         /\ \A k \in DOMAIN cmd[p].done : /\ cmd[p].done[k].resource \in Resources
                                          /\ cmd[p].done[k].version \in Versions
                                          /\ cmd[p].done[k].prev \in Versions \cup {None}
         /\ \A k \in DOMAIN cmd[p].done : k # m => cmd[p].done[k].resource # i.resource
<1> DEFINE m == Len(cmd[p].undo)
           i == cmd[p].undo[1]
<1>1. /\ cmd[p].pc \in Steps /\ cmd[p] \in Command /\ Progress(cmd[p]) /\ cmd[p].undo \in Seq(Install)
  BY DEF TypeInv, Command, Undoing, Steps
<1>2. /\ cmd[p].undo # <<>> /\ m <= Len(cmd[p].done)
      /\ \A k \in 1..m : cmd[p].undo[k] = cmd[p].done[m + 1 - k]
  BY <1>1 DEF Progress
<1>3. m \in Nat /\ m >= 1
  BY <1>1, <1>2
<1>4. /\ DOMAIN cmd[p].done = 1..Len(cmd[p].done) /\ Len(cmd[p].done) \in Nat
      /\ \A k \in DOMAIN cmd[p].done : /\ cmd[p].done[k].resource \in Resources
                                       /\ cmd[p].done[k].version \in Versions
                                       /\ cmd[p].done[k].prev \in Versions \cup {None}
      /\ \A j, k \in DOMAIN cmd[p].done :
           cmd[p].done[j].resource = cmd[p].done[k].resource => j = k
  BY <1>1, DoneFacts
<1>5. m \in DOMAIN cmd[p].done
  BY <1>2, <1>3, <1>4
<1>6. i = cmd[p].done[m]
  BY <1>2, <1>3
<1>7. i = Head(cmd[p].undo)
  BY <1>1, <1>2
<1> QED
  BY <1>3, <1>4, <1>5, <1>6, <1>7

LEMMA MarredRestore ==
  ASSUME TypeInv, NEW p \in Procs, Marred(p), Restore(p), interruptions' = interruptions
  PROVE  Marred(p)'
<1>1. cmd[p].pc = "restore" /\ cmd[p].pc \in Undoing
  BY DEF Restore, At, Undoing
<1> DEFINE m == Len(cmd[p].undo)
<1>2. PICK i : i = cmd[p].undo[1]
  OBVIOUS
<1>3. /\ m \in DOMAIN cmd[p].done /\ m \in Nat /\ m >= 1 /\ i = cmd[p].done[m] /\ i = Head(cmd[p].undo)
      /\ DOMAIN cmd[p].done = 1..Len(cmd[p].done) /\ Len(cmd[p].done) \in Nat
      /\ i.resource \in Resources /\ i.prev \in Versions \cup {None}
      /\ \A k \in DOMAIN cmd[p].done : cmd[p].done[k].resource \in Resources
      /\ \A k \in DOMAIN cmd[p].done : k # m => cmd[p].done[k].resource # i.resource
  BY <1>1, <1>2, UndoFacts
<1>4. /\ cmd[p].clean /\ (\A r \in Resources : Kept(r)) /\ cmd[p].failed
      /\ \A k \in 1..m : Undoable(cmd[p], cmd[p].done[k])
      /\ \A k \in DOMAIN cmd[p].done : k > m => Returned(cmd[p], cmd[p].done[k])
  BY <1>1 DEF Marred, Returning
<1>5. PICK d : GoesOn(p, d, "discard") /\ Outcome(p, releases, LinkBefore(Head(cmd[p].undo)), d)
  BY RestoreMoves
<1>6. /\ releases' = releases /\ rows' = rows /\ cmd'[p] = d /\ current' = LinkBefore(i)
  BY <1>3, <1>5, OutcomeMoves
<1>7. \A r \in Resources : current'[r] = IF r = i.resource THEN i.prev ELSE current[r]
  BY <1>6 DEF LinkBefore, TypeInv
<1>8. /\ d.pc = "discard" /\ d.done = cmd[p].done /\ d.undo = cmd[p].undo /\ d.before = cmd[p].before
      /\ d.failed /\ d.clean /\ d.groups = cmd[p].groups
  BY <1>4, <1>5 DEF GoesOn, SameTask
<1>9. Undoable(cmd[p], i)
  <2>1. m \in 1..m
    BY <1>3
  <2>2. Undoable(cmd[p], cmd[p].done[m])
    BY <1>4, <2>1
  <2> QED
    BY <1>3, <2>2
<1>10. \A r \in Resources : Kept(r)'
  BY <1>4, <1>6, <1>7, <1>9 DEF Kept, Dangling, Undoable
<1>11. \A k \in 1..m : Undoable(cmd[p], cmd[p].done[k])'
  BY <1>4, <1>6, <1>8 DEF Undoable
<1>12. current'[d.undo[1].resource] = d.undo[1].prev
  BY <1>2, <1>3, <1>7, <1>8
<1>13. Returning(cmd[p])'
  BY <1>6, <1>8, <1>11, <1>12 DEF Returning
<1>14. \A k \in DOMAIN cmd[p].done : k > m => Returned(cmd[p], cmd[p].done[k])'
  <2> SUFFICES ASSUME NEW k \in DOMAIN cmd[p].done, k > m PROVE Returned(cmd[p], cmd[p].done[k])'
    OBVIOUS
  <2>1. cmd[p].done[k].resource \in Resources /\ cmd[p].done[k].resource # i.resource
    BY <1>3
  <2> QED
    BY <1>4, <1>6, <1>7, <1>8, <2>1 DEF Returned
<1>15. d.pc \in Undoing /\ d.pc \notin Preparing \cup {"record", "ended"} /\ d.pc \notin Resting
  BY <1>8 DEF Undoing, Preparing, Resting
<1> QED
  BY <1>6, <1>8, <1>10, <1>13, <1>14, <1>15 DEF Marred

LEMMA MarredDiscard ==
  ASSUME TypeInv, NEW p \in Procs, Marred(p), Discard(p), interruptions' = interruptions
  PROVE  Marred(p)'
<1>1. cmd[p].pc = "discard" /\ cmd[p].pc \in Undoing
  BY DEF Discard, At, Undoing
<1> DEFINE m == Len(cmd[p].undo)
<1>2. PICK i : i = cmd[p].undo[1]
  OBVIOUS
<1>3. /\ m \in DOMAIN cmd[p].done /\ m \in Nat /\ m >= 1 /\ i = cmd[p].done[m] /\ i = Head(cmd[p].undo)
      /\ DOMAIN cmd[p].done = 1..Len(cmd[p].done) /\ Len(cmd[p].done) \in Nat
      /\ i.resource \in Resources /\ i.version \in Versions /\ i.prev \in Versions \cup {None}
      /\ \A k \in DOMAIN cmd[p].done : cmd[p].done[k].resource \in Resources
      /\ \A k \in DOMAIN cmd[p].done : k # m => cmd[p].done[k].resource # i.resource
  BY <1>1, <1>2, UndoFacts
<1>4. /\ cmd[p].clean /\ (\A r \in Resources : Kept(r)) /\ cmd[p].failed
      /\ \A k \in 1..m : Undoable(cmd[p], cmd[p].done[k])
      /\ current[i.resource] = i.prev
      /\ \A k \in DOMAIN cmd[p].done : k > m => Returned(cmd[p], cmd[p].done[k])
  BY <1>1, <1>2 DEF Marred, Returning
<1>5. PICK d : /\ d \in Command /\ Progress(d)
               /\ d.done = cmd[p].done /\ d.groups = cmd[p].groups
               /\ d.failed = cmd[p].failed /\ d.clean = cmd[p].clean
               /\ d.before = cmd[p].before /\ d.undo = Tail(cmd[p].undo)
               /\ d.pc = IF d.undo = <<>> THEN "ended" ELSE "restore"
               /\ Outcome(p, [releases EXCEPT ![Head(cmd[p].undo).resource][Head(cmd[p].undo).version] =
                                IF Head(cmd[p].undo).existed THEN @ ELSE "absent"], current, d)
  BY DiscardMoves
<1>6. /\ releases' = [releases EXCEPT ![i.resource][i.version] = IF i.existed THEN @ ELSE "absent"]
      /\ rows' = rows /\ cmd'[p] = d /\ current' = current
  BY <1>3, <1>5, OutcomeMoves
<1>16. /\ d.done = cmd[p].done /\ d.groups = cmd[p].groups /\ d.failed /\ d.clean
       /\ d.before = cmd[p].before /\ d.undo = Tail(cmd[p].undo)
       /\ d.pc \in {"ended", "restore"} /\ (d.pc = "ended" <=> d.undo = <<>>)
  BY <1>4, <1>5
<1>7. /\ \A r \in Resources : r # i.resource => releases'[r] = releases[r]
      /\ \A v \in Versions : v # i.version => releases'[i.resource][v] = releases[i.resource][v]
      /\ releases'[i.resource][i.version] = IF i.existed THEN releases[i.resource][i.version] ELSE "absent"
  BY <1>3, <1>6 DEF TypeInv
<1>8. cmd[p].undo \in Seq(Install) /\ Len(d.undo) = m - 1 /\ (d.undo = <<>> <=> m = 1)
  <2>1. cmd[p].undo \in Seq(Install)
    BY DEF TypeInv, Command
  <2>2. \A s \in Seq(Install) : s # <<>> => Len(Tail(s)) = Len(s) - 1 /\ (Tail(s) = <<>> <=> Len(s) = 1)
    <3> SUFFICES ASSUME NEW s \in Seq(Install), s # <<>>
                 PROVE  Len(Tail(s)) = Len(s) - 1 /\ (Tail(s) = <<>> <=> Len(s) = 1)
      OBVIOUS
    <3>1. Tail(s) \in Seq(Install) /\ Len(Tail(s)) = Len(s) - 1 /\ Len(s) \in Nat
      OBVIOUS
    <3>2. \A t \in Seq(Install) : t = <<>> <=> Len(t) = 0
      OBVIOUS
    <3>3. Tail(s) = <<>> <=> Len(Tail(s)) = 0
      BY <3>1, <3>2
    <3> QED
      BY <3>1, <3>3
  <2>3. cmd[p].undo # <<>>
    BY <1>3, <2>1
  <2> QED
    BY <1>16, <2>1, <2>2, <2>3
<1>9. /\ i.prev # None => releases[i.resource][i.prev] # "absent"
      /\ rows[i.resource].version = i.prev /\ cmd[p].before[i.resource] = i.prev
      /\ ~i.existed => i.version # i.prev
  <2>1. m \in 1..m
    BY <1>3
  <2>2. Undoable(cmd[p], cmd[p].done[m])
    BY <1>4, <2>1
  <2> QED
    BY <1>3, <2>2 DEF Undoable
<1>10. \A r \in Resources : Kept(r)'
  <2>1. \A r \in Resources : r # i.resource => Kept(r)'
    BY <1>4, <1>6, <1>7 DEF Kept, Dangling
  <2>2. i.prev # None => releases'[i.resource][i.prev] # "absent"
    BY <1>3, <1>7, <1>9
  <2>3. Kept(i.resource)'
    BY <1>4, <1>6, <1>9, <2>2 DEF Kept, Dangling
  <2> QED
    BY <2>1, <2>3
<1>11. \A k \in 1..(m - 1) : Undoable(cmd[p], cmd[p].done[k])'
  <2> SUFFICES ASSUME NEW k \in 1..(m - 1) PROVE Undoable(cmd[p], cmd[p].done[k])'
    OBVIOUS
  <2>1. k \in 1..m /\ k \in DOMAIN cmd[p].done /\ k # m
    BY <1>3
  <2>2. Undoable(cmd[p], cmd[p].done[k]) /\ cmd[p].done[k].resource \in Resources
        /\ cmd[p].done[k].resource # i.resource
    BY <1>3, <1>4, <2>1
  <2> QED
    BY <1>16, <1>6, <1>7, <2>2 DEF Undoable
<1>12. \A k \in DOMAIN cmd[p].done : k > m - 1 => Returned(cmd[p], cmd[p].done[k])'
  <2> SUFFICES ASSUME NEW k \in DOMAIN cmd[p].done, k > m - 1 PROVE Returned(cmd[p], cmd[p].done[k])'
    OBVIOUS
  <2>1. CASE k = m
    <3>1. cmd'[p].done[k] = i /\ cmd'[p].before = cmd[p].before
      BY <1>3, <1>16, <1>6, <2>1
    <3>2. /\ current'[i.resource] = cmd[p].before[i.resource]
          /\ ~i.existed => releases'[i.resource][i.version] = "absent"
      BY <1>4, <1>6, <1>7, <1>9
    <3> QED
      BY <3>1, <3>2 DEF Returned
  <2>2. CASE k # m
    <3>1. k > m /\ cmd[p].done[k].resource \in Resources /\ cmd[p].done[k].resource # i.resource
      BY <1>3, <2>2
    <3> QED
      BY <1>4, <1>16, <1>6, <1>7, <3>1 DEF Returned
  <2> QED
    BY <2>1, <2>2
<1>13. d.pc \in {"ended", "restore"} /\ d.pc \notin Preparing \cup {"record", "discard"}
       /\ (d.pc \in Undoing => d.pc = "restore")
  BY <1>16 DEF Undoing, Preparing, Steps
<1>14. d.pc = "restore" => Returning(cmd[p])'
  BY <1>4, <1>16, <1>6, <1>8, <1>11 DEF Returning
<1>15. d.pc = "ended" => \A k \in DOMAIN cmd[p].done : Returned(cmd[p], cmd[p].done[k])'
  BY <1>3, <1>16, <1>8, <1>12
<1> HIDE DEF m
<1> QED
  BY <1>4, <1>16, <1>6, <1>8, <1>10, <1>12, <1>13, <1>14, <1>15 DEF Marred

-----------------------------------------------------------------------------
(* Pruning and updates, whatever is interrupted *)

(* An error leaves the group and what was prepared of it. *)
LEMMA FailedKeeps ==
  ASSUME NEW c \in Command, c.pc \in Steps
  PROVE  /\ Failed(c).done = c.done /\ Failed(c).groups = c.groups /\ Failed(c).edition = c.edition
         /\ Failed(c).update = c.update /\ (c.failed => Failed(c).failed)
         /\ Failed(c).pc \in {"ended", "restore"}
<1>1. CASE c.pc \notin Undoing
  BY <1>1, FailedFields
<1>2. CASE c.pc \in Undoing
  <2> DEFINE undo == Tail(c.undo)
             pc == IF undo = <<>> THEN "ended" ELSE "restore"
             d == Failed(c)
  <2>1. d = [c EXCEPT !.undo = undo, !.clean = FALSE, !.pc = pc]
    BY <1>2 DEF Failed, NextUndo, Undoing, Command
  <2>2. pc \in {"ended", "restore"}
    OBVIOUS
  <2> HIDE DEF undo, pc, d
  <2>3. /\ d.done = c.done /\ d.groups = c.groups /\ d.edition = c.edition
        /\ d.update = c.update /\ d.failed = c.failed /\ d.pc = pc
    BY <2>1 DEF Command
  <2> QED
    BY <2>2, <2>3 DEF d
<1> QED
  BY <1>1, <1>2

(* A command that stays with its group, or dies. *)
Stays(c, d) ==
    \/ d = Idle
    \/ /\ d.done = c.done /\ d.groups = c.groups /\ d.edition = c.edition
       /\ d.update = c.update /\ (c.failed => d.failed)

LEMMA LatestStays ==
  ASSUME NEW p, NEW d, cmd'[p] = d, Stays(cmd[p], d), cmd[p].pc # "idle", rows' = rows,
         LatestAhead(cmd[p])
  PROVE  LatestAhead(cmd[p])'
<1>1. CASE d = Idle
  <2>1. d.pc = "idle"
    BY <1>1 DEF Idle
  <2> QED
    BY <2>1 DEF LatestAhead
<1>2. CASE d # Idle
  <2>1. Installed' = Installed
    BY DEF Installed
  <2> QED
    BY <1>2, <2>1 DEF LatestAhead, Stays
<1> QED
  BY <1>1, <1>2

LEMMA PrunedStays ==
  ASSUME NEW p, NEW d, cmd'[p] = d, Stays(cmd[p], d), d.pc # "point", Pruned(cmd[p]),
         \A k \in DOMAIN cmd[p].done : \A r :
           r = cmd[p].done[k].resource => Present(r)' \subseteq Present(r)
  PROVE  Pruned(cmd[p])'
<1>1. CASE d = Idle
  <2>1. d.done = <<>>
    BY <1>1 DEF Idle
  <2> QED
    BY <2>1 DEF Pruned
<1>2. CASE d # Idle
  <2>1. d.done = cmd[p].done
    BY <1>2 DEF Stays
  <2> QED
    BY <2>1 DEF Pruned
<1> QED
  BY <1>1, <1>2

(* Which steps stay with the group: all but Point, Record, and a new command. *)
LEMMA StepStays ==
  ASSUME TypeInv, NEW p \in Procs, Step(p), ~Point(p), ~Record(p)
  PROVE  /\ Stays(cmd[p], cmd'[p]) /\ cmd[p].pc \in Steps
         /\ cmd'[p].pc = "point" => Prune(p)
<1>1. cmd[p].pc \in Steps /\ cmd[p] \in Command
  BY DEF Step, RecordDesired, Look, RemoveInvalid, Unlink, Download, ReadPrevious, Promote, Prune,
     Point, Record, Restore, Discard, At, Steps, TypeInv
<1>2. ASSUME NEW d, SameTask(cmd[p], d) PROVE Stays(cmd[p], d)
  BY <1>2 DEF SameTask, Stays
<1>3. Stays(cmd[p], Failed(cmd[p])) /\ Failed(cmd[p]).pc # "point"
  BY <1>1, FailedKeeps DEF Stays
<1>4. Stays(cmd[p], Idle) /\ Idle.pc # "point"
  BY DEF Stays, Idle
<1>5. ASSUME NEW rel, NEW cur, NEW d, Outcome(p, rel, cur, d), Stays(cmd[p], d), d.pc # "point" \/ Prune(p)
      PROVE  Stays(cmd[p], cmd'[p]) /\ (cmd'[p].pc = "point" => Prune(p))
  <2>1. cmd'[p] = d \/ cmd'[p] \in {Failed(cmd[p]), Idle}
    BY <1>5, OutcomeMoves
  <2> QED
    BY <1>3, <1>4, <1>5, <2>1
<1>6. ASSUME NEW d, Reads(p, d), Stays(cmd[p], d), d.pc # "point"
      PROVE  Stays(cmd[p], cmd'[p]) /\ (cmd'[p].pc = "point" => Prune(p))
  BY <1>6, ReadsMoves
<1>7. CASE RecordDesired(p)
  <2>1. PICK d : GoesOn(p, d, "look") /\ cmd' = [cmd EXCEPT ![p] = d]
    BY <1>7, DesireMoves
  <2>2. cmd'[p] = d
    BY <2>1 DEF TypeInv
  <2> QED
    BY <1>1, <1>2, <2>1, <2>2 DEF GoesOn
<1>8. CASE Look(p)
  <2>1. PICK d : Reads(p, d) /\ (d = Failed(cmd[p]) \/ \E q \in {"previous", "download", "prune", "remove"} : GoesOn(p, d, q))
    BY <1>8, LookMoves
  <2>2. Stays(cmd[p], d) /\ d.pc # "point"
    BY <1>2, <1>3, <2>1 DEF GoesOn
  <2> QED
    BY <1>1, <1>6, <2>1, <2>2
<1>9. CASE RemoveInvalid(p)
  <2>1. PICK d : GoesOn(p, d, "unlink") /\ Outcome(p, [releases EXCEPT ![Res(p)][Ver(p)] = "absent"], current, d)
    BY <1>9, RemoveMoves
  <2>2. Stays(cmd[p], d) /\ d.pc # "point"
    BY <1>2, <2>1 DEF GoesOn
  <2> QED
    BY <1>1, <1>5, <2>1, <2>2
<1>10. CASE Unlink(p)
  <2>1. PICK d : /\ GoesOn(p, d, IF cmd[p].downloaded THEN "previous" ELSE "download")
                 /\ Outcome(p, releases,
                            [current EXCEPT ![Res(p)] = IF cmd[p].prev = Ver(p) THEN None ELSE @], d)
    BY <1>10, UnlinkMoves
  <2>2. Stays(cmd[p], d) /\ d.pc # "point"
    BY <1>2, <2>1 DEF GoesOn
  <2> QED
    BY <1>1, <1>5, <2>1, <2>2
<1>11. CASE Download(p)
  <2>1. PICK d : Reads(p, d) /\ GoesOn(p, d, "look")
    BY <1>11, DownloadMoves
  <2>2. Stays(cmd[p], d) /\ d.pc # "point"
    BY <1>2, <2>1 DEF GoesOn
  <2> QED
    BY <1>1, <1>6, <2>1, <2>2
<1>12. CASE ReadPrevious(p)
  <2>1. PICK d : Reads(p, d) /\ (d = Failed(cmd[p]) \/ GoesOn(p, d, "promote"))
    BY <1>12, PreviousMoves
  <2>2. Stays(cmd[p], d) /\ d.pc # "point"
    BY <1>2, <1>3, <2>1 DEF GoesOn
  <2> QED
    BY <1>1, <1>6, <2>1, <2>2
<1>13. CASE Promote(p)
  <2>1. CASE Reads(p, Failed(cmd[p]))
    BY <1>1, <1>3, <1>6, <2>1
  <2>2. CASE ~Reads(p, Failed(cmd[p]))
    <3>1. PICK d : GoesOn(p, d, "prune") /\ Outcome(p, [releases EXCEPT ![Res(p)][Ver(p)] = "whole"], current, d)
      BY <1>13, <2>2, PromoteMoves
    <3>2. Stays(cmd[p], d) /\ d.pc # "point"
      BY <1>2, <3>1 DEF GoesOn
    <3> QED
      BY <1>1, <1>5, <3>1, <3>2
  <2> QED
    BY <2>1, <2>2
<1>14. CASE Prune(p)
  <2>1. PICK d : /\ GoesOn(p, d, "point")
                 /\ Outcome(p, [releases EXCEPT ![Res(p)] = [v \in Versions |->
                           IF v \in Stale(p) THEN "absent" ELSE @[v]]], current, d)
    BY <1>14, PruneMoves
  <2>2. Stays(cmd[p], d)
    BY <1>2, <2>1 DEF GoesOn
  <2> QED
    BY <1>1, <1>5, <1>14, <2>1, <2>2
<1>15. CASE Restore(p)
  <2>1. PICK d : GoesOn(p, d, "discard") /\ Outcome(p, releases, LinkBefore(Head(cmd[p].undo)), d)
    BY <1>15, RestoreMoves
  <2>2. Stays(cmd[p], d) /\ d.pc # "point"
    BY <1>2, <2>1 DEF GoesOn
  <2> QED
    BY <1>1, <1>5, <2>1, <2>2
<1>16. CASE Discard(p)
  <2>1. PICK d : /\ d.done = cmd[p].done /\ d.groups = cmd[p].groups /\ d.edition = cmd[p].edition
                 /\ d.update = cmd[p].update /\ d.failed = cmd[p].failed
                 /\ d.pc = (IF d.undo = <<>> THEN "ended" ELSE "restore")
                 /\ Outcome(p, [releases EXCEPT ![Head(cmd[p].undo).resource][Head(cmd[p].undo).version] =
                                  IF Head(cmd[p].undo).existed THEN @ ELSE "absent"], current, d)
    BY <1>16, DiscardMoves
  <2>2. Stays(cmd[p], d) /\ d.pc # "point"
    BY <2>1 DEF Stays
  <2> QED
    BY <1>1, <1>5, <2>1, <2>2
<1> QED
  BY <1>7, <1>8, <1>9, <1>10, <1>11, <1>12, <1>13, <1>14, <1>15, <1>16 DEF Step

(* No step adds a release but Promote, and that one to the member it prepares. *)
LEMMA ReleasesShrink ==
  ASSUME TypeInv, NEW p \in Procs, Step(p) \/ Interrupt(p), NEW r \in Resources,
         Promote(p) => r # Res(p)
  PROVE  Present(r)' \subseteq Present(r)
<1>0. releases \in [Resources -> [Versions -> Contents]]
  BY DEF TypeInv
<1>1. CASE Interrupt(p)
  <2>1. PICK gone \in SUBSET Doomed(p) :
          \E part \in {{}} \cup {{d} : d \in Doomed(p) \ gone}, left \in {"dented", "gutted"} :
         releases' = [s \in Resources |-> [v \in Versions |->
                        IF <<s, v>> \in gone THEN "absent"
                        ELSE IF <<s, v>> \in part /\ Valid(s, v) THEN left
                        ELSE releases[s][v]]]
    BY <1>1 DEF Interrupt
  <2>2. PICK part \in {{}} \cup {{d} : d \in Doomed(p) \ gone}, left \in {"dented", "gutted"} :
         releases' = [s \in Resources |-> [v \in Versions |->
                        IF <<s, v>> \in gone THEN "absent"
                        ELSE IF <<s, v>> \in part /\ Valid(s, v) THEN left
                        ELSE releases[s][v]]]
    BY <2>1
  <2> QED
    BY <2>2 DEF Present, Valid
<1>2. CASE RecordDesired(p) \/ Look(p) \/ Download(p) \/ ReadPrevious(p) \/ Record(p) \/ Unlink(p)
           \/ Point(p) \/ Restore(p)
  <2>1. releases' = releases
    BY <1>2 DEF RecordDesired, Look, Download, ReadPrevious, Record, Unlink, Point, Restore, Reads, Outcome
  <2> QED
    BY <2>1 DEF Present
<1>3. CASE RemoveInvalid(p)
  <2>1. cmd[p].pc \in Preparing /\ releases' = [releases EXCEPT ![Res(p)][Ver(p)] = "absent"]
    BY <1>3 DEF RemoveInvalid, Outcome, At, Preparing, Steps
  <2> QED
    BY <1>0, <2>1, PreparedOne DEF Present
<1>4. CASE Promote(p)
  <2>1. cmd[p].pc \in Preparing
        /\ (releases' = releases \/ releases' = [releases EXCEPT ![Res(p)][Ver(p)] = "whole"])
    BY <1>4 DEF Promote, Outcome, Reads, At, Preparing, Steps
  <2>2. releases'[r] = releases[r]
    BY <1>0, <1>4, <2>1, PreparedOne
  <2> QED
    BY <2>2 DEF Present
<1>5. CASE Prune(p)
  <2>1. cmd[p].pc \in Preparing /\ releases' = [releases EXCEPT ![Res(p)] = [v \in Versions |->
                      IF v \in Stale(p) THEN "absent" ELSE @[v]]]
    BY <1>5 DEF Prune, Outcome, At, Preparing, Steps
  <2> QED
    BY <2>1, PruneEffect DEF Present
<1>6. CASE Discard(p)
  <2>1. PICK i : i = Head(cmd[p].undo)
    OBVIOUS
  <2>2. i.resource \in Resources /\ i.version \in Versions
    BY <1>6, <2>1, DiscardMoves DEF Install
  <2>3. releases' = [releases EXCEPT ![i.resource][i.version] = IF i.existed THEN @ ELSE "absent"]
    BY <1>6, <2>1 DEF Discard, Outcome
  <2> QED
    BY <1>0, <2>2, <2>3 DEF Present
<1> QED
  BY <1>1, <1>2, <1>3, <1>4, <1>5, <1>6 DEF Step

LEMMA PrunedStep ==
  ASSUME TypeInv, NEW p \in Procs, Step(p), Pruned(cmd[p])
  PROVE  Pruned(cmd[p])'
<1>0. cmd[p].pc \in Steps /\ cmd[p] \in Command
  BY DEF Step, RecordDesired, Look, RemoveInvalid, Unlink, Download, ReadPrevious, Promote, Prune,
     Point, Record, Restore, Discard, At, Steps, TypeInv
<1>1. \A k \in DOMAIN cmd[p].done : \A r :
        r = cmd[p].done[k].resource => Present(r)' \subseteq Present(r)
  <2> SUFFICES ASSUME NEW k \in DOMAIN cmd[p].done, NEW r, r = cmd[p].done[k].resource
               PROVE  Present(r)' \subseteq Present(r)
    OBVIOUS
  <2>1. r \in Resources
    BY <1>0, DoneFacts
  <2>2. Promote(p) => r # Res(p)
    BY <1>0, DoneFacts DEF Promote, At, Preparing, Steps
  <2> QED
    BY <2>1, <2>2, ReleasesShrink
<1>2. PICK d : d = cmd'[p]
  OBVIOUS
<1>3. CASE ~Point(p) /\ ~Record(p) /\ d.pc # "point"
  BY <1>1, <1>2, <1>3, StepStays, PrunedStays
<1>4. CASE Prune(p) /\ d.pc = "point"
  <2>1. cmd[p].pc \in Preparing
    BY <1>4 DEF Prune, At, Preparing, Steps
  <2>2. PICK e : /\ GoesOn(p, e, "point") /\ e.prev = cmd[p].prev
                 /\ Outcome(p, [releases EXCEPT ![Res(p)] = [v \in Versions |->
                           IF v \in Stale(p) THEN "absent" ELSE @[v]]], current, e)
    BY <1>4, PruneMoves
  <2>3. /\ releases' = [releases EXCEPT ![Res(p)] = [v \in Versions |->
                           IF v \in Stale(p) THEN "absent" ELSE @[v]]]
        /\ d = e \/ d \in {Failed(cmd[p]), Idle}
    BY <1>2, <2>2, OutcomeMoves
  <2>4. d = e
    <3>1. Failed(cmd[p]).pc # "point" /\ Idle.pc # "point"
      BY <1>0, FailedKeeps DEF Idle
    <3> QED
      BY <1>4, <2>3, <3>1
  <2>5. PICK r \in Resources : r = Res(p)
    BY <2>1, PreparedOne
  <2>6. Present(r)' \subseteq {Ver(p), cmd[p].prev}
    BY <2>1, <2>3, <2>5, PruneEffect DEF Present
  <2>7. /\ d.done = cmd[p].done /\ d.groups[1][Len(d.done) + 1] = r
        /\ Version[d.edition][d.groups[1][Len(d.done) + 1]] = Ver(p) /\ d.prev = cmd[p].prev
    BY <2>2, <2>4, <2>5 DEF GoesOn, SameTask, Res, Ver
  <2> QED
    BY <1>1, <1>2, <2>6, <2>7 DEF Pruned
<1>5. CASE Point(p)
  <2>1. cmd[p].pc = "point" /\ cmd[p].pc \in Preparing
    BY <1>5 DEF Point, At, Preparing, Steps
  <2>2. PICK e : /\ e.done = Append(cmd[p].done, NewInstall(p)) /\ e.pc \in {"record", "look"}
                 /\ Outcome(p, releases, [current EXCEPT ![Res(p)] = Ver(p)], e)
    BY <1>5, PointMoves
  <2>3. releases' = releases /\ (d = e \/ d \in {Failed(cmd[p]), Idle})
    BY <1>2, <2>2, OutcomeMoves
  <2>4. CASE d \in {Failed(cmd[p]), Idle}
    <3>1. Stays(cmd[p], d) /\ d.pc # "point"
      BY <1>0, <2>4, FailedKeeps DEF Idle, Stays
    <3> QED
      BY <1>1, <1>2, <3>1, PrunedStays
  <2>5. CASE d = e
    <3> DEFINE n == Len(cmd[p].done)
    <3>1. /\ n \in Nat /\ DOMAIN cmd[p].done = 1..n /\ DOMAIN d.done = 1..(n + 1)
          /\ \A k \in 1..n : d.done[k] = cmd[p].done[k]
          /\ d.done[n + 1] = NewInstall(p)
      BY <1>0, <1>5, <2>2, <2>5, DoneFacts, PointMoves
    <3>2. /\ NewInstall(p).resource = Res(p) /\ NewInstall(p).version = Ver(p)
          /\ NewInstall(p).prev = cmd[p].prev
      BY DEF NewInstall
    <3>3. \A k \in 1..(n + 1) : k \in 1..n \/ k = n + 1
      BY <3>1
    <3>4. Present(Res(p)) \subseteq {Ver(p), cmd[p].prev}
      BY <2>1 DEF Pruned, Res, Ver
    <3> HIDE DEF n
    <3>5. \A k \in 1..(n + 1) : Present(d.done[k].resource) \subseteq {d.done[k].version, d.done[k].prev}
      BY <3>1, <3>2, <3>3, <3>4 DEF Pruned
    <3>6. \A r : Present(r)' = Present(r)
      BY <2>3 DEF Present
    <3> QED
      BY <1>2, <2>2, <2>5, <3>1, <3>5, <3>6 DEF Pruned
  <2> QED
    BY <2>3, <2>4, <2>5
<1>6. CASE Record(p)
  <2>1. /\ d = EnterGroup(cmd[p], Tail(cmd[p].groups)) /\ Tail(cmd[p].groups) \in Seq(Kinds)
        /\ releases' = releases
    BY <1>2, <1>6, RecordMoves DEF Record, TypeInv
  <2>5. PICK gs \in Seq(Kinds) : gs = Tail(cmd[p].groups)
    BY <2>1
  <2>6. d.done = cmd[p].done \/ d.done = <<>>
    BY <1>0, <2>1, <2>5, EnteredFields
  <2>7. d.pc # "point"
    <3>1. d.pc \in {"ended", "desire", "look"}
      BY <1>0, <2>1, <2>5, EnteredFields
    <3> QED
      BY <3>1
  <2>2. d.done \in {cmd[p].done, <<>>} /\ d.pc # "point"
    BY <2>6, <2>7
  <2>3. CASE d.done = <<>>
    BY <1>2, <2>2, <2>3 DEF Pruned
  <2>4. CASE d.done = cmd[p].done
    BY <1>1, <1>2, <2>2, <2>4 DEF Pruned
  <2> QED
    BY <2>2, <2>3, <2>4
<1>7. ~Point(p) /\ ~Record(p) /\ d.pc = "point" => Prune(p)
  BY <1>2, StepStays
<1> QED
  BY <1>3, <1>4, <1>5, <1>6, <1>7

LEMMA LatestStep ==
  ASSUME TypeInv, NEW p \in Procs, Step(p), LatestAhead(cmd[p])
  PROVE  LatestAhead(cmd[p])'
<1>0. cmd[p].pc \in Steps /\ cmd[p] \in Command /\ cmd[p].pc # "idle"
  BY DEF Step, RecordDesired, Look, RemoveInvalid, Unlink, Download, ReadPrevious, Promote, Prune,
     Point, Record, Restore, Discard, At, Steps, TypeInv
<1>1. PICK d : d = cmd'[p]
  OBVIOUS
<1>2. CASE ~Point(p) /\ ~Record(p) /\ ~RecordDesired(p)
  <2>1. rows' = rows
    BY <1>2 DEF Step, Look, RemoveInvalid, Unlink, Download, ReadPrevious, Promote, Prune,
       Restore, Discard, Outcome, Reads
  <2> QED
    BY <1>0, <1>1, <1>2, <2>1, StepStays, LatestStays
<1>3. CASE Point(p)
  <2>1. PICK e : /\ e.groups = cmd[p].groups /\ e.edition = cmd[p].edition /\ e.update = cmd[p].update
                 /\ e.failed = cmd[p].failed
                 /\ Outcome(p, releases, [current EXCEPT ![Res(p)] = Ver(p)], e)
    BY <1>3, PointMoves
  <2>2. rows' = rows /\ (d = e \/ d \in {Failed(cmd[p]), Idle})
    BY <1>1, <2>1, OutcomeMoves
  <2>3. CASE d \in {Failed(cmd[p]), Idle}
    <3>1. Stays(cmd[p], d)
      BY <1>0, <2>3, FailedKeeps DEF Stays
    <3> QED
      BY <1>0, <1>1, <2>2, <3>1, LatestStays
  <2>4. CASE d = e
    <3>1. Installed' = Installed
      BY <2>2 DEF Installed
    <3> QED
      BY <1>0, <1>1, <2>1, <2>2, <2>4, <3>1 DEF LatestAhead
  <2> QED
    BY <2>2, <2>3, <2>4
<1>4. CASE RecordDesired(p)
  <2>1. cmd[p].pc \in Preparing
    BY <1>4 DEF RecordDesired, At, Preparing, Steps
  <2>2. PICK r \in Resources : r = Res(p)
    BY <2>1, PreparedOne
  <2>3. r \in ToSet(cmd[p].groups[1]) /\ 1 \in DOMAIN cmd[p].groups
    <3>1. /\ cmd[p].groups # <<>> /\ cmd[p].groups[1] \in Kinds /\ cmd[p].groups \in Seq(Kinds)
          /\ Len(cmd[p].done) + 1 \in 1..Len(cmd[p].groups[1])
      BY <1>0, <2>1, PreparedOne DEF Command
    <3>2. ToSet(cmd[p].groups[1]) = {cmd[p].groups[1][m] : m \in 1..Len(cmd[p].groups[1])}
      BY <3>1, KindFacts
    <3> QED
      BY <2>2, <3>1, <3>2 DEF Res
  <2>4. /\ \A s \in Resources : rows'[s].version = rows[s].version
        /\ \A s \in Resources : s # r => rows'[s] = rows[s]
    BY <1>4, <2>2 DEF RecordDesired, TypeInv
  <2>5. \A s \in Installed' : s \in Installed \/ s = r
    BY <2>4 DEF Installed
  <2>6. PICK e : GoesOn(p, e, "look") /\ cmd' = [cmd EXCEPT ![p] = e]
    BY <1>4, DesireMoves
  <2>7. d = e /\ SameTask(cmd[p], d)
    BY <1>1, <2>6 DEF TypeInv, GoesOn
  <2>8. Installed' \subseteq Resources
    BY DEF Installed
  <2> QED
    BY <1>0, <1>1, <2>3, <2>4, <2>5, <2>7, <2>8 DEF LatestAhead, SameTask
<1>5. CASE Record(p)
  <2>1. /\ d = EnterGroup(cmd[p], Tail(cmd[p].groups)) /\ Tail(cmd[p].groups) \in Seq(Kinds)
        /\ cmd[p].groups \in Seq(Kinds) /\ cmd[p].groups # <<>>
    BY <1>0, <1>1, <1>5, RecordMoves DEF TypeInv, Command
  <2>2. /\ d.groups = Tail(cmd[p].groups) /\ d.edition = cmd[p].edition /\ d.update = cmd[p].update
        /\ d.failed = cmd[p].failed
    BY <1>0, <2>1, EnteredFields
  <2>3. \A r \in Resources : /\ r \in ToSet(cmd[p].groups[1]) => rows'[r].version = Version[cmd[p].edition][r]
                             /\ r \notin ToSet(cmd[p].groups[1]) => rows'[r] = rows[r]
    BY <1>5, RecordedRows
  <2>4. \A g \in DOMAIN cmd[p].groups : g = 1 \/ \E h \in DOMAIN d.groups : d.groups[h] = cmd[p].groups[g]
    <3> SUFFICES ASSUME NEW g \in DOMAIN cmd[p].groups, g # 1
                 PROVE  \E h \in DOMAIN d.groups : d.groups[h] = cmd[p].groups[g]
      OBVIOUS
    <3>1. g - 1 \in DOMAIN Tail(cmd[p].groups) /\ Tail(cmd[p].groups)[g - 1] = cmd[p].groups[g]
      BY <2>1
    <3> QED
      BY <2>2, <3>1
  <2>5. SUFFICES ASSUME d.update, ~d.failed, NEW r \in Installed'
                 PROVE  \/ rows'[r].version = Version[d.edition][r]
                        \/ \E g \in DOMAIN d.groups : r \in ToSet(d.groups[g])
    BY <1>1 DEF LatestAhead
  <2>6. r \in Resources
    BY DEF Installed
  <2>7. CASE r \in ToSet(cmd[p].groups[1])
    BY <2>2, <2>3, <2>6, <2>7
  <2>8. CASE r \notin ToSet(cmd[p].groups[1])
    <3>1. rows'[r] = rows[r] /\ r \in Installed
      BY <2>3, <2>5, <2>6, <2>8 DEF Installed
    <3>2. \/ rows[r].version = Version[cmd[p].edition][r]
          \/ \E g \in DOMAIN cmd[p].groups : r \in ToSet(cmd[p].groups[g])
      BY <1>0, <2>2, <2>5, <3>1 DEF LatestAhead
    <3> QED
      BY <2>2, <2>4, <2>8, <3>1, <3>2
  <2> QED
    BY <2>7, <2>8
<1> QED
  BY <1>2, <1>3, <1>4, <1>5

-----------------------------------------------------------------------------
(* The invariant of one process *)

LEMMA PerfectStep ==
  ASSUME TypeInv, NEW p \in Procs, Perfect(p), Step(p), interruptions' = interruptions
  PROVE  Perfect(p)'
<1>1. ~RemoveInvalid(p) /\ ~Unlink(p) /\ ~Restore(p) /\ ~Discard(p)
  BY DEF Perfect, Undoing, RemoveInvalid, Unlink, Restore, Discard, At
<1> QED
  BY <1>1, PerfectDesire, PerfectLook, PerfectDownload, PerfectPrevious, PerfectPromote,
     PerfectPrune, PerfectPoint, PerfectRecord DEF Step

LEMMA MarredStep ==
  ASSUME TypeInv, NEW p \in Procs, Marred(p), Step(p), interruptions' = interruptions
  PROVE  Marred(p)'
  BY MarredDesire, MarredLook, MarredRemove, MarredUnlink, MarredDownload, MarredPrevious,
     MarredPromote, MarredPrune, MarredPoint, MarredRecord, MarredRestore, MarredDiscard DEF Step

(* Steps count an interruption or none. *)
LEMMA StepCounts ==
  ASSUME TypeInv, NEW p \in Procs, Step(p)
  PROVE  interruptions \in Nat /\ interruptions' \in {interruptions, interruptions + 1}
<1>1. interruptions \in Nat
  BY InstallAssumption DEF TypeInv
<1>2. interruptions' \in {interruptions, interruptions + 1}
  BY DEF Step, RecordDesired, Look, RemoveInvalid, Unlink, Download, ReadPrevious, Promote, Prune,
     Point, Record, Restore, Discard, Outcome, Reads, MayInterrupt
<1> QED
  BY <1>1, <1>2

LEMMA SoundInvInit ==
  ASSUME NEW p \in Procs, Init
  PROVE  SoundInv(p)
<1>1. cmd[p] = Idle /\ Idle.pc = "idle" /\ ~Idle.failed /\ Idle.clean /\ Idle.done = <<>>
  BY DEF Init, Idle
<1>2. LatestAhead(cmd[p]) /\ Pruned(cmd[p])
  BY <1>1 DEF LatestAhead, Pruned
<1>3. Intact /\ Agreed
  BY DEF Init, Intact, Agreed, Dangling
<1>4. "idle" \notin Undoing \cup {"remove", "unlink"} /\ "idle" \notin Steps /\ "idle" \notin Preparing
  BY DEF Undoing, Steps, Preparing
<1>5. Perfect(p)
  BY <1>1, <1>3, <1>4 DEF Perfect
<1>6. interruptions = 0
  BY DEF Init
<1> QED
  BY <1>2, <1>5, <1>6 DEF SoundInv

LEMMA SoundInvStep ==
  ASSUME TypeInv, NEW p \in Procs, Procs = {p}, SoundInv(p), [Next]_vars
  PROVE  SoundInv(p)'
<1>0. /\ LatestAhead(cmd[p]) /\ Pruned(cmd[p]) /\ interruptions \in Nat
      /\ interruptions = 0 => Perfect(p)
      /\ interruptions = 1 => Marred(p)
      /\ cmd[p] \in Command
  BY InstallAssumption DEF SoundInv, TypeInv
<1>1. CASE UNCHANGED <<releases, current, rows, cmd, interruptions>>
  <2>1. LatestAhead(cmd[p])' /\ Pruned(cmd[p])'
    BY <1>0, <1>1 DEF LatestAhead, Pruned, Installed, Present
  <2>2. Res(p)' = Res(p) /\ Ver(p)' = Ver(p)
    BY <1>1 DEF Res, Ver
  <2>3. Perfect(p) => Perfect(p)'
    BY <1>1, <2>2 DEF Perfect, Intact, Agreed, Prepared, Known, Dangling, Members, Undoable
  <2>4. Marred(p) => Marred(p)'
    BY <1>1, <2>2 DEF Marred, Kept, Underway, Ahead, Surmised, Returning, Returned, Dangling, Members, Undoable
  <2> QED
    BY <1>0, <1>1, <2>1, <2>3, <2>4 DEF SoundInv
<1>2. CASE StartCommand(p)
  <2>1. PICK update \in BOOLEAN, gs \in Seq(Kinds), e \in Editions :
          Begin(p, update, gs, e) /\ (update => gs = UpdateGroups(e))
    BY <1>2, StartMoves
  <2> DEFINE c == [Idle EXCEPT !.update = update, !.edition = e]
  <2>2. PICK d : d = EnterGroup(c, gs)
    OBVIOUS
  <2>3. c \in Command /\ c.update = update /\ c.edition = e /\ c.done = <<>>
    BY BeginMoves
  <2>4. /\ cmd'[p] = d /\ interruptions' = interruptions
        /\ current' = current /\ releases' = releases /\ rows' = rows
    BY <2>1, <2>2 DEF Begin, TypeInv
  <2> HIDE DEF c
  <2>5. d.groups = gs /\ d.edition = e /\ d.update = update /\ d.done = <<>> /\ d.pc \in {"ended", "desire", "look"}
    BY <2>2, <2>3, EnteredFields
  <2>6. Pruned(cmd[p])'
    BY <2>4, <2>5 DEF Pruned
  <2>7. LatestAhead(cmd[p])'
    <3>1. SUFFICES ASSUME update, NEW r \in Installed
                   PROVE  rows[r].version = Version[e][r] \/ \E g \in DOMAIN gs : r \in ToSet(gs[g])
      BY <2>4, <2>5 DEF LatestAhead, Installed
    <3>2. gs = UpdateGroups(e) /\ r \in Resources
      BY <2>1, <3>1 DEF Installed
    <3>3. SUFFICES ASSUME rows[r].version # Version[e][r]
                   PROVE  \E g \in DOMAIN gs : r \in ToSet(gs[g])
      OBVIOUS
    <3>4. NeedsUpdate(r, e)
      BY <3>3 DEF NeedsUpdate
    <3>5. /\ Php \in ToSet(Pair) /\ FrankenPhp \in ToSet(Pair) /\ Composer \in ToSet(<<Composer>>)
      BY DEF Pair, ToSet
    <3>6. CASE r \in {Php, FrankenPhp}
      <4>1. gs[1] = Pair /\ 1 \in DOMAIN gs
        BY <3>2, <3>4, <3>6 DEF UpdateGroups, PairNeedsUpdate
      <4> QED
        BY <3>5, <3>6, <4>1
    <3>7. CASE r = Composer
      <4>1. \E g \in DOMAIN gs : gs[g] = <<Composer>>
        <5>1. Composer \in Installed /\ NeedsUpdate(Composer, e)
          BY <3>1, <3>4, <3>7
        <5>2. gs = <<Pair>> \o <<<<Composer>>>> \/ gs = <<>> \o <<<<Composer>>>>
          BY <3>2, <5>1 DEF UpdateGroups
        <5>3. CASE gs = <<Pair>> \o <<<<Composer>>>>
          <6>1. ASSUME NEW a, NEW b
                PROVE  DOMAIN (<<a>> \o <<b>>) = 1..2 /\ (<<a>> \o <<b>>)[2] = b
            <7>1. <<a>> \in Seq({a, b}) /\ <<b>> \in Seq({a, b}) /\ Len(<<a>>) = 1 /\ Len(<<b>>) = 1
              OBVIOUS
            <7> QED
              BY <7>1
          <6>2. DOMAIN gs = 1..2 /\ gs[2] = <<Composer>>
            BY <5>3, <6>1
          <6> QED
            BY <6>2
        <5>4. CASE gs = <<>> \o <<<<Composer>>>>
          <6>1. 1 \in DOMAIN gs /\ gs[1] = <<Composer>>
            BY <5>4
          <6> QED
            BY <6>1
        <5> QED
          BY <5>2, <5>3, <5>4
      <4> QED
        BY <3>5, <3>7, <4>1
    <3> QED
      BY <3>2, <3>6, <3>7 DEF Resources
  <2> QED
    BY <1>0, <1>2, <2>4, <2>6, <2>7, PerfectStart, MarredStart DEF SoundInv
<1>3. CASE Step(p)
  <2>1. LatestAhead(cmd[p])' /\ Pruned(cmd[p])'
    BY <1>0, <1>3, LatestStep, PrunedStep
  <2>2. CASE interruptions' = interruptions
    BY <1>0, <1>3, <2>1, <2>2, PerfectStep, MarredStep DEF SoundInv
  <2>3. CASE interruptions' = interruptions + 1
    <3>1. interruptions' # 0 /\ interruptions' # interruptions /\ (interruptions' = 1 => interruptions = 0)
      BY <1>0, <2>3
    <3> QED
      BY <1>0, <1>3, <2>1, <3>1, PerfectOutcome DEF SoundInv
  <2> QED
    BY <1>3, <2>2, <2>3, StepCounts
<1>4. CASE Interrupt(p)
  <2>1. /\ cmd[p].pc \in Steps /\ rows' = rows /\ cmd'[p] \in {Failed(cmd[p]), Idle}
        /\ interruptions' = interruptions + 1
    BY <1>4 DEF Interrupt, Killed, MayInterrupt, TypeInv
  <2>2. PICK d : d = cmd'[p]
    OBVIOUS
  <2>3. Stays(cmd[p], d) /\ d.pc # "point" /\ cmd[p].pc # "idle"
    <3>1. Stays(cmd[p], Failed(cmd[p])) /\ Failed(cmd[p]).pc # "point"
      BY <1>0, <2>1, FailedKeeps DEF Stays
    <3>2. Stays(cmd[p], Idle) /\ Idle.pc # "point"
      BY DEF Stays, Idle
    <3>3. "idle" \notin Steps
      BY DEF Steps
    <3> QED
      BY <2>1, <2>2, <3>1, <3>2, <3>3
  <2>4. \A k \in DOMAIN cmd[p].done : \A r :
          r = cmd[p].done[k].resource => Present(r)' \subseteq Present(r)
    <3> SUFFICES ASSUME NEW k \in DOMAIN cmd[p].done, NEW r, r = cmd[p].done[k].resource
                 PROVE  Present(r)' \subseteq Present(r)
      OBVIOUS
    <3>1. r \in Resources
      BY <2>1, DoneFacts
    <3>2. Promote(p) => r # Res(p)
      BY <2>1, DoneFacts DEF Promote, At, Preparing, Steps
    <3> QED
      BY <1>4, <3>1, <3>2, ReleasesShrink
  <2>5. LatestAhead(cmd[p])' /\ Pruned(cmd[p])'
    BY <1>0, <2>1, <2>2, <2>3, <2>4, LatestStays, PrunedStays
  <2>6. interruptions' # 0 /\ (interruptions' = 1 => interruptions = 0)
    BY <1>0, <2>1
  <2> QED
    BY <1>0, <1>4, <2>5, <2>6, PerfectInterrupt DEF SoundInv
<1>5. ASSUME NEW r \in Resources, NEW v \in Versions, Damage(r, v) PROVE SoundInv(p)'
  <2>1. /\ rows' = rows /\ current' = current /\ cmd' = cmd /\ interruptions' = interruptions + 1
        /\ \A s \in Resources, w \in Versions : releases'[s][w] = "absent" <=> releases[s][w] = "absent"
    BY <1>5 DEF Damage, Valid, MayInterrupt, TypeInv
  <2>2. LatestAhead(cmd[p])'
    BY <1>0, <2>1 DEF LatestAhead, Installed
  <2>3. \A s \in Resources : Present(s)' = Present(s)
    BY <2>1 DEF Present
  <2>4. Pruned(cmd[p])'
    <3>1. \A k \in DOMAIN cmd[p].done : cmd[p].done[k].resource \in Resources
      <4>1. cmd[p].done \in Seq(Install)
        BY <1>0 DEF Command
      <4>2. \A i \in Install : i.resource \in Resources
        BY DEF Install
      <4> QED
        BY <4>1, <4>2
    <3>2. cmd[p].pc = "point" => Res(p) \in Resources
      BY PreparedOne DEF Preparing, Steps
    <3> QED
      BY <1>0, <2>1, <3>1, <3>2 DEF Pruned, Res, Present
  <2>5. interruptions' # 0 /\ (interruptions' = 1 => interruptions = 0)
    BY <1>0, <2>1
  <2> QED
    BY <1>0, <1>5, <2>2, <2>4, <2>5, PerfectDamage DEF SoundInv
<1>6. CASE Publish \/ UNCHANGED vars
  BY <1>1, <1>6 DEF Publish, vars
<1> QED
  BY <1>2, <1>3, <1>4, <1>5, <1>6 DEF Next

-----------------------------------------------------------------------------
(* What the invariant of one process says *)

LEMMA AtMostTwo ==
  ASSUME NEW S, NEW a, NEW b, S \subseteq {a, b}
  PROVE  Cardinality(S) <= 2
<1>1. IsFiniteSet({}) /\ Cardinality({}) = 0
  BY FS_EmptySet
<1>2. IsFiniteSet({a}) /\ Cardinality({a}) = 1
  BY FS_Singleton
<1>3. IsFiniteSet({a} \cup {b}) /\ Cardinality({a} \cup {b}) <= 2
  BY <1>2, FS_AddElement
<1>4. {a} \cup {b} = {a, b}
  OBVIOUS
<1>5. IsFiniteSet(S) /\ Cardinality(S) <= Cardinality({a, b})
  BY <1>3, <1>4, FS_Subset
<1>6. Cardinality(S) \in Nat /\ Cardinality({a, b}) \in Nat
  BY <1>3, <1>4, <1>5, FS_CardinalityType
<1> QED
  BY <1>3, <1>4, <1>5, <1>6

LEMMA SoundInvSays ==
  ASSUME TypeInv, NEW p \in Procs, Procs = {p}, SoundInv(p)
  PROVE  /\ UpdateBringsLatest /\ AtMostTwoReleases
         /\ interruptions <= 1 => CurrentResolves /\ RecordedReleaseKept /\ FailedGroupRestored
<1>1. /\ LatestAhead(cmd[p]) /\ Pruned(cmd[p]) /\ cmd[p] \in Command /\ interruptions \in Nat
      /\ interruptions = 0 => Perfect(p)
      /\ interruptions = 1 => Marred(p)
  BY InstallAssumption DEF SoundInv, TypeInv
<1>2. UpdateBringsLatest
  <2> SUFFICES ASSUME At(p, "ended"), cmd[p].update, ~cmd[p].failed, NEW r \in Installed
               PROVE  rows[r].version = Version[cmd[p].edition][r]
    BY DEF UpdateBringsLatest
  <2>1. cmd[p].groups = <<>>
    BY DEF TypeInv, Progress, At
  <2>2. \A g \in DOMAIN cmd[p].groups : FALSE
    BY <2>1
  <2> QED
    BY <1>1, <2>2 DEF LatestAhead, At
<1>3. cmd[p].done \in Seq(Install)
  BY <1>1 DEF Command
<1>4. \A i \in ToSet(cmd[p].done) : i \in Install /\ \E k \in DOMAIN cmd[p].done : i = cmd[p].done[k]
  BY <1>3 DEF ToSet
<1>5. AtMostTwoReleases
  <2> SUFFICES ASSUME NEW i \in ToSet(cmd[p].done) PROVE Cardinality(Present(i.resource)) <= 2
    BY DEF AtMostTwoReleases
  <2>1. Present(i.resource) \subseteq {i.version, i.prev}
    BY <1>1, <1>4 DEF Pruned
  <2> QED
    BY <2>1, AtMostTwo
<1>6. ASSUME interruptions <= 1 PROVE CurrentResolves /\ RecordedReleaseKept /\ FailedGroupRestored
  <2>1. interruptions = 0 \/ interruptions = 1
    BY <1>1, <1>6
  <2>2. cmd[p].pc \in Resting => \A r \in Resources : Kept(r)
    BY <1>1, <2>1, PerfectKept DEF Marred
  <2>3. CurrentResolves /\ RecordedReleaseKept
    BY <2>2 DEF CurrentResolves, RecordedReleaseKept, Settled, Resting, Kept
  <2>4. FailedGroupRestored
    <3> SUFFICES ASSUME At(p, "ended"), cmd[p].failed, Len(cmd[p].groups[1]) > 1,
                        NEW i \in ToSet(cmd[p].done)
                 PROVE  /\ current[i.resource] = cmd[p].before[i.resource]
                        /\ ~Dangling(i.resource)
                        /\ ~i.existed => releases[i.resource][i.version] = "absent"
      BY DEF FailedGroupRestored
    <3>1. interruptions = 1 /\ Marred(p)
      BY <1>1, <2>1 DEF Perfect
    <3>2. i \in Install /\ i.resource \in Resources
      BY <1>4 DEF Install
    <3>3. PICK k \in DOMAIN cmd[p].done : i = cmd[p].done[k]
      BY <1>4
    <3>4. Returned(cmd[p], i)
      BY <3>1, <3>3 DEF Marred, At
    <3>5. ~Dangling(i.resource)
      BY <2>2, <3>2 DEF At, Resting, Kept
    <3> QED
      BY <3>4, <3>5 DEF Returned
  <2> QED
    BY <2>3, <2>4
<1> QED
  BY <1>2, <1>5, <1>6

(* install, update and rollback with one process at a time: whatever manifests are
   published and however many commands run, after at most one error, death or
   damaged release the links name releases that are there, the rows name releases
   that are there, a command that succeeds leaves at most two releases of what it
   installed last, and the versions of the PHP pair come from one manifest. *)
THEOREM InstallationsAreSound ==
  ASSUME NEW CONSTANT p, Procs = {p}
  PROVE  Spec => [](interruptions <= 1 => InstallationSound)
<1>0. p \in Procs
  OBVIOUS
<1>1. Init => PairInv /\ SoundInv(p)
  BY <1>0, TypeInvInit, SoundInvInit DEF PairInv, Init, PairFromOneManifest, Resources
<1>2. PairInv /\ SoundInv(p) /\ [Next]_vars => (PairInv /\ SoundInv(p))'
  BY <1>0, PairInvStep, SoundInvStep DEF PairInv
<1>3. PairInv /\ SoundInv(p) => (interruptions <= 1 => InstallationSound)
  BY <1>0, TypeInvTypes, SoundInvSays DEF PairInv, InstallationSound
<1> QED
  BY <1>1, <1>2, <1>3, PTL DEF Spec

(* rollback_prepared_installs: a group that failed, by the one error that happened,
   has put the links of its prepared members back to what they were, to releases
   that are there, and left no release it had unpacked. *)
THEOREM FailedGroupsAreRestored ==
  ASSUME NEW CONSTANT p, Procs = {p}
  PROVE  Spec => [](interruptions <= 1 => FailedGroupRestored)
<1>0. p \in Procs
  OBVIOUS
<1>1. Init => TypeInv /\ SoundInv(p)
  BY <1>0, TypeInvInit, SoundInvInit
<1>2. TypeInv /\ SoundInv(p) /\ [Next]_vars => (TypeInv /\ SoundInv(p))'
  BY <1>0, TypeInvStep, SoundInvStep
<1>3. TypeInv /\ SoundInv(p) => (interruptions <= 1 => FailedGroupRestored)
  BY <1>0, SoundInvSays
<1> QED
  BY <1>1, <1>2, <1>3, PTL DEF Spec

(* update_all_installed and prune_old_releases: after any number of errors, deaths
   and damaged releases, an update that succeeds has every installed track, the
   skipped ones too, at the version of the manifest it fetched, and a command that
   succeeds leaves at most two releases of what it installed last. *)
THEOREM UpdatesBringLatest ==
  ASSUME NEW CONSTANT p, Procs = {p}
  PROVE  Spec => [](UpdateBringsLatest /\ AtMostTwoReleases)
<1>0. p \in Procs
  OBVIOUS
<1>1. Init => TypeInv /\ SoundInv(p)
  BY <1>0, TypeInvInit, SoundInvInit
<1>2. TypeInv /\ SoundInv(p) /\ [Next]_vars => (TypeInv /\ SoundInv(p))'
  BY <1>0, TypeInvStep, SoundInvStep
<1>3. TypeInv /\ SoundInv(p) => UpdateBringsLatest /\ AtMostTwoReleases
  BY <1>0, SoundInvSays
<1> QED
  BY <1>1, <1>2, <1>3, PTL DEF Spec
=============================================================================
