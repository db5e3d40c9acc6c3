----------------------- MODULE ManagedResourcesProofs -----------------------
(***************************************************************************)
(* Proofs about ManagedResources for any projects, tracks, ports and       *)
(* artifact versions, and any number of jobs, commands, deaths and edits:  *)
(* the stored secret is the one of the data directory, a ready allocation  *)
(* exists, no needed runtime is stopped, and a project is reported         *)
(* rendered only with a current .env.                                      *)
(***************************************************************************)
EXTENDS ManagedResources, FiniteSetTheorems, WellFoundedInduction, TLAPS

Plan == [track : Tracks, alloc : BOOLEAN]
EnvContext == [port : Ports, secret : Nat]
Allocation == [track : Tracks, status : {"desired", "ready", "inactive"}, port : Ports \cup {0}]
Command ==
  [op : {"link", "unlink"}, p : Projects]
    \cup [op : {"install", "download"}, t : Tracks, version : 0..MaxVersion]
    \cup [op : {"uninstall", "remove"}, t : Tracks, force : BOOLEAN]

(* Steps of a job at which the port of its track is assigned, and those after
   the context of the track was recorded. *)
Contexted == {"prepare", "start", "ready", "allocations", "mark", "render"}
Ported == Contexted \cup {"env"}

(* Steps at which a job works on a track, and on a project. *)
OnTrack == Ported \cup {"updating", "artifact", "install", "ports"}
OnProject == Ported \cup {"require", "allocate", "snapshot", "artifact", "install", "ports", "finalize"}

(* Steps of a job that is not at a project. *)
Between == {"idle", "next", "missing", "update", "updating"}

(* Steps at which a job holds an artifact version. *)
Versioned == {"update", "updating", "install", "ports", "env", "prepare", "start", "ready"}

Steps == OnTrack \cup OnProject \cup Between \cup {"stop"}

Job == [kind : {None, "project", "resource", "system", "update"}, pc : Steps,
        todo : SUBSET Projects, pass : Nat, p : Projects \cup {None}, plan : Plan \cup {None},
        left : SUBSET Tracks, attempt : Nat, env : EnvContext \cup {None},
        artifact : 0..MaxVersion, started : BOOLEAN, changed : BOOLEAN, failed : BOOLEAN]

(* What a job holds at each step. *)
JobTypeOK ==
  /\ job \in Job
  /\ job.pc \in OnTrack => job.plan \in Plan
  /\ job.pc \in OnProject => job.p \in Projects
  /\ job.pc \in Versioned => job.artifact # 0
  /\ job.pc \in Between => job.p = None
  /\ job.env # None => job.env.secret \in 1..minted

RowTypeOK ==
  /\ config \in [Projects -> Configs]
  /\ allocation \in [Projects -> Allocation \cup {None}]
  /\ envFile \in [Projects -> [track : Tracks, port : Ports, secret : Nat] \cup {None}]
  /\ cli \in Command \cup {None}
  /\ published \in 1..MaxVersion /\ minted \in Nat
  /\ usage = UsageOf(requirement)
  /\ \A t \in Tracks : files[t] # None => files[t].track = t

(* The rows and the disk: types, what the three promises below say of them, and
   a link that is under way is of a new project. *)
RowsInv ==
  /\ RowTypeOK
  /\ ReadyAllocationExists
  /\ SecretsMatchData
  /\ probed => \A t \in Tracks : data[t] = 0
  /\ Running("link") => link[cli.p] = "new"

(* The tracks that a job is about to stop are required by no project, and a
   linked project at hand requires the track of the plan.  No project comes
   back: one that a job works on is linked or gone. *)
DemandIsKnown ==
  /\ job.pc = "stop" => \A t \in job.left, p \in Projects : requirement[p] # t
  /\ job.pc # "require" /\ job.p # None /\ job.plan # None /\ job.p \in Linked =>
       requirement[job.p] = Track
  /\ job.p # None => link[job.p] # "new"

(* The context that the job read is the stored one until it records its own,
   for the resources whose data directory keeps the secret. *)
SecretIsKept == job.pc \in {"ports", "env"} /\ ~probed => job.env = row[Track].env

(* From a step on, the port is assigned, the context names it, the allocation
   exists and the .env is written. *)
TrackIsPrepared ==
  /\ job.pc \in Ported => port[Track] # 0
  /\ job.pc \in Contexted => row[Track].env # None /\ row[Track].env.port = port[Track]
  /\ job.pc = "mark" => job.p \in databases[Track]
  /\ job.pc = "finalize" /\ job.plan # None =>
       /\ row[Track].env # None /\ row[Track].env.port = port[Track]
       /\ envFile[job.p] = [track |-> Track, port |-> port[Track], secret |-> row[Track].env.secret]

JobInv == JobTypeOK /\ DemandIsKnown /\ SecretIsKept /\ TrackIsPrepared

ResourceInv == RowsInv /\ JobInv

-----------------------------------------------------------------------------
(* The rows *)

(* Nothing but the job, what is observed of projects and what listens changes. *)
LEMMA RowsStay ==
  ASSUME RowsInv, link' = link, requirement' = requirement, allocation' = allocation,
         usage' = usage, row' = row, port' = port,
         observed' \in [Projects -> {None, "failed", "rendered"}],
         config' = config, envFile' = envFile, data' = data, databases' = databases,
         files' = files, procs' = procs, probed' = probed, published' = published,
         minted' = minted, cli' = cli
  PROVE  RowsInv'
  BY DEF RowsInv, RowTypeOK, ReadyAllocationExists, ResourceTypeOK, SecretsMatchData, Running

(* A job between two projects, or no job. *)
LEMMA JobWaits ==
  ASSUME job' \in Job, job'.pc \in {"idle", "next"}, job'.p = None,
         job'.env # None => job'.env.secret \in 1..minted'
  PROVE  JobInv'
<1> USE DEF OnTrack, OnProject, Versioned, Ported, Contexted
<1>1. JobTypeOK'
  BY DEF JobTypeOK
<1>2. DemandIsKnown'
  BY DEF DemandIsKnown
<1>3. SecretIsKept' /\ TrackIsPrepared'
  BY DEF SecretIsKept, TrackIsPrepared
<1> QED
  BY <1>1, <1>2, <1>3 DEF JobInv

LEMMA NoJobIsJob == /\ NoJob \in Job /\ NoJob.pc = "idle" /\ NoJob.p = None /\ NoJob.env = None
                    /\ NoJob.plan = None
<1>1. 0 \in 0..MaxVersion
  BY ConstantsAssumption
<1> QED
  BY <1>1 DEF NoJob, Job, Steps, Between

LEMMA ProjectFailsKeeps ==
  ASSUME ResourceInv, ProjectFails, minted' = minted
  PROVE  JobInv' /\ observed' \in [Projects -> {None, "failed", "rendered"}]
<1>1. observed' \in [Projects -> {None, "failed", "rendered"}]
  BY DEF ResourceInv, RowsInv, ReadyAllocationExists, ResourceTypeOK, ProjectFails
<1>2. job \in Job /\ (job.env # None => job.env.secret \in 1..minted)
  BY DEF ResourceInv, JobInv, JobTypeOK
<1>3. CASE job' = NoJob
  BY <1>1, <1>3, NoJobIsJob, JobWaits
<1>4. CASE job' = [job EXCEPT !.pc = "next", !.p = None, !.plan = None, !.left = {}]
  <2>1. /\ job' \in Job /\ job'.pc = "next" /\ job'.p = None /\ job'.env = job.env
    BY <1>2, <1>4 DEF Job, Steps, Between
  <2> QED
    BY <1>1, <1>2, <2>1, JobWaits
<1> QED
  BY <1>3, <1>4 DEF ProjectFails

(* A step of the job that fails its project and changes no row. *)
LEMMA OnlyProjectFails ==
  ASSUME ResourceInv, ProjectFails, link' = link, requirement' = requirement,
         allocation' = allocation, usage' = usage, row' = row, port' = port,
         config' = config, envFile' = envFile, data' = data, databases' = databases,
         files' = files, procs' = procs, probed' = probed, published' = published,
         minted' = minted, cli' = cli
  PROVE  ResourceInv'
  BY ProjectFailsKeeps, RowsStay DEF ResourceInv

LEMMA ResourceInvInit == Init => ResourceInv
<1> SUFFICES ASSUME Init PROVE ResourceInv
  OBVIOUS
<1> USE DEF Init
<1>1. JobInv
  <2>1. job \in Job /\ job.pc = "idle" /\ job.p = None /\ job.env = None
    BY NoJobIsJob
  <2> QED
    BY <2>1 DEF JobInv, JobTypeOK, DemandIsKnown, SecretIsKept, TrackIsPrepared, OnTrack,
       OnProject, Versioned, Ported, Contexted
<1>2. usage = UsageOf(requirement) /\ usage \in [Tracks -> 0..Cardinality(Projects)]
  <2>1. ASSUME NEW t \in Tracks PROVE {p \in Projects : requirement[p] = t} = {}
    BY ConstantsAssumption
  <2>2. UsageOf(requirement) = [t \in Tracks |-> 0]
    BY <2>1, FS_EmptySet DEF UsageOf
  <2>3. Cardinality(Projects) \in Nat
    BY ConstantsAssumption, FS_CardinalityType
  <2> QED
    BY <2>2, <2>3
<1>3. published \in 1..MaxVersion
  BY ConstantsAssumption
<1>4. RowTypeOK
  BY <1>2, <1>3, ConstantsAssumption DEF RowTypeOK
<1>5. ResourceTypeOK
  BY <1>2, ConstantsAssumption DEF ResourceTypeOK
<1> QED
  BY <1>1, <1>4, <1>5 DEF ResourceInv, RowsInv, ReadyAllocationExists, SecretsMatchData, Running

-----------------------------------------------------------------------------
(* Steps of a job that change the job only *)

LEMMA JobFacts ==
  ASSUME ResourceInv
  PROVE  /\ job \in Job /\ job.pc \in Steps
         /\ job.pc \in OnTrack => job.plan \in Plan /\ job.plan # None /\ Track \in Tracks
         /\ job.pc \in OnProject => job.p \in Projects /\ job.p # None
         /\ job.plan # None => job.plan \in Plan /\ Track \in Tracks
         /\ job.p # None => job.p \in Projects /\ link[job.p] # "new"
         /\ job.pc \in Versioned => job.artifact # 0 /\ job.artifact \in 1..MaxVersion
         /\ job.artifact \in 0..MaxVersion
         /\ job.env # None => job.env.secret \in 1..minted
         /\ job.left \subseteq Tracks
<1>1. /\ job \in Job
      /\ job.pc \in OnTrack => job.plan \in Plan
      /\ job.pc \in OnProject => job.p \in Projects
      /\ job.pc \in Versioned => job.artifact # 0
      /\ job.env # None => job.env.secret \in 1..minted
      /\ job.p # None => link[job.p] # "new"
  BY DEF ResourceInv, JobInv, JobTypeOK, DemandIsKnown
<1>2. /\ job.pc \in Steps /\ job.plan \in Plan \cup {None} /\ job.p \in Projects \cup {None}
      /\ job.artifact \in 0..MaxVersion /\ job.left \subseteq Tracks
  BY <1>1 DEF Job
<1>3. None \notin Plan /\ None \notin Projects
  BY ConstantsAssumption, NoneAssumption DEF Plan
<1>4. job.plan \in Plan => Track \in Tracks
  BY DEF Plan, Track
<1>5. job.artifact # 0 => job.artifact \in 1..MaxVersion
  BY <1>2, ConstantsAssumption
<1> QED
  BY <1>1, <1>2, <1>3, <1>4, <1>5

LEMMA RowFacts ==
  ASSUME ResourceInv
  PROVE  /\ link \in [Projects -> {"new", "linked", "gone"}]
         /\ requirement \in [Projects -> Tracks \cup {None}]
         /\ allocation \in [Projects -> Allocation \cup {None}]
         /\ observed \in [Projects -> {None, "failed", "rendered"}]
         /\ config \in [Projects -> Configs]
         /\ row \in [Tracks -> [desired : {None, "installed", "removed"}, artifact : 0..MaxVersion,
                                env : {None} \cup [port : Ports, secret : 1..minted]]]
         /\ usage = UsageOf(requirement)
         /\ port \in [Tracks -> Ports \cup {0}]
         /\ data \in [Tracks -> 0..minted] /\ databases \in [Tracks -> SUBSET Projects]
         /\ files \in [Tracks -> ProcessType \cup {None}] /\ procs \subseteq ProcessType
         /\ published \in 1..MaxVersion /\ minted \in Nat
  BY DEF ResourceInv, RowsInv, RowTypeOK, ReadyAllocationExists, ResourceTypeOK

(* A track without usage is required by no project. *)
LEMMA UnusedIsUnrequired ==
  ASSUME ResourceInv, NEW t \in Tracks, usage[t] = 0, NEW p \in Projects
  PROVE  requirement[p] # t
<1> DEFINE S == {q \in Projects : requirement[q] = t}
<1>1. usage[t] = Cardinality(S)
  BY RowFacts DEF UsageOf
<1>2. IsFiniteSet(S)
  BY ConstantsAssumption, FS_Subset
<1>3. S = {}
  BY <1>1, <1>2, FS_EmptySet
<1> QED
  BY <1>3

LEMMA JobStarts ==
  ASSUME ResourceInv, NEW kind \in {"project", "resource", "system", "update"},
         NEW ps \in SUBSET Projects, StartJob(kind, ps)
  PROVE  ResourceInv'
<1>1. RowsInv'
  BY RowFacts, RowsStay DEF ResourceInv, StartJob, projectRows, disk, world
<1>2. CASE kind # "update"
  <2>1. job' = [NoJob EXCEPT !.kind = kind, !.pass = 1, !.todo = ps, !.pc = "next"]
    BY <1>2 DEF StartJob
  <2>2. job' \in Job /\ job'.pc = "next" /\ job'.p = None /\ job'.env = None
    BY <2>1, NoJobIsJob DEF Job, Steps, Between
  <2> QED
    BY <1>1, <2>2, JobWaits DEF ResourceInv
<1>3. CASE kind = "update"
  <2> DEFINE T == {t \in Tracks : row[t].desired = "installed" /\ row[t].artifact \notin {0, published}}
  <2>1. job' = [NoJob EXCEPT !.kind = kind, !.pass = 1, !.pc = "update", !.artifact = published,
                             !.left = T]
    BY <1>3 DEF StartJob
  <2>2. T \in SUBSET Tracks /\ published \in 0..MaxVersion /\ published # 0
    BY RowFacts, ConstantsAssumption
  <2> HIDE DEF T
  <2>3. /\ job' \in Job /\ job'.pc = "update" /\ job'.p = None /\ job'.env = None
        /\ job'.artifact # 0
    BY <2>1, <2>2, NoJobIsJob DEF Job, Steps, Between
  <2>4. JobInv'
    BY <2>3 DEF JobInv, JobTypeOK, DemandIsKnown, SecretIsKept, TrackIsPrepared, OnTrack,
       OnProject, Versioned, Ported, Contexted
  <2> QED
    BY <1>1, <2>4 DEF ResourceInv
<1> QED
  BY <1>2, <1>3

(* The job goes to step x, and changes nothing it knows. *)
LEMMA PassStepKeeps ==
  ASSUME ResourceInv, UpdateEnds \/ PassEnds \/ SnapshotTracks \/ StopsDone \/ SecondPass
  PROVE  ResourceInv'
<1>1. RowsInv'
  BY RowFacts, RowsStay DEF ResourceInv, UpdateEnds, PassEnds, SnapshotTracks, StopsDone,
     SecondPass, projectRows, disk, world
<1>2. /\ requirement' = requirement /\ link' = link /\ minted' = minted /\ row' = row
      /\ port' = port /\ envFile' = envFile /\ databases' = databases /\ probed' = probed
  BY DEF UpdateEnds, PassEnds, SnapshotTracks, StopsDone, SecondPass, projectRows, disk, world
<1>3. CASE job' = NoJob
  BY <1>1, <1>3, NoJobIsJob, JobWaits DEF ResourceInv
<1>4. Linked \in SUBSET Projects
  BY DEF Linked
<1>5. CASE UpdateEnds /\ job' # NoJob
  <2>1. job.pc = "update" /\ job' = [job EXCEPT !.pc = "next", !.todo = Linked]
    BY <1>5 DEF UpdateEnds, At
  <2>2. job.p = None
    BY <2>1 DEF ResourceInv, JobInv, JobTypeOK, Between
  <2>3. job' \in Job /\ job'.pc = "next" /\ job'.p = None /\ job'.env = job.env
    BY <1>4, <2>1, <2>2, JobFacts DEF Job, Steps, Between
  <2> QED
    BY <1>1, <1>2, <2>3, JobFacts, JobWaits DEF ResourceInv
<1>6. CASE SecondPass /\ job' # NoJob
  <2>1. job.pc = "missing" /\ job' = [job EXCEPT !.pc = "next", !.pass = 2, !.todo = Linked]
    BY <1>6 DEF SecondPass, At
  <2>2. job.p = None
    BY <2>1 DEF ResourceInv, JobInv, JobTypeOK, Between
  <2>3. job' \in Job /\ job'.pc = "next" /\ job'.p = None /\ job'.env = job.env
    BY <1>4, <2>1, <2>2, JobFacts DEF Job, Steps, Between
  <2> QED
    BY <1>1, <1>2, <2>3, JobFacts, JobWaits DEF ResourceInv
<1>7. CASE /\ SnapshotTracks \/ (PassEnds /\ job' # NoJob)
  <2>1. PICK demanded : job' = [job EXCEPT !.pc = "stop", !.left = Undemanded(demanded)]
    BY <1>7 DEF SnapshotTracks, PassEnds
  <2>2. Undemanded(demanded) \in SUBSET Tracks
        /\ \A t \in Undemanded(demanded), p \in Projects : requirement[p] # t
    BY UnusedIsUnrequired DEF Undemanded
  <2>3. job.pc \in {"snapshot", "next"}
    BY <1>7 DEF SnapshotTracks, PassEnds, At
  <2>4. /\ job' \in Job /\ job'.pc = "stop" /\ job'.p = job.p /\ job'.plan = job.plan
        /\ job'.left = Undemanded(demanded) /\ job'.env = job.env
    BY <2>1, <2>2, JobFacts DEF Job, Steps
  <2>5. JobTypeOK'
    BY <1>2, <2>4, JobFacts DEF JobTypeOK, OnTrack, OnProject, Versioned, Ported, Contexted, Between
  <2>6. DemandIsKnown'
    BY <1>2, <2>2, <2>3, <2>4 DEF ResourceInv, JobInv, DemandIsKnown, Linked, Track
  <2>7. SecretIsKept' /\ TrackIsPrepared'
    BY <2>4 DEF SecretIsKept, TrackIsPrepared, Ported, Contexted
  <2> QED
    BY <1>1, <2>5, <2>6, <2>7 DEF ResourceInv, JobInv
<1>8. CASE StopsDone
  <2>1. PICK x \in {"missing", "finalize", "artifact"}, L \in SUBSET Tracks :
          /\ job' = [job EXCEPT !.pc = x, !.left = L]
          /\ \/ x = "missing" /\ job.p = None
             \/ x = "finalize" /\ job.p # None /\ job.plan = None
             \/ x = "artifact" /\ job.p # None /\ job.plan # None
    <3> DEFINE x == CASE Project = None -> "missing"
                      [] Project # None /\ job.plan = None -> "finalize"
                      [] OTHER -> "artifact"
               L == IF Project # None THEN {}
                    ELSE {t \in Tracks : row[t].desired = "installed" /\ row[t].artifact = 0}
    <3>1. job' = [job EXCEPT !.pc = x, !.left = L]
      BY <1>8 DEF StopsDone
    <3>2. L \in SUBSET Tracks
      OBVIOUS
    <3>3. \/ x = "missing" /\ job.p = None
          \/ x = "finalize" /\ job.p # None /\ job.plan = None
          \/ x = "artifact" /\ job.p # None /\ job.plan # None
      BY DEF Project
    <3> HIDE DEF x, L
    <3> QED
      BY <3>1, <3>2, <3>3
  <2>2. /\ job' \in Job /\ job'.pc = x /\ job'.p = job.p /\ job'.plan = job.plan
        /\ job'.env = job.env
    BY <2>1, JobFacts DEF Job, Steps, OnProject, Between
  <2>3. job.pc = "stop"
    BY <1>8 DEF StopsDone, At
  <2>4. JobTypeOK'
    BY <1>2, <2>1, <2>2, JobFacts DEF JobTypeOK, OnTrack, OnProject, Versioned, Ported, Contexted,
       Between
  <2>5. DemandIsKnown'
    BY <1>2, <2>1, <2>2, <2>3 DEF ResourceInv, JobInv, DemandIsKnown, Linked, Track
  <2>6. SecretIsKept' /\ TrackIsPrepared'
    BY <2>1, <2>2 DEF SecretIsKept, TrackIsPrepared, Ported, Contexted
  <2> QED
    BY <1>1, <2>4, <2>5, <2>6 DEF ResourceInv, JobInv
<1> QED
  BY <1>3, <1>5, <1>6, <1>7, <1>8

(* Artifacts and desired states change, contexts do not. *)
LEMMA ArtifactsChange ==
  ASSUME RowsInv,
         row' \in [Tracks -> [desired : {None, "installed", "removed"}, artifact : 0..MaxVersion,
                              env : {None} \cup [port : Ports, secret : 1..minted]]],
         \A t \in Tracks : row'[t].env = row[t].env,
         link' = link, requirement' = requirement, allocation' = allocation,
         usage' = usage, port' = port,
         observed' \in [Projects -> {None, "failed", "rendered"}],
         config' = config, envFile' = envFile, data' = data, databases' = databases,
         files' = files, procs' = procs, probed' = probed, published' = published,
         minted' = minted, cli' \in Command \cup {None}, Running("link")' => cli' = cli
  PROVE  RowsInv'
<1>1. RowTypeOK' /\ ResourceTypeOK'
  BY DEF RowsInv, RowTypeOK, ReadyAllocationExists, ResourceTypeOK
<1>2. SecretsMatchData'
  BY DEF RowsInv, SecretsMatchData
<1>3. Running("link")' => (link[cli.p] = "new")'
  BY DEF RowsInv, Running
<1> QED
  BY <1>1, <1>2, <1>3 DEF RowsInv, ReadyAllocationExists

(* What the transactions on a track do to its row. *)
LEMMA RecordsKeepContexts ==
  ASSUME ResourceInv, NEW t \in Tracks, NEW v \in 0..MaxVersion,
         \/ RecordDesired(t) \/ RecordInstalled(t, v)
         \/ row' = [row EXCEPT ![t].desired = "installed", ![t].artifact = v]
         \/ row' = [row EXCEPT ![t].desired = "removed"]
         \/ row' = [row EXCEPT ![t] = DesiredOnDemand(@)]
         \/ row' = row
  PROVE  /\ row' \in [Tracks -> [desired : {None, "installed", "removed"}, artifact : 0..MaxVersion,
                                 env : {None} \cup [port : Ports, secret : 1..minted]]]
         /\ \A u \in Tracks : row'[u].env = row[u].env
<1> DEFINE Row == [desired : {None, "installed", "removed"}, artifact : 0..MaxVersion,
                   env : {None} \cup [port : Ports, secret : 1..minted]]
<1>1. row \in [Tracks -> Row]
  BY RowFacts
<1>2. ASSUME NEW r \in Row, r.env = row[t].env, row' = [row EXCEPT ![t] = r]
      PROVE  row' \in [Tracks -> Row] /\ \A u \in Tracks : row'[u].env = row[u].env
  BY <1>1, <1>2
<1>3. CASE RecordDesired(t)
  <2>1. [row[t] EXCEPT !.desired = "installed"] \in Row
    BY <1>1
  <2> QED
    BY <1>1, <1>2, <1>3, <2>1 DEF RecordDesired
<1>4. CASE RecordInstalled(t, v)
  <2> DEFINE r == [row[t] EXCEPT !.artifact = v, !.desired = IF @ = None THEN "installed" ELSE @]
  <2>1. r \in Row /\ r.env = row[t].env
    BY <1>1
  <2>2. row' = [row EXCEPT ![t] = r]
    BY <1>4 DEF RecordInstalled
  <2> HIDE DEF r
  <2> QED
    BY <1>2, <2>1, <2>2
<1>5. CASE row' = [row EXCEPT ![t].desired = "installed", ![t].artifact = v]
  <2> DEFINE r == [row[t] EXCEPT !.desired = "installed", !.artifact = v]
  <2>1. r \in Row /\ r.env = row[t].env
    BY <1>1
  <2>2. row' = [row EXCEPT ![t] = r]
    BY <1>5
  <2> HIDE DEF r
  <2> QED
    BY <1>2, <2>1, <2>2
<1>6. CASE row' = [row EXCEPT ![t].desired = "removed"]
  BY <1>1, <1>6
<1>7. CASE row' = [row EXCEPT ![t] = DesiredOnDemand(@)]
  <2>1. DesiredOnDemand(row[t]) \in Row /\ DesiredOnDemand(row[t]).env = row[t].env
    BY <1>1 DEF DesiredOnDemand
  <2> QED
    BY <1>2, <1>7, <2>1
<1> QED
  BY <1>1, <1>3, <1>4, <1>5, <1>6, <1>7

LEMMA UpdateStepKeeps ==
  ASSUME ResourceInv,
         \/ \E t \in Tracks : UpdateTrack(t) \/ InstallMissing(t)
         \/ UpdateInstalled
  PROVE  ResourceInv'
<1>1. /\ link' = link /\ requirement' = requirement /\ allocation' = allocation
      /\ usage' = usage /\ port' = port /\ observed' = observed
      /\ config' = config /\ envFile' = envFile /\ data' = data /\ databases' = databases
      /\ files' = files /\ procs' = procs /\ probed' = probed /\ published' = published
      /\ minted' = minted /\ cli' = cli
  BY DEF UpdateTrack, InstallMissing, UpdateInstalled, projectRows, disk, world
<1>2. ASSUME /\ row' \in [Tracks -> [desired : {None, "installed", "removed"}, artifact : 0..MaxVersion,
                                     env : {None} \cup [port : Ports, secret : 1..minted]]]
             /\ \A u \in Tracks : row'[u].env = row[u].env,
             job' \in Job, job'.pc \in {"update", "updating", "missing"}, job'.p = None,
             job'.pc = "updating" => job'.plan \in Plan,
             job'.pc \in Versioned => job'.artifact # 0, job'.env = job.env
      PROVE  ResourceInv'
  <2>1. RowsInv'
    <3>1. cli' \in Command \cup {None}
      BY <1>1 DEF ResourceInv, RowsInv, RowTypeOK
    <3> QED
      BY <1>1, <1>2, <3>1, RowFacts, ArtifactsChange DEF ResourceInv
  <2>2. JobTypeOK'
    BY <1>1, <1>2, JobFacts DEF JobTypeOK, OnTrack, OnProject, Ported, Contexted, Between
  <2>3. DemandIsKnown' /\ SecretIsKept' /\ TrackIsPrepared'
    BY <1>2 DEF DemandIsKnown, SecretIsKept, TrackIsPrepared, Ported, Contexted
  <2> QED
    BY <2>1, <2>2, <2>3 DEF ResourceInv, JobInv
<1>3. ASSUME NEW t \in Tracks, UpdateTrack(t) PROVE ResourceInv'
  <2>1. /\ job.pc = "update" /\ RecordDesired(t)
        /\ job' = [job EXCEPT !.pc = "updating", !.plan = [track |-> t, alloc |-> FALSE]]
    BY <1>3 DEF UpdateTrack, At
  <2>2. job.p = None /\ job.artifact # 0
    BY <2>1 DEF ResourceInv, JobInv, JobTypeOK, Between, Versioned
  <2>3. [track |-> t, alloc |-> FALSE] \in Plan
    BY DEF Plan
  <2>4. /\ job' \in Job /\ job'.pc = "updating" /\ job'.p = None /\ job'.plan \in Plan
        /\ job'.artifact # 0 /\ job'.env = job.env
    BY <2>1, <2>2, <2>3, JobFacts DEF Job, Steps, OnTrack
  <2>5. published \in 0..MaxVersion
    BY RowFacts, ConstantsAssumption
  <2> QED
    BY <1>2, <2>1, <2>4, <2>5, RecordsKeepContexts
<1>4. ASSUME NEW t \in Tracks, InstallMissing(t) PROVE ResourceInv'
  <2>1. /\ job.pc = "missing"
        /\ \/ job' = [job EXCEPT !.left = @ \ {t}]
           \/ job' = [job EXCEPT !.left = @ \ {t}, !.failed = TRUE]
        /\ \/ RecordDesired(t)
           \/ row' = [row EXCEPT ![t].desired = "installed", ![t].artifact = published]
    BY <1>4 DEF InstallMissing, At
  <2>2. job.p = None
    BY <2>1 DEF ResourceInv, JobInv, JobTypeOK, Between
  <2>3. job' \in Job /\ job'.pc = "missing" /\ job'.p = None /\ job'.env = job.env
    BY <2>1, <2>2, JobFacts DEF Job
  <2>4. published \in 0..MaxVersion
    BY RowFacts, ConstantsAssumption
  <2> QED
    BY <1>2, <2>1, <2>3, <2>4, RecordsKeepContexts DEF Versioned
<1>5. CASE UpdateInstalled
  <2>1. /\ job.pc = "updating" /\ RecordInstalled(Track, job.artifact)
        /\ job' = [job EXCEPT !.pc = "update", !.left = @ \ {Track}, !.plan = None, !.changed = TRUE]
    BY <1>5 DEF UpdateInstalled, At
  <2>2. /\ job.p = None /\ job.artifact # 0 /\ job.artifact \in 0..MaxVersion
        /\ Track \in Tracks
    BY <2>1, JobFacts DEF ResourceInv, JobInv, JobTypeOK, Between, Versioned, OnTrack
  <2>3. /\ job' \in Job /\ job'.pc = "update" /\ job'.p = None
        /\ job'.artifact # 0 /\ job'.env = job.env
    BY <2>1, <2>2, JobFacts DEF Job, Steps, Between
  <2> QED
    BY <1>2, <2>1, <2>2, <2>3, RecordsKeepContexts
<1> QED
  BY <1>3, <1>4, <1>5

LEMMA LoadProjectKeeps ==
  ASSUME ResourceInv, NEW p \in Projects, LoadProject(p)
  PROVE  ResourceInv'
<1>1. RowsInv' /\ link' = link /\ requirement' = requirement /\ minted' = minted
  BY RowFacts, RowsStay DEF ResourceInv, LoadProject, projectRows, disk, world
<1>2. job.pc = "next" /\ job.p = None
  BY DEF LoadProject, At, ResourceInv, JobInv, JobTypeOK, Between
<1>3. CASE job' = NoJob
  BY <1>1, <1>3, NoJobIsJob, JobWaits DEF ResourceInv
<1>4. CASE job' = [job EXCEPT !.todo = @ \ {p}]
  <2>1. job' \in Job /\ job'.pc = "next" /\ job'.p = None /\ job'.env = job.env
    BY <1>2, <1>4, JobFacts DEF Job
  <2> QED
    BY <1>1, <2>1, JobFacts, JobWaits DEF ResourceInv
<1>5. CASE /\ p \in Linked
           /\ job' = [job EXCEPT !.todo = @ \ {p}, !.p = p, !.attempt = 1, !.pc = "require",
                        !.plan = IF config[p].track = None THEN None
                                 ELSE [track |-> ResolvedTrack(p), alloc |-> config[p].alloc]]
  <2>1. config[p].track \in Tracks \cup {Latest, None} /\ config[p].alloc \in BOOLEAN
    BY RowFacts, ConstantsAssumption
  <2>2. config[p].track # None => ResolvedTrack(p) \in Tracks
    BY <2>1, RowFacts, ConstantsAssumption DEF ResolvedTrack
  <2>3. PICK plan \in Plan \cup {None} :
          job' = [job EXCEPT !.todo = @ \ {p}, !.p = p, !.attempt = 1, !.pc = "require", !.plan = plan]
    <3> DEFINE new == IF config[p].track = None THEN None
                      ELSE [track |-> ResolvedTrack(p), alloc |-> config[p].alloc]
    <3>1. new \in Plan \cup {None}
      BY <2>1, <2>2 DEF Plan
    <3>2. job' = [job EXCEPT !.todo = @ \ {p}, !.p = p, !.attempt = 1, !.pc = "require", !.plan = new]
      BY <1>5
    <3> HIDE DEF new
    <3> QED
      BY <3>1, <3>2
  <2>4. /\ job' \in Job /\ job'.pc = "require" /\ job'.p = p /\ job'.env = job.env
        /\ link[p] = "linked"
    <3>1. job \in Job /\ link[p] = "linked" /\ "require" \in Steps
      BY <1>5, JobFacts DEF Linked, Steps, OnProject
    <3>2. job' \in Job
      BY <2>3, <3>1 DEF Job
    <3>3. job'.pc = "require" /\ job'.p = p /\ job'.env = job.env
      BY <2>3, <3>1 DEF Job
    <3> QED
      BY <3>1, <3>2, <3>3
  <2>5. JobTypeOK'
    BY <1>1, <2>4, JobFacts DEF JobTypeOK, OnTrack, Versioned, Ported, Contexted, Between
  <2>6. DemandIsKnown' /\ SecretIsKept' /\ TrackIsPrepared'
    BY <1>1, <2>4 DEF DemandIsKnown, SecretIsKept, TrackIsPrepared, Ported, Contexted
  <2> QED
    BY <1>1, <2>5, <2>6 DEF ResourceInv, JobInv
<1> QED
  BY <1>3, <1>4, <1>5 DEF LoadProject

-----------------------------------------------------------------------------
(* One project of a job *)

LEMMA UsageType ==
  ASSUME NEW req PROVE UsageOf(req) \in [Tracks -> 0..Cardinality(Projects)]
<1>1. ASSUME NEW t \in Tracks PROVE Cardinality({p \in Projects : req[p] = t}) \in 0..Cardinality(Projects)
  <2> DEFINE S == {p \in Projects : req[p] = t}
  <2>1. IsFiniteSet(S) /\ Cardinality(S) <= Cardinality(Projects)
    BY ConstantsAssumption, FS_Subset
  <2>2. Cardinality(S) \in Nat /\ Cardinality(Projects) \in Nat
    BY <2>1, ConstantsAssumption, FS_CardinalityType
  <2> HIDE DEF S
  <2>3. Cardinality(S) \in 0..Cardinality(Projects)
    BY <2>1, <2>2
  <2> QED
    BY <2>3 DEF S
<1> QED
  BY <1>1 DEF UsageOf

LEMMA RequireKeeps ==
  ASSUME ResourceInv, Require
  PROVE  ResourceInv'
<1>1. /\ link' = link /\ allocation' = allocation /\ port' = port /\ observed' = observed
      /\ config' = config /\ envFile' = envFile /\ data' = data /\ databases' = databases
      /\ files' = files /\ procs' = procs /\ probed' = probed /\ published' = published
      /\ minted' = minted /\ cli' = cli
      /\ job.pc = "require" /\ usage' = UsageOf(requirement')
      /\ requirement' = [requirement EXCEPT ![job.p] = IF job.plan = None THEN None ELSE Track]
  BY DEF Require, At, disk, world, Project
<1>2. /\ job.p \in Projects /\ job.p # None /\ job \in Job
      /\ job.plan # None => Track \in Tracks
  BY <1>1, JobFacts DEF OnProject
<1>3. PICK x \in {"snapshot", "allocate"} : job' = [job EXCEPT !.pc = x]
  BY DEF Require
<1>4. /\ job' \in Job /\ job'.pc = x /\ job'.p = job.p /\ job'.plan = job.plan /\ job'.env = job.env
  BY <1>2, <1>3 DEF Job, Steps, OnProject
<1>5. /\ row' \in [Tracks -> [desired : {None, "installed", "removed"}, artifact : 0..MaxVersion,
                              env : {None} \cup [port : Ports, secret : 1..minted]]]
      /\ \A u \in Tracks : row'[u].env = row[u].env
  <2>1. 0 \in 0..MaxVersion
    BY ConstantsAssumption
  <2>2. CASE job.plan = None
    BY <2>2, RowFacts DEF Require
  <2>3. CASE job.plan # None
    <3>1. row' = [row EXCEPT ![Track] = DesiredOnDemand(@)]
      BY <2>3 DEF Require
    <3> QED
      BY <1>2, <2>1, <2>3, <3>1, RecordsKeepContexts
  <2> QED
    BY <2>2, <2>3
<1>6. /\ requirement' \in [Projects -> Tracks \cup {None}]
      /\ job.plan # None => requirement'[job.p] = Track
  BY <1>1, <1>2, RowFacts
<1>7. usage' \in [Tracks -> 0..Cardinality(Projects)]
  BY <1>1, UsageType
<1>8. RowsInv'
  <2>1. RowTypeOK' /\ ResourceTypeOK'
    BY <1>1, <1>5, <1>6, <1>7
    DEF ResourceInv, RowsInv, RowTypeOK, ReadyAllocationExists, ResourceTypeOK
  <2>2. SecretsMatchData'
    BY <1>1, <1>5 DEF ResourceInv, RowsInv, SecretsMatchData
  <2> QED
    BY <1>1, <2>1, <2>2 DEF ResourceInv, RowsInv, ReadyAllocationExists, Running
<1>9. JobTypeOK' /\ SecretIsKept' /\ TrackIsPrepared'
  BY <1>1, <1>2, <1>4, JobFacts
  DEF JobTypeOK, SecretIsKept, TrackIsPrepared, OnTrack, OnProject, Versioned, Ported, Contexted, Between
<1>10. DemandIsKnown'
  BY <1>1, <1>2, <1>4, <1>6, JobFacts DEF DemandIsKnown, Track
<1> QED
  BY <1>8, <1>9, <1>10 DEF ResourceInv, JobInv

(* Replacing an allocation makes none ready that was not ready on that track. *)
LEMMA ReplacingKeepsReady ==
  ASSUME NEW old \in Allocation \cup {None}, NEW wanted \in BOOLEAN, NEW t, wanted => t \in Tracks,
         NEW b, b = ReplacedAllocation(old, t, wanted)
  PROVE  b \in Allocation \cup {None} /\ (b # None /\ b.status = "ready" => b = old)
<1>1. CASE wanted /\ old # None /\ old.track = t /\ old.status = "ready"
  BY <1>1 DEF ReplacedAllocation
<1>2. CASE wanted /\ ~(old # None /\ old.track = t /\ old.status = "ready")
  <2>1. PICK q \in Ports \cup {0} : b = [track |-> t, status |-> "desired", port |-> q]
    <3>1. b = [track |-> t, status |-> "desired", port |-> IF old = None THEN 0 ELSE old.port]
      BY <1>2 DEF ReplacedAllocation
    <3>2. (IF old = None THEN 0 ELSE old.port) \in Ports \cup {0}
      BY DEF Allocation
    <3> QED
      BY <3>1, <3>2
  <2>2. t \in Tracks
    BY <1>2
  <2>3. b \in Allocation
    BY <2>1, <2>2 DEF Allocation
  <2>4. b.status # "ready"
    BY <2>1
  <2> QED
    BY <2>3, <2>4
<1>3. CASE ~wanted /\ old # None
  <2>1. b = [old EXCEPT !.status = "inactive"]
    BY <1>3 DEF ReplacedAllocation
  <2> QED
    BY <1>3, <2>1 DEF Allocation
<1>4. CASE ~wanted /\ old = None
  BY <1>4 DEF ReplacedAllocation
<1> QED
  BY <1>1, <1>2, <1>3, <1>4

LEMMA AllocateKeeps ==
  ASSUME ResourceInv, Allocate
  PROVE  ResourceInv'
<1>1. /\ link' = link /\ requirement' = requirement /\ usage' = usage /\ row' = row
      /\ port' = port /\ observed' = observed
      /\ config' = config /\ envFile' = envFile /\ data' = data /\ databases' = databases
      /\ files' = files /\ procs' = procs /\ probed' = probed /\ published' = published
      /\ minted' = minted /\ cli' = cli
      /\ job.pc = "allocate" /\ job' = [job EXCEPT !.pc = "snapshot"]
  BY DEF Allocate, At, Goto, disk, world
<1>2. /\ job.p \in Projects /\ job.p # None /\ job \in Job
      /\ job.plan # None => job.plan \in Plan /\ Track \in Tracks
  BY <1>1, JobFacts DEF OnProject
<1>3. /\ job' \in Job /\ job'.pc = "snapshot" /\ job'.p = job.p /\ job'.plan = job.plan
      /\ job'.env = job.env
  BY <1>1, <1>2 DEF Job, Steps, OnProject
<1>4. PICK a \in Allocation \cup {None} :
        /\ allocation' = [allocation EXCEPT ![job.p] = a]
        /\ a # None /\ a.status = "ready" => a = allocation[job.p]
  <2> DEFINE old == allocation[job.p]
             a == IF job.plan = None THEN ReplacedAllocation(old, None, FALSE)
                  ELSE ReplacedAllocation(old, Track, job.plan.alloc)
  <2>1. old \in Allocation \cup {None}
    BY <1>2, RowFacts
  <2>2. allocation' = [allocation EXCEPT ![job.p] = a]
    BY DEF Allocate, Project
  <2>3. ASSUME NEW b, b = a PROVE b \in Allocation \cup {None} /\ (b # None /\ b.status = "ready" => b = old)
    <3> HIDE DEF old
    <3>1. CASE job.plan = None
      BY <2>1, <2>3, <3>1, ReplacingKeepsReady
    <3>2. CASE job.plan # None
      <4>1. job.plan.alloc \in BOOLEAN /\ Track \in Tracks
        BY <1>2, <3>2 DEF Plan
      <4>2. b = ReplacedAllocation(old, Track, job.plan.alloc)
        BY <2>3, <3>2
      <4> QED
        BY <2>1, <4>1, <4>2, ReplacingKeepsReady
    <3> QED
      BY <3>1, <3>2
  <2>4. a \in Allocation \cup {None} /\ (a # None /\ a.status = "ready" => a = old)
    <3> HIDE DEF a, old
    <3> QED
      BY <2>3
  <2> HIDE DEF a
  <2> QED
    BY <2>2, <2>4
<1>5. allocation' \in [Projects -> Allocation \cup {None}]
      /\ \A p \in Projects : allocation'[p] # None /\ allocation'[p].status = "ready" =>
           allocation'[p] = allocation[p]
  BY <1>2, <1>4, RowFacts
<1>6. RowsInv'
  <2>1. RowTypeOK' /\ ResourceTypeOK'
    BY <1>1, <1>5
    DEF ResourceInv, RowsInv, RowTypeOK, ReadyAllocationExists, ResourceTypeOK, Allocation
  <2>2. \A p \in Projects : allocation'[p] # None /\ allocation'[p].status = "ready" =>
           p \in databases'[allocation'[p].track]
    BY <1>1, <1>5 DEF ResourceInv, RowsInv, ReadyAllocationExists
  <2> QED
    BY <1>1, <2>1, <2>2 DEF ResourceInv, RowsInv, ReadyAllocationExists, Running, SecretsMatchData
<1>7. JobTypeOK' /\ SecretIsKept' /\ TrackIsPrepared'
  BY <1>1, <1>2, <1>3, JobFacts
  DEF JobTypeOK, SecretIsKept, TrackIsPrepared, OnTrack, OnProject, Versioned, Ported, Contexted, Between
<1>8. DemandIsKnown'
  BY <1>1, <1>2, <1>3, JobFacts DEF ResourceInv, JobInv, DemandIsKnown, Track, Linked
<1> QED
  BY <1>6, <1>7, <1>8 DEF ResourceInv, JobInv

(* The job goes on with its project and its plan. *)
LEMMA GoesOn ==
  ASSUME ResourceInv, job.pc \in OnProject, job.pc # "require",
         job' \in Job, job'.pc \in OnProject, job'.pc # "require",
         job'.p = job.p, job'.plan = job.plan,
         job'.pc \in OnTrack => job.pc \in OnTrack,
         job'.pc \in Versioned => job'.artifact # 0,
         job'.env # None => job'.env.secret \in 1..minted',
         link' = link, requirement' = requirement
  PROVE  JobTypeOK' /\ DemandIsKnown'
<1>1. JobTypeOK'
  BY JobFacts DEF JobTypeOK, OnProject, Between, Ported, Contexted
<1>2. DemandIsKnown'
  <2>1. job'.pc # "stop" /\ (job'.p # None => link'[job'.p] # "new")
    BY JobFacts DEF OnProject, Ported, Contexted
  <2>2. job.p \in Linked /\ job.plan # None => requirement[job.p] = job.plan.track
    BY JobFacts DEF ResourceInv, JobInv, DemandIsKnown, Track
  <2> QED
    BY <2>1, <2>2 DEF DemandIsKnown, Track, Linked
<1> QED
  BY <1>1, <1>2

LEMMA StopTrackKeeps ==
  ASSUME ResourceInv, NEW t \in Tracks, StopTrack(t)
  PROVE  ResourceInv'
<1>1. /\ link' = link /\ requirement' = requirement /\ usage' = usage /\ row' = row
      /\ allocation' = allocation /\ observed' = observed
      /\ config' = config /\ envFile' = envFile /\ data' = data /\ databases' = databases
      /\ probed' = probed /\ published' = published /\ minted' = minted /\ cli' = cli
      /\ job.pc = "stop" /\ job' = [job EXCEPT !.left = @ \ {t}]
      /\ procs' = procs \ {files[t]}
      /\ files' = [files EXCEPT ![t] = None] /\ port' = [port EXCEPT ![t] = 0]
  BY DEF StopTrack, At, projectRows, disk, world
<1>2. /\ job' \in Job /\ job'.pc = "stop" /\ job'.p = job.p /\ job'.plan = job.plan
      /\ job'.env = job.env /\ job'.left \subseteq job.left
  BY <1>1, JobFacts DEF Job
<1>3. RowsInv'
  <2>1. /\ port' \in [Tracks -> Ports \cup {0}]
        /\ \A u, w \in Tracks : port'[u] = port'[w] /\ port'[u] # 0 => u = w
    BY <1>1 DEF ResourceInv, RowsInv, ReadyAllocationExists, ResourceTypeOK
  <2>2. files' \in [Tracks -> ProcessType \cup {None}] /\ procs' \subseteq ProcessType
        /\ \A u \in Tracks : files'[u] # None => files'[u].track = u
    BY <1>1, RowFacts DEF ResourceInv, RowsInv, RowTypeOK
  <2>3. RowTypeOK' /\ ResourceTypeOK'
    BY <1>1, <2>1, <2>2 DEF ResourceInv, RowsInv, RowTypeOK, ReadyAllocationExists, ResourceTypeOK
  <2> QED
    BY <1>1, <2>3 DEF ResourceInv, RowsInv, ReadyAllocationExists, SecretsMatchData, Running
<1>4. JobTypeOK' /\ SecretIsKept' /\ TrackIsPrepared'
  BY <1>1, <1>2, JobFacts
  DEF JobTypeOK, SecretIsKept, TrackIsPrepared, OnTrack, OnProject, Versioned, Ported, Contexted, Between
<1>5. DemandIsKnown'
  BY <1>1, <1>2 DEF ResourceInv, JobInv, DemandIsKnown, Track, Linked
<1> QED
  BY <1>3, <1>4, <1>5 DEF ResourceInv, JobInv

LEMMA ArtifactStepKeeps ==
  ASSUME ResourceInv, EnsureArtifact \/ InstallArtifact
  PROVE  ResourceInv'
<1>1. /\ link' = link /\ requirement' = requirement /\ usage' = usage /\ allocation' = allocation
      /\ port' = port /\ config' = config /\ envFile' = envFile /\ data' = data
      /\ databases' = databases /\ files' = files /\ procs' = procs /\ probed' = probed
      /\ published' = published /\ minted' = minted /\ cli' = cli
      /\ job.pc \in {"artifact", "install"}
  BY DEF EnsureArtifact, InstallArtifact, At, projectRows, disk, world
<1>2. /\ Track \in Tracks /\ job \in Job /\ job.p \in Projects
      /\ published \in 0..MaxVersion /\ published # 0
  BY <1>1, JobFacts, RowFacts, ConstantsAssumption DEF OnTrack, OnProject
<1>3. ASSUME /\ row' \in [Tracks -> [desired : {None, "installed", "removed"}, artifact : 0..MaxVersion,
                                     env : {None} \cup [port : Ports, secret : 1..minted]]]
             /\ \A u \in Tracks : row'[u].env = row[u].env,
             observed' = observed, job' \in Job, job'.pc \in {"artifact", "install", "ports"},
             job'.p = job.p, job'.plan = job.plan, job'.env \in {job.env, row[Track].env},
             job'.pc # "artifact" => job'.artifact # 0,
             job'.pc = "ports" => job'.env = row[Track].env
      PROVE  ResourceInv'
  <2>1. RowsInv'
    <3>1. cli' \in Command \cup {None}
      BY <1>1 DEF ResourceInv, RowsInv, RowTypeOK
    <3> QED
      BY <1>1, <1>3, <3>1, RowFacts, ArtifactsChange DEF ResourceInv
  <2>2. job'.env # None => job'.env.secret \in 1..minted'
    BY <1>1, <1>2, <1>3, JobFacts, RowFacts
  <2>3. JobTypeOK' /\ DemandIsKnown'
    BY <1>1, <1>3, <2>2, GoesOn DEF OnProject, OnTrack, Versioned
  <2>4. SecretIsKept' /\ TrackIsPrepared'
    BY <1>2, <1>3 DEF SecretIsKept, TrackIsPrepared, Ported, Contexted, Track
  <2> QED
    BY <2>1, <2>3, <2>4 DEF ResourceInv, JobInv
<1>4. CASE ProjectFails /\ row' = row
  BY <1>1, <1>4, OnlyProjectFails
<1>5. CASE /\ row[Track].artifact # 0 /\ row' = row /\ observed' = observed
           /\ job' = [job EXCEPT !.pc = "ports", !.env = row[Track].env,
                                 !.artifact = row[Track].artifact]
  <2>1. row[Track].artifact \in 0..MaxVersion /\ row[Track].env \in EnvContext \cup {None}
    BY <1>2, RowFacts DEF EnvContext
  <2>2. /\ job' \in Job /\ job'.pc = "ports" /\ job'.p = job.p /\ job'.plan = job.plan
        /\ job'.env = row[Track].env /\ job'.artifact = row[Track].artifact
    BY <1>2, <1>5, <2>1 DEF Job, Steps, OnTrack
  <2> QED
    BY <1>2, <1>3, <1>5, <2>2, RowFacts
<1>6. CASE /\ RecordDesired(Track) /\ observed' = observed
           /\ job' = [job EXCEPT !.pc = "install", !.artifact = published]
  <2>1. /\ job' \in Job /\ job'.pc = "install" /\ job'.p = job.p /\ job'.plan = job.plan
        /\ job'.env = job.env /\ job'.artifact # 0
    BY <1>2, <1>6 DEF Job, Steps, OnTrack
  <2> QED
    BY <1>2, <1>3, <1>6, <2>1, RecordsKeepContexts
<1>7. CASE /\ RecordInstalled(Track, job.artifact) /\ observed' = observed
           /\ job' = [job EXCEPT !.pc = "artifact"]
  <2>1. /\ job' \in Job /\ job'.pc = "artifact" /\ job'.p = job.p /\ job'.plan = job.plan
        /\ job'.env = job.env
    BY <1>2, <1>7 DEF Job, Steps, OnTrack
  <2>2. job.artifact \in 0..MaxVersion
    BY JobFacts
  <2> QED
    BY <1>2, <1>3, <1>7, <2>1, <2>2, RecordsKeepContexts
<1> QED
  BY <1>4, <1>5, <1>6, <1>7 DEF EnsureArtifact, InstallArtifact, Goto

(* A set of candidate ports has a first one. *)
LEMMA FirstPort ==
  ASSUME NEW T, T \subseteq Nat, T # {}
  PROVE  Min(T) \in T
<1> DEFINE R == OpToRel(<, Nat)
<1>1. IsWellFoundedOn(R, Nat)
  BY NatLessThanWellFounded
<1>2. \A x, y \in Nat : x < y => <<x, y>> \in R
  BY DEF OpToRel
<1> HIDE DEF R
<1>3. PICK x \in T : \A y \in T : ~(<<y, x>> \in R)
  BY <1>1, WFMin
<1>4. ASSUME NEW y \in T PROVE x =< y
  <2>1. ~(y < x)
    BY <1>2, <1>3
  <2> QED
    BY <2>1
<1>5. \E z \in T : \A y \in T : z =< y
  BY <1>4
<1> QED
  BY <1>5 DEF Min

(* The assignment of a track is kept, or is a port no other track has. *)
LEMMA AssignedPortIsOwn ==
  ASSUME ResourceInv, NEW t \in Tracks, AssignedPort(t) # 0
  PROVE  /\ AssignedPort(t) \in Ports
         /\ \A u \in Tracks : u # t => port[u] # AssignedPort(t)
<1> DEFINE free == {q \in Ports : (\A u \in Tracks : port[u] # q) /\ ~Occupied(q)}
<1>1. CASE port[t] # 0
  <2>1. AssignedPort(t) = port[t]
    BY <1>1 DEF AssignedPort
  <2> QED
    BY <1>1, <2>1, RowFacts DEF ResourceInv, RowsInv, ReadyAllocationExists, ResourceTypeOK
<1>2. CASE port[t] = 0 /\ free # {}
  <2>1. AssignedPort(t) = Min(free)
    BY <1>2 DEF AssignedPort
  <2>2. free \subseteq Nat
    BY ConstantsAssumption
  <2>3. Min(free) \in free
    <3> HIDE DEF free
    <3> QED
      BY <1>2, <2>2, FirstPort
  <2>4. Min(free) \in Ports /\ \A u \in Tracks : port[u] # Min(free)
    BY <2>3
  <2> HIDE DEF free
  <2> QED
    BY <2>1, <2>4
<1>3. CASE port[t] = 0 /\ free = {}
  BY <1>3 DEF AssignedPort
<1> QED
  BY <1>1, <1>2, <1>3

(* Ports, pid files and processes change. *)
LEMMA RuntimesChange ==
  ASSUME RowsInv, port' \in [Tracks -> Ports \cup {0}],
         \A t, u \in Tracks : port'[t] = port'[u] /\ port'[t] # 0 => t = u,
         files' \in [Tracks -> ProcessType \cup {None}], procs' \subseteq ProcessType,
         \A t \in Tracks : files'[t] # None => files'[t].track = t,
         observed' \in [Projects -> {None, "failed", "rendered"}],
         link' = link, requirement' = requirement, allocation' = allocation, usage' = usage,
         row' = row, config' = config, envFile' = envFile, data' = data, databases' = databases,
         probed' = probed, published' = published, minted' = minted, cli' = cli
  PROVE  RowsInv'
<1>1. RowTypeOK' /\ ResourceTypeOK'
  BY DEF RowsInv, RowTypeOK, ReadyAllocationExists, ResourceTypeOK
<1> QED
  BY <1>1 DEF RowsInv, ReadyAllocationExists, SecretsMatchData, Running

(* The files and the port of a track are given up and the job tries again. *)
LEMMA RetryKeeps ==
  ASSUME ResourceInv, job.pc \in {"ports", "start"}, job.pc = "start" => probed,
         ReleaseAndRetry(Track),
         link' = link, requirement' = requirement, allocation' = allocation, usage' = usage,
         row' = row, config' = config, envFile' = envFile, data' = data, databases' = databases,
         procs' = procs, probed' = probed, published' = published, minted' = minted, cli' = cli
  PROVE  ResourceInv'
<1>1. Track \in Tracks /\ job \in Job /\ job.artifact # 0
  BY JobFacts DEF OnTrack, Ported, Contexted, Versioned
<1>2. /\ files' = [files EXCEPT ![Track] = None] /\ port' = [port EXCEPT ![Track] = 0]
      /\ job' = [job EXCEPT !.pc = "ports", !.attempt = @ + 1] /\ observed' = observed
  BY DEF ReleaseAndRetry
<1>3. RowsInv'
  <2>1. /\ port' \in [Tracks -> Ports \cup {0}]
        /\ \A u, w \in Tracks : port'[u] = port'[w] /\ port'[u] # 0 => u = w
    BY <1>1, <1>2 DEF ResourceInv, RowsInv, ReadyAllocationExists, ResourceTypeOK
  <2>2. files' \in [Tracks -> ProcessType \cup {None}]
        /\ \A u \in Tracks : files'[u] # None => files'[u].track = u
    BY <1>1, <1>2, RowFacts DEF ResourceInv, RowsInv, RowTypeOK
  <2> QED
    BY <1>2, <2>1, <2>2, RowFacts, RuntimesChange DEF ResourceInv
<1>4. /\ job' \in Job /\ job'.pc = "ports" /\ job'.p = job.p /\ job'.plan = job.plan
      /\ job'.env = job.env /\ job'.artifact = job.artifact
  <2>1. PICK n \in Nat : job' = [job EXCEPT !.pc = "ports", !.attempt = n]
    <3>1. job.attempt \in Nat
      BY <1>1 DEF Job
    <3>2. job.attempt + 1 \in Nat
      BY <3>1
    <3> QED
      BY <1>2, <3>2
  <2> QED
    BY <1>1, <2>1 DEF Job, Steps, OnTrack
<1>5. JobTypeOK' /\ DemandIsKnown'
  BY <1>1, <1>4, JobFacts, GoesOn DEF OnProject, OnTrack, Ported, Contexted
<1>6. SecretIsKept'
  <2>1. ~probed => job.env = row[Track].env
    BY DEF ResourceInv, JobInv, SecretIsKept
  <2> QED
    BY <1>4, <2>1 DEF SecretIsKept, Track
<1>7. TrackIsPrepared'
  BY <1>4 DEF TrackIsPrepared, Ported, Contexted
<1> QED
  BY <1>3, <1>5, <1>6, <1>7 DEF ResourceInv, JobInv

LEMMA AssignPortsKeeps ==
  ASSUME ResourceInv, AssignPorts
  PROVE  ResourceInv'
<1>1. /\ link' = link /\ requirement' = requirement /\ usage' = usage /\ allocation' = allocation
      /\ row' = row /\ config' = config /\ envFile' = envFile /\ data' = data
      /\ databases' = databases /\ procs' = procs /\ probed' = probed
      /\ published' = published /\ minted' = minted /\ cli' = cli
      /\ job.pc = "ports"
  BY DEF AssignPorts, At, projectRows, disk, world
<1>2. Track \in Tracks /\ job \in Job /\ job.artifact # 0
  BY <1>1, JobFacts DEF OnTrack, Versioned
<1>3. CASE ProjectFails /\ port' = port /\ files' = files
  BY <1>1, <1>3, OnlyProjectFails
<1>4. CASE ReleaseAndRetry(Track)
  BY <1>1, <1>4, RetryKeeps
<1>5. CASE /\ AssignedPort(Track) # 0 /\ port' = [port EXCEPT ![Track] = AssignedPort(Track)]
           /\ job' = [job EXCEPT !.pc = "env"] /\ files' = files /\ observed' = observed
  <2>1. /\ AssignedPort(Track) \in Ports
        /\ \A u \in Tracks : u # Track => port[u] # AssignedPort(Track)
    BY <1>2, <1>5, AssignedPortIsOwn
  <2>2. /\ port' \in [Tracks -> Ports \cup {0}]
        /\ \A u, w \in Tracks : port'[u] = port'[w] /\ port'[u] # 0 => u = w
        /\ port'[Track] = AssignedPort(Track)
    BY <1>2, <1>5, <2>1 DEF ResourceInv, RowsInv, ReadyAllocationExists, ResourceTypeOK
  <2>3. RowsInv'
    <3>1. \A t \in Tracks : files'[t] # None => files'[t].track = t
      BY <1>5 DEF ResourceInv, RowsInv, RowTypeOK
    <3> QED
      BY <1>1, <1>5, <2>2, <3>1, RowFacts, RuntimesChange DEF ResourceInv
  <2>4. /\ job' \in Job /\ job'.pc = "env" /\ job'.p = job.p /\ job'.plan = job.plan
        /\ job'.env = job.env /\ job'.artifact = job.artifact
    BY <1>2, <1>5 DEF Job, Steps, OnTrack, Ported
  <2>5. JobTypeOK' /\ DemandIsKnown'
    BY <1>1, <1>2, <2>4, JobFacts, GoesOn DEF OnProject, OnTrack, Ported
  <2>6. SecretIsKept'
    BY <1>1, <2>4 DEF ResourceInv, JobInv, SecretIsKept, Track
  <2>7. TrackIsPrepared'
    BY <1>5, <2>2, <2>4 DEF TrackIsPrepared, Contexted, Track
  <2> QED
    BY <2>3, <2>5, <2>6, <2>7 DEF ResourceInv, JobInv
<1> QED
  BY <1>3, <1>4, <1>5 DEF AssignPorts, Goto

LEMMA RecordEnvKeeps ==
  ASSUME ResourceInv, RecordEnv
  PROVE  ResourceInv'
<1>1. /\ link' = link /\ requirement' = requirement /\ usage' = usage /\ allocation' = allocation
      /\ port' = port /\ observed' = observed /\ config' = config /\ envFile' = envFile
      /\ data' = data /\ databases' = databases /\ files' = files /\ procs' = procs
      /\ probed' = probed /\ published' = published /\ cli' = cli
      /\ job.pc = "env" /\ job' = [job EXCEPT !.pc = "prepare"]
  BY DEF RecordEnv, At, Goto, projectRows, disk, world
<1>2. /\ Track \in Tracks /\ job \in Job /\ job.artifact # 0 /\ minted \in Nat
      /\ port[Track] \in Ports /\ port[Track] # 0
  <2>1. Track \in Tracks /\ job \in Job /\ job.artifact # 0
    BY <1>1, JobFacts DEF OnTrack, Ported, Versioned
  <2>2. port[Track] # 0
    BY <1>1 DEF ResourceInv, JobInv, TrackIsPrepared, Ported
  <2> QED
    BY <2>1, <2>2, RowFacts
<1>3. PICK secret \in 1..minted' :
        /\ row' = [row EXCEPT ![Track].env = [port |-> port[Track], secret |-> secret]]
        /\ minted' \in {minted, minted + 1}
        /\ job.env # None => secret = job.env.secret
  <2>1. CASE job.env = None
    <3>1. /\ minted' = minted + 1
          /\ row' = [row EXCEPT ![Track].env = [port |-> port[Track], secret |-> minted + 1]]
      BY <2>1 DEF RecordEnv
    <3>2. minted + 1 \in 1..minted'
      BY <1>2, <3>1
    <3> QED
      BY <2>1, <3>1, <3>2
  <2>2. CASE job.env # None
    <3>1. /\ minted' = minted
          /\ row' = [row EXCEPT ![Track].env = [port |-> port[Track], secret |-> job.env.secret]]
      BY <2>2 DEF RecordEnv
    <3> QED
      BY <2>2, <3>1, JobFacts
  <2> QED
    BY <2>1, <2>2
<1>4. minted' \in Nat /\ minted <= minted' /\ 1..minted \subseteq 1..minted'
      /\ 0..minted \subseteq 0..minted'
  BY <1>2, <1>3
<1> DEFINE Env(n) == {None} \cup [port : Ports, secret : 1..n]
<1>5. PICK c : c = [port |-> port[Track], secret |-> secret]
  OBVIOUS
<1>6. c # None /\ c.port = port[Track] /\ c.secret = secret /\ c \in [port : Ports, secret : 1..minted']
  BY <1>2, <1>3, <1>4, <1>5, ConstantsAssumption, NoneAssumption
<1>7. /\ row' \in [Tracks -> [desired : {None, "installed", "removed"}, artifact : 0..MaxVersion,
                              env : {None} \cup [port : Ports, secret : 1..minted']]]
      /\ row'[Track].env = c
      /\ \A t \in Tracks : t # Track => row'[t].env = row[t].env
  <2>1. row \in [Tracks -> [desired : {None, "installed", "removed"}, artifact : 0..MaxVersion,
                            env : {None} \cup [port : Ports, secret : 1..minted']]]
    <3>1. [port : Ports, secret : 1..minted] \subseteq [port : Ports, secret : 1..minted']
      BY <1>4
    <3> HIDE DEF Env
    <3> QED
      BY <3>1, RowFacts
  <2>2. row' = [row EXCEPT ![Track].env = c]
    BY <1>3, <1>5
  <2> QED
    BY <1>2, <1>6, <2>1, <2>2
<1>8. RowsInv'
  <2>1. data' \in [Tracks -> 0..minted']
    BY <1>1, <1>4, RowFacts
  <2>2. RowTypeOK' /\ ResourceTypeOK'
    BY <1>1, <1>4, <1>7, <2>1
    DEF ResourceInv, RowsInv, RowTypeOK, ReadyAllocationExists, ResourceTypeOK
  <2>3. SecretsMatchData'
    <3> SUFFICES ASSUME NEW t \in Tracks, data[t] # 0
                 PROVE  row'[t].env # None /\ row'[t].env.secret = data[t]
      BY <1>1 DEF SecretsMatchData
    <3>1. row[t].env # None /\ row[t].env.secret = data[t] /\ ~probed
      BY DEF ResourceInv, RowsInv, SecretsMatchData
    <3>2. CASE t # Track
      BY <1>7, <3>1, <3>2
    <3>3. CASE t = Track
      <4>1. job.env = row[Track].env
        BY <1>1, <3>1 DEF ResourceInv, JobInv, SecretIsKept
      <4> QED
        BY <1>3, <1>6, <1>7, <3>1, <3>3, <4>1
    <3> QED
      BY <3>2, <3>3
  <2> QED
    BY <1>1, <2>2, <2>3 DEF ResourceInv, RowsInv, ReadyAllocationExists, Running
<1>9. /\ job' \in Job /\ job'.pc = "prepare" /\ job'.p = job.p /\ job'.plan = job.plan
      /\ job'.env = job.env /\ job'.artifact = job.artifact
  BY <1>1, <1>2 DEF Job, Steps, OnTrack, Ported, Contexted
<1>10. JobTypeOK' /\ DemandIsKnown'
  <2>1. job'.env # None => job'.env.secret \in 1..minted'
    BY <1>4, <1>9, JobFacts
  <2> QED
    BY <1>1, <1>2, <1>9, <2>1, GoesOn DEF OnProject, OnTrack, Ported, Contexted
<1>11. SecretIsKept' /\ TrackIsPrepared'
  BY <1>1, <1>2, <1>6, <1>7, <1>9 DEF SecretIsKept, TrackIsPrepared, Track
<1> QED
  BY <1>8, <1>10, <1>11 DEF ResourceInv, JobInv

(* The job goes on with a track whose context it has recorded. *)
LEMMA ContextStays ==
  ASSUME ResourceInv, job.pc \in Contexted, job' \in Job, job'.pc \in Contexted,
         job'.p = job.p, job'.plan = job.plan, job'.env = job.env, job'.artifact = job.artifact,
         job'.pc \in Versioned => job.pc \in Versioned,
         link' = link, requirement' = requirement, row' = row, port' = port, minted' = minted,
         job'.pc = "mark" => job.p \in databases'[Track]
  PROVE  JobInv'
<1>1. JobTypeOK' /\ DemandIsKnown'
  BY JobFacts, GoesOn DEF OnProject, OnTrack, Ported, Contexted
<1>2. SecretIsKept'
  BY DEF SecretIsKept, Contexted
<1>3. TrackIsPrepared'
  <2>1. port[Track] # 0 /\ row[Track].env # None /\ row[Track].env.port = port[Track]
    BY DEF ResourceInv, JobInv, TrackIsPrepared, Ported
  <2> QED
    BY <2>1 DEF TrackIsPrepared, Contexted, Track
<1> QED
  BY <1>1, <1>2, <1>3 DEF JobInv

LEMMA PrepareKeeps ==
  ASSUME ResourceInv, PrepareRuntime
  PROVE  ResourceInv'
<1>1. /\ link' = link /\ requirement' = requirement /\ usage' = usage /\ allocation' = allocation
      /\ port' = port /\ row' = row /\ config' = config /\ envFile' = envFile
      /\ databases' = databases /\ files' = files /\ procs' = procs
      /\ probed' = probed /\ published' = published /\ minted' = minted /\ cli' = cli
      /\ job.pc = "prepare"
  BY DEF PrepareRuntime, At, projectRows, world
<1>2. CASE ProjectFails /\ data' = data
  BY <1>1, <1>2, OnlyProjectFails
<1>3. CASE /\ job' = [job EXCEPT !.pc = "start"] /\ observed' = observed
           /\ data' = IF probed \/ data[Track] # 0 THEN data
                      ELSE [data EXCEPT ![Track] = row[Track].env.secret]
  <2>1. Track \in Tracks /\ job \in Job /\ row[Track].env # None
    BY <1>1, JobFacts DEF ResourceInv, JobInv, TrackIsPrepared, OnTrack, Ported, Contexted
  <2>2. row[Track].env.secret \in 0..minted
    BY <2>1, RowFacts
  <2>3. data' \in [Tracks -> 0..minted] /\ (probed => data' = data)
    BY <1>3, <2>1, <2>2, RowFacts
  <2>4. SecretsMatchData'
    <3> SUFFICES ASSUME NEW t \in Tracks, data'[t] # 0
                 PROVE  row[t].env # None /\ row[t].env.secret = data'[t]
      BY <1>1 DEF SecretsMatchData
    <3>1. data[t] # 0 => row[t].env # None /\ row[t].env.secret = data[t]
      BY DEF ResourceInv, RowsInv, SecretsMatchData
    <3>2. data'[t] = data[t] \/ (t = Track /\ data'[t] = row[Track].env.secret)
      BY <1>3, <2>1, RowFacts
    <3> QED
      BY <2>1, <3>1, <3>2
  <2>5. RowTypeOK' /\ ResourceTypeOK'
    BY <1>1, <1>3, <2>3
    DEF ResourceInv, RowsInv, RowTypeOK, ReadyAllocationExists, ResourceTypeOK
  <2>6. RowsInv'
    BY <1>1, <2>3, <2>4, <2>5 DEF ResourceInv, RowsInv, ReadyAllocationExists, Running
  <2>7. /\ job' \in Job /\ job'.pc = "start" /\ job'.p = job.p /\ job'.plan = job.plan
        /\ job'.env = job.env /\ job'.artifact = job.artifact
    BY <1>3, <2>1 DEF Job, Steps, OnTrack, Ported, Contexted
  <2>8. JobInv'
    BY <1>1, <2>7, ContextStays DEF Contexted, Versioned
  <2> QED
    BY <2>6, <2>8 DEF ResourceInv
<1> QED
  BY <1>2, <1>3 DEF PrepareRuntime, Goto

-----------------------------------------------------------------------------
(* Processes *)

(* The process of the planned track is one of its track, artifact and port. *)
LEMMA ExpectedIsProcess ==
  ASSUME ResourceInv, job.pc \in {"start", "ready"}
  PROVE  /\ Track \in Tracks /\ Expected(Track) \in ProcessType /\ Expected(Track).track = Track
         /\ Expected(Track) # None
<1>1. Track \in Tracks /\ job.artifact \in 1..MaxVersion
  BY JobFacts DEF OnTrack, Ported, Contexted, Versioned
<1>2. port[Track] \in Ports
  <2>1. port[Track] # 0
    BY DEF ResourceInv, JobInv, TrackIsPrepared, Ported, Contexted
  <2> QED
    BY <1>1, <2>1, RowFacts
<1>3. Expected(Track) \in ProcessType
  BY <1>1, <1>2 DEF Expected, ProcessType
<1>4. Expected(Track) \in [track : Tracks, artifact : Nat, port : Nat]
  <2>1. Ports \subseteq Nat
    BY ConstantsAssumption
  <2>2. port[Track] \in Nat
    BY <1>2, <2>1
  <2>3. job.artifact \in Nat
    BY <1>1
  <2> QED
    BY <1>1, <2>2, <2>3 DEF Expected
<1> QED
  BY <1>1, <1>3, <1>4, NoneAssumption DEF Expected

(* The pid files of the planned track are written or deleted, and processes
   come and go. *)
LEMMA TrackFilesChange ==
  ASSUME ResourceInv, Track \in Tracks, procs' \subseteq ProcessType,
         NEW r \in ProcessType \cup {None}, r # None => r.track = Track,
         files' = files \/ files' = [files EXCEPT ![Track] = r],
         observed' \in [Projects -> {None, "failed", "rendered"}],
         link' = link, requirement' = requirement, allocation' = allocation, usage' = usage,
         port' = port,
         row' = row, config' = config, envFile' = envFile, data' = data, databases' = databases,
         probed' = probed, published' = published, minted' = minted, cli' = cli
  PROVE  RowsInv'
<1>1. files' \in [Tracks -> ProcessType \cup {None}]
  BY RowFacts
<1>2. \A t \in Tracks : files[t] # None => files[t].track = t
  BY DEF ResourceInv, RowsInv, RowTypeOK
<1>3. \A t \in Tracks : files'[t] # None => files'[t].track = t
  BY <1>2, RowFacts
<1>4. /\ port' \in [Tracks -> Ports \cup {0}]
      /\ \A t, u \in Tracks : port'[t] = port'[u] /\ port'[t] # 0 => t = u
  BY DEF ResourceInv, RowsInv, ReadyAllocationExists, ResourceTypeOK
<1> QED
  BY <1>1, <1>3, <1>4, RuntimesChange DEF ResourceInv

LEMMA ProjectGoneKeeps ==
  ASSUME ResourceInv, ProjectGone
  PROVE  ResourceInv'
  BY OnlyProjectFails DEF ProjectGone, projectRows, disk, world

LEMMA ForeignListenerKeeps ==
  ASSUME ResourceInv, ForeignListener
  PROVE  ResourceInv'
<1>1. /\ link' = link /\ requirement' = requirement /\ usage' = usage /\ allocation' = allocation
      /\ row' = row /\ config' = config /\ envFile' = envFile /\ data' = data
      /\ databases' = databases /\ procs' = procs /\ probed' = probed
      /\ published' = published /\ minted' = minted /\ cli' = cli
      /\ job.pc = "start" /\ probed
  BY DEF ForeignListener, At, projectRows, disk, world
<1>2. CASE ReleaseAndRetry(Track)
  BY <1>1, <1>2, RetryKeeps
<1>3. CASE ProjectFails /\ files' = files /\ port' = port
  BY <1>1, <1>3, OnlyProjectFails
<1> QED
  BY <1>2, <1>3 DEF ForeignListener

(* AdoptRuntime, StartRuntime, RuntimeReady and RuntimeNotReady. *)
LEMMA RuntimeStepKeeps ==
  ASSUME ResourceInv, AdoptRuntime \/ StartRuntime \/ RuntimeReady \/ RuntimeNotReady
  PROVE  ResourceInv'
<1>1. /\ link' = link /\ requirement' = requirement /\ usage' = usage /\ allocation' = allocation
      /\ row' = row /\ port' = port /\ config' = config /\ envFile' = envFile /\ data' = data
      /\ databases' = databases /\ probed' = probed
      /\ published' = published /\ minted' = minted /\ cli' = cli
      /\ job.pc \in {"start", "ready"}
  BY DEF AdoptRuntime, StartRuntime, RuntimeReady, RuntimeNotReady, At, projectRows, disk, world
<1>2. PICK e : e = Expected(Track)
  OBVIOUS
<1>3. Track \in Tracks /\ e \in ProcessType /\ e.track = Track /\ e # None
  BY <1>1, <1>2, ExpectedIsProcess
<1>4. /\ procs' \subseteq ProcessType
      /\ \/ files' = files \/ files' = [files EXCEPT ![Track] = e]
         \/ files' = [files EXCEPT ![Track] = None]
  <2>1. procs' = procs \/ procs' = procs \cup {e} \/ procs' = procs \ {e}
    BY <1>2 DEF AdoptRuntime, StartRuntime, RuntimeReady, RuntimeNotReady
  <2>2. procs \subseteq ProcessType
    BY RowFacts
  <2>3. procs' \subseteq ProcessType
    BY <1>3, <2>1, <2>2
  <2> QED
    BY <1>2, <2>3 DEF AdoptRuntime, StartRuntime, RuntimeReady, RuntimeNotReady
<1>5. \/ ProjectFails
      \/ /\ observed' = observed
         /\ \E b \in BOOLEAN : \/ job' = [job EXCEPT !.pc = "ready", !.started = b]
                               \/ job.pc = "ready" /\ job' = [job EXCEPT !.pc = "allocations"]
  BY DEF AdoptRuntime, StartRuntime, RuntimeReady, RuntimeNotReady, Goto, At
<1>6. observed' \in [Projects -> {None, "failed", "rendered"}]
  BY <1>1, <1>5, RowFacts, ProjectFailsKeeps
<1>7. RowsInv'
  <2>1. CASE files' = files \/ files' = [files EXCEPT ![Track] = e]
    BY <1>1, <1>3, <1>4, <1>6, <2>1, TrackFilesChange
  <2>2. CASE files' = [files EXCEPT ![Track] = None]
    BY <1>1, <1>3, <1>4, <1>6, <2>2, TrackFilesChange
  <2> QED
    BY <1>4, <2>1, <2>2
<1>8. JobInv'
  <2>1. CASE ProjectFails
    BY <1>1, <2>1, ProjectFailsKeeps
  <2>2. ASSUME NEW b \in BOOLEAN, job' = [job EXCEPT !.pc = "ready", !.started = b]
        PROVE  JobInv'
    <3>1. /\ job' \in Job /\ job'.pc = "ready" /\ job'.p = job.p /\ job'.plan = job.plan
          /\ job'.env = job.env /\ job'.artifact = job.artifact
      BY <2>2, JobFacts DEF Job, Steps, OnTrack, Ported, Contexted
    <3> QED
      BY <1>1, <3>1, ContextStays DEF Contexted, Versioned
  <2>3. CASE job.pc = "ready" /\ job' = [job EXCEPT !.pc = "allocations"]
    <3>1. /\ job' \in Job /\ job'.pc = "allocations" /\ job'.p = job.p /\ job'.plan = job.plan
          /\ job'.env = job.env /\ job'.artifact = job.artifact
      BY <2>3, JobFacts DEF Job, Steps, OnTrack, Ported, Contexted
    <3> QED
      BY <1>1, <3>1, ContextStays DEF Contexted, Versioned
  <2> QED
    BY <1>5, <2>1, <2>2, <2>3
<1> QED
  BY <1>7, <1>8 DEF ResourceInv

-----------------------------------------------------------------------------
(* Allocations and the .env *)

LEMMA ReconcileAllocationsKeeps ==
  ASSUME ResourceInv, ReconcileAllocations
  PROVE  ResourceInv'
<1>1. /\ link' = link /\ requirement' = requirement /\ usage' = usage /\ allocation' = allocation
      /\ row' = row /\ port' = port /\ config' = config /\ envFile' = envFile /\ data' = data
      /\ files' = files /\ procs' = procs /\ probed' = probed
      /\ published' = published /\ minted' = minted /\ cli' = cli
      /\ job.pc = "allocations"
  BY DEF ReconcileAllocations, At, projectRows, world
<1>2. CASE ProjectFails /\ databases' = databases
  BY <1>1, <1>2, OnlyProjectFails
<1>3. /\ Track \in Tracks /\ job.p \in Projects
  BY <1>1, JobFacts DEF OnTrack, OnProject, Ported, Contexted
<1>4. CASE /\ job' = [job EXCEPT !.pc = "mark"] /\ observed' = observed
           /\ databases' = [databases EXCEPT ![Track] = @ \cup {Project}]
  <2>1. /\ databases' \in [Tracks -> SUBSET Projects]
        /\ job.p \in databases'[Track]
        /\ \A t \in Tracks : databases[t] \subseteq databases'[t]
    BY <1>3, <1>4, RowFacts DEF Project
  <2>2. RowTypeOK' /\ ResourceTypeOK'
    BY <1>1, <1>4, <2>1
    DEF ResourceInv, RowsInv, RowTypeOK, ReadyAllocationExists, ResourceTypeOK
  <2>3. ReadyAllocationExists'
    <3>1. ASSUME NEW q \in Projects, allocation[q] # None, allocation[q].status = "ready"
          PROVE  q \in databases'[allocation[q].track]
      <4>1. allocation[q].track \in Tracks
        BY <3>1, RowFacts DEF Allocation
      <4>2. q \in databases[allocation[q].track]
        BY <3>1 DEF ResourceInv, RowsInv, ReadyAllocationExists
      <4> QED
        BY <2>1, <4>1, <4>2
    <3> QED
      BY <1>1, <2>2, <3>1 DEF ReadyAllocationExists
  <2>4. RowsInv'
    BY <1>1, <2>2, <2>3 DEF ResourceInv, RowsInv, SecretsMatchData, Running
  <2>5. /\ job' \in Job /\ job'.pc = "mark" /\ job'.p = job.p /\ job'.plan = job.plan
        /\ job'.env = job.env /\ job'.artifact = job.artifact
    BY <1>4, JobFacts DEF Job, Steps, OnTrack, Ported, Contexted
  <2>6. JobInv'
    BY <1>1, <2>1, <2>5, ContextStays DEF Contexted, Versioned
  <2> QED
    BY <2>4, <2>6 DEF ResourceInv
<1>5. CASE /\ job' = [job EXCEPT !.pc = "render"] /\ observed' = observed /\ databases' = databases
  <2>1. RowsInv'
    BY <1>1, <1>5, RowFacts, RowsStay DEF ResourceInv
  <2>2. /\ job' \in Job /\ job'.pc = "render" /\ job'.p = job.p /\ job'.plan = job.plan
        /\ job'.env = job.env /\ job'.artifact = job.artifact
    BY <1>5, JobFacts DEF Job, Steps, OnTrack, Ported, Contexted
  <2>3. JobInv'
    BY <1>1, <2>2, ContextStays DEF Contexted, Versioned
  <2> QED
    BY <2>1, <2>3 DEF ResourceInv
<1> QED
  BY <1>2, <1>4, <1>5 DEF ReconcileAllocations, Goto

LEMMA MarkAllocationReadyKeeps ==
  ASSUME ResourceInv, MarkAllocationReady
  PROVE  ResourceInv'
<1>1. /\ link' = link /\ requirement' = requirement /\ usage' = usage
      /\ row' = row /\ port' = port /\ config' = config /\ envFile' = envFile /\ data' = data
      /\ databases' = databases /\ files' = files /\ procs' = procs /\ probed' = probed
      /\ published' = published /\ minted' = minted /\ cli' = cli
      /\ job.pc = "mark"
  BY DEF MarkAllocationReady, At, disk, world
<1>2. CASE ProjectFails /\ allocation' = allocation
  BY <1>1, <1>2, OnlyProjectFails
<1>3. CASE /\ allocation' = [allocation EXCEPT ![Project] =
                [track |-> Track, status |-> "ready", port |-> port[Track]]]
           /\ job' = [job EXCEPT !.pc = "render"] /\ observed' = observed
  <2>1. /\ Track \in Tracks /\ job.p \in Projects /\ port[Track] \in Ports \cup {0}
        /\ job.p \in databases[Track]
    <3>1. job.p \in databases[Track]
      BY <1>1 DEF ResourceInv, JobInv, TrackIsPrepared
    <3> QED
      BY <1>1, <3>1, JobFacts, RowFacts DEF OnTrack, OnProject, Ported, Contexted
  <2>2. PICK a : a = [track |-> Track, status |-> "ready", port |-> port[Track]]
    OBVIOUS
  <2>3. a \in Allocation /\ a.track = Track
    BY <2>1, <2>2 DEF Allocation
  <2>4. /\ allocation' \in [Projects -> Allocation \cup {None}] /\ allocation'[job.p] = a
        /\ \A q \in Projects : q # job.p => allocation'[q] = allocation[q]
    BY <1>3, <2>1, <2>2, <2>3, RowFacts DEF Project
  <2>5. RowTypeOK' /\ ResourceTypeOK'
    <3>1. RowTypeOK'
      BY <1>1, <1>3, <2>4 DEF ResourceInv, RowsInv, RowTypeOK
    <3>2. \A q \in Projects : allocation'[q] # None => allocation'[q] \in Allocation
      BY <2>4
    <3> QED
      BY <1>1, <1>3, <3>1, <3>2
      DEF ResourceInv, RowsInv, ReadyAllocationExists, ResourceTypeOK, Allocation
  <2>6. ReadyAllocationExists'
    <3>1. ASSUME NEW q \in Projects, allocation'[q] # None, allocation'[q].status = "ready"
          PROVE  q \in databases[allocation'[q].track]
      <4>1. CASE q = job.p
        BY <2>1, <2>3, <2>4, <4>1
      <4>2. CASE q # job.p
        BY <2>4, <3>1, <4>2 DEF ResourceInv, RowsInv, ReadyAllocationExists
      <4> QED
        BY <4>1, <4>2
    <3> QED
      BY <1>1, <2>5, <3>1 DEF ReadyAllocationExists
  <2>7. RowsInv'
    BY <1>1, <2>5, <2>6 DEF ResourceInv, RowsInv, SecretsMatchData, Running
  <2>8. /\ job' \in Job /\ job'.pc = "render" /\ job'.p = job.p /\ job'.plan = job.plan
        /\ job'.env = job.env /\ job'.artifact = job.artifact
    BY <1>3, JobFacts DEF Job, Steps, OnTrack, Ported, Contexted
  <2>9. JobInv'
    BY <1>1, <2>8, ContextStays DEF Contexted, Versioned
  <2> QED
    BY <2>7, <2>9 DEF ResourceInv
<1> QED
  BY <1>2, <1>3 DEF MarkAllocationReady, Goto

LEMMA RenderEnvKeeps ==
  ASSUME ResourceInv, RenderEnv
  PROVE  ResourceInv'
<1>1. /\ link' = link /\ requirement' = requirement /\ usage' = usage /\ allocation' = allocation
      /\ row' = row /\ port' = port /\ config' = config /\ data' = data
      /\ databases' = databases /\ files' = files /\ procs' = procs /\ probed' = probed
      /\ published' = published /\ minted' = minted /\ cli' = cli
      /\ job.pc = "render"
  BY DEF RenderEnv, At, projectRows, world
<1>2. CASE ProjectFails /\ envFile' = envFile
  BY <1>1, <1>2, OnlyProjectFails
<1>3. CASE /\ envFile' = [envFile EXCEPT ![Project] =
                [track |-> Track, port |-> row[Track].env.port, secret |-> row[Track].env.secret]]
           /\ job' = [job EXCEPT !.pc = "finalize"] /\ observed' = observed
  <2>1. /\ Track \in Tracks /\ job.p \in Projects /\ job.plan # None
        /\ row[Track].env # None /\ row[Track].env.port = port[Track]
    <3>1. row[Track].env # None /\ row[Track].env.port = port[Track]
      BY <1>1 DEF ResourceInv, JobInv, TrackIsPrepared, Contexted
    <3> QED
      BY <1>1, <3>1, JobFacts DEF OnTrack, OnProject, Ported, Contexted
  <2>2. row[Track].env.port \in Ports /\ row[Track].env.secret \in Nat
    <3>1. row[Track].env \in [port : Ports, secret : 1..minted]
      BY <2>1, RowFacts
    <3> QED
      BY <3>1, RowFacts
  <2>3. PICK c : c = [track |-> Track, port |-> row[Track].env.port, secret |-> row[Track].env.secret]
    OBVIOUS
  <2>4. c \in [track : Tracks, port : Ports, secret : Nat]
    BY <2>1, <2>2, <2>3
  <2>5. /\ envFile' \in [Projects -> [track : Tracks, port : Ports, secret : Nat] \cup {None}]
        /\ envFile'[job.p] = c
    BY <1>3, <2>1, <2>3, <2>4 DEF Project, ResourceInv, RowsInv, RowTypeOK
  <2>6. RowTypeOK' /\ ResourceTypeOK'
    BY <1>1, <1>3, <2>5
    DEF ResourceInv, RowsInv, RowTypeOK, ReadyAllocationExists, ResourceTypeOK
  <2>7. RowsInv'
    BY <1>1, <2>6 DEF ResourceInv, RowsInv, ReadyAllocationExists, SecretsMatchData, Running
  <2>8. /\ job' \in Job /\ job'.pc = "finalize" /\ job'.p = job.p /\ job'.plan = job.plan
        /\ job'.env = job.env /\ job'.artifact = job.artifact
    BY <1>3, JobFacts DEF Job, Steps, OnProject
  <2>9. JobTypeOK' /\ DemandIsKnown'
    BY <1>1, <2>8, JobFacts, GoesOn DEF OnProject, OnTrack, Versioned, Ported, Contexted
  <2>10. SecretIsKept' /\ TrackIsPrepared'
    BY <1>1, <2>1, <2>3, <2>5, <2>8 DEF SecretIsKept, TrackIsPrepared, Track, Ported, Contexted
  <2> QED
    BY <2>7, <2>9, <2>10 DEF ResourceInv, JobInv
<1> QED
  BY <1>2, <1>3 DEF RenderEnv, Goto

LEMMA FinalizeKeeps ==
  ASSUME ResourceInv, Finalize
  PROVE  ResourceInv'
<1>1. observed' \in [Projects -> {None, "failed", "rendered"}] /\ minted' = minted
  BY RowFacts DEF Finalize
<1>2. RowsInv'
  BY <1>1, RowsStay DEF ResourceInv, Finalize, projectRows, disk, world
<1>3. CASE job' = NoJob
  BY <1>2, <1>3, NoJobIsJob, JobWaits DEF ResourceInv
<1>4. CASE job' = [job EXCEPT !.pc = "next", !.p = None, !.plan = None]
  <2>1. /\ job' \in Job /\ job'.pc = "next" /\ job'.p = None /\ job'.env = job.env
    BY <1>4, JobFacts DEF Job, Steps, Between
  <2> QED
    BY <1>1, <1>2, <2>1, JobFacts, JobWaits DEF ResourceInv
<1> QED
  BY <1>3, <1>4 DEF Finalize

-----------------------------------------------------------------------------
(* Commands and the surroundings *)

(* A step of somebody else that leaves the contexts, the ports and what the
   projects require alone. *)
LEMMA JobStays ==
  ASSUME ResourceInv, job' = job, minted' = minted, port' = port, databases' = databases,
         envFile' = envFile, probed' = probed, \A t \in Tracks : row'[t].env = row[t].env,
         DemandIsKnown'
  PROVE  JobInv'
<1>1. JobTypeOK'
  BY DEF ResourceInv, JobInv, JobTypeOK
<1>2. SecretIsKept'
  <2>1. job.pc \in {"ports", "env"} => Track \in Tracks
    BY JobFacts DEF OnTrack, Ported
  <2> QED
    BY <2>1 DEF ResourceInv, JobInv, SecretIsKept, Track
<1>3. TrackIsPrepared'
  <2>1. job.pc \in Contexted \/ (job.pc = "finalize" /\ job.plan # None) => Track \in Tracks
    BY JobFacts DEF OnTrack, Ported
  <2>2. TrackIsPrepared
    BY DEF ResourceInv, JobInv
  <2>3. Track' = Track
    BY DEF Track
  <2> QED
    BY <2>1, <2>2, <2>3 DEF TrackIsPrepared
<1> QED
  BY <1>1, <1>2, <1>3 DEF JobInv

LEMMA DemandStays ==
  ASSUME ResourceInv, job' = job, link' = link, requirement' = requirement
  PROVE  DemandIsKnown'
  BY DEF ResourceInv, JobInv, DemandIsKnown, Linked, Track

(* A command that the step begins, goes on with or ends is one of the commands. *)
LEMMA CommandFacts ==
  ASSUME ResourceInv
  PROVE  /\ Running("link") \/ Running("unlink") => cli.p \in Projects
         /\ Running("install") \/ Running("download") =>
              cli \in [op : {"install", "download"}, t : Tracks, version : 0..MaxVersion]
         /\ Running("uninstall") \/ Running("remove") =>
              cli \in [op : {"uninstall", "remove"}, t : Tracks, force : BOOLEAN]
<1>1. cli # None => cli \in Command
  BY DEF ResourceInv, RowsInv, RowTypeOK
<1> QED
  BY <1>1 DEF Command, Running

LEMMA CliBeginsKeeps ==
  ASSUME ResourceInv, NEW command \in Command, CliBegins(command),
         command.op = "link" => link[command.p] = "new"
  PROVE  ResourceInv'
<1>1. /\ link' = link /\ requirement' = requirement /\ usage' = usage /\ allocation' = allocation
      /\ row' = row /\ port' = port /\ observed' = observed /\ config' = config
      /\ envFile' = envFile /\ data' = data /\ databases' = databases /\ files' = files
      /\ procs' = procs /\ probed' = probed /\ published' = published /\ minted' = minted
      /\ job' = job /\ cli' = command
  BY DEF CliBegins, projectRows, disk, world
<1>2. RowTypeOK' /\ ResourceTypeOK'
  BY <1>1 DEF ResourceInv, RowsInv, RowTypeOK, ReadyAllocationExists, ResourceTypeOK
<1>3. RowsInv'
  BY <1>1, <1>2 DEF ResourceInv, RowsInv, ReadyAllocationExists, SecretsMatchData, Running
<1> QED
  BY <1>1, <1>3, JobStays, DemandStays DEF ResourceInv

LEMMA CommandBegins ==
  ASSUME ResourceInv,
         \/ \E p \in Projects : BeginLink(p) \/ BeginUnlink(p)
         \/ \E t \in Tracks : BeginInstall(t) \/ \E force \in BOOLEAN : BeginUninstall(t, force)
  PROVE  ResourceInv'
<1>1. 0 \in 0..MaxVersion
  BY ConstantsAssumption
<1>2. ASSUME NEW p \in Projects, BeginLink(p) \/ BeginUnlink(p) PROVE ResourceInv'
  <2>1. PICK command : /\ CliBegins(command)
                       /\ \/ command = [op |-> "link", p |-> p] /\ link[p] = "new"
                          \/ command = [op |-> "unlink", p |-> p]
    BY <1>2 DEF BeginLink, BeginUnlink
  <2>2. command \in Command
    BY <2>1 DEF Command
  <2>3. command.op = "link" => link[command.p] = "new"
    BY <2>1
  <2> QED
    BY <2>1, <2>2, <2>3, CliBeginsKeeps
<1>3. ASSUME NEW t \in Tracks, BeginInstall(t) PROVE ResourceInv'
  <2>1. PICK command : CliBegins(command) /\ command = [op |-> "install", t |-> t, version |-> 0]
    BY <1>3 DEF BeginInstall
  <2>2. command \in Command /\ command.op # "link"
    BY <1>1, <2>1 DEF Command
  <2> QED
    BY <2>1, <2>2, CliBeginsKeeps
<1>4. ASSUME NEW t \in Tracks, NEW force \in BOOLEAN, BeginUninstall(t, force) PROVE ResourceInv'
  <2>1. PICK command : /\ CliBegins(command)
                       /\ command = [op |-> "uninstall", t |-> t, force |-> force]
    BY <1>4 DEF BeginUninstall
  <2>2. command \in Command /\ command.op # "link"
    BY <2>1 DEF Command
  <2> QED
    BY <2>1, <2>2, CliBeginsKeeps
<1> QED
  BY <1>2, <1>3, <1>4

LEMMA LinkKeeps ==
  ASSUME ResourceInv, LinkProject
  PROVE  ResourceInv'
<1>1. /\ requirement' = requirement /\ usage' = usage /\ allocation' = allocation
      /\ row' = row /\ port' = port /\ observed' = observed /\ config' = config
      /\ envFile' = envFile /\ data' = data /\ databases' = databases /\ files' = files
      /\ procs' = procs /\ probed' = probed /\ published' = published /\ minted' = minted
      /\ job' = job /\ cli' = None /\ link' = [link EXCEPT ![cli.p] = "linked"]
  BY DEF LinkProject, disk, world
<1>2. cli.p \in Projects /\ link[cli.p] = "new"
  BY CommandFacts DEF LinkProject, ResourceInv, RowsInv
<1>3. link' \in [Projects -> {"new", "linked", "gone"}]
  BY <1>1, <1>2, RowFacts
<1>4. RowTypeOK' /\ ResourceTypeOK'
  BY <1>1, <1>3 DEF ResourceInv, RowsInv, RowTypeOK, ReadyAllocationExists, ResourceTypeOK
<1>5. RowsInv'
  BY <1>1, <1>4 DEF ResourceInv, RowsInv, ReadyAllocationExists, SecretsMatchData, Running
<1>6. DemandIsKnown'
  <2>1. job.p # None => job.p \in Projects /\ link[job.p] # "new" /\ link'[job.p] = link[job.p]
    BY <1>1, <1>2, JobFacts, RowFacts
  <2>2. job.p # None /\ job.p \in Linked' => job.p \in Linked
    BY <2>1 DEF Linked
  <2> QED
    BY <1>1, <2>1, <2>2 DEF ResourceInv, JobInv, DemandIsKnown, Track
<1> QED
  BY <1>1, <1>5, <1>6, JobStays DEF ResourceInv

LEMMA UnlinkKeeps ==
  ASSUME ResourceInv, UnlinkProject
  PROVE  ResourceInv'
<1>1. /\ requirement' = [requirement EXCEPT ![cli.p] = None]
      /\ allocation' = [allocation EXCEPT ![cli.p] = None]
      /\ observed' = [observed EXCEPT ![cli.p] = None] /\ usage' = UsageOf(requirement')
      /\ row' = row /\ port' = port /\ config' = config
      /\ envFile' = envFile /\ data' = data /\ databases' = databases /\ files' = files
      /\ procs' = procs /\ probed' = probed /\ published' = published /\ minted' = minted
      /\ job' = job /\ cli' = None /\ link' = [link EXCEPT ![cli.p] = "gone"]
  BY DEF UnlinkProject, disk, world
<1>2. cli.p \in Projects
  BY CommandFacts DEF UnlinkProject
<1>3. /\ link' \in [Projects -> {"new", "linked", "gone"}]
      /\ requirement' \in [Projects -> Tracks \cup {None}]
      /\ allocation' \in [Projects -> Allocation \cup {None}]
      /\ observed' \in [Projects -> {None, "failed", "rendered"}]
  BY <1>1, <1>2, RowFacts
<1>4. RowTypeOK'
  BY <1>1, <1>3 DEF ResourceInv, RowsInv, RowTypeOK, UsageOf
<1>5. ResourceTypeOK'
  <2>1. usage' \in [Tracks -> 0..Cardinality(Projects)]
    BY <1>1, UsageType
  <2>2. \A q \in Projects : allocation'[q] # None => allocation'[q] \in Allocation
    BY <1>3
  <2>3. /\ row' = row /\ port' = port /\ data' = data /\ databases' = databases
        /\ files' = files /\ procs' = procs /\ minted' = minted
    BY <1>1
  <2>4. ResourceTypeOK
    BY DEF ResourceInv, RowsInv, ReadyAllocationExists
  <2> QED
    BY <1>3, <2>1, <2>2, <2>3, <2>4 DEF ResourceTypeOK, Allocation
<1>6. RowsInv'
  <2>1. \A q \in Projects : allocation'[q] # None => allocation'[q] = allocation[q]
    BY <1>1, <1>2, RowFacts
  <2>2. ReadyAllocationExists'
    BY <1>1, <1>5, <2>1 DEF ResourceInv, RowsInv, ReadyAllocationExists
  <2> QED
    BY <1>1, <1>4, <2>2 DEF ResourceInv, RowsInv, SecretsMatchData, Running
<1>7. DemandIsKnown'
  <2>1. \A q \in Projects : /\ requirement'[q] = requirement[q] \/ requirement'[q] = None
                            /\ link'[q] = "linked" => q # cli.p /\ link[q] = "linked"
                            /\ q # cli.p => requirement'[q] = requirement[q]
                            /\ link'[q] = link[q] \/ link'[q] = "gone"
    BY <1>1, <1>2, RowFacts
  <2>2. job.pc = "stop" => \A t \in job.left, q \in Projects : requirement'[q] # t
    <3> SUFFICES ASSUME job.pc = "stop", NEW t \in job.left, NEW q \in Projects
                 PROVE  requirement'[q] # t
      OBVIOUS
    <3>1. requirement[q] # t
      BY DEF ResourceInv, JobInv, DemandIsKnown
    <3>2. t # None
      BY JobFacts, ConstantsAssumption
    <3> QED
      BY <2>1, <3>1, <3>2
  <2>3. job.p # None => job.p \in Projects /\ link'[job.p] # "new"
    BY <2>1, JobFacts
  <2>4. job.p # None /\ job.p \in Linked' => job.p \in Linked /\ requirement'[job.p] = requirement[job.p]
    BY <2>1, <2>3 DEF Linked
  <2> QED
    BY <1>1, <2>2, <2>3, <2>4 DEF ResourceInv, JobInv, DemandIsKnown, Track
<1> QED
  BY <1>1, <1>6, <1>7, JobStays DEF ResourceInv

(* InstallTrack and UninstallTrack change what is desired and installed. *)
LEMMA TrackCommandKeeps ==
  ASSUME ResourceInv, InstallTrack \/ UninstallTrack
  PROVE  ResourceInv'
<1>1. /\ link' = link /\ requirement' = requirement /\ usage' = usage /\ allocation' = allocation
      /\ port' = port /\ observed' = observed /\ config' = config
      /\ envFile' = envFile /\ data' = data /\ databases' = databases /\ files' = files
      /\ procs' = procs /\ probed' = probed /\ published' = published /\ minted' = minted
      /\ job' = job
  BY DEF InstallTrack, UninstallTrack, projectRows, disk, world
<1> DEFINE Good == /\ row' \in [Tracks -> [desired : {None, "installed", "removed"}, artifact : 0..MaxVersion,
                                            env : {None} \cup [port : Ports, secret : 1..minted]]]
                   /\ \A u \in Tracks : row'[u].env = row[u].env
                   /\ cli' \in Command \cup {None} /\ (cli' # None => cli'.op # "link")
<1>2. ASSUME Running("install") \/ Running("download") PROVE Good
  <2>1. cli \in [op : {"install", "download"}, t : Tracks, version : 0..MaxVersion]
    BY <1>2, CommandFacts
  <2>2. cli.t \in Tracks /\ cli.version \in 0..MaxVersion /\ published \in 0..MaxVersion
    BY <2>1, RowFacts, ConstantsAssumption
  <2>3. InstallTrack
    BY <1>2 DEF UninstallTrack, Running
  <2>4. CASE RecordDesired(cli.t) /\ cli' = [cli EXCEPT !.op = "download", !.version = published]
    <3>1. cli' \in Command /\ cli'.op = "download"
      BY <2>1, <2>2, <2>4 DEF Command
    <3> QED
      BY <2>2, <2>4, <3>1, RecordsKeepContexts
  <2>5. CASE (RecordInstalled(cli.t, cli.version) \/ row' = row) /\ cli' = None
    BY <2>2, <2>5, RecordsKeepContexts
  <2> QED
    BY <2>3, <2>4, <2>5 DEF InstallTrack
<1>3. ASSUME Running("uninstall") \/ Running("remove") PROVE Good
  <2>1. cli \in [op : {"uninstall", "remove"}, t : Tracks, force : BOOLEAN]
    BY <1>3, CommandFacts
  <2>2. cli.t \in Tracks /\ published \in 0..MaxVersion
    BY <2>1, RowFacts, ConstantsAssumption
  <2>3. UninstallTrack
    BY <1>3 DEF InstallTrack, Running
  <2>4. CASE row' = row /\ cli' = [cli EXCEPT !.op = "remove"]
    <3>1. cli' \in Command /\ cli'.op = "remove"
      BY <2>1, <2>4 DEF Command
    <3> QED
      BY <2>2, <2>4, <3>1, RecordsKeepContexts
  <2>5. CASE (row' = row \/ row' = [row EXCEPT ![cli.t].desired = "removed"]) /\ cli' = None
    BY <2>2, <2>5, RecordsKeepContexts
  <2> QED
    BY <2>3, <2>4, <2>5 DEF UninstallTrack
<1>4. Good
  BY <1>2, <1>3 DEF InstallTrack, UninstallTrack
<1>5. RowsInv'
  <2>1. Running("link")' => cli' = cli
    BY <1>4 DEF Running
  <2> QED
    BY <1>1, <1>4, <2>1, RowFacts, ArtifactsChange DEF ResourceInv
<1> QED
  BY <1>1, <1>4, <1>5, JobStays, DemandStays DEF ResourceInv

LEMMA EnvironmentKeeps ==
  ASSUME ResourceInv, Environment
  PROVE  ResourceInv'
<1>1. /\ link' = link /\ requirement' = requirement /\ usage' = usage /\ allocation' = allocation
      /\ row' = row /\ port' = port /\ observed' = observed /\ envFile' = envFile /\ data' = data
      /\ databases' = databases /\ files' = files /\ probed' = probed /\ minted' = minted
      /\ cli' = cli
  BY DEF Environment, EditConfig, ProcessDies, ForeignBinds, Publish, DaemonDies,
     projectRows, disk, world, bounds
<1>2. config' \in [Projects -> Configs]
  BY RowFacts DEF Environment, EditConfig, ProcessDies, ForeignBinds, Publish, DaemonDies, disk
<1>3. published' \in 1..MaxVersion
  <2>1. published' = published \/ (published < MaxVersion /\ published' = published + 1)
    BY DEF Environment, EditConfig, ProcessDies, ForeignBinds, Publish, DaemonDies, world
  <2> QED
    BY <2>1, RowFacts, ConstantsAssumption
<1>4. procs' \subseteq ProcessType
  <2>1. procs' \subseteq procs
    BY DEF Environment, EditConfig, ProcessDies, ForeignBinds, Publish, DaemonDies
  <2> QED
    BY <2>1, RowFacts
<1>5. job' = job \/ job' = NoJob
  BY DEF Environment, EditConfig, ProcessDies, ForeignBinds, Publish, DaemonDies
<1>6. RowTypeOK' /\ ResourceTypeOK'
  BY <1>1, <1>2, <1>3, <1>4
  DEF ResourceInv, RowsInv, RowTypeOK, ReadyAllocationExists, ResourceTypeOK
<1>7. RowsInv'
  BY <1>1, <1>6 DEF ResourceInv, RowsInv, ReadyAllocationExists, SecretsMatchData, Running
<1>8. JobInv'
  <2>1. CASE job' = job
    BY <1>1, <2>1, JobStays, DemandStays
  <2>2. CASE job' = NoJob
    BY <2>2, NoJobIsJob, JobWaits
  <2> QED
    BY <1>5, <2>1, <2>2
<1> QED
  BY <1>7, <1>8 DEF ResourceInv

LEMMA StutterKeeps == ResourceInv /\ UNCHANGED vars => ResourceInv'
<1> SUFFICES ASSUME ResourceInv, UNCHANGED vars PROVE ResourceInv'
  OBVIOUS
<1>1. RowsInv'
  BY RowFacts, RowsStay DEF ResourceInv, vars, projectRows, disk, world
<1> QED
  BY <1>1, JobStays, DemandStays DEF ResourceInv, vars, projectRows, disk, world

LEMMA ResourceInvStep == ResourceInv /\ [Next]_vars => ResourceInv'
<1> SUFFICES ASSUME ResourceInv, [Next]_vars PROVE ResourceInv'
  OBVIOUS
<1>1. CASE JobStep
  <2>1. ASSUME NEW kind \in {"resource", "system", "update"}, StartJob(kind, Linked)
        PROVE  ResourceInv'
    <3>1. Linked \in SUBSET Projects
      BY DEF Linked
    <3> QED
      BY <2>1, <3>1, JobStarts
  <2>2. ASSUME NEW p \in Linked, StartJob("project", {p}) PROVE ResourceInv'
    <3>1. {p} \in SUBSET Projects
      BY DEF Linked
    <3> QED
      BY <2>2, <3>1, JobStarts
  <2>3. ASSUME NEW t \in Tracks, UpdateTrack(t) \/ StopTrack(t) \/ InstallMissing(t)
        PROVE  ResourceInv'
    BY <2>3, UpdateStepKeeps, StopTrackKeeps
  <2>4. ASSUME NEW p \in Projects, LoadProject(p) PROVE ResourceInv'
    BY <2>4, LoadProjectKeeps
  <2>5. CASE UpdateInstalled \/ UpdateEnds \/ PassEnds \/ SecondPass \/ SnapshotTracks \/ StopsDone
    BY <2>5, UpdateStepKeeps, PassStepKeeps
  <2>6. CASE Require \/ Allocate \/ ProjectGone \/ EnsureArtifact \/ InstallArtifact
    BY <2>6, RequireKeeps, AllocateKeeps, ProjectGoneKeeps, ArtifactStepKeeps
  <2>7. CASE \/ AssignPorts \/ RecordEnv \/ PrepareRuntime \/ AdoptRuntime \/ ForeignListener
             \/ StartRuntime \/ RuntimeReady \/ RuntimeNotReady
    BY <2>7, AssignPortsKeeps, RecordEnvKeeps, PrepareKeeps, ForeignListenerKeeps, RuntimeStepKeeps
  <2>8. CASE ReconcileAllocations \/ MarkAllocationReady \/ RenderEnv \/ Finalize
    BY <2>8, ReconcileAllocationsKeeps, MarkAllocationReadyKeeps, RenderEnvKeeps, FinalizeKeeps
  <2> QED
    BY <1>1, <2>1, <2>2, <2>3, <2>4, <2>5, <2>6, <2>7, <2>8 DEF JobStep
<1>2. CASE CliStep
  BY <1>2, CommandBegins, LinkKeeps, UnlinkKeeps, TrackCommandKeeps DEF CliStep
<1>3. CASE Environment
  BY <1>3, EnvironmentKeeps
<1>4. CASE UNCHANGED vars
  BY <1>4, StutterKeeps
<1> QED
  BY <1>1, <1>2, <1>3, <1>4 DEF Next

-----------------------------------------------------------------------------
(* Theorems *)

(* The rows, the disk and what a job knows agree in every reachable state, for
   any projects, tracks and ports and any number of events: the inductive
   invariant that the theorems below follow from. *)
THEOREM ResourcesCorrect == Spec => []ResourceInv
<1>1. Init => ResourceInv
  BY ResourceInvInit
<1>2. ResourceInv /\ [Next]_vars => ResourceInv'
  BY ResourceInvStep
<1> QED
  BY <1>1, <1>2, PTL DEF Spec

(* SecretsMatchData: the secret stored for a track is the one its data
   directory was initialised with (record_managed_resource_track_env_context
   and prepare_runtime), whatever was cut short. *)
THEOREM SecretsAreKept == Spec => []SecretsMatchData
<1>1. ResourceInv => SecretsMatchData
  BY DEF ResourceInv, RowsInv
<1> QED
  BY <1>1, ResourcesCorrect, PTL

(* ReadyAllocationExists: an allocation that mark_resource_allocation_ready
   marked exists in the data directory of its track; with it the types and
   the uniqueness of port assignments. *)
THEOREM ReadyAllocationsExist == Spec => []ReadyAllocationExists
<1>1. ResourceInv => ReadyAllocationExists
  BY DEF ResourceInv, RowsInv
<1> QED
  BY <1>1, ResourcesCorrect, PTL

LEMMA StopSparesNeeded ==
  ASSUME ResourceInv, [Next]_vars, At("stop"), job' # job, NEW r \in procs \ procs',
         NEW p \in Linked
  PROVE  requirement[p] # r.track
<1>1. p \in Projects /\ job.pc = "stop"
  BY DEF Linked, At
<1>2. PICK t \in Tracks : StopTrack(t)
  <2>1. CASE CliStep \/ UNCHANGED vars
    BY <2>1 DEF CliStep, BeginLink, BeginUnlink, BeginInstall, BeginUninstall, CliBegins,
       LinkProject, UnlinkProject, InstallTrack, UninstallTrack, vars
  <2>2. CASE Environment
    BY <2>2 DEF Environment, EditConfig, ProcessDies, ForeignBinds, Publish, DaemonDies
  <2>3. CASE JobStep
    BY <1>1, <2>3 DEF JobStep, At, StartJob, UpdateTrack, InstallMissing, LoadProject,
       UpdateInstalled, UpdateEnds, PassEnds, SecondPass, Require, Allocate, ProjectGone,
       SnapshotTracks, StopsDone, EnsureArtifact, InstallArtifact, AssignPorts, RecordEnv,
       PrepareRuntime, AdoptRuntime, ForeignListener, StartRuntime, RuntimeReady,
       RuntimeNotReady, ReconcileAllocations, MarkAllocationReady, RenderEnv, Finalize
  <2> QED
    BY <2>1, <2>2, <2>3 DEF Next
<1>3. r = files[t] /\ t \in job.left
  BY <1>2 DEF StopTrack
<1>4. r # None
  <2>1. r \in ProcessType
    BY RowFacts
  <2>2. Ports \subseteq Nat
    BY ConstantsAssumption
  <2>3. 1..MaxVersion \subseteq Nat
    OBVIOUS
  <2>4. r \in [track : Tracks, artifact : Nat, port : Nat]
    BY <2>1, <2>2, <2>3 DEF ProcessType
  <2> QED
    BY <2>4, NoneAssumption
<1>5. r.track = t
  BY <1>3, <1>4 DEF ResourceInv, RowsInv, RowTypeOK
<1> QED
  BY <1>1, <1>3, <1>5 DEF ResourceInv, JobInv, DemandIsKnown

(* NeededRuntimeKept: stop_undemanded_catalog_runtimes stops no process of a
   track that a linked project requires. *)
THEOREM NeededRuntimesAreKept == Spec => NeededRuntimeKept
<1>1. ResourceInv /\ [Next]_vars =>
        [At("stop") /\ job' # job =>
           \A r \in procs \ procs' : \A p \in Linked : requirement[p] # r.track]_vars
  BY StopSparesNeeded
<1> QED
  BY <1>1, ResourcesCorrect, PTL DEF Spec, NeededRuntimeKept

LEMMA FinalizesCurrent ==
  ASSUME ResourceInv, NEW p \in Projects, At("finalize"), job.p = p, job.plan # None, p \in Linked
  PROVE  LET t == requirement[p] IN
         /\ envFile[p].track = t /\ envFile[p].port = port[t]
         /\ envFile[p].secret = row[t].env.secret
<1>1. requirement[p] = Track
  <2>1. job.p # None /\ job.pc # "require"
    BY ConstantsAssumption DEF At
  <2> QED
    BY <2>1 DEF ResourceInv, JobInv, DemandIsKnown
<1>2. envFile[p] = [track |-> Track, port |-> port[Track], secret |-> row[Track].env.secret]
  BY DEF At, ResourceInv, JobInv, TrackIsPrepared
<1> QED
  BY <1>1, <1>2

(* RenderedEnvCurrent: finalize_project_reconciliation reports a project
   rendered only with a .env of the track it requires now, that track's port
   and the secret its server accepts. *)
THEOREM RenderedEnvsAreCurrent == Spec => RenderedEnvCurrent
<1>1. ResourceInv /\ [Next]_vars =>
        [\A p \in Projects :
           At("finalize") /\ job' # job /\ job.p = p /\ job.plan # None
             /\ p \in Linked /\ observed'[p] = "rendered" =>
             LET t == requirement[p] IN
             /\ envFile[p].track = t /\ envFile[p].port = port[t]
             /\ envFile[p].secret = row[t].env.secret]_vars
  BY FinalizesCurrent
<1> QED
  BY <1>1, ResourcesCorrect, PTL DEF Spec, RenderedEnvCurrent
=============================================================================
