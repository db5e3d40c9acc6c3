------------------------ MODULE ProjectRegistryProofs ------------------------
(***************************************************************************)
(* Proofs about ProjectRegistry for any directories, names, configs and    *)
(* PHP tracks, and any number of commands and edits: the rows of projects  *)
(* and hostnames agree, and when nothing is left to do a project is what   *)
(* its pv.yml says or is reported as failed, is routed under its hostnames *)
(* and runs the same PHP track behind the Gateway and in a shell.          *)
(***************************************************************************)
EXTENDS ProjectRegistry, WellFoundedInduction, TLAPS

Ids == 1..MaxIds
RuntimeSpace == [track : Tracks, requested : SUBSET Extensions, loaded : SUBSET Extensions]
Row == [path : Paths, slug : Range(Slugs), mode : {"served", "resource-only"},
        primary : Labels \cup {None}, track : Tracks \cup {None},
        requested : SUBSET Extensions, loaded : SUBSET Extensions]
Command ==
  [cmd : {"link"}, path : Paths, config : ConfigSpace, track : Tracks \cup {None}, primary : Labels]
    \cup [cmd : {"unlink"}, id : Ids]
    \cup [cmd : {"php:use", "php:record"}, id : Ids, selector : Tracks \cup {"latest"}, track : Tracks]
    \cup [cmd : {"php:global", "php:uninstall"}, track : Tracks]

(* The tables. *)
RowsTypeOK ==
  /\ files \in [Paths -> ConfigSpace \cup {Invalid}]
  /\ projects \in [Linked -> Row] /\ ids \in 0..MaxIds /\ Linked \subseteq 1..ids
  /\ hostnames \in [DOMAIN hostnames -> [project : Ids, primary : BOOLEAN]]
  /\ env \in [Linked -> {None, "failed", "rendered"}]
  /\ tls \in [DOMAIN tls -> [host : Labels \cup {None}, key : BOOLEAN]]
  /\ php \in [Tracks -> [desired : {None, "installed", "removed"}, installed : BOOLEAN,
                         catalog : SUBSET Extensions]]
  /\ globalPhp \in Tracks \cup {None} /\ manifest \in BOOLEAN
  /\ requests \subseteq Ids \cup {System}

(* A command that works on a project works on a linked one. *)
CommandTypeOK ==
  /\ cli \in Command \cup {Idle}
  /\ cli.cmd \in {"unlink", "php:use", "php:record"} => cli.id \in Linked

(* Steps of a job that works on what it read of a project. *)
OnProject == job # NoJob /\ job.step \in {"apply", "reread", "finalize"}
Unlinking(id) == cli.cmd = "unlink" /\ cli.id = id

(* What a job read of a project: a config, and a runtime with the version and the
   extensions the config asks for. *)
JobTypeOK ==
  /\ job # NoJob => job.scope \in Ids \cup {System} /\ job.step \in {"next", "apply", "reread", "finalize"}
  /\ OnProject =>
       /\ job = [scope |-> job.scope, step |-> job.step, pass |-> job.pass, todo |-> job.todo,
                 id |-> job.id, config |-> job.config, runtime |-> job.runtime, host |-> job.host]
       /\ job.id \in Ids /\ job.config \in ConfigSpace
       /\ job.config.serve \/ job.step = "finalize" => job.host \in Labels
       /\ job.runtime \in RuntimeSpace \cup {None}
       /\ requested_extensions(job.config) = IF job.runtime = None THEN {} ELSE job.runtime.requested
       /\ Selects(job.config, IF job.runtime = None THEN None ELSE job.runtime.track)

(* What the job works with is still what pv.yml and the row say, and from the
   second step on the TLS files are there, unless the project was asked for
   again or is being unlinked. *)
JobIsCurrent ==
  OnProject /\ job.id \in Linked /\ job.id \notin requests /\ ~Unlinking(job.id) =>
    /\ files[projects[job.id].path] = job.config
    /\ job.config.serve => job.host = served_hostname(projects[job.id])
    /\ job.step # "apply" /\ job.config.serve /\ job.config.tls =>
         project_tls_files_are_current(job.id, job.host)

(* A project that is neither reported nor applied is still to be visited. *)
Cared(id) ==
  \/ env[id] = "failed" \/ Applied(id) \/ id \in requests \/ Unlinking(id)
  \/ OnProject /\ job.id = id
  \/ job # NoJob /\ job.step = "next" /\ job.todo = <<id>>
ProjectsAreCaredFor == \A id \in Linked : Cared(id)

RegistryInv ==
  RowsTypeOK /\ CommandTypeOK /\ JobTypeOK /\ HostnameRowsMatch /\ JobIsCurrent /\ ProjectsAreCaredFor

-----------------------------------------------------------------------------
(* Commands and PHP rows *)

LEMMA EmptyTable == ASSUME NEW S PROVE <<>> \in [{} -> S]
  OBVIOUS

LEMMA RegistryInvInit == Init => RegistryInv
<1> SUFFICES ASSUME Init PROVE RegistryInv
  OBVIOUS
<1> USE DEF Init
<1>1. /\ Linked = {} /\ DOMAIN hostnames = {} /\ DOMAIN tls = {} /\ DOMAIN env = {}
  BY DEF Linked
<1>2. /\ projects \in [Linked -> Row] /\ env \in [Linked -> {None, "failed", "rendered"}]
      /\ hostnames \in [DOMAIN hostnames -> [project : Ids, primary : BOOLEAN]]
      /\ tls \in [DOMAIN tls -> [host : Labels \cup {None}, key : BOOLEAN]]
  <2>1. projects = <<>> /\ env = <<>> /\ hostnames = <<>> /\ tls = <<>>
    OBVIOUS
  <2>2. projects \in [Linked -> Row]
    BY <1>1, <2>1, EmptyTable
  <2>3. env \in [Linked -> {None, "failed", "rendered"}]
    BY <1>1, <2>1, EmptyTable
  <2>4. hostnames \in [DOMAIN hostnames -> [project : Ids, primary : BOOLEAN]]
    BY <1>1, <2>1, EmptyTable
  <2>5. tls \in [DOMAIN tls -> [host : Labels \cup {None}, key : BOOLEAN]]
    BY <1>1, <2>1, EmptyTable
  <2> QED
    BY <2>2, <2>3, <2>4, <2>5
<1>3. files \in [Paths -> ConfigSpace \cup {Invalid}]
  BY RegistryAssumption
<1>4. php \in [Tracks -> [desired : {None, "installed", "removed"}, installed : BOOLEAN,
                          catalog : SUBSET Extensions]]
  BY DEF NoRow
<1>5. RowsTypeOK
  <2>1. /\ requests \subseteq Ids \cup {System} /\ Linked \subseteq 1..ids
        /\ globalPhp \in Tracks \cup {None} /\ manifest \in BOOLEAN
    BY <1>1
  <2>2. ids = 0 /\ MaxIds \in Nat
    BY RegistryAssumption
  <2> HIDE DEF Init
  <2>3. ids \in 0..MaxIds
    BY <2>2
  <2> QED
    BY <1>2, <1>3, <1>4, <2>1, <2>3 DEF RowsTypeOK
<1>6. CommandTypeOK
  BY MarkersAssumption DEF CommandTypeOK, Idle
<1>7. JobTypeOK /\ JobIsCurrent
  BY DEF JobTypeOK, JobIsCurrent, OnProject
<1>8. HostnameRowsMatch /\ ProjectsAreCaredFor
  BY <1>1 DEF HostnameRowsMatch, ProjectsAreCaredFor
<1> QED
  BY <1>5, <1>6, <1>7, <1>8 DEF RegistryInv

(* A command is one of its kind. *)
LEMMA CommandFacts ==
  ASSUME RegistryInv
  PROVE  /\ cli.cmd = "link" => cli \in [cmd : {"link"}, path : Paths, config : ConfigSpace,
                                        track : Tracks \cup {None}, primary : Labels]
         /\ cli.cmd = "unlink" => cli.id \in Ids /\ cli.id \in Linked
         /\ cli.cmd \in {"php:use", "php:record"} =>
              /\ cli \in [cmd : {"php:use", "php:record"}, id : Ids,
                          selector : Tracks \cup {"latest"}, track : Tracks]
              /\ cli.id \in Linked
         /\ cli.cmd \in {"php:global", "php:uninstall"} => cli.track \in Tracks
<1>1. cli \in Command \cup {Idle} /\ (cli.cmd \in {"unlink", "php:use", "php:record"} => cli.id \in Linked)
  BY DEF RegistryInv, CommandTypeOK
<1>2. cli = Idle => cli.cmd \notin {"link", "unlink", "php:use", "php:record", "php:global", "php:uninstall"}
  BY MarkersAssumption DEF Idle
<1> QED
  BY <1>1, <1>2 DEF Command

(* A project, its hostnames, its pv.yml and its TLS files stay: so does that
   they were applied. *)
LEMMA AppliedStays ==
  ASSUME NEW id, Applied(id), projects'[id] = projects[id],
         files'[projects[id].path] = files[projects[id].path],
         additional_hostnames_for_project(id)' = additional_hostnames_for_project(id),
         id \in DOMAIN tls => id \in DOMAIN tls' /\ tls'[id] = tls[id]
  PROVE  Applied(id)'
  BY DEF Applied, project_tls_files_are_current, project_certificate_matches

(* Commands, PHP rows and further requests change nothing about projects. *)
LEMMA QuietStep ==
  ASSUME RegistryInv, files' = files, projects' = projects, hostnames' = hostnames, env' = env,
         tls' = tls, job' = job, ids' = ids,
         requests \subseteq requests', requests' \subseteq Ids \cup {System},
         php' \in [Tracks -> [desired : {None, "installed", "removed"}, installed : BOOLEAN,
                              catalog : SUBSET Extensions]],
         globalPhp' \in Tracks \cup {None}, manifest' \in BOOLEAN,
         cli' \in Command \cup {Idle},
         cli'.cmd \in {"unlink", "php:use", "php:record"} => cli'.id \in Linked,
         cli.cmd = "unlink" => cli' = cli
  PROVE  RegistryInv'
<1>1. Linked' = Linked
  BY DEF Linked
<1>2. RowsTypeOK'
  BY <1>1 DEF RegistryInv, RowsTypeOK
<1>3. CommandTypeOK'
  BY <1>1 DEF CommandTypeOK
<1>4. JobTypeOK'
  BY DEF RegistryInv, JobTypeOK, OnProject
<1>5. HostnameRowsMatch'
  BY <1>1 DEF RegistryInv, HostnameRowsMatch
<1>6. \A id : Unlinking(id) => Unlinking(id)'
  BY DEF Unlinking
<1>7. JobIsCurrent'
  BY <1>1, <1>6 DEF RegistryInv, JobIsCurrent, OnProject, project_tls_files_are_current,
     project_certificate_matches
<1>8. ProjectsAreCaredFor'
  <2> SUFFICES ASSUME NEW id \in Linked PROVE Cared(id)'
    BY <1>1 DEF ProjectsAreCaredFor
  <2>1. Cared(id)
    BY DEF RegistryInv, ProjectsAreCaredFor
  <2>2. Applied(id) => Applied(id)'
    BY AppliedStays DEF additional_hostnames_for_project
  <2> QED
    BY <1>6, <2>1, <2>2 DEF Cared, OnProject
<1> QED
  BY <1>2, <1>3, <1>4, <1>5, <1>7, <1>8 DEF RegistryInv

(* The types of what the steps read. *)
LEMMA RowFacts ==
  ASSUME RegistryInv
  PROVE  /\ files \in [Paths -> ConfigSpace \cup {Invalid}]
         /\ projects \in [Linked -> Row] /\ Linked \subseteq Ids
         /\ env \in [Linked -> {None, "failed", "rendered"}]
         /\ php \in [Tracks -> [desired : {None, "installed", "removed"}, installed : BOOLEAN,
                                catalog : SUBSET Extensions]]
         /\ globalPhp \in Tracks \cup {None} /\ manifest \in BOOLEAN
         /\ requests \subseteq Ids \cup {System}
<1>1. Linked \subseteq 1..ids /\ ids \in 0..MaxIds
  BY DEF RegistryInv, RowsTypeOK
<1>2. Linked \subseteq Ids
  BY <1>1, RegistryAssumption DEF Ids
<1> QED
  BY <1>2 DEF RegistryInv, RowsTypeOK

LEMMA HostOfRow ==
  ASSUME NEW p \in Row
  PROVE  served_hostname(p) \in Labels /\ served_hostname(p) # None
  BY MarkersAssumption DEF Row, served_hostname, Labels

LEMMA FirstSlug == Slugs[1] \in Labels
  BY RegistryAssumption

LEMMA SelectorType ==
  ASSUME NEW config \in ConfigSpace
  PROVE  /\ Selector(config) \in Tracks \cup {"latest", None}
         /\ requested_extensions(config) \in SUBSET Extensions
  BY DEF ConfigSpace, Selector, requested_extensions

LEMMA LinkBegins ==
  ASSUME RegistryInv, NEW path \in Paths, NEW hostname \in Hostnames \cup {None}, Link(path, hostname)
  PROVE  RegistryInv'
<1>1. PICK config, track, primary :
        /\ config = files[path] /\ config # Invalid
        /\ track = CASE Selector(config) = "latest" -> default_project_php_track
                     [] OTHER -> Selector(config)
        /\ \/ primary = hostname /\ hostname # None
           \/ \E id \in Linked : primary = served_hostname(projects[id])
           \/ primary = Slugs[1]
        /\ cli = Idle
        /\ cli' = [cmd |-> "link", path |-> path, config |-> config, track |-> track,
                   primary |-> primary]
  <2> DEFINE config == files[path]
             track == CASE Selector(config) = "latest" -> default_project_php_track
                        [] OTHER -> Selector(config)
             existing == project_by_path(path)
             named == config.serve /\ hostname # None
             primary == CASE named -> hostname
                          [] ~named /\ existing # {} -> served_hostname(projects[CHOOSE id \in existing : TRUE])
                          [] OTHER -> Slugs[1]
  <2>1. /\ config # Invalid /\ cli = Idle
        /\ cli' = [cmd |-> "link", path |-> path, config |-> config, track |-> track,
                   primary |-> primary]
    BY DEF Link, Busy
  <2>2. existing # {} => (CHOOSE id \in existing : TRUE) \in Linked
    BY DEF project_by_path
  <2>3. \/ primary = hostname /\ hostname # None
        \/ \E id \in Linked : primary = served_hostname(projects[id])
        \/ primary = Slugs[1]
    <3>1. named => hostname # None
      OBVIOUS
    <3> HIDE DEF config, named, existing
    <3>2. CASE named
      BY <3>1, <3>2
    <3>3. CASE ~named /\ existing # {}
      BY <2>2, <3>3
    <3>4. CASE ~named /\ existing = {}
      BY <3>4
    <3> QED
      BY <3>2, <3>3, <3>4
  <2> HIDE DEF primary, existing
  <2> QED
    BY <2>1, <2>3
<1>2. config \in ConfigSpace
  BY <1>1, RowFacts
<1>3. track \in Tracks \cup {None}
  <2>1. default_project_php_track \in Tracks \cup {None}
    BY RegistryAssumption DEF default_project_php_track
  <2>2. CASE Selector(config) = "latest"
    BY <1>1, <2>1, <2>2
  <2>3. CASE Selector(config) # "latest"
    BY <1>1, <1>2, <2>3, SelectorType
  <2> QED
    BY <2>2, <2>3
<1>4. primary \in Labels
  <2>1. \A id \in Linked : served_hostname(projects[id]) \in Labels
    BY RowFacts, HostOfRow
  <2> QED
    BY <1>1, <2>1, FirstSlug DEF Labels
<1>5. cli' \in Command /\ cli'.cmd = "link"
  BY <1>1, <1>2, <1>3, <1>4 DEF Command
<1>6. cli.cmd # "unlink"
  BY <1>1, MarkersAssumption DEF Idle
<1> QED
  BY <1>5, <1>6, RowFacts, QuietStep DEF Link, db, phpState

(* php:use, php:install, php:update, php:uninstall and php:use --global up to
   what they write of a project. *)
LEMMA PhpCommandKeeps ==
  ASSUME RegistryInv,
         \/ \E id \in Linked, selector \in Tracks \cup {"latest"}, catalog \in Catalogs :
              PhpUse(id, selector, catalog)
         \/ \E t \in Tracks, catalog \in Catalogs :
              PhpInstall(t, catalog) \/ PhpUseGlobal(t, catalog) \/ PhpUpdate(t, catalog)
         \/ record_global_php_default_track
         \/ \E t \in Tracks, force \in BOOLEAN : PhpUninstall(t, force)
         \/ uninstall_php_pair
  PROVE  RegistryInv'
<1> DEFINE PhpRows == [Tracks -> [desired : {None, "installed", "removed"}, installed : BOOLEAN,
                                  catalog : SUBSET Extensions]]
<1>1. cli = Idle => cli.cmd # "unlink"
  BY MarkersAssumption DEF Idle
<1>2. Idle.cmd \notin {"unlink", "php:use", "php:record"}
  BY MarkersAssumption DEF Idle
<1>0. ASSUME NEW t \in Tracks, NEW catalog \in Catalogs, InstallPair(t, catalog)
       PROVE  php' \in PhpRows /\ manifest' \in BOOLEAN
  BY <1>0, RowFacts, RegistryAssumption DEF InstallPair
<1>3. ASSUME NEW id \in Linked, NEW selector \in Tracks \cup {"latest"}, NEW catalog \in Catalogs,
             PhpUse(id, selector, catalog)
      PROVE  RegistryInv'
  <2>1. PICK track \in Tracks :
          /\ cli = Idle
          /\ cli' = [cmd |-> "php:use", id |-> id, selector |-> selector, track |-> track]
          /\ InstallPair(track, catalog)
    BY <1>3, RegistryAssumption DEF PhpUse, Busy
  <2>2. cli' \in Command /\ cli'.cmd = "php:use" /\ cli'.id = id
    BY <2>1, RowFacts DEF Command
  <2>3. php' \in PhpRows /\ manifest' \in BOOLEAN
    BY <1>0, <2>1
  <2> QED
    BY <1>1, <1>3, <2>1, <2>2, <2>3, RowFacts, QuietStep DEF PhpUse, db
<1>4. ASSUME NEW t \in Tracks, NEW catalog \in Catalogs, PhpInstall(t, catalog) PROVE RegistryInv'
  <2>1. php' \in PhpRows /\ manifest' \in BOOLEAN
    BY <1>4, <1>0 DEF PhpInstall
  <2>2. cli = Idle /\ cli' = Idle /\ requests' = requests \cup {System}
    BY <1>4 DEF PhpInstall
  <2> QED
    BY <1>1, <1>2, <1>4, <2>1, <2>2, RowFacts, QuietStep DEF PhpInstall, db
<1>5. ASSUME NEW t \in Tracks, NEW catalog \in Catalogs, PhpUseGlobal(t, catalog) PROVE RegistryInv'
  <2>1. php' \in PhpRows /\ manifest' \in BOOLEAN
    BY <1>5, <1>0 DEF PhpUseGlobal
  <2>2. cli = Idle /\ cli' = [cmd |-> "php:global", track |-> t]
    BY <1>5 DEF PhpUseGlobal, Busy
  <2>3. cli' \in Command /\ cli'.cmd = "php:global"
    BY <2>2 DEF Command
  <2> QED
    BY <1>1, <1>5, <2>1, <2>2, <2>3, RowFacts, QuietStep DEF PhpUseGlobal, db
<1>6. CASE record_global_php_default_track
  <2>1. cli' = Idle /\ cli.cmd = "php:global" /\ requests' = requests \cup {System}
    BY <1>6 DEF record_global_php_default_track, Quits
  <2>2. globalPhp' \in Tracks
    BY <1>6, <2>1, CommandFacts DEF record_global_php_default_track
  <2> QED
    BY <1>2, <1>6, <2>1, <2>2, RowFacts, QuietStep DEF record_global_php_default_track, db, counters
<1>7. ASSUME NEW t \in Tracks, NEW catalog \in Catalogs, PhpUpdate(t, catalog)
      PROVE  RegistryInv'
  <2>1. php' \in PhpRows /\ manifest' \in BOOLEAN
    <3>1. catalog \in SUBSET Extensions
      BY RegistryAssumption
    <3>2. php' = [php EXCEPT ![t].catalog = catalog] /\ manifest' = TRUE
      BY <1>7 DEF PhpUpdate
    <3> QED
      BY <3>1, <3>2, RowFacts
  <2>2. cli = Idle /\ cli' = Idle /\ requests' = requests \cup {System}
    BY <1>7 DEF PhpUpdate
  <2> QED
    BY <1>1, <1>2, <1>7, <2>1, <2>2, RowFacts, QuietStep DEF PhpUpdate, db
<1>8. ASSUME NEW t \in Tracks, NEW force \in BOOLEAN, PhpUninstall(t, force) PROVE RegistryInv'
  <2>1. cli = Idle /\ cli' = [cmd |-> "php:uninstall", track |-> t]
    BY <1>8 DEF PhpUninstall, Busy
  <2>2. cli' \in Command /\ cli'.cmd = "php:uninstall"
    BY <2>1 DEF Command
  <2> QED
    BY <1>1, <1>8, <2>1, <2>2, RowFacts, QuietStep DEF PhpUninstall, db, phpState
<1>9. CASE uninstall_php_pair
  <2>1. cli' = Idle /\ cli.cmd = "php:uninstall" /\ requests' = requests \cup {System}
    BY <1>9 DEF uninstall_php_pair, Quits
  <2>2. cli.track \in Tracks
    BY <2>1, CommandFacts
  <2>3. php' \in PhpRows
    BY <1>9, <2>2, RowFacts DEF uninstall_php_pair
  <2> QED
    BY <1>2, <1>9, <2>1, <2>3, RowFacts, QuietStep DEF uninstall_php_pair, db, counters
<1> QED
  BY <1>3, <1>4, <1>5, <1>6, <1>7, <1>8, <1>9

-----------------------------------------------------------------------------
(* The rows of projects and hostnames *)

(* A row that is written: a new one has no mode yet. *)
Draft == [path : Paths, slug : Range(Slugs), mode : {"served", "resource-only", None},
          primary : Labels \cup {None}, track : Tracks \cup {None},
          requested : SUBSET Extensions, loaded : SUBSET Extensions]

(* The hostname rows of project j. *)
Owned(j) == {h \in DOMAIN hostnames : hostnames[h].project = j}

(* Replacing the hostnames of a project by a set no other project has a name
   of touches no row of another. *)
LEMMA ReplacedHostnames ==
  ASSUME RegistryInv, NEW id \in Ids, NEW host, NEW more, host \notin more,
         \A h \in {host} \cup more : h \in DOMAIN hostnames => hostnames[h].project = id,
         hostnames' = replace_project_hostnames(id, host, more)
  PROVE  /\ hostnames' \in [DOMAIN hostnames' -> [project : Ids, primary : BOOLEAN]]
         /\ Owned(id)' = {host} \cup more
         /\ \A h \in Owned(id)' : (hostnames'[h].primary <=> h = host)
         /\ \A h \in DOMAIN hostnames' : hostnames'[h].project # id =>
              h \in DOMAIN hostnames /\ hostnames'[h] = hostnames[h]
         /\ \A h \in DOMAIN hostnames : hostnames[h].project # id =>
              h \in DOMAIN hostnames' /\ hostnames'[h] = hostnames[h]
<1> DEFINE kept == {h \in DOMAIN hostnames : hostnames[h].project # id}
           mine == {host} \cup more
           Space == [project : Ids, primary : BOOLEAN]
<1>1. hostnames' = [h \in kept \cup mine |-> IF h \in mine THEN [project |-> id, primary |-> h = host]
                                              ELSE hostnames[h]]
  BY DEF replace_project_hostnames
<1>2. \A h \in kept : h \notin mine
  OBVIOUS
<1>3. \A h : h \in kept <=> h \in DOMAIN hostnames /\ hostnames[h].project # id
  OBVIOUS
<1>4. \A h \in kept : hostnames[h] \in Space
  BY DEF RegistryInv, RowsTypeOK
<1>5. \A h \in mine : [project |-> id, primary |-> h = host] \in Space
  OBVIOUS
<1> HIDE DEF kept, mine, Space
<1>6. /\ DOMAIN hostnames' = kept \cup mine
      /\ \A h \in mine : hostnames'[h] = [project |-> id, primary |-> h = host]
      /\ \A h \in kept : hostnames'[h] = hostnames[h]
  BY <1>1, <1>2
<1>7. hostnames' \in [DOMAIN hostnames' -> Space]
  BY <1>1, <1>2, <1>4, <1>5
<1>8. \A h \in mine : hostnames'[h].project = id /\ (hostnames'[h].primary <=> h = host)
  <2> SUFFICES ASSUME NEW h \in mine
               PROVE  hostnames'[h].project = id /\ (hostnames'[h].primary <=> h = host)
    OBVIOUS
  <2>1. hostnames'[h] = [project |-> id, primary |-> h = host]
    BY <1>6
  <2>2. CASE h = host
    <3>1. hostnames'[h] = [project |-> id, primary |-> TRUE]
      BY <2>1, <2>2
    <3> QED
      BY <2>2, <3>1
  <2>3. CASE h # host
    <3>1. hostnames'[h] = [project |-> id, primary |-> FALSE]
      BY <2>1, <2>3
    <3> QED
      BY <2>3, <3>1
  <2> QED
    BY <2>2, <2>3
<1>9. Owned(id)' = mine
  BY <1>3, <1>6, <1>8 DEF Owned
<1>10. \A h \in DOMAIN hostnames' : hostnames'[h].project # id =>
         h \in DOMAIN hostnames /\ hostnames'[h] = hostnames[h]
  BY <1>3, <1>6, <1>8
<1>11. \A h \in DOMAIN hostnames : hostnames[h].project # id =>
         h \in DOMAIN hostnames' /\ hostnames'[h] = hostnames[h]
  BY <1>3, <1>6
<1> QED
  BY <1>7, <1>8, <1>9, <1>10, <1>11 DEF mine, Space

(* Writing the row and the hostnames of a project, linked or new, leaves the
   tables in agreement and every other project alone. *)
LEMMA WrittenProject ==
  ASSUME RegistryInv, NEW id \in Ids, NEW p \in Draft, NEW primary \in Labels,
         NEW additional \in SUBSET Labels, NEW mode \in {"served", "resource-only"},
         NEW track \in Tracks \cup {None},
         id \in Linked => /\ p.path = projects[id].path /\ p.slug = projects[id].slug
                          /\ p.primary = projects[id].primary,
         id \notin Linked => /\ p.primary = None
                             /\ \A i \in Linked : p.slug # projects[i].slug /\ p.path # projects[i].path,
         mode = "served" => validate_project_hostname_set(id, primary, additional),
         WriteProject(id, p, primary, additional, mode, track)
  PROVE  /\ Linked' = Linked \cup {id} /\ projects' \in [Linked' -> Row]
         /\ hostnames' \in [DOMAIN hostnames' -> [project : Ids, primary : BOOLEAN]]
         /\ HostnameRowsMatch'
         /\ \A i \in Linked : i # id =>
              /\ projects'[i] = projects[i]
              /\ additional_hostnames_for_project(i)' = additional_hostnames_for_project(i)
         /\ projects'[id] = update_project(p, IF mode = "resource-only" THEN p.primary ELSE primary,
                                           mode, track)
         /\ mode = "served" => additional_hostnames_for_project(id)' = additional
<1>1. PICK host, more :
        /\ host = IF mode = "resource-only" THEN p.primary ELSE primary
        /\ more = IF mode = "resource-only" THEN additional_hostnames_for_project(id) ELSE additional
        /\ projects' = [i \in Linked \cup {id} |->
             IF i = id THEN update_project(p, host, mode, track) ELSE projects[i]]
        /\ hostnames' = IF host # None THEN replace_project_hostnames(id, host, more) ELSE hostnames
  BY Zenon DEF WriteProject
<1>2. host \in Labels \cup {None} /\ (mode = "served" => host # None)
  BY <1>1, MarkersAssumption DEF Draft
<1>3. /\ hostnames \in [DOMAIN hostnames -> [project : Ids, primary : BOOLEAN]]
      /\ \A h \in DOMAIN hostnames : hostnames[h].project \in Linked
      /\ id \in Linked => {h \in DOMAIN hostnames : hostnames[h].project = id /\ hostnames[h].primary}
                            = IF p.primary = None THEN {} ELSE {p.primary}
  BY DEF RegistryInv, RowsTypeOK, HostnameRowsMatch
<1>4. host # None => /\ host \notin more
                     /\ \A h \in {host} \cup more : h \in DOMAIN hostnames => hostnames[h].project = id
  <2>1. CASE mode = "served"
    BY <1>1, <2>1 DEF validate_project_hostname_set
  <2>2. CASE mode = "resource-only" /\ p.primary # None
    <3>1. host = p.primary /\ id \in Linked
      BY <1>1, <2>2
    <3>2. host \in {h \in DOMAIN hostnames : hostnames[h].project = id /\ hostnames[h].primary}
      BY <1>3, <2>2, <3>1
    <3>3. more = {h \in DOMAIN hostnames : hostnames[h].project = id /\ ~hostnames[h].primary}
      BY <1>1, <2>2 DEF additional_hostnames_for_project
    <3> QED
      BY <3>2, <3>3
  <2>3. CASE mode = "resource-only" /\ p.primary = None
    BY <1>1, <2>3
  <2> QED
    BY <2>1, <2>2, <2>3
<1>5. /\ hostnames' \in [DOMAIN hostnames' -> [project : Ids, primary : BOOLEAN]]
      /\ \A h \in DOMAIN hostnames' : hostnames'[h].project # id =>
           h \in DOMAIN hostnames /\ hostnames'[h] = hostnames[h]
      /\ \A h \in DOMAIN hostnames : hostnames[h].project # id =>
           h \in DOMAIN hostnames' /\ hostnames'[h] = hostnames[h]
      /\ \A h : h \in DOMAIN hostnames' /\ hostnames'[h].project = id /\ hostnames'[h].primary
                  <=> host # None /\ h = host
      /\ mode = "served" => additional_hostnames_for_project(id)' = additional
  <2>1. CASE host # None
    <3>1. hostnames' = replace_project_hostnames(id, host, more)
      BY <1>1, <2>1
    <3>2. /\ hostnames' \in [DOMAIN hostnames' -> [project : Ids, primary : BOOLEAN]]
          /\ Owned(id)' = {host} \cup more
          /\ \A h \in Owned(id)' : (hostnames'[h].primary <=> h = host)
          /\ \A h \in DOMAIN hostnames' : hostnames'[h].project # id =>
               h \in DOMAIN hostnames /\ hostnames'[h] = hostnames[h]
          /\ \A h \in DOMAIN hostnames : hostnames[h].project # id =>
               h \in DOMAIN hostnames' /\ hostnames'[h] = hostnames[h]
      BY <1>4, <2>1, <3>1, ReplacedHostnames
    <3>3. \A h : h \in Owned(id)' <=> h \in DOMAIN hostnames' /\ hostnames'[h].project = id
      BY DEF Owned
    <3>4. \A h : h \in DOMAIN hostnames' /\ hostnames'[h].project = id /\ hostnames'[h].primary
                   <=> host # None /\ h = host
      BY <2>1, <3>2, <3>3
    <3>5. ASSUME mode = "served" PROVE additional_hostnames_for_project(id)' = additional
      <4>1. more = additional /\ host \notin more
        BY <1>1, <1>4, <2>1, <3>5
      <4>2. \A h : h \in additional_hostnames_for_project(id)' <=> h \in Owned(id)' /\ ~hostnames'[h].primary
        BY <3>3 DEF additional_hostnames_for_project
      <4>3. \A h : h \in additional_hostnames_for_project(id)' <=> h \in {host} \cup more /\ h # host
        BY <3>2, <4>2
      <4> QED
        BY <4>1, <4>3
    <3> QED
      BY <3>2, <3>4, <3>5
  <2>2. CASE host = None
    <3>1. hostnames' = hostnames /\ mode = "resource-only" /\ p.primary = None
      BY <1>1, <1>2, <2>2
    <3>2. \A h : ~(h \in DOMAIN hostnames /\ hostnames[h].project = id /\ hostnames[h].primary)
      <4>1. CASE id \in Linked
        BY <1>3, <3>1, <4>1
      <4>2. CASE id \notin Linked
        BY <1>3, <4>2
      <4> QED
        BY <4>1, <4>2
    <3> QED
      BY <1>3, <2>2, <3>1, <3>2
  <2> QED
    BY <2>1, <2>2
<1>6. \A i : i # id => additional_hostnames_for_project(i)' = additional_hostnames_for_project(i)
  BY <1>5 DEF additional_hostnames_for_project
<1>7. /\ Linked' = Linked \cup {id}
      /\ projects'[id] = update_project(p, host, mode, track)
      /\ \A i \in Linked : i # id => projects'[i] = projects[i]
      /\ projects' = [i \in Linked' |-> projects'[i]]
  BY <1>1 DEF Linked
<1>8. /\ update_project(p, host, mode, track) \in Row
      /\ update_project(p, host, mode, track).path = p.path
      /\ update_project(p, host, mode, track).slug = p.slug
      /\ update_project(p, host, mode, track).primary = host
  BY <1>2 DEF Draft, Row, update_project
<1>9. projects' \in [Linked' -> Row]
  <2>1. \A i \in Linked' : projects'[i] \in Row
    BY <1>7, <1>8, RowFacts
  <2> QED
    BY <1>7, <2>1
<1>10. HostnameRowsMatch'
  <2>1. \A h \in DOMAIN hostnames' : hostnames'[h].project \in Linked'
    BY <1>3, <1>5, <1>7
  <2>2. ASSUME NEW i \in Linked'
        PROVE  {h \in DOMAIN hostnames' : hostnames'[h].project = i /\ hostnames'[h].primary}
                 = IF projects'[i].primary = None THEN {} ELSE {projects'[i].primary}
    <3>1. CASE i = id
      <4>1. projects'[i].primary = host
        BY <1>7, <1>8, <3>1
      <4> QED
        BY <1>5, <3>1, <4>1
    <3>2. CASE i # id
      <4>1. i \in Linked /\ projects'[i] = projects[i]
        BY <1>7, <3>2
      <4>2. {h \in DOMAIN hostnames : hostnames[h].project = i /\ hostnames[h].primary}
              = IF projects[i].primary = None THEN {} ELSE {projects[i].primary}
        BY <4>1 DEF RegistryInv, HostnameRowsMatch
      <4>3. \A h : h \in DOMAIN hostnames' /\ hostnames'[h].project = i /\ hostnames'[h].primary
                     <=> h \in DOMAIN hostnames /\ hostnames[h].project = i /\ hostnames[h].primary
        BY <1>5, <3>2
      <4> QED
        BY <4>1, <4>2, <4>3
    <3> QED
      BY <3>1, <3>2
  <2>3. \A i, j \in Linked : i # j => projects[i].slug # projects[j].slug /\ projects[i].path # projects[j].path
    BY DEF RegistryInv, HostnameRowsMatch
  <2>4. projects'[id].slug = p.slug /\ projects'[id].path = p.path
    BY <1>7, <1>8
  <2>5. \A i \in Linked : i # id => p.slug # projects[i].slug /\ p.path # projects[i].path
    BY <2>3
  <2>6. \A i, j \in Linked' : i # j => /\ projects'[i].slug # projects'[j].slug
                                      /\ projects'[i].path # projects'[j].path
    BY <1>7, <2>3, <2>4, <2>5
  <2> QED
    BY <2>1, <2>2, <2>6 DEF HostnameRowsMatch
<1> QED
  BY <1>1, <1>5, <1>6, <1>7, <1>9, <1>10

(* A step leaves project i, its hostnames and its report alone. *)
Untouched(i) ==
  /\ i \in Linked /\ projects'[i] = projects[i] /\ env'[i] = env[i]
  /\ additional_hostnames_for_project(i)' = additional_hostnames_for_project(i)

-----------------------------------------------------------------------------
(* Commands that write projects or their configs *)

(* A command that touches some projects asks for each of them to be visited,
   or unlinks it, and leaves the others alone. *)
LEMMA TouchedProjects ==
  ASSUME RegistryInv, NEW T, job' = job, requests \subseteq requests',
         \A i \in T : i \notin Linked' \/ i \in requests' \/ Unlinking(i)',
         \A i \in Linked' : i \notin T =>
           /\ i \in Linked /\ projects'[i] = projects[i]
           /\ files'[projects[i].path] = files[projects[i].path] /\ env'[i] = env[i]
           /\ additional_hostnames_for_project(i)' = additional_hostnames_for_project(i)
           /\ i \in DOMAIN tls => i \in DOMAIN tls' /\ tls'[i] = tls[i]
           /\ Unlinking(i) => Unlinking(i)'
  PROVE  JobTypeOK' /\ JobIsCurrent' /\ ProjectsAreCaredFor'
<1>1. JobTypeOK'
  BY DEF RegistryInv, JobTypeOK, OnProject
<1>2. JobIsCurrent'
  <2> SUFFICES ASSUME OnProject, job.id \in Linked', job.id \notin requests', ~Unlinking(job.id)'
               PROVE  /\ files'[projects'[job.id].path] = job.config
                      /\ job.config.serve => job.host = served_hostname(projects'[job.id])
                      /\ job.step # "apply" /\ job.config.serve /\ job.config.tls =>
                           project_tls_files_are_current(job.id, job.host)'
    BY DEF JobIsCurrent, OnProject, project_tls_files_are_current, project_certificate_matches,
       served_hostname, Unlinking
  <2>1. job.id \notin T
    OBVIOUS
  <2>2. job.id \in Linked /\ job.id \notin requests /\ ~Unlinking(job.id)
    BY <2>1
  <2>3. /\ files[projects[job.id].path] = job.config
        /\ job.config.serve => job.host = served_hostname(projects[job.id])
        /\ job.step # "apply" /\ job.config.serve /\ job.config.tls =>
             project_tls_files_are_current(job.id, job.host)
    BY <2>2 DEF RegistryInv, JobIsCurrent
  <2> QED
    BY <2>1, <2>2, <2>3 DEF project_tls_files_are_current, project_certificate_matches
<1>3. ProjectsAreCaredFor'
  <2> SUFFICES ASSUME NEW i \in Linked' PROVE Cared(i)'
    BY DEF ProjectsAreCaredFor
  <2>1. CASE i \in T
    BY <2>1 DEF Cared
  <2>2. CASE i \notin T
    <3>1. Cared(i)
      BY <2>2 DEF RegistryInv, ProjectsAreCaredFor
    <3>2. Applied(i) => Applied(i)'
      BY <2>2, AppliedStays
    <3> QED
      BY <2>2, <3>1, <3>2 DEF Cared, OnProject
  <2> QED
    BY <2>1, <2>2
<1> QED
  BY <1>1, <1>2, <1>3

LEMMA UnlinkBegins ==
  ASSUME RegistryInv, NEW selector, Unlink(selector)
  PROVE  RegistryInv'
<1>1. PICK id \in resolve_project_selector(selector) :
        /\ cli = Idle /\ cli' = [cmd |-> "unlink", id |-> id]
        /\ tls' = [i \in DOMAIN tls \ {id} |-> tls[i]]
        /\ UNCHANGED <<files, db, phpState, gatewayState, requests, job, ids, edits>>
  BY DEF Unlink, Busy
<1>2. id \in Linked
  BY DEF resolve_project_selector, RegistryInv, HostnameRowsMatch
<1>3. UNCHANGED <<files, projects, hostnames, env, php, globalPhp, manifest, requests, job, ids>>
  BY <1>1 DEF db, phpState
<1>4. Linked' = Linked /\ ~Unlinking(id)
  BY <1>1, <1>3, MarkersAssumption DEF Linked, Unlinking, Idle
<1>5. RowsTypeOK'
  <2>1. tls' \in [DOMAIN tls' -> [host : Labels \cup {None}, key : BOOLEAN]]
    <3>1. tls \in [DOMAIN tls -> [host : Labels \cup {None}, key : BOOLEAN]]
      BY DEF RegistryInv, RowsTypeOK
    <3> QED
      BY <1>1, <3>1
  <2> QED
    BY <1>3, <1>4, <2>1 DEF RegistryInv, RowsTypeOK
<1>6. CommandTypeOK'
  BY <1>1, <1>2, <1>4, RowFacts DEF CommandTypeOK, Command
<1>7. HostnameRowsMatch'
  BY <1>3, <1>4 DEF RegistryInv, HostnameRowsMatch
<1>8. Unlinking(id)' /\ \A i : ~Unlinking(i)
  BY <1>1, MarkersAssumption DEF Unlinking, Idle
<1>9. \A i : i \notin {id} => (i \in DOMAIN tls => i \in DOMAIN tls' /\ tls'[i] = tls[i])
  BY <1>1
<1>10. \A i : additional_hostnames_for_project(i)' = additional_hostnames_for_project(i)
  BY <1>3 DEF additional_hostnames_for_project
<1>11. JobTypeOK' /\ JobIsCurrent' /\ ProjectsAreCaredFor'
  BY <1>3, <1>4, <1>8, <1>9, <1>10, TouchedProjects
<1> QED
  BY <1>5, <1>6, <1>7, <1>11 DEF RegistryInv

LEMMA UnlinkEnds ==
  ASSUME RegistryInv, unlink_project
  PROVE  RegistryInv'
<1>1. cli.id \in Linked
  BY CommandFacts DEF unlink_project
<1> DEFINE id == cli.id
<1>2. UNCHANGED <<files, tls, php, globalPhp, manifest, job, ids>> /\ cli' = Idle
  BY DEF unlink_project, phpState, counters, Quits
<1>3. /\ Linked' = Linked \ {id} /\ \A i \in Linked' : projects'[i] = projects[i] /\ env'[i] = env[i]
      /\ projects' = [i \in Linked' |-> projects[i]] /\ env' = [i \in Linked' |-> env[i]]
      /\ requests' = requests \cup {System}
  BY DEF unlink_project, Linked
<1>4. /\ DOMAIN hostnames' = {h \in DOMAIN hostnames : hostnames[h].project # id}
      /\ \A h \in DOMAIN hostnames' : hostnames'[h] = hostnames[h]
      /\ hostnames' = [h \in DOMAIN hostnames' |-> hostnames[h]]
  BY DEF unlink_project
<1>5. RowsTypeOK'
  <2>1. projects' \in [Linked' -> Row] /\ env' \in [Linked' -> {None, "failed", "rendered"}]
    BY <1>3, RowFacts
  <2>2. hostnames' \in [DOMAIN hostnames' -> [project : Ids, primary : BOOLEAN]]
    <3>1. hostnames \in [DOMAIN hostnames -> [project : Ids, primary : BOOLEAN]]
      BY DEF RegistryInv, RowsTypeOK
    <3>2. \A h \in DOMAIN hostnames' : hostnames[h] \in [project : Ids, primary : BOOLEAN]
      BY <1>4, <3>1
    <3> QED
      BY <1>4, <3>2
  <2>3. Linked' \subseteq 1..ids' /\ requests' \subseteq Ids \cup {System}
    BY <1>2, <1>3 DEF RegistryInv, RowsTypeOK
  <2> QED
    BY <1>2, <2>1, <2>2, <2>3 DEF RegistryInv, RowsTypeOK
<1>6. CommandTypeOK'
  BY <1>2, MarkersAssumption DEF CommandTypeOK, Idle
<1>7. HostnameRowsMatch'
  <2>1. \A h \in DOMAIN hostnames' : hostnames'[h].project \in Linked'
    BY <1>3, <1>4 DEF RegistryInv, HostnameRowsMatch
  <2>2. ASSUME NEW i \in Linked'
        PROVE  {h \in DOMAIN hostnames' : hostnames'[h].project = i /\ hostnames'[h].primary}
                 = IF projects'[i].primary = None THEN {} ELSE {projects'[i].primary}
    <3>1. i \in Linked /\ i # id /\ projects'[i] = projects[i]
      BY <1>3
    <3>2. {h \in DOMAIN hostnames : hostnames[h].project = i /\ hostnames[h].primary}
            = IF projects[i].primary = None THEN {} ELSE {projects[i].primary}
      BY <3>1 DEF RegistryInv, HostnameRowsMatch
    <3>3. \A h : h \in DOMAIN hostnames' /\ hostnames'[h].project = i /\ hostnames'[h].primary
                   <=> h \in DOMAIN hostnames /\ hostnames[h].project = i /\ hostnames[h].primary
      BY <1>4, <3>1
    <3> QED
      BY <3>1, <3>2, <3>3
  <2>3. \A i, j \in Linked' : i # j => /\ projects'[i].slug # projects'[j].slug
                                      /\ projects'[i].path # projects'[j].path
    BY <1>3 DEF RegistryInv, HostnameRowsMatch
  <2> QED
    BY <2>1, <2>2, <2>3 DEF HostnameRowsMatch
<1>8. \A i : i # id => additional_hostnames_for_project(i)' = additional_hostnames_for_project(i)
  BY <1>4 DEF additional_hostnames_for_project
<1>9. \A i : Unlinking(i) => i = id
  BY DEF Unlinking
<1>10. JobTypeOK' /\ JobIsCurrent' /\ ProjectsAreCaredFor'
  <2>1. \A i \in {id} : i \notin Linked'
    BY <1>3
  <2> HIDE DEF id
  <2> QED
    BY <1>2, <1>3, <1>8, <1>9, <2>1, TouchedProjects
<1> QED
  BY <1>5, <1>6, <1>7, <1>10 DEF RegistryInv

(* Saving a pv.yml asks for the project that is linked there. *)
LEMMA ConfigSaved ==
  ASSUME RegistryInv, NEW path \in Paths, NEW config \in ConfigSpace \cup {Invalid},
         files' = [files EXCEPT ![path] = config],
         UNCHANGED <<projects, hostnames, env, tls, php, globalPhp, manifest, job, ids>>,
         project_by_path(path) \subseteq requests',
         requests \subseteq requests', requests' \subseteq Ids \cup {System},
         cli' \in Command \cup {Idle},
         cli'.cmd \in {"unlink", "php:use", "php:record"} => cli'.id \in Linked,
         cli.cmd = "unlink" => cli' = cli
  PROVE  RegistryInv'
<1>1. Linked' = Linked
  BY DEF Linked
<1>2. RowsTypeOK'
  BY <1>1 DEF RegistryInv, RowsTypeOK
<1>3. CommandTypeOK'
  BY <1>1 DEF CommandTypeOK
<1>4. HostnameRowsMatch'
  BY <1>1 DEF RegistryInv, HostnameRowsMatch
<1>5. \A i \in Linked : i \notin project_by_path(path) =>
        files'[projects[i].path] = files[projects[i].path]
  BY RowFacts DEF project_by_path, Row
<1>6. \A i : Unlinking(i) => Unlinking(i)'
  BY DEF Unlinking
<1>7. \A i : additional_hostnames_for_project(i)' = additional_hostnames_for_project(i)
  BY DEF additional_hostnames_for_project
<1>8. JobTypeOK' /\ JobIsCurrent' /\ ProjectsAreCaredFor'
  BY <1>1, <1>5, <1>6, <1>7, TouchedProjects
<1> QED
  BY <1>2, <1>3, <1>4, <1>8 DEF RegistryInv

LEMMA EditKeeps ==
  ASSUME RegistryInv, NEW path \in Paths, NEW config \in Configs \cup {Invalid},
         EditConfig(path, config)
  PROVE  RegistryInv'
<1>1. config \in ConfigSpace \cup {Invalid}
  BY RegistryAssumption
<1>2. /\ files' = [files EXCEPT ![path] = config] /\ requests' = requests \cup project_by_path(path)
      /\ UNCHANGED <<projects, hostnames, env, tls, php, globalPhp, manifest, job, ids, cli>>
  BY DEF EditConfig, db, phpState
<1>3. project_by_path(path) \subseteq Ids /\ requests \subseteq Ids \cup {System}
  BY RowFacts DEF project_by_path
<1>4. /\ cli' \in Command \cup {Idle}
      /\ cli'.cmd \in {"unlink", "php:use", "php:record"} => cli'.id \in Linked
  BY <1>2 DEF RegistryInv, CommandTypeOK
<1> QED
  BY <1>1, <1>2, <1>3, <1>4, ConfigSaved

LEMMA UseWritesConfig ==
  ASSUME RegistryInv, write_project_php_track
  PROVE  RegistryInv'
<1>1. PICK id, selector, track, path, config :
        /\ id = cli.id /\ selector = cli.selector /\ track = cli.track
        /\ path = projects[id].path /\ config = files[path]
  OBVIOUS
<1>2. /\ cli \in [cmd : {"php:use", "php:record"}, id : Ids, selector : Tracks \cup {"latest"}, track : Tracks]
      /\ cli.cmd = "php:use" /\ id \in Linked /\ id \in Ids
  BY <1>1, CommandFacts DEF write_project_php_track
<1>3. path \in Paths /\ config \in ConfigSpace \cup {Invalid}
  BY <1>1, <1>2, RowFacts DEF Row
<1>4. UNCHANGED <<projects, hostnames, env, tls, php, globalPhp, manifest, job, ids>>
  BY DEF write_project_php_track, db, phpState, counters
<1>5. CASE config = Invalid
  <2>1. cli' = Idle /\ files' = files /\ requests' = requests
    BY <1>1, <1>5 DEF write_project_php_track, Quits
  <2>2. cli'.cmd \notin {"unlink", "php:use", "php:record"}
    BY <2>1, MarkersAssumption DEF Idle
  <2> QED
    BY <1>2, <1>4, <2>1, <2>2, RowFacts, QuietStep
<1>6. CASE config # Invalid
  <2>1. PICK written : written = [config EXCEPT !.php = Php(selector, requested_extensions(config))]
    OBVIOUS
  <2>2. /\ files' = [files EXCEPT ![path] = written]
        /\ cli' = [cli EXCEPT !.cmd = "php:record"] /\ requests' = requests \cup {id}
    BY <1>1, <1>6, <2>1 DEF write_project_php_track
  <2>3. written \in ConfigSpace
    <3>1. config \in ConfigSpace
      BY <1>3, <1>6
    <3>2. Php(selector, requested_extensions(config))
            \in [version : Tracks \cup {"latest", None}, extensions : SUBSET Extensions]
      BY <1>1, <1>2, <3>1, SelectorType DEF Php
    <3> QED
      BY <2>1, <3>1, <3>2 DEF ConfigSpace
  <2>4. cli' \in Command /\ cli'.id = id /\ cli'.cmd = "php:record"
    BY <1>1, <1>2, <2>2 DEF Command
  <2>5. project_by_path(path) \subseteq {id}
    BY <1>1, <1>2 DEF project_by_path, RegistryInv, HostnameRowsMatch
  <2> QED
    BY <1>2, <1>3, <1>4, <2>2, <2>3, <2>4, <2>5, RowFacts, ConfigSaved
<1> QED
  BY <1>5, <1>6

LEMMA UseWritesRow ==
  ASSUME RegistryInv, replace_project_desired_php_track
  PROVE  RegistryInv'
<1>1. PICK id, track : id = cli.id /\ track = cli.track
  OBVIOUS
<1>2. id \in Linked /\ id \in Ids /\ track \in Tracks /\ cli.cmd = "php:record"
  BY <1>1, CommandFacts DEF replace_project_desired_php_track
<1>3. /\ projects' = [projects EXCEPT ![id].track = track, ![id].requested = {}, ![id].loaded = {}]
      /\ requests' = requests \cup {id} /\ cli' = Idle
      /\ UNCHANGED <<files, hostnames, env, tls, php, globalPhp, manifest, job, ids>>
  BY <1>1 DEF replace_project_desired_php_track, phpState, counters, Quits
<1>4. /\ Linked' = Linked /\ \A i \in Linked : i # id => projects'[i] = projects[i]
      /\ projects'[id] = [projects[id] EXCEPT !.track = track, !.requested = {}, !.loaded = {}]
  BY <1>2, <1>3, RowFacts DEF Linked
<1>5. projects[id] \in Row
  BY <1>2, RowFacts
<1>6. /\ projects'[id] \in Row /\ projects'[id].slug = projects[id].slug
      /\ projects'[id].path = projects[id].path /\ projects'[id].primary = projects[id].primary
  BY <1>2, <1>4, <1>5 DEF Row
<1>7. RowsTypeOK'
  <2>1. projects' \in [Linked' -> Row]
    <3>1. \A i \in Linked' : projects'[i] \in Row
      BY <1>4, <1>6, RowFacts
    <3>2. projects' = [i \in Linked' |-> projects'[i]]
      BY <1>3, <1>4, RowFacts
    <3> QED
      BY <3>1, <3>2
  <2> QED
    BY <1>2, <1>3, <1>4, <2>1 DEF RegistryInv, RowsTypeOK
<1>8. CommandTypeOK'
  BY <1>3, MarkersAssumption DEF CommandTypeOK, Idle
<1>9. HostnameRowsMatch'
  <2>1. \A i \in Linked : /\ projects'[i].slug = projects[i].slug
                          /\ projects'[i].path = projects[i].path
                          /\ projects'[i].primary = projects[i].primary
    BY <1>4, <1>6
  <2>2. hostnames' = hostnames /\ Linked' = Linked /\ HostnameRowsMatch
    BY <1>3, <1>4 DEF RegistryInv
  <2> QED
    BY <2>1, <2>2 DEF HostnameRowsMatch
<1>10. \A i : additional_hostnames_for_project(i)' = additional_hostnames_for_project(i) /\ ~Unlinking(i)
  BY <1>2, <1>3 DEF additional_hostnames_for_project, Unlinking
<1>11. JobTypeOK' /\ JobIsCurrent' /\ ProjectsAreCaredFor'
  <2>1. \A i \in Linked' : i \notin {id} => i \in Linked /\ projects'[i] = projects[i]
    BY <1>4
  <2> QED
    BY <1>3, <1>10, <2>1, TouchedProjects
<1> QED
  BY <1>7, <1>8, <1>9, <1>11 DEF RegistryInv

LEMMA LeastElement ==
  ASSUME NEW T, T \subseteq Nat, T # {}
  PROVE  Min(T) \in T
<1> DEFINE R == OpToRel(<, Nat)
<1>1. IsWellFoundedOn(R, Nat)
  BY NatLessThanWellFounded
<1>2. \A x, y \in Nat : x < y => <<x, y>> \in R
  BY DEF OpToRel
<1> HIDE DEF R
<1>3. PICK x \in T : \A y \in T : ~(<<y, x>> \in R)
  BY <1>1, WFMin
<1>4. ASSUME NEW y \in T PROVE x =< y
  <2>1. ~(y < x)
    BY <1>2, <1>3
  <2> QED
    BY <2>1
<1>5. \E z \in T : \A y \in T : z =< y
  BY <1>4
<1> QED
  BY <1>5 DEF Min

(* A generated slug is no other project's. *)
LEMMA FreshSlug ==
  ASSUME generate_project_slug # None
  PROVE  /\ generate_project_slug \in Range(Slugs)
         /\ \A i \in Linked : projects[i].slug # generate_project_slug
<1> DEFINE free == {i \in 1..Len(Slugs) : \A id \in Linked : projects[id].slug # Slugs[i]}
<1>1. free # {} /\ generate_project_slug = Slugs[Min(free)]
  BY DEF generate_project_slug
<1>2. Min(free) \in free
  <2>1. free \subseteq Nat
    OBVIOUS
  <2> HIDE DEF free
  <2> QED
    BY <1>1, <2>1, LeastElement
<1>3. \A i \in 1..Len(Slugs) : Slugs[i] \in Range(Slugs)
  BY RegistryAssumption DEF Range
<1> QED
  BY <1>1, <1>2, <1>3

LEMMA LinkEnds ==
  ASSUME RegistryInv, link_project_with_mode
  PROVE  /\ RegistryInv' /\ Linked \subseteq Linked'
         /\ \E T \in SUBSET requests' : \A i \in Linked' : i \notin T => Untouched(i)
<1>1. PICK path, config, track, primary :
        /\ path = cli.path /\ config = cli.config /\ track = cli.track /\ primary = cli.primary
  OBVIOUS
<1>2. /\ path \in Paths /\ config \in ConfigSpace /\ track \in Tracks \cup {None} /\ primary \in Labels
      /\ cli.cmd = "link" /\ cli' = Idle
  BY <1>1, CommandFacts DEF link_project_with_mode, Quits
<1>3. PICK existing, id, p :
        /\ existing = project_by_path(path)
        /\ id = IF existing = {} THEN ids + 1 ELSE CHOOSE i \in existing : TRUE
        /\ p = IF existing = {} THEN [path |-> path, slug |-> generate_project_slug, mode |-> None,
                                      primary |-> None, track |-> None, requested |-> {}, loaded |-> {}]
               ELSE projects[id]
  OBVIOUS
<1>4. UNCHANGED <<files, tls, php, globalPhp, manifest, job>>
  BY DEF link_project_with_mode, phpState
<1>5. \/ /\ config.serve => validate_project_hostname_set(id, primary, config.hostnames)
         /\ id <= MaxIds /\ p.slug # None
         /\ WriteProject(id, p, primary, config.hostnames, Mode(config), track)
         /\ env' = [i \in Linked \cup {id} |-> IF i \in Linked THEN env[i] ELSE None]
         /\ ids' = IF existing = {} THEN id ELSE ids
         /\ requests' = requests \cup {id}
      \/ UNCHANGED <<projects, hostnames, env, ids, requests>>
  BY <1>1, <1>3 DEF link_project_with_mode, db
<1>6. cli'.cmd \notin {"unlink", "php:use", "php:record"} /\ cli' \in Command \cup {Idle}
  BY <1>2, MarkersAssumption DEF Idle
<1>7. CASE UNCHANGED <<projects, hostnames, env, ids, requests>>
  <2>1. RegistryInv'
    BY <1>2, <1>4, <1>6, <1>7, RowFacts, QuietStep
  <2>2. Linked' = Linked /\ \A i \in Linked' : Untouched(i)
    BY <1>7 DEF Linked, Untouched, additional_hostnames_for_project
  <2> QED
    BY <2>1, <2>2
<1>8. CASE /\ config.serve => validate_project_hostname_set(id, primary, config.hostnames)
           /\ id <= MaxIds /\ p.slug # None
           /\ WriteProject(id, p, primary, config.hostnames, Mode(config), track)
           /\ env' = [i \in Linked \cup {id} |-> IF i \in Linked THEN env[i] ELSE None]
           /\ ids' = IF existing = {} THEN id ELSE ids
           /\ requests' = requests \cup {id}
  <2>1. ids \in Nat /\ MaxIds \in Nat /\ ids <= MaxIds /\ Linked \subseteq 1..ids
    BY RegistryAssumption DEF RegistryInv, RowsTypeOK
  <2>2. existing = {} =>
          /\ id \in Ids /\ id \notin Linked /\ ids' = id /\ p \in Draft /\ p.primary = None
          /\ \A i \in Linked : p.slug # projects[i].slug /\ p.path # projects[i].path
    <3> SUFFICES ASSUME existing = {}
                 PROVE  /\ id \in Ids /\ id \notin Linked /\ ids' = id /\ p \in Draft /\ p.primary = None
                        /\ \A i \in Linked : p.slug # projects[i].slug /\ p.path # projects[i].path
      OBVIOUS
    <3>1. id = ids + 1 /\ ids' = id /\ id <= MaxIds
      BY <1>3, <1>8
    <3>2. id \in Ids /\ id \notin Linked
      BY <2>1, <3>1 DEF Ids
    <3>3. p = [path |-> path, slug |-> generate_project_slug, mode |-> None,
               primary |-> None, track |-> None, requested |-> {}, loaded |-> {}]
      BY <1>3
    <3>4. p.slug = generate_project_slug /\ p.path = path /\ p.primary = None
      BY <3>3
    <3>5. p.slug \in Range(Slugs) /\ \A i \in Linked : p.slug # projects[i].slug
      BY <1>8, <3>4, FreshSlug
    <3>6. p \in Draft
      BY <1>2, <3>3, <3>4, <3>5 DEF Draft
    <3>7. \A i \in Linked : p.path # projects[i].path
      BY <1>3, <3>4 DEF project_by_path
    <3> QED
      BY <3>1, <3>2, <3>4, <3>5, <3>6, <3>7
  <2>3. existing # {} => /\ id \in Linked /\ id \in Ids /\ p = projects[id] /\ p \in Draft /\ ids' = ids
    <3> SUFFICES ASSUME existing # {}
                 PROVE  id \in Linked /\ id \in Ids /\ p = projects[id] /\ p \in Draft /\ ids' = ids
      OBVIOUS
    <3>1. id \in existing /\ p = projects[id] /\ ids' = ids
      BY <1>3, <1>8
    <3>2. id \in Linked
      BY <1>3, <3>1 DEF project_by_path
    <3> QED
      BY <3>1, <3>2, RowFacts DEF Row, Draft
  <2>4. id \in Ids /\ p \in Draft
    BY <2>2, <2>3
  <2>5. /\ config.hostnames \in SUBSET Labels /\ Mode(config) \in {"served", "resource-only"}
        /\ Mode(config) = "served" => validate_project_hostname_set(id, primary, config.hostnames)
    BY <1>2, <1>8 DEF ConfigSpace, Mode
  <2>6. /\ Linked' = Linked \cup {id} /\ projects' \in [Linked' -> Row]
        /\ hostnames' \in [DOMAIN hostnames' -> [project : Ids, primary : BOOLEAN]]
        /\ HostnameRowsMatch'
        /\ \A i \in Linked : i # id =>
             /\ projects'[i] = projects[i]
             /\ additional_hostnames_for_project(i)' = additional_hostnames_for_project(i)
    <3>1. id \in Linked => /\ p.path = projects[id].path /\ p.slug = projects[id].slug
                           /\ p.primary = projects[id].primary
      BY <2>2, <2>3
    <3>2. id \notin Linked => /\ p.primary = None
                              /\ \A i \in Linked : p.slug # projects[i].slug /\ p.path # projects[i].path
      BY <2>2, <2>3
    <3>3. PICK hosts, mode : hosts = config.hostnames /\ mode = Mode(config)
      OBVIOUS
    <3>4. /\ hosts \in SUBSET Labels /\ mode \in {"served", "resource-only"}
          /\ mode = "served" => validate_project_hostname_set(id, primary, hosts)
          /\ WriteProject(id, p, primary, hosts, mode, track)
      BY <1>8, <2>5, <3>3
    <3>5. id \in Ids /\ p \in Draft /\ primary \in Labels /\ track \in Tracks \cup {None}
      BY <1>2, <2>4
    <3> QED
      BY <3>1, <3>2, <3>4, <3>5, WrittenProject
  <2>7. RowsTypeOK'
    <3>1. ids' \in 0..MaxIds /\ Linked' \subseteq 1..ids'
      <4>1. CASE existing = {}
        <5>1. ids' = ids + 1 /\ id = ids + 1 /\ id \in 1..MaxIds /\ Linked' = Linked \cup {id}
          BY <1>3, <2>2, <2>6, <4>1 DEF Ids
        <5> QED
          BY <2>1, <5>1
      <4>2. CASE existing # {}
        <5>1. ids' = ids /\ Linked' = Linked
          BY <2>3, <2>6, <4>2
        <5> QED
          BY <2>1, <5>1
      <4> QED
        BY <4>1, <4>2
    <3>2. env' \in [Linked' -> {None, "failed", "rendered"}]
      <4>1. env' = [i \in Linked' |-> IF i \in Linked THEN env[i] ELSE None]
        BY <1>8, <2>6
      <4>2. \A i \in Linked : env[i] \in {None, "failed", "rendered"}
        BY RowFacts
      <4> QED
        BY <4>1, <4>2
    <3> QED
      BY <1>4, <1>8, <2>4, <2>6, <3>1, <3>2 DEF RegistryInv, RowsTypeOK
  <2>8. CommandTypeOK'
    BY <1>6 DEF CommandTypeOK
  <2>9. \A i \in Linked' : i \notin {id} =>
          /\ i \in Linked /\ projects'[i] = projects[i]
          /\ additional_hostnames_for_project(i)' = additional_hostnames_for_project(i)
          /\ env'[i] = env[i] /\ ~Unlinking(i)
    BY <1>2, <1>8, <2>6 DEF Unlinking
  <2>10. JobTypeOK' /\ JobIsCurrent' /\ ProjectsAreCaredFor'
    BY <1>4, <1>8, <2>9, TouchedProjects
  <2>11. RegistryInv'
    BY <2>6, <2>7, <2>8, <2>10 DEF RegistryInv
  <2>12. {id} \in SUBSET requests' /\ \A i \in Linked' : i \notin {id} => Untouched(i)
    BY <1>8, <2>9 DEF Untouched
  <2> QED
    BY <2>6, <2>11, <2>12
<1> QED
  BY <1>5, <1>7, <1>8

-----------------------------------------------------------------------------
(* The steps of a job *)

LEMMA JobBegins ==
  ASSUME RegistryInv, NEW scope \in requests, StartJob(scope)
  PROVE  RegistryInv'
<1>1. PICK todo : /\ job' = [scope |-> scope, step |-> "next", pass |-> 1, todo |-> todo]
                  /\ scope # System => todo = <<scope>>
  BY DEF StartJob
<1>2. /\ job = NoJob /\ requests' = requests \ {scope}
      /\ UNCHANGED <<files, projects, hostnames, env, tls, php, globalPhp, manifest, cli, ids>>
  BY DEF StartJob, db, phpState, counters
<1>3. scope \in Ids \cup {System}
  BY RowFacts
<1>4. job' # NoJob /\ job'.step = "next" /\ job'.scope = scope /\ job'.todo = todo
  BY <1>1, <1>3, MarkersAssumption DEF NoJob, Ids
<1>5. Linked' = Linked
  BY <1>2 DEF Linked
<1>6. RowsTypeOK'
  BY <1>2, <1>5 DEF RegistryInv, RowsTypeOK
<1>7. CommandTypeOK' /\ HostnameRowsMatch'
  BY <1>2, <1>5 DEF RegistryInv, CommandTypeOK, HostnameRowsMatch
<1>8. JobTypeOK' /\ JobIsCurrent'
  BY <1>3, <1>4 DEF JobTypeOK, JobIsCurrent, OnProject
<1>9. ProjectsAreCaredFor'
  <2> SUFFICES ASSUME NEW i \in Linked PROVE Cared(i)'
    BY <1>5 DEF ProjectsAreCaredFor
  <2>1. i # System
    BY RowFacts, MarkersAssumption DEF Ids
  <2>2. CASE i = scope
    BY <1>1, <1>4, <2>1, <2>2 DEF Cared
  <2>3. CASE i # scope
    <3>1. Cared(i)
      BY DEF RegistryInv, ProjectsAreCaredFor
    <3>2. Applied(i) => Applied(i)'
      BY <1>2, AppliedStays DEF additional_hostnames_for_project
    <3> QED
      BY <1>2, <2>3, <3>1, <3>2 DEF Cared, OnProject, Unlinking
  <2> QED
    BY <2>2, <2>3
<1> QED
  BY <1>6, <1>7, <1>8, <1>9 DEF RegistryInv

(* A step of a job that writes no project row: it may work on one project. *)
LEMMA JobStepKeeps ==
  ASSUME RegistryInv, NEW id,
         UNCHANGED <<files, projects, hostnames, requests, cli>>,
         RowsTypeOK', JobTypeOK', JobIsCurrent',
         id \in Linked => Cared(id)',
         \A i \in Linked : i # id =>
           /\ env'[i] = env[i] \/ env'[i] = "failed"
           /\ i \in DOMAIN tls => i \in DOMAIN tls' /\ tls'[i] = tls[i]
           /\ ~(OnProject /\ job.id = i)
           /\ ~(job # NoJob /\ job.step = "next" /\ job.todo = <<i>>)
  PROVE  RegistryInv'
<1>1. Linked' = Linked
  BY DEF Linked
<1>2. CommandTypeOK' /\ HostnameRowsMatch'
  BY <1>1 DEF RegistryInv, CommandTypeOK, HostnameRowsMatch
<1>3. ProjectsAreCaredFor'
  <2> SUFFICES ASSUME NEW i \in Linked, i # id PROVE Cared(i)'
    BY <1>1 DEF ProjectsAreCaredFor
  <2>1. Cared(i)
    BY DEF RegistryInv, ProjectsAreCaredFor
  <2>2. Applied(i) => Applied(i)'
    BY AppliedStays DEF additional_hostnames_for_project
  <2> QED
    BY <2>1, <2>2 DEF Cared, Unlinking
<1> QED
  BY <1>2, <1>3 DEF RegistryInv

(* Where a job goes after a project that failed, or was done with. *)
LEMMA JobGoesOn ==
  ASSUME RegistryInv, job # NoJob, job' \in {Rest, NoJob}
  PROVE  JobTypeOK' /\ JobIsCurrent'
<1>1. job.scope \in Ids \cup {System}
  BY DEF RegistryInv, JobTypeOK
<1>2. CASE job' = NoJob
  BY <1>2 DEF JobTypeOK, JobIsCurrent, OnProject
<1>3. CASE job' = Rest
  <2>1. job'.step = "next" /\ job'.scope = job.scope
    BY <1>3 DEF Rest
  <2> QED
    BY <1>1, <2>1 DEF JobTypeOK, JobIsCurrent, OnProject
<1> QED
  BY <1>2, <1>3

(* The runtime a job resolves asks for the extensions of the config. *)
LEMMA ResolvedRuntime ==
  ASSUME RegistryInv, NEW p, p.track \in Tracks \cup {None}, NEW config \in ConfigSpace,
         NEW runtime, runtime = maybe_resolve_project_php_runtime(p, config), runtime # Invalid
  PROVE  /\ runtime \in RuntimeSpace \cup {None}
         /\ requested_extensions(config) = IF runtime = None THEN {} ELSE runtime.requested
         /\ Selects(config, IF runtime = None THEN None ELSE runtime.track)
<1>1. CASE runtime = None /\ config.php = None
  BY <1>1 DEF requested_extensions, Selects, Selector
<1>2. CASE ~(runtime = None /\ config.php = None)
  <2>1. /\ ~(~config.serve /\ config.php = None)
        /\ ~(config.php = None /\ p.track = None /\ ~manifest /\ globalPhp = None)
        /\ runtime = resolve_project_php_runtime(p, config)
    BY <1>2 DEF maybe_resolve_project_php_runtime
  <2>2. PICK stored, track :
          /\ stored \in Tracks \cup {None}
          /\ track = resolve_project_php_track(Selector(config), stored)
          /\ runtime = IF track = None THEN Invalid
                       ELSE Runtime(track, requested_extensions(config),
                                    resolve_php_extension_request(track, requested_extensions(config)))
    BY <2>1 DEF resolve_project_php_runtime
  <2>3. track # None
    BY <2>2
  <2>4. track \in Tracks
    <3>1. /\ Selector(config) \in Tracks \cup {"latest", None} /\ globalPhp \in Tracks \cup {None}
          /\ default_project_php_track \in Tracks \cup {None}
      BY SelectorType, RowFacts, RegistryAssumption DEF default_project_php_track
    <3>2. CASE Selector(config) = "latest"
      BY <2>2, <2>3, <3>1, <3>2 DEF resolve_project_php_track
    <3>3. CASE Selector(config) \notin {None, "latest"}
      BY <2>2, <2>3, <3>1, <3>3 DEF resolve_project_php_track
    <3>4. CASE Selector(config) = None /\ Selector(config) # "latest"
      BY <2>2, <2>3, <3>1, <3>4 DEF resolve_project_php_track
    <3> QED
      BY <3>2, <3>3, <3>4
  <2>5. PICK loaded \in SUBSET Extensions : runtime = Runtime(track, requested_extensions(config), loaded)
    <3>1. resolve_php_extension_request(track, requested_extensions(config)) \in SUBSET Extensions
      BY SelectorType DEF resolve_php_extension_request
    <3> QED
      BY <2>2, <2>3, <3>1
  <2>6. runtime \in RuntimeSpace /\ runtime.requested = requested_extensions(config)
    BY <2>4, <2>5, SelectorType DEF Runtime, RuntimeSpace
  <2>7. runtime # None
    BY <2>6, MarkersAssumption DEF RuntimeSpace
  <2>8. Selects(config, track)
    <3>1. CASE Selector(config) \in {None, "latest"}
      BY <2>3, <3>1 DEF Selects
    <3>2. CASE Selector(config) \notin {None, "latest"}
      BY <2>2, <3>2 DEF Selects, resolve_project_php_track
    <3> QED
      BY <3>1, <3>2
  <2>9. runtime.track = track
    BY <2>5 DEF Runtime
  <2> QED
    BY <2>6, <2>7, <2>8, <2>9
<1> QED
  BY <1>1, <1>2

LEMMA FailedVisit ==
  ASSUME RegistryInv, NEW id, ProjectFails(id)
  PROVE  /\ job' \in {Rest, NoJob} /\ (id \in Linked => env'[id] = "failed")
         /\ env' \in [Linked -> {None, "failed", "rendered"}]
         /\ \A i : i # id => env'[i] = env[i]
<1>1. env \in [Linked -> {None, "failed", "rendered"}]
  BY RowFacts
<1>2. CASE id \in Linked
  <2>1. env' = [env EXCEPT ![id] = "failed"]
    BY <1>2 DEF ProjectFails
  <2> QED
    BY <1>1, <1>2, <2>1 DEF ProjectFails
<1>3. CASE id \notin Linked
  BY <1>1, <1>3 DEF ProjectFails
<1> QED
  BY <1>2, <1>3

Certificate == [host : Labels \cup {None}, key : BOOLEAN]

LEMMA CertificateWritten ==
  ASSUME RegistryInv, NEW id, NEW c \in Certificate,
         tls' = [i \in DOMAIN tls \cup {id} |-> IF i = id THEN c ELSE tls[i]]
  PROVE  /\ tls' \in [DOMAIN tls' -> Certificate] /\ id \in DOMAIN tls' /\ tls'[id] = c
         /\ \A i \in DOMAIN tls : i # id => i \in DOMAIN tls' /\ tls'[i] = tls[i]
<1>1. tls \in [DOMAIN tls -> Certificate]
  BY DEF RegistryInv, RowsTypeOK, Certificate
<1> QED
  BY <1>1

LEMMA VisitKeeps ==
  ASSUME RegistryInv, NEW id \in Ids, LoadProject(id)
  PROVE  RegistryInv'
<1>1. PICK p, config, candidate, runtime :
        /\ p = projects[id] /\ config = files[p.path]
        /\ candidate = project_with_config_mode(p, config)
        /\ runtime = maybe_resolve_project_php_runtime(candidate, config)
  OBVIOUS
<1>2. /\ job # NoJob /\ job.step = "next" /\ Head(job.todo) = id
      /\ UNCHANGED <<files, projects, hostnames, requests, cli, ids, php, globalPhp, manifest>>
  BY DEF LoadProject, Visits, At, phpState, counters
<1>3. \/ /\ id \notin Linked /\ ProjectFails(id) /\ tls' = tls
      \/ /\ id \in Linked /\ ProjectFails(id)
         /\ \E required : maintain_existing_project_tls(id, p, required)
      \/ /\ id \in Linked /\ config # Invalid /\ runtime # Invalid
         /\ IF config.serve /\ config.tls THEN WriteCertificate(id, candidate.primary) ELSE tls' = tls
         /\ job' = [scope |-> job.scope, step |-> "apply", pass |-> job.pass, todo |-> job.todo,
                    id |-> id, config |-> config, runtime |-> runtime, host |-> candidate.primary]
         /\ env' = env
  <2>1. CASE id \notin Linked
    BY <2>1 DEF LoadProject
  <2>2. CASE id \in Linked /\ config = Invalid
    BY <1>1, <2>2 DEF LoadProject
  <2>3. CASE id \in Linked /\ config # Invalid /\ (~validate_project_config(id, candidate, config) \/ runtime = Invalid)
    BY <1>1, <2>3 DEF LoadProject
  <2>4. CASE id \in Linked /\ config # Invalid /\ validate_project_config(id, candidate, config) /\ runtime # Invalid
    BY <1>1, <2>4 DEF LoadProject
  <2> QED
    BY <2>1, <2>2, <2>3, <2>4
<1>4. Linked' = Linked /\ ~OnProject
  BY <1>2 DEF Linked, OnProject
<1>5. \A i \in Linked : i # id => job.todo # <<i>>
  BY <1>2
<1>6. id \in Linked => p \in Row /\ config \in ConfigSpace \cup {Invalid}
  BY <1>1, RowFacts DEF Row
<1>7. ASSUME tls' \in [DOMAIN tls' -> Certificate], env' \in [Linked -> {None, "failed", "rendered"}]
      PROVE  RowsTypeOK'
  BY <1>2, <1>4, <1>7 DEF RegistryInv, RowsTypeOK, Certificate
<1>8. CASE id \notin Linked /\ ProjectFails(id) /\ tls' = tls
  <2>1. RowsTypeOK'
    BY <1>7, <1>8, FailedVisit DEF RegistryInv, RowsTypeOK, Certificate
  <2>2. JobTypeOK' /\ JobIsCurrent'
    BY <1>2, <1>8, FailedVisit, JobGoesOn
  <2> QED
    BY <1>2, <1>4, <1>5, <1>8, <2>1, <2>2, FailedVisit, JobStepKeeps
<1>9. CASE /\ id \in Linked /\ ProjectFails(id)
           /\ \E required : maintain_existing_project_tls(id, p, required)
  <2>1. /\ tls' \in [DOMAIN tls' -> Certificate]
        /\ \A i \in DOMAIN tls : i # id => i \in DOMAIN tls' /\ tls'[i] = tls[i]
    <3>1. tls \in [DOMAIN tls -> Certificate]
      BY DEF RegistryInv, RowsTypeOK, Certificate
    <3>2. CASE tls' = tls
      BY <3>1, <3>2
    <3>3. PICK c : c = generate_project_certificate(p.primary, TRUE)
      OBVIOUS
    <3>4. c \in Certificate
      BY <1>6, <1>9, <3>3 DEF Row, Certificate, generate_project_certificate
    <3>5. CASE tls' = [i \in DOMAIN tls \cup {id} |-> IF i = id THEN c ELSE tls[i]]
      BY <3>4, <3>5, CertificateWritten
    <3> QED
      BY <1>9, <3>2, <3>3, <3>5 DEF maintain_existing_project_tls
  <2>2. RowsTypeOK'
    BY <1>7, <1>9, <2>1, FailedVisit
  <2>3. JobTypeOK' /\ JobIsCurrent'
    BY <1>2, <1>9, FailedVisit, JobGoesOn
  <2>4. Cared(id)'
    BY <1>9, FailedVisit DEF Cared
  <2> QED
    BY <1>2, <1>4, <1>5, <1>9, <2>1, <2>2, <2>3, <2>4, FailedVisit, JobStepKeeps
<1>10. CASE /\ id \in Linked /\ config # Invalid /\ runtime # Invalid
            /\ IF config.serve /\ config.tls THEN WriteCertificate(id, candidate.primary) ELSE tls' = tls
            /\ job' = [scope |-> job.scope, step |-> "apply", pass |-> job.pass, todo |-> job.todo,
                       id |-> id, config |-> config, runtime |-> runtime, host |-> candidate.primary]
            /\ env' = env
  <2>1. p \in Row /\ config \in ConfigSpace
    BY <1>6, <1>10
  <2>2. /\ candidate.track = p.track /\ p.track \in Tracks \cup {None}
        /\ config.serve => candidate.primary = served_hostname(p) /\ candidate.primary \in Labels
    BY <1>1, <2>1, HostOfRow DEF project_with_config_mode, Row
  <2>3. /\ tls' \in [DOMAIN tls' -> Certificate]
        /\ \A i \in DOMAIN tls : i # id => i \in DOMAIN tls' /\ tls'[i] = tls[i]
    <3>1. tls \in [DOMAIN tls -> Certificate]
      BY DEF RegistryInv, RowsTypeOK, Certificate
    <3>2. CASE tls' = tls
      BY <3>1, <3>2
    <3>3. CASE tls' # tls
      <4>1. PICK c : c = generate_project_certificate(candidate.primary, FALSE)
        OBVIOUS
      <4>2. config.serve /\ tls' = [i \in DOMAIN tls \cup {id} |-> IF i = id THEN c ELSE tls[i]]
        BY <1>10, <3>3, <4>1 DEF WriteCertificate
      <4>3. c \in Certificate
        BY <2>2, <4>1, <4>2 DEF Certificate, generate_project_certificate
      <4> QED
        BY <4>2, <4>3, CertificateWritten
    <3> QED
      BY <3>2, <3>3
  <2>4. RowsTypeOK'
    BY <1>7, <1>10, <2>3, RowFacts
  <2>5. /\ job'.step = "apply" /\ job'.id = id /\ job'.config = config /\ job'.runtime = runtime
        /\ job'.host = candidate.primary /\ job'.scope = job.scope /\ job'.pass = job.pass
        /\ job'.todo = job.todo
    BY <1>10
  <2>6. job.scope \in Ids \cup {System}
    BY <1>2 DEF RegistryInv, JobTypeOK
  <2>7. job' # NoJob
    BY <2>5, <2>6, MarkersAssumption DEF NoJob, Ids
  <2>8. JobTypeOK'
    <3>1. /\ runtime \in RuntimeSpace \cup {None}
          /\ requested_extensions(config) = IF runtime = None THEN {} ELSE runtime.requested
          /\ Selects(config, IF runtime = None THEN None ELSE runtime.track)
      BY <1>1, <1>10, <2>1, <2>2, ResolvedRuntime
    <3>2. job' = [scope |-> job'.scope, step |-> job'.step, pass |-> job'.pass, todo |-> job'.todo,
                  id |-> job'.id, config |-> job'.config, runtime |-> job'.runtime, host |-> job'.host]
      BY <1>10, <2>5
    <3> QED
      BY <2>1, <2>2, <2>5, <2>6, <3>1, <3>2 DEF JobTypeOK, requested_extensions, Selects, Selector
  <2>9. JobIsCurrent'
    BY <1>1, <1>2, <2>2, <2>5 DEF JobIsCurrent
  <2>10. Cared(id)'
    BY <2>5, <2>7 DEF Cared, OnProject
  <2> QED
    BY <1>2, <1>4, <1>5, <1>10, <2>3, <2>4, <2>8, <2>9, <2>10, JobStepKeeps
<1> QED
  BY <1>3, <1>8, <1>9, <1>10

(* What a job that works on a project read, and what is still true of it. *)
LEMMA WorkFacts ==
  ASSUME RegistryInv, OnProject
  PROVE  /\ job.scope \in Ids \cup {System} /\ job.id \in Ids /\ job.config \in ConfigSpace
         /\ job.config.serve \/ job.step = "finalize" => job.host \in Labels
         /\ job.runtime \in RuntimeSpace \cup {None}
         /\ requested_extensions(job.config) = IF job.runtime = None THEN {} ELSE job.runtime.requested
         /\ Selects(job.config, IF job.runtime = None THEN None ELSE job.runtime.track)
         /\ job = [scope |-> job.scope, step |-> job.step, pass |-> job.pass, todo |-> job.todo,
                   id |-> job.id, config |-> job.config, runtime |-> job.runtime, host |-> job.host]
  BY DEF RegistryInv, JobTypeOK, OnProject

LEMMA ApplyKeeps ==
  ASSUME RegistryInv, ApplyProject
  PROVE  RegistryInv'
<1>1. OnProject /\ job # NoJob /\ job.step = "apply"
  BY DEF ApplyProject, At, OnProject
<1>2. PICK id, config, host, runtime :
        id = job.id /\ config = job.config /\ host = job.host /\ runtime = job.runtime
  OBVIOUS
<1>3. UNCHANGED <<files, projects, hostnames, globalPhp, manifest, requests, cli, ids>>
  BY DEF ApplyProject, counters
<1>4. Linked' = Linked
  BY <1>3 DEF Linked
<1>5. /\ tls' \in [DOMAIN tls' -> Certificate]
      /\ \A i \in DOMAIN tls : i # id => i \in DOMAIN tls' /\ tls'[i] = tls[i]
      /\ config.serve /\ config.tls => project_tls_files_are_current(id, host)'
  <2>1. CASE config.serve /\ config.tls
    <3>1. PICK c : c = generate_project_certificate(host, TRUE)
      OBVIOUS
    <3>2. c \in Certificate /\ c.host = host /\ c.key = TRUE
      BY <1>1, <1>2, <2>1, <3>1, WorkFacts DEF Certificate, generate_project_certificate
    <3>3. tls' = [i \in DOMAIN tls \cup {id} |-> IF i = id THEN c ELSE tls[i]]
      BY <1>2, <2>1, <3>1 DEF ApplyProject
    <3>4. /\ tls' \in [DOMAIN tls' -> Certificate] /\ id \in DOMAIN tls' /\ tls'[id] = c
          /\ \A i \in DOMAIN tls : i # id => i \in DOMAIN tls' /\ tls'[i] = tls[i]
      BY <3>2, <3>3, CertificateWritten
    <3> QED
      BY <3>2, <3>4 DEF project_tls_files_are_current, project_certificate_matches
  <2>2. CASE ~(config.serve /\ config.tls)
    <3>1. tls' = tls /\ tls \in [DOMAIN tls -> Certificate]
      BY <1>2, <2>2 DEF ApplyProject, RegistryInv, RowsTypeOK, Certificate
    <3> QED
      BY <2>2, <3>1
  <2> QED
    BY <2>1, <2>2
<1>6. php' \in [Tracks -> [desired : {None, "installed", "removed"}, installed : BOOLEAN,
                           catalog : SUBSET Extensions]]
  <2>1. CASE runtime = None
    BY <1>2, <2>1, RowFacts DEF ApplyProject
  <2>2. CASE runtime # None
    <3>1. runtime.track \in Tracks
      BY <1>1, <1>2, <2>2, WorkFacts DEF RuntimeSpace
    <3>2. php' = [php EXCEPT ![runtime.track].desired = "installed"]
      BY <1>2, <2>2 DEF ApplyProject
    <3> QED
      BY <3>1, <3>2, RowFacts
  <2> QED
    BY <2>1, <2>2
<1>7. ASSUME env' \in [Linked -> {None, "failed", "rendered"}] PROVE RowsTypeOK'
  BY <1>3, <1>4, <1>5, <1>6, <1>7 DEF RegistryInv, RowsTypeOK, Certificate
<1>8. \A i \in Linked : i # id => /\ ~(OnProject /\ job.id = i)
                                  /\ ~(job # NoJob /\ job.step = "next" /\ job.todo = <<i>>)
                                  /\ i \in DOMAIN tls => i \in DOMAIN tls' /\ tls'[i] = tls[i]
  BY <1>1, <1>2, <1>5
<1>9. CASE id \notin Linked
  <2>1. ProjectFails(id)
    BY <1>2, <1>9 DEF ApplyProject
  <2>2. RowsTypeOK'
    BY <1>7, <2>1, FailedVisit
  <2>3. JobTypeOK' /\ JobIsCurrent'
    BY <1>1, <2>1, FailedVisit, JobGoesOn
  <2> QED
    BY <1>3, <1>8, <1>9, <2>1, <2>2, <2>3, FailedVisit, JobStepKeeps
<1>10. CASE id \in Linked
  <2>1. job' = [job EXCEPT !.step = "reread"] /\ env' = env
    BY <1>2, <1>10 DEF ApplyProject
  <2>2. RowsTypeOK'
    BY <1>7, <2>1, RowFacts
  <2>3. /\ job' = [scope |-> job.scope, step |-> "reread", pass |-> job.pass, todo |-> job.todo,
                   id |-> id, config |-> config, runtime |-> runtime, host |-> host]
    BY <1>1, <1>2, <2>1, WorkFacts
  <2>4. /\ job'.step = "reread" /\ job'.id = id /\ job'.config = config /\ job'.runtime = runtime
        /\ job'.host = host /\ job'.scope = job.scope /\ job'.pass = job.pass
        /\ job'.todo = job.todo
    BY <2>3
  <2>5. job' # NoJob
    BY <1>1, <2>4, WorkFacts, MarkersAssumption DEF NoJob, Ids
  <2>6. JobTypeOK'
    <3>1. job' = [scope |-> job'.scope, step |-> job'.step, pass |-> job'.pass, todo |-> job'.todo,
                  id |-> job'.id, config |-> job'.config, runtime |-> job'.runtime, host |-> job'.host]
      BY <2>3, <2>4
    <3> QED
      BY <1>1, <1>2, <2>4, <3>1, WorkFacts DEF JobTypeOK, requested_extensions, Selects, Selector
  <2>7. JobIsCurrent'
    <3> SUFFICES ASSUME id \notin requests, ~Unlinking(id)
                 PROVE  /\ files[projects[id].path] = config
                        /\ config.serve => host = served_hostname(projects[id])
                        /\ config.serve /\ config.tls => project_tls_files_are_current(id, host)'
      BY <1>3, <2>4 DEF JobIsCurrent, Unlinking, served_hostname, project_tls_files_are_current,
         project_certificate_matches
    <3>1. /\ files[projects[id].path] = config
          /\ config.serve => host = served_hostname(projects[id])
      BY <1>1, <1>2, <1>10 DEF RegistryInv, JobIsCurrent
    <3> QED
      BY <1>5, <3>1
  <2>8. Cared(id)'
    BY <2>4, <2>5 DEF Cared, OnProject
  <2> QED
    BY <1>3, <1>8, <2>1, <2>2, <2>6, <2>7, <2>8, JobStepKeeps
<1> QED
  BY <1>9, <1>10

(* Reading the hostname once more changes nothing for a project that was not
   asked for again. *)
LEMMA RereadKeeps ==
  ASSUME RegistryInv, RereadProject
  PROVE  RegistryInv'
<1>1. OnProject /\ job # NoJob /\ job.step = "reread"
  BY DEF RereadProject, At, OnProject
<1>2. PICK id, config, host, runtime :
        /\ id = job.id /\ config = job.config /\ runtime = job.runtime
        /\ host = served_hostname(projects[id])
  OBVIOUS
<1>3. UNCHANGED <<files, projects, hostnames, tls, php, globalPhp, manifest, requests, cli, ids>>
  BY DEF RereadProject, phpState, counters
<1>4. Linked' = Linked
  BY <1>3 DEF Linked
<1>5. ASSUME env' \in [Linked -> {None, "failed", "rendered"}] PROVE RowsTypeOK'
  BY <1>3, <1>4, <1>5 DEF RegistryInv, RowsTypeOK
<1>6. \A i \in Linked : i # id => /\ ~(OnProject /\ job.id = i)
                                  /\ ~(job # NoJob /\ job.step = "next" /\ job.todo = <<i>>)
                                  /\ i \in DOMAIN tls => i \in DOMAIN tls' /\ tls'[i] = tls[i]
  BY <1>1, <1>2, <1>3
<1>7. CASE id \notin Linked
  <2>1. ProjectFails(id)
    BY <1>2, <1>7 DEF RereadProject
  <2>2. RowsTypeOK'
    BY <1>5, <2>1, FailedVisit
  <2>3. JobTypeOK' /\ JobIsCurrent'
    BY <1>1, <2>1, FailedVisit, JobGoesOn
  <2> QED
    BY <1>3, <1>6, <1>7, <2>1, <2>2, <2>3, FailedVisit, JobStepKeeps
<1>8. CASE id \in Linked
  <2>1. job' = [job EXCEPT !.step = "finalize", !.host = host] /\ env' = env
    BY <1>2, <1>8 DEF RereadProject
  <2>2. RowsTypeOK'
    BY <1>5, <2>1, RowFacts
  <2>3. host \in Labels
    BY <1>2, <1>8, RowFacts, HostOfRow
  <2>4. job' = [scope |-> job.scope, step |-> "finalize", pass |-> job.pass, todo |-> job.todo,
                id |-> id, config |-> config, runtime |-> runtime, host |-> host]
    BY <1>1, <1>2, <2>1, WorkFacts
  <2>5. /\ job'.step = "finalize" /\ job'.id = id /\ job'.config = config /\ job'.runtime = runtime
        /\ job'.host = host /\ job'.scope = job.scope /\ job'.pass = job.pass
        /\ job'.todo = job.todo
    BY <2>4
  <2>6. job' # NoJob
    BY <1>1, <2>5, WorkFacts, MarkersAssumption DEF NoJob, Ids
  <2>7. JobTypeOK'
    <3>1. job' = [scope |-> job'.scope, step |-> job'.step, pass |-> job'.pass, todo |-> job'.todo,
                  id |-> job'.id, config |-> job'.config, runtime |-> job'.runtime, host |-> job'.host]
      BY <2>4, <2>5
    <3> QED
      BY <1>1, <1>2, <2>3, <2>5, <3>1, WorkFacts DEF JobTypeOK, requested_extensions, Selects, Selector
  <2>8. JobIsCurrent'
    <3> SUFFICES ASSUME id \notin requests, ~Unlinking(id)
                 PROVE  /\ files[projects[id].path] = config
                        /\ config.serve /\ config.tls => project_tls_files_are_current(id, host)
      BY <1>2, <1>3, <2>5 DEF JobIsCurrent, Unlinking, served_hostname, project_tls_files_are_current,
         project_certificate_matches
    <3> QED
      BY <1>1, <1>2, <1>8 DEF RegistryInv, JobIsCurrent
  <2>9. Cared(id)'
    BY <2>5, <2>6 DEF Cared, OnProject
  <2> QED
    BY <1>3, <1>6, <2>1, <2>2, <2>7, <2>8, <2>9, JobStepKeeps
<1> QED
  BY <1>7, <1>8

LEMMA ResourcesKeep ==
  ASSUME RegistryInv, ReconcileResources
  PROVE  RegistryInv'
<1>1. /\ job # NoJob /\ job.step = "next" /\ Head(job.todo) = Resources
      /\ UNCHANGED <<files, projects, hostnames, env, tls, globalPhp, requests, cli, ids>>
  BY DEF ReconcileResources, Visits, At, db, counters
<1>2. PICK done \in SUBSET MissingTracks, catalog \in [MissingTracks -> Catalogs] :
        /\ php' = [t \in Tracks |-> IF t \in done
              THEN [desired |-> "installed", installed |-> TRUE, catalog |-> catalog[t]] ELSE php[t]]
        /\ manifest' \in {manifest, TRUE}
        /\ job' = NoJob \/ job' = [Rest EXCEPT !.pass = 2, !.todo = IF job.scope = System THEN ProjectOrder ELSE @]
  BY DEF ReconcileResources
<1>3. php' \in [Tracks -> [desired : {None, "installed", "removed"}, installed : BOOLEAN,
                           catalog : SUBSET Extensions]]
  <2> DEFINE S == [desired : {None, "installed", "removed"}, installed : BOOLEAN,
                   catalog : SUBSET Extensions]
  <2>1. ASSUME NEW t \in Tracks, t \in done PROVE catalog[t] \in SUBSET Extensions
    BY <2>1, RegistryAssumption
  <2>2. \A t \in Tracks : t \in done =>
          [desired |-> "installed", installed |-> TRUE, catalog |-> catalog[t]] \in S
    BY <2>1
  <2>3. \A t \in Tracks : php[t] \in S
    BY RowFacts
  <2> HIDE DEF S
  <2>4. php' \in [Tracks -> S]
    BY <1>2, <2>2, <2>3
  <2> QED
    BY <2>4 DEF S
<1>4. RowsTypeOK'
  <2>1. Linked' = Linked /\ manifest' \in BOOLEAN
    BY <1>1, <1>2, RowFacts DEF Linked
  <2> QED
    BY <1>1, <1>3, <2>1 DEF RegistryInv, RowsTypeOK
<1>5. JobTypeOK' /\ JobIsCurrent'
  <2>1. CASE job' = NoJob
    BY <1>1, <2>1, JobGoesOn
  <2>2. CASE job' # NoJob
    <3>1. job'.step = "next" /\ job'.scope = job.scope
      BY <1>2, <2>2 DEF Rest
    <3> QED
      BY <1>1, <3>1 DEF RegistryInv, JobTypeOK, JobIsCurrent, OnProject
  <2> QED
    BY <2>1, <2>2
<1>6. Resources \notin Linked /\ \A i \in Linked : job.todo # <<i>>
  BY <1>1, RowFacts, MarkersAssumption DEF Ids
<1> QED
  BY <1>1, <1>4, <1>5, <1>6, JobStepKeeps DEF OnProject

LEMMA GatewayKeeps ==
  ASSUME RegistryInv, ReconcileGateway
  PROVE  RegistryInv'
<1>1. /\ job # NoJob /\ job.step = "next" /\ job.todo = <<>> /\ job' = NoJob
      /\ UNCHANGED <<files, projects, hostnames, tls, php, globalPhp, manifest, requests, cli, ids>>
  BY DEF ReconcileGateway, At, phpState, counters
<1>2. \/ env' = env
      \/ \E fails : env' = [id \in Linked |-> IF id \in fails THEN "failed" ELSE env[id]]
  BY DEF ReconcileGateway, reconcile_gateway_runtimes
<1>3. /\ env' \in [Linked -> {None, "failed", "rendered"}]
      /\ \A i \in Linked : env'[i] = env[i] \/ env'[i] = "failed"
  BY <1>2, RowFacts
<1>4. RowsTypeOK'
  <2>1. Linked' = Linked
    BY <1>1 DEF Linked
  <2> QED
    BY <1>1, <1>3, <2>1 DEF RegistryInv, RowsTypeOK
<1>5. JobTypeOK' /\ JobIsCurrent'
  BY <1>1, JobGoesOn
<1>6. None \notin Linked /\ \A i \in Linked : job.todo # <<i>>
  BY <1>1, RowFacts, MarkersAssumption DEF Ids
<1> QED
  BY <1>1, <1>3, <1>4, <1>5, <1>6, JobStepKeeps DEF OnProject

(* The final transaction: the project is what its pv.yml says unless it was
   asked for again, whatever fell between the steps of the job. *)
LEMMA FinalizeKeeps ==
  ASSUME RegistryInv, finalize_project_reconciliation_state
  PROVE  /\ RegistryInv' /\ Linked' = Linked
         /\ \A i \in Linked : i # job.id => Untouched(i)
<1>1. OnProject /\ job # NoJob /\ job.step = "finalize"
  BY DEF finalize_project_reconciliation_state, At, OnProject
<1>2. PICK id, config, runtime :
        /\ id = job.id /\ config = job.config
        /\ runtime = IF job.runtime = None THEN Runtime(None, {}, {}) ELSE job.runtime
  OBVIOUS
<1>3. UNCHANGED <<files, tls, php, globalPhp, manifest, requests, cli, ids>>
  BY DEF finalize_project_reconciliation_state, phpState, counters
<1>4. \/ /\ finalize_project_reconciliation(id, job.host, config, runtime)
         /\ job' \in {Rest, [Rest EXCEPT !.todo = <<Resources, job.id>>, !.pass = 2]}
      \/ ProjectFails(id) /\ UNCHANGED <<projects, hostnames>>
  BY <1>2 DEF finalize_project_reconciliation_state
<1>5. \A i \in Linked : i # id => /\ ~(OnProject /\ job.id = i)
                                  /\ ~(job # NoJob /\ job.step = "next" /\ job.todo = <<i>>)
  BY <1>1, <1>2
<1>6. CASE ProjectFails(id) /\ UNCHANGED <<projects, hostnames>>
  <2>1. RowsTypeOK'
    <3>1. Linked' = Linked
      BY <1>6 DEF Linked
    <3> QED
      BY <1>3, <1>6, <3>1, FailedVisit DEF RegistryInv, RowsTypeOK
  <2>2. JobTypeOK' /\ JobIsCurrent'
    BY <1>1, <1>6, FailedVisit, JobGoesOn
  <2>3. id \in Linked => Cared(id)'
    BY <1>6, FailedVisit DEF Cared
  <2>4. RegistryInv'
    BY <1>3, <1>5, <1>6, <2>1, <2>2, <2>3, FailedVisit, JobStepKeeps
  <2>5. Linked' = Linked /\ \A i \in Linked : i # id => Untouched(i)
    BY <1>6, FailedVisit DEF Linked, Untouched, additional_hostnames_for_project
  <2> QED
    BY <1>2, <2>4, <2>5
<1>7. CASE /\ finalize_project_reconciliation(id, job.host, config, runtime)
           /\ job' \in {Rest, [Rest EXCEPT !.todo = <<Resources, job.id>>, !.pass = 2]}
  <2>1. /\ id \in Linked /\ id \in Ids /\ config \in ConfigSpace
        /\ runtime \in [track : Tracks \cup {None}, requested : SUBSET Extensions, loaded : SUBSET Extensions]
        /\ runtime.requested = requested_extensions(config)
    <3>1. id \in Linked /\ id \in Ids /\ config \in ConfigSpace
      BY <1>1, <1>2, <1>7, WorkFacts DEF finalize_project_reconciliation
    <3>2. CASE job.runtime = None
      <4>1. requested_extensions(config) = {} /\ runtime = Runtime(None, {}, {})
        BY <1>1, <1>2, <3>2, WorkFacts
      <4> QED
        BY <3>1, <4>1 DEF Runtime
    <3>3. CASE job.runtime # None
      <4>1. runtime \in RuntimeSpace /\ runtime.requested = requested_extensions(config)
        BY <1>1, <1>2, <3>3, WorkFacts
      <4>2. RuntimeSpace \subseteq
              [track : Tracks \cup {None}, requested : SUBSET Extensions, loaded : SUBSET Extensions]
        BY DEF RuntimeSpace
      <4> QED
        BY <3>1, <4>1, <4>2
    <3> QED
      BY <3>1, <3>2, <3>3
  <2>2. PICK p, host, row, hosts, mode, track :
          /\ p = projects[id] /\ host = job.host
          /\ row = [p EXCEPT !.track = runtime.track, !.requested = runtime.requested,
                             !.loaded = runtime.loaded]
          /\ hosts = config.hostnames /\ mode = Mode(config) /\ track = runtime.track
    OBVIOUS
  <2>3. /\ config.serve => validate_project_hostname_set(id, host, hosts)
        /\ WriteProject(id, row, host, hosts, mode, track)
        /\ env' = [env EXCEPT ![id] = "rendered"]
    BY <1>7, <2>2 DEF finalize_project_reconciliation, record_project_env_observed_snapshot
  <2>4. p \in Row /\ host \in Labels
    BY <1>1, <2>1, <2>2, RowFacts, WorkFacts
  <2>5. /\ row \in Draft /\ row.path = p.path /\ row.slug = p.slug /\ row.primary = p.primary
        /\ row.track = track /\ row.requested = requested_extensions(config)
        /\ track \in Tracks \cup {None}
    BY <2>1, <2>2, <2>4 DEF Row, Draft
  <2>6. /\ hosts \in SUBSET Labels /\ mode \in {"served", "resource-only"}
        /\ mode = "served" <=> config.serve
    BY <2>1, <2>2 DEF ConfigSpace, Mode
  <2>7. /\ Linked' = Linked /\ projects' \in [Linked' -> Row]
        /\ hostnames' \in [DOMAIN hostnames' -> [project : Ids, primary : BOOLEAN]]
        /\ HostnameRowsMatch'
        /\ \A i \in Linked : i # id =>
             /\ projects'[i] = projects[i]
             /\ additional_hostnames_for_project(i)' = additional_hostnames_for_project(i)
        /\ projects'[id] = update_project(row, IF mode = "resource-only" THEN row.primary ELSE host,
                                          mode, track)
        /\ mode = "served" => additional_hostnames_for_project(id)' = hosts
    <3>1. mode = "served" => validate_project_hostname_set(id, host, hosts)
      BY <2>3, <2>6
    <3>2. /\ row.path = projects[id].path /\ row.slug = projects[id].slug
          /\ row.primary = projects[id].primary
      BY <2>2, <2>5
    <3>3. Linked \cup {id} = Linked /\ id \in Linked
      BY <2>1
    <3>4. /\ id \in Ids /\ row \in Draft /\ host \in Labels /\ hosts \in SUBSET Labels
          /\ mode \in {"served", "resource-only"} /\ track \in Tracks \cup {None}
      BY <2>1, <2>4, <2>5, <2>6
    <3>5. WriteProject(id, row, host, hosts, mode, track)
      BY <2>3
    <3> QED
      <4>1. /\ Linked' = Linked \cup {id} /\ projects' \in [Linked' -> Row]
            /\ hostnames' \in [DOMAIN hostnames' -> [project : Ids, primary : BOOLEAN]]
            /\ HostnameRowsMatch'
            /\ \A i \in Linked : i # id =>
                 /\ projects'[i] = projects[i]
                 /\ additional_hostnames_for_project(i)' = additional_hostnames_for_project(i)
            /\ projects'[id] = update_project(row, IF mode = "resource-only" THEN row.primary ELSE host,
                                              mode, track)
            /\ mode = "served" => additional_hostnames_for_project(id)' = hosts
        BY <3>1, <3>2, <3>3, <3>4, <3>5, WrittenProject
      <4> QED
        BY <3>3, <4>1
  <2>8. RowsTypeOK'
    <3>1. env' \in [Linked' -> {None, "failed", "rendered"}]
      BY <2>1, <2>3, <2>7, RowFacts
    <3> QED
      BY <1>3, <2>7, <3>1 DEF RegistryInv, RowsTypeOK
  <2>9. CommandTypeOK'
    BY <1>3, <2>7 DEF RegistryInv, CommandTypeOK
  <2>10. JobTypeOK' /\ JobIsCurrent'
    <3>1. PICK pass, todo : job' = [scope |-> job.scope, step |-> "next", pass |-> pass, todo |-> todo]
      BY <1>7 DEF Rest
    <3>2. job'.step = "next" /\ job'.scope = job.scope
      BY <3>1
    <3> QED
      BY <1>1, <3>2, WorkFacts DEF JobTypeOK, JobIsCurrent, OnProject
  <2>11. Cared(id)'
    <3> SUFFICES ASSUME id \notin requests, ~Unlinking(id) PROVE Applied(id)'
      BY <1>3 DEF Cared, Unlinking
    <3>1. /\ files[p.path] = config
          /\ config.serve /\ config.tls => project_tls_files_are_current(id, host)
      BY <1>1, <1>2, <2>1, <2>2 DEF RegistryInv, JobIsCurrent
    <3>2. /\ projects'[id].path = p.path /\ projects'[id].mode = mode
          /\ projects'[id].requested = requested_extensions(config)
          /\ config.serve => projects'[id].primary = host
      BY <2>5, <2>6, <2>7 DEF update_project, Draft
    <3>3. files'[projects'[id].path] = config /\ config # Invalid
      BY <1>3, <2>1, <3>1, <3>2, MarkersAssumption
    <3>4. config.serve => additional_hostnames_for_project(id)' = config.hostnames
      BY <2>2, <2>6, <2>7
    <3>5. config.serve /\ config.tls => project_tls_files_are_current(id, host)'
      BY <1>3, <3>1, <3>2 DEF project_tls_files_are_current, project_certificate_matches
    <3>6. projects'[id].mode = Mode(config)
      BY <2>2, <3>2
    <3>7. Selects(config, projects'[id].track)
      <4>1. projects'[id].track = runtime.track
        BY <2>2, <2>5, <2>7 DEF update_project, Draft
      <4>2. runtime.track = IF job.runtime = None THEN None ELSE job.runtime.track
        BY <1>2 DEF Runtime
      <4> QED
        BY <1>1, <1>2, <4>1, <4>2, WorkFacts
    <3> QED
      BY <3>2, <3>3, <3>4, <3>5, <3>6, <3>7 DEF Applied, Mode, requested_extensions,
         project_tls_files_are_current, project_certificate_matches
  <2>12. ProjectsAreCaredFor'
    <3> SUFFICES ASSUME NEW i \in Linked, i # id PROVE Cared(i)'
      BY <2>7, <2>11 DEF ProjectsAreCaredFor
    <3>1. Cared(i) /\ env'[i] = env[i]
      BY <2>3, RowFacts DEF RegistryInv, ProjectsAreCaredFor
    <3>2. Applied(i) => Applied(i)'
      BY <1>3, <2>7, AppliedStays
    <3> QED
      BY <1>3, <1>5, <3>1, <3>2 DEF Cared, Unlinking
  <2>13. \A i \in Linked : i # id => Untouched(i)
    BY <2>3, <2>7, RowFacts DEF Untouched
  <2>14. RegistryInv'
    BY <2>7, <2>8, <2>9, <2>10, <2>12 DEF RegistryInv
  <2> QED
    BY <1>2, <2>7, <2>13, <2>14
<1> QED
  BY <1>4, <1>6, <1>7

-----------------------------------------------------------------------------
(* What holds of the projects *)

LEMMA RegistryInvStep == RegistryInv /\ [Next]_vars => RegistryInv'
<1> SUFFICES ASSUME RegistryInv, [Next]_vars PROVE RegistryInv'
  OBVIOUS
<1>1. CASE UNCHANGED vars
  <2>1. UNCHANGED <<files, projects, hostnames, env, tls, php, globalPhp, manifest, requests, job, cli, ids>>
    BY <1>1 DEF vars, db, phpState, counters
  <2>2. cli \in Command \cup {Idle} /\ (cli.cmd \in {"unlink", "php:use", "php:record"} => cli.id \in Linked)
    BY DEF RegistryInv, CommandTypeOK
  <2> QED
    BY <2>1, <2>2, RowFacts, QuietStep
<1>2. CASE CliStep
  BY <1>2, LinkBegins, LinkEnds, UnlinkBegins, UnlinkEnds, PhpCommandKeeps, UseWritesConfig,
     UseWritesRow DEF CliStep
<1>3. CASE DaemonStep
  BY <1>3, JobBegins, VisitKeeps, ApplyKeeps, RereadKeeps, FinalizeKeeps, ResourcesKeep, GatewayKeeps
     DEF DaemonStep, Ids
<1>4. CASE \E path \in Paths, config \in Configs \cup {Invalid} : EditConfig(path, config)
  BY <1>4, EditKeeps
<1> QED
  BY <1>1, <1>2, <1>3, <1>4 DEF Next

(* The tables have their types, a command that works on a project works on a
   linked one, a job knows whether what it read is still current, and no
   project that needs a visit is without one. *)
THEOREM RegistryCorrect == Spec => []RegistryInv
<1>1. Init => RegistryInv
  BY RegistryInvInit
<1>2. RegistryInv /\ [Next]_vars => RegistryInv'
  BY RegistryInvStep
<1> QED
  BY <1>1, <1>2, PTL DEF Spec

(* Every hostname row belongs to a linked project, a project has exactly the
   primary row its own row names, and no two projects share a slug or a
   directory, after any sequence of links, unlinks, mode changes and jobs. *)
THEOREM HostnamesMatchProjects == Spec => []HostnameRowsMatch
<1>1. RegistryInv => HostnameRowsMatch
  BY DEF RegistryInv
<1> QED
  BY <1>1, RegistryCorrect, PTL

(* When nothing is left to do, a linked project is what its pv.yml says or is
   reported as failed, wherever edits and commands fell between the steps of
   the jobs that visited it. *)
THEOREM ProjectsAreAppliedOrReported == Spec => []AppliedOrReported
<1>1. RegistryInv => AppliedOrReported
  <2> SUFFICES ASSUME RegistryInv, Quiescent, NEW id \in Linked
               PROVE  env[id] = "failed" \/ Applied(id)
    BY DEF AppliedOrReported
  <2>1. Cared(id)
    BY DEF RegistryInv, ProjectsAreCaredFor
  <2>2. requests = {} /\ job = NoJob /\ ~Unlinking(id)
    BY MarkersAssumption DEF Quiescent, Unlinking, Idle
  <2> QED
    BY <2>1, <2>2 DEF Cared, OnProject
<1> QED
  BY <1>1, RegistryCorrect, PTL
-----------------------------------------------------------------------------
(* The routes *)

(* A system job is waiting or runs; it ends with a Gateway reconciliation. *)
SystemDue == System \in requests \/ (job # NoJob /\ job.scope = System)
(* A job that visits the project is waiting or runs, or it is being unlinked. *)
Due(id) == id \in requests \/ Unlinking(id) \/ (job # NoJob /\ job.scope \in {System, id})

(* A job of one project visits only that project. *)
ScopeInv ==
  job # NoJob /\ job.scope # System =>
    /\ OnProject => job.id = job.scope /\ job.todo = <<job.scope>>
    /\ job.step = "next" => job.todo \in {<<>>, <<job.scope>>, <<Resources, job.scope>>}

(* What the active fragments lack is still to come, or is reported. *)
RouteInv ==
  gateway = "ok" =>
    /\ \A id \in DOMAIN routes : id \notin Linked => SystemDue
    /\ \A id \in DOMAIN routes : id \in Linked => id \in Served \/ env[id] = "failed" \/ Due(id)
    /\ \A id \in Served : env[id] = "failed" \/ Routed(id) \/ Due(id)

LEMMA RoutedStays ==
  ASSUME NEW id, Routed(id), UNCHANGED <<routes, workers>>,
         projects'[id].primary = projects[id].primary,
         additional_hostnames_for_project(id)' = additional_hostnames_for_project(id)
  PROVE  Routed(id)'
  BY DEF Routed

(* A step that leaves the Gateway alone: the projects it touches are due, and
   nothing that was due is forgotten unless it is reported. *)
LEMMA RoutesKept ==
  ASSUME RouteInv, NEW T, UNCHANGED <<routes, workers, gateway>>,
         SystemDue => SystemDue',
         \A i \in Linked : i \notin Linked' => SystemDue',
         \A i \in T : Due(i)',
         \A i \in Linked' : i \notin T =>
           /\ i \in Linked /\ projects'[i] = projects[i]
           /\ additional_hostnames_for_project(i)' = additional_hostnames_for_project(i)
           /\ env[i] = "failed" => env'[i] = "failed"
           /\ Due(i) => Due(i)' \/ env'[i] = "failed"
  PROVE  RouteInv'
<1> SUFFICES ASSUME gateway = "ok"
             PROVE  /\ \A id \in DOMAIN routes : id \notin Linked' => SystemDue'
                    /\ \A id \in DOMAIN routes : id \in Linked' =>
                         id \in Served' \/ env'[id] = "failed" \/ Due(id)'
                    /\ \A id \in Served' : env'[id] = "failed" \/ Routed(id)' \/ Due(id)'
  BY DEF RouteInv
<1>1. /\ \A id \in DOMAIN routes : id \notin Linked => SystemDue
      /\ \A id \in DOMAIN routes : id \in Linked => id \in Served \/ env[id] = "failed" \/ Due(id)
      /\ \A id \in Served : env[id] = "failed" \/ Routed(id) \/ Due(id)
  BY DEF RouteInv
<1>2. /\ \A id : id \in Served <=> id \in Linked /\ projects[id].mode = "served"
      /\ \A id : id \in Served' <=> id \in Linked' /\ projects'[id].mode = "served"
  BY DEF Served
<1>3. \A id \in DOMAIN routes : id \notin Linked' => SystemDue'
  BY <1>1
<1>4. ASSUME NEW id \in DOMAIN routes, id \in Linked'
      PROVE  id \in Served' \/ env'[id] = "failed" \/ Due(id)'
  BY <1>1, <1>2, <1>4
<1>5. ASSUME NEW id \in Served' PROVE env'[id] = "failed" \/ Routed(id)' \/ Due(id)'
  <2>1. CASE id \in T
    BY <2>1
  <2>2. CASE id \notin T
    <3>1. id \in Served /\ projects'[id] = projects[id]
      BY <1>2, <1>5, <2>2
    <3>2. Routed(id) => Routed(id)'
      BY <1>2, <1>5, <2>2, <3>1, RoutedStays
    <3> QED
      BY <1>1, <1>2, <1>5, <2>2, <3>1, <3>2
  <2> QED
    BY <2>1, <2>2
<1> QED
  BY <1>3, <1>4, <1>5

LEMMA TailOfOne == ASSUME NEW x PROVE Tail(<<x>>) = <<>>
<1>1. <<x>> \in Seq({x}) /\ <<x>> # <<>> /\ Len(<<x>>) = 1
  OBVIOUS
<1>2. Tail(<<x>>) \in Seq({x}) /\ Len(Tail(<<x>>)) = 0
  BY <1>1
<1> QED
  BY <1>2

LEMMA ScopeInvStep ==
  ASSUME RegistryInv, ScopeInv, [Next]_vars
  PROVE  ScopeInv'
<1> DEFINE Only(s) == {<<>>, <<s>>, <<Resources, s>>}
<1>1. job # NoJob => job.scope \in Ids \cup {System} /\ job.step \in {"next", "apply", "reread", "finalize"}
  BY DEF RegistryInv, JobTypeOK
<1>2. Resources \notin Ids /\ System \notin Ids /\ None \notin Ids \cup {System}
  BY MarkersAssumption DEF Ids
<1>3. CASE job' = job
  BY <1>3 DEF ScopeInv, OnProject
<1>4. CASE job' = NoJob
  BY <1>4 DEF ScopeInv
<1>5. ASSUME NEW scope \in requests, StartJob(scope) PROVE ScopeInv'
  <2>1. PICK todo : /\ job' = [scope |-> scope, step |-> "next", pass |-> 1, todo |-> todo]
                    /\ scope # System => todo = <<scope>>
    BY <1>5 DEF StartJob
  <2>2. job'.scope = scope /\ job'.step = "next" /\ job'.todo = todo
    BY <2>1
  <2> QED
    BY <2>1, <2>2 DEF ScopeInv, OnProject
<1>6. ASSUME NEW id \in Ids, LoadProject(id), job' # NoJob PROVE ScopeInv'
  <2> SUFFICES ASSUME job'.scope # System
               PROVE  /\ OnProject' => job'.id = job'.scope /\ job'.todo = <<job'.scope>>
                      /\ job'.step = "next" => job'.todo \in Only(job'.scope)
    BY DEF ScopeInv
  <2>1. job # NoJob /\ job.step = "next" /\ job.todo # <<>> /\ Head(job.todo) = id
    BY <1>6 DEF LoadProject, Visits, At
  <2>2. \/ ProjectFails(id)
        \/ \E config, runtime, host :
             job' = [scope |-> job.scope, step |-> "apply", pass |-> job.pass, todo |-> job.todo,
                     id |-> id, config |-> config, runtime |-> runtime, host |-> host]
    BY <1>6 DEF LoadProject
  <2>3. CASE ProjectFails(id)
    <3>1. job' = Rest /\ job.scope = System
      BY <1>6, <2>3 DEF ProjectFails
    <3>2. job'.scope = System
      BY <3>1 DEF Rest
    <3> QED
      BY <3>2
  <2>4. CASE \E config, runtime, host :
             job' = [scope |-> job.scope, step |-> "apply", pass |-> job.pass, todo |-> job.todo,
                     id |-> id, config |-> config, runtime |-> runtime, host |-> host]
    <3>1. job'.scope = job.scope /\ job'.step = "apply" /\ job'.id = id /\ job'.todo = job.todo
      BY <2>4
    <3>2. job.todo \in Only(job.scope)
      BY <2>1, <3>1 DEF ScopeInv
    <3>3. job.todo = <<job.scope>> /\ id = job.scope
      BY <1>2, <2>1, <3>2
    <3> QED
      BY <3>1, <3>3
  <2> QED
    BY <2>2, <2>3, <2>4
<1>7. ASSUME ApplyProject \/ RereadProject, job' # NoJob PROVE ScopeInv'
  <2>1. OnProject /\ job # NoJob
    BY <1>7 DEF ApplyProject, RereadProject, At, OnProject
  <2>2. CASE ProjectFails(job.id)
    <3>1. job' = Rest /\ job.scope = System
      BY <1>7, <2>2 DEF ProjectFails
    <3>2. job'.scope = System
      BY <3>1 DEF Rest
    <3> QED
      BY <3>2 DEF ScopeInv
  <2>3. CASE \E step \in {"reread", "finalize"} : \E host : job' = [job EXCEPT !.step = step, !.host = host]
    <3>1. PICK step \in {"reread", "finalize"} : \E host : job' = [job EXCEPT !.step = step, !.host = host]
      BY <2>3
    <3>2. /\ job'.scope = job.scope /\ job'.step # "next" /\ job'.id = job.id
          /\ job'.todo = job.todo
      BY <2>1, <3>1, WorkFacts
    <3> QED
      BY <2>1, <3>2 DEF ScopeInv
  <2>4. ApplyProject => ProjectFails(job.id) \/ job' = [job EXCEPT !.step = "reread", !.host = job.host]
    BY <2>1, WorkFacts DEF ApplyProject
  <2>5. RereadProject => \/ ProjectFails(job.id)
                         \/ job' = [job EXCEPT !.step = "finalize", !.host = served_hostname(projects[job.id])]
    BY DEF RereadProject
  <2> QED
    BY <1>7, <2>2, <2>3, <2>4, <2>5
<1>8. ASSUME finalize_project_reconciliation_state, job' # NoJob PROVE ScopeInv'
  <2>1. OnProject /\ job # NoJob
    BY <1>8 DEF finalize_project_reconciliation_state, At, OnProject
  <2>2. \/ ProjectFails(job.id)
        \/ job' = Rest
        \/ job' = [Rest EXCEPT !.todo = <<Resources, job.id>>, !.pass = 2]
    BY <1>8 DEF finalize_project_reconciliation_state
  <2>3. CASE ProjectFails(job.id)
    <3>1. job' = Rest /\ job.scope = System
      BY <1>8, <2>3 DEF ProjectFails
    <3>2. job'.scope = System
      BY <3>1 DEF Rest
    <3> QED
      BY <3>2 DEF ScopeInv
  <2>4. job.scope # System => job.id = job.scope /\ Tail(job.todo) = <<>>
    BY <2>1, TailOfOne DEF ScopeInv
  <2>5. CASE job' = Rest
    <3>1. job'.scope = job.scope /\ job'.step = "next" /\ job'.todo = Tail(job.todo)
      BY <2>5 DEF Rest
    <3> QED
      BY <2>4, <3>1 DEF ScopeInv, OnProject
  <2>6. CASE job' = [Rest EXCEPT !.todo = <<Resources, job.id>>, !.pass = 2]
    <3>1. job'.scope = job.scope /\ job'.step = "next" /\ job'.todo = <<Resources, job.id>>
      BY <2>6 DEF Rest
    <3> QED
      BY <2>4, <3>1 DEF ScopeInv, OnProject
  <2> QED
    BY <2>2, <2>3, <2>5, <2>6
<1>9. ASSUME ReconcileResources, job' # NoJob PROVE ScopeInv'
  <2>1. job # NoJob /\ job.step = "next" /\ job.todo # <<>> /\ Head(job.todo) = Resources
    BY <1>9 DEF ReconcileResources, Visits, At
  <2>2. /\ job'.scope = job.scope /\ job'.step = "next"
        /\ job.scope # System => job'.todo = Tail(job.todo)
    BY <1>9 DEF ReconcileResources, Rest
  <2>3. job.scope # System => Tail(job.todo) = <<job.scope>>
    <3> SUFFICES ASSUME job.scope # System PROVE Tail(job.todo) = <<job.scope>>
      OBVIOUS
    <3>1. job.todo \in Only(job.scope) /\ job.scope # Resources
      BY <1>1, <1>2, <2>1 DEF ScopeInv
    <3>2. job.todo = <<Resources, job.scope>>
      BY <2>1, <3>1
    <3> QED
      BY <3>2
  <2> QED
    BY <2>2, <2>3 DEF ScopeInv, OnProject
<1>10. CASE CliStep
  <2>1. job' = job
    BY <1>10 DEF CliStep, Link, link_project_with_mode, Unlink, unlink_project, PhpUse,
       write_project_php_track, replace_project_desired_php_track, PhpInstall, PhpUseGlobal,
       record_global_php_default_track, PhpUpdate, PhpUninstall, uninstall_php_pair
  <2> QED
    BY <1>3, <2>1
<1>11. CASE DaemonStep
  <2>1. ReconcileGateway => job' = NoJob
    BY DEF ReconcileGateway
  <2> QED
    BY <1>4, <1>5, <1>6, <1>7, <1>8, <1>9, <1>11, <2>1 DEF DaemonStep, Ids
<1>12. CASE \E path \in Paths, config \in Configs \cup {Invalid} : EditConfig(path, config)
  BY <1>3, <1>12 DEF EditConfig
<1>13. CASE UNCHANGED vars
  BY <1>3, <1>13 DEF vars
<1> QED
  BY <1>10, <1>11, <1>12, <1>13 DEF Next

(* A successful Gateway reconciliation routes every served project that is
   neither reported nor due, and no other kind of project. *)
LEMMA GatewayRoutes ==
  ASSUME RegistryInv, ReconcileGateway
  PROVE  RouteInv'
<1> SUFFICES ASSUME gateway' = "ok" PROVE RouteInv'
  BY DEF RouteInv
<1>1. /\ job # NoJob /\ job.step = "next" /\ job.todo = <<>> /\ job' = NoJob
      /\ UNCHANGED <<files, projects, hostnames, requests, cli>>
  BY DEF ReconcileGateway, At
<1>2. PICK fails :
        /\ fails = {id \in Reached : Persists(id) /\ (files[projects[id].path] = Invalid
                      \/ files[projects[id].path].serve \/ (projects[id].track # None /\ ~Rebuilt(id)))}
        /\ env' = [id \in Linked |-> IF id \in fails THEN "failed" ELSE env[id]]
        /\ routes' = gateway_project_config_fragments
        /\ workers' = worker_project_config_fragments
        /\ Invalid \notin {PlannedRuntime(id) : id \in Planned}
  BY DEF ReconcileGateway, reconcile_gateway_runtimes
<1>2a. Reached = Served
  BY <1>2 DEF Reached, PlanStops, Planned
<1>3. Linked' = Linked /\ Served' = Served /\ Served \subseteq Linked /\ Planned \subseteq Served
  BY <1>1 DEF Linked, Served, Planned
<1>4. DOMAIN routes' \subseteq Served
  BY <1>2, <1>3 DEF gateway_project_config_fragments
<1>5. ASSUME NEW id \in Served, env'[id] # "failed", ~Due(id)' PROVE Routed(id)'
  <2>1. id \in Linked /\ id \notin fails /\ env[id] # "failed"
    BY <1>2, <1>3, <1>5
  <2>2. id \notin requests /\ ~Unlinking(id)
    BY <1>1, <1>5 DEF Due, Unlinking
  <2>3. Applied(id)
    BY <1>1, <2>1, <2>2 DEF RegistryInv, ProjectsAreCaredFor, Cared, OnProject
  <2>4. PICK config : config = files[projects[id].path]
    OBVIOUS
  <2>5. /\ config \in ConfigSpace /\ projects[id].mode = "served" /\ projects[id].mode = Mode(config)
        /\ config.serve => additional_hostnames_for_project(id) = config.hostnames
    BY <1>5, <2>1, <2>3, <2>4, RowFacts DEF Applied, Served, Row
  <2>6. config.serve
    BY <2>5 DEF Mode
  <2>7. ~Persists(id) /\ id \in Planned
    BY <1>2, <1>5, <1>2a, <2>1, <2>4, <2>6 DEF Planned
  <2>8. PICK key : key = php_runtime_key(PlannedRuntime(id))
    OBVIOUS
  <2>9. /\ id \in DOMAIN routes'
        /\ routes'[id] = [hosts |-> RenderedHosts(id), key |-> key]
    BY <1>2, <2>7, <2>8 DEF gateway_project_config_fragments
  <2>10. routes'[id].hosts = RenderedHosts(id) /\ routes'[id].key = key
    BY <2>9
  <2>11. RenderedHosts(id) = {projects[id].primary} \cup additional_hostnames_for_project(id)
    BY <2>4, <2>5, <2>6 DEF RenderedHosts
  <2>12. key \in DOMAIN workers' /\ id \in workers'[key]
    BY <1>2, <2>7, <2>8 DEF worker_project_config_fragments
  <2> QED
    BY <1>1, <2>9, <2>10, <2>11, <2>12 DEF Routed, additional_hostnames_for_project
<1> QED
  BY <1>3, <1>4, <1>5 DEF RouteInv

(* A visit that fails is reported where it ends the job. *)
LEMMA FailureKeepsDue ==
  ASSUME RegistryInv, job # NoJob, NEW id, ProjectFails(id), job.scope # System => id = job.scope,
         UNCHANGED <<requests, cli>>
  PROVE  /\ SystemDue => SystemDue'
         /\ \A i \in Linked : env[i] = "failed" => env'[i] = "failed"
         /\ \A i \in Linked : Due(i) => Due(i)' \/ env'[i] = "failed"
<1>1. \A i \in Linked : env[i] = "failed" => env'[i] = "failed"
  BY FailedVisit
<1>2. CASE job.scope = System
  <2>1. job' = Rest
    BY <1>2 DEF ProjectFails
  <2>2. job'.scope = System
    BY <1>2, <2>1 DEF Rest
  <2>3. job' # NoJob
    BY <2>2, MarkersAssumption DEF NoJob
  <2> QED
    BY <1>1, <2>2, <2>3 DEF SystemDue, Due
<1>3. CASE job.scope # System
  <2>1. \A i \in Linked : i = job.scope => env'[i] = "failed"
    BY <1>3, FailedVisit
  <2> QED
    BY <1>1, <1>3, <2>1 DEF SystemDue, Due, Unlinking
<1> QED
  BY <1>2, <1>3

LEMMA JobKeepsDue ==
  ASSUME job # NoJob => job' # NoJob /\ job'.scope = job.scope,
         requests \subseteq requests',
         \A i : Unlinking(i) => Unlinking(i)' \/ i \notin Linked'
  PROVE  /\ SystemDue => SystemDue'
         /\ \A i \in Linked' : Due(i) => Due(i)'
  BY DEF SystemDue, Due

LEMMA RowsKeptRoutesKept ==
  ASSUME RouteInv, UNCHANGED <<routes, workers, gateway, projects, hostnames>>,
         SystemDue => SystemDue',
         \A i \in Linked : env[i] = "failed" => env'[i] = "failed",
         \A i \in Linked : Due(i) => Due(i)' \/ env'[i] = "failed"
  PROVE  RouteInv'
<1>1. Linked' = Linked /\ \A i : additional_hostnames_for_project(i)' = additional_hostnames_for_project(i)
  BY DEF Linked, additional_hostnames_for_project
<1>2. PICK T : T = {}
  OBVIOUS
<1>3. \A i \in T : Due(i)'
  BY <1>2
<1> QED
  BY <1>1, <1>3, RoutesKept

LEMMA CommandsKeepRoutes ==
  ASSUME RegistryInv, RegistryInv', RouteInv, CliStep
  PROVE  RouteInv'
<1>1. CASE link_project_with_mode
  <2>1. /\ UNCHANGED <<routes, workers, gateway, job>> /\ requests \subseteq requests'
        /\ cli.cmd = "link"
    BY <1>1 DEF link_project_with_mode, gatewayState
  <2>2. PICK T \in SUBSET requests' : \A i \in Linked' : i \notin T => Untouched(i)
    BY <1>1, LinkEnds
  <2>3. Linked \subseteq Linked'
    BY <1>1, LinkEnds
  <2>4. \A i \in T : Due(i)'
    BY <2>2 DEF Due
  <2>5. \A i : ~Unlinking(i)
    BY <2>1 DEF Unlinking
  <2>6. (SystemDue => SystemDue') /\ \A i \in Linked' : Due(i) => Due(i)'
    BY <2>1, <2>5, JobKeepsDue
  <2> QED
    BY <2>1, <2>2, <2>3, <2>4, <2>6, RoutesKept DEF Untouched
<1>2. CASE unlink_project
  <2>1. /\ UNCHANGED <<routes, workers, gateway, job>> /\ requests \subseteq requests'
        /\ System \in requests' /\ cli.cmd = "unlink"
    BY <1>2 DEF unlink_project, gatewayState
  <2>2. /\ Linked' = Linked \ {cli.id}
        /\ \A i \in Linked' : i \in Linked /\ projects'[i] = projects[i] /\ env'[i] = env[i]
    BY <1>2 DEF unlink_project, Linked
  <2>3. \A i \in Linked' : additional_hostnames_for_project(i)' = additional_hostnames_for_project(i)
    BY <1>2, <2>2 DEF unlink_project, additional_hostnames_for_project
  <2>4. \A i : Unlinking(i) => i \notin Linked'
    BY <2>2 DEF Unlinking
  <2>5. SystemDue' /\ \A i \in Linked' : Due(i) => Due(i)'
    BY <2>1, <2>4, JobKeepsDue DEF SystemDue
  <2>6. PICK T : T = {}
    OBVIOUS
  <2>7. \A i \in Linked' : i \notin T =>
           /\ i \in Linked /\ projects'[i] = projects[i]
           /\ additional_hostnames_for_project(i)' = additional_hostnames_for_project(i)
           /\ env[i] = "failed" => env'[i] = "failed"
           /\ Due(i) => Due(i)' \/ env'[i] = "failed"
    BY <2>2, <2>3, <2>5
  <2>8. (\A i \in T : Due(i)') /\ \A i \in Linked : i \notin Linked' => SystemDue'
    BY <2>5, <2>6
  <2> QED
    BY <2>1, <2>5, <2>7, <2>8, RoutesKept
<1>3. CASE replace_project_desired_php_track
  <2>1. PICK id : id = cli.id
    OBVIOUS
  <2>2. /\ UNCHANGED <<routes, workers, gateway, job, hostnames, env>>
        /\ requests' = requests \cup {id} /\ cli.cmd = "php:record"
        /\ projects' = [projects EXCEPT ![id].track = cli.track, ![id].requested = {}, ![id].loaded = {}]
    BY <1>3, <2>1 DEF replace_project_desired_php_track, gatewayState
  <2>3. Linked' = Linked /\ \A i \in Linked : i # id => projects'[i] = projects[i]
    BY <2>2, RowFacts DEF Linked
  <2>4. \A i : additional_hostnames_for_project(i)' = additional_hostnames_for_project(i)
    BY <2>2 DEF additional_hostnames_for_project
  <2>5. (\A i : ~Unlinking(i)) /\ \A i \in {id} : Due(i)'
    BY <2>2 DEF Unlinking, Due
  <2>6. (SystemDue => SystemDue') /\ \A i \in Linked' : Due(i) => Due(i)'
    BY <2>2, <2>5, JobKeepsDue
  <2>7. \A i \in Linked' : i \notin {id} =>
           /\ i \in Linked /\ projects'[i] = projects[i]
           /\ additional_hostnames_for_project(i)' = additional_hostnames_for_project(i)
           /\ env[i] = "failed" => env'[i] = "failed"
           /\ Due(i) => Due(i)' \/ env'[i] = "failed"
    BY <2>2, <2>3, <2>4, <2>6
  <2> QED
    BY <2>2, <2>3, <2>5, <2>6, <2>7, RoutesKept
<1>4. ASSUME UNCHANGED <<routes, workers, gateway, job, projects, hostnames, env>>,
             requests \subseteq requests', cli.cmd # "unlink"
      PROVE  RouteInv'
  <2>1. Linked' = Linked /\ \A i : ~Unlinking(i)
    BY <1>4 DEF Linked, Unlinking
  <2>2. (SystemDue => SystemDue') /\ \A i \in Linked' : Due(i) => Due(i)'
    BY <1>4, <2>1, JobKeepsDue
  <2> QED
    BY <1>4, <2>1, <2>2, RowsKeptRoutesKept
<1>5. cli = Idle => cli.cmd # "unlink"
  BY MarkersAssumption DEF Idle
<1>6. ASSUME \/ \E path \in Paths, h \in Hostnames \cup {None} : Link(path, h)
             \/ \E selector \in Hostnames \cup Range(Slugs) : Unlink(selector)
             \/ \E id \in Linked, selector \in Tracks \cup {"latest"}, catalog \in Catalogs :
                  PhpUse(id, selector, catalog)
             \/ write_project_php_track
      PROVE  RouteInv'
  BY <1>4, <1>5, <1>6 DEF Link, Unlink, PhpUse, write_project_php_track, Busy, db, gatewayState
<1>7. ASSUME \/ \E t \in Tracks, catalog \in Catalogs :
                  PhpInstall(t, catalog) \/ PhpUseGlobal(t, catalog) \/ PhpUpdate(t, catalog)
             \/ record_global_php_default_track
             \/ \E t \in Tracks, force \in BOOLEAN : PhpUninstall(t, force)
             \/ uninstall_php_pair
      PROVE  RouteInv'
  BY <1>4, <1>5, <1>7 DEF PhpInstall, PhpUseGlobal, record_global_php_default_track, PhpUpdate,
     PhpUninstall, uninstall_php_pair, Busy, db, gatewayState
<1> QED
  BY <1>1, <1>2, <1>3, <1>6, <1>7 DEF CliStep

(* What a step of a project's visit does: the project fails, or the job goes on,
   and no other project is touched. *)
Visit ==
  \/ \E id \in Ids : LoadProject(id)
  \/ ApplyProject \/ RereadProject \/ finalize_project_reconciliation_state

LEMMA VisitOutcome ==
  ASSUME RegistryInv, ScopeInv, Visit
  PROVE  /\ job # NoJob /\ UNCHANGED <<routes, workers, gateway, files, requests, cli>>
         /\ \E id : /\ job.scope # System => id = job.scope
                    /\ \/ ProjectFails(id) /\ UNCHANGED <<projects, hostnames>>
                       \/ /\ job' # NoJob /\ job'.scope = job.scope /\ Linked' = Linked
                          /\ \A i \in Linked : i # id => Untouched(i)
<1> DEFINE GoesOn(id) == /\ job' # NoJob /\ job'.scope = job.scope /\ Linked' = Linked
                         /\ \A i \in Linked : i # id => Untouched(i)
<1>1. job # NoJob => job.scope \in Ids \cup {System} /\ job.scope # None
  BY MarkersAssumption DEF RegistryInv, JobTypeOK, Ids
<1>2. \A r : job # NoJob /\ r.scope = job.scope => r # NoJob
  BY <1>1 DEF NoJob
<1>3. ASSUME UNCHANGED <<projects, hostnames, env>>
      PROVE  Linked' = Linked /\ \A i \in Linked : Untouched(i)
  BY <1>3 DEF Linked, Untouched, additional_hostnames_for_project
<1>4. ASSUME NEW id \in Ids, LoadProject(id)
      PROVE  /\ job # NoJob /\ UNCHANGED <<routes, workers, gateway, files, requests, cli>>
             /\ job.scope # System => id = job.scope
             /\ (ProjectFails(id) /\ UNCHANGED <<projects, hostnames>>) \/ GoesOn(id)
  <2>1. /\ UNCHANGED <<routes, workers, gateway, files, projects, hostnames, requests, cli>>
        /\ job # NoJob /\ job.step = "next" /\ job.todo # <<>> /\ Head(job.todo) = id
    BY <1>4 DEF LoadProject, Visits, At, gatewayState
  <2>2. job.scope # System => id = job.scope
    <3>1. id # Resources
      BY MarkersAssumption DEF Ids
    <3> QED
      BY <2>1, <3>1 DEF ScopeInv
  <2>3. CASE ~ProjectFails(id)
    <3>1. /\ env' = env
          /\ \E config, runtime, host :
               job' = [scope |-> job.scope, step |-> "apply", pass |-> job.pass, todo |-> job.todo,
                       id |-> id, config |-> config, runtime |-> runtime, host |-> host]
      BY <1>4, <2>3 DEF LoadProject
    <3>2. job'.scope = job.scope
      BY <3>1
    <3> QED
      BY <1>2, <1>3, <2>1, <2>2, <3>1, <3>2
  <2> QED
    BY <2>1, <2>2, <2>3
<1>5. ASSUME ApplyProject \/ RereadProject
      PROVE  /\ OnProject /\ UNCHANGED <<routes, workers, gateway, files, requests, cli>>
             /\ (ProjectFails(job.id) /\ UNCHANGED <<projects, hostnames>>) \/ GoesOn(job.id)
  <2>1. OnProject /\ UNCHANGED <<routes, workers, gateway, files, projects, hostnames, requests, cli>>
    BY <1>5 DEF ApplyProject, RereadProject, At, gatewayState, OnProject
  <2>2. CASE env' = env /\ \E step, host : job' = [job EXCEPT !.step = step, !.host = host]
    <3>1. job'.scope = job.scope /\ job # NoJob
      BY <2>1, <2>2, WorkFacts DEF OnProject
    <3> QED
      BY <1>2, <1>3, <2>1, <2>2, <3>1
  <2>3. ApplyProject =>
          \/ ProjectFails(job.id)
          \/ env' = env /\ job' = [job EXCEPT !.step = "reread", !.host = job.host]
    BY <2>1, WorkFacts DEF ApplyProject
  <2>4. RereadProject =>
          \/ ProjectFails(job.id)
          \/ env' = env /\ job' = [job EXCEPT !.step = "finalize", !.host = served_hostname(projects[job.id])]
    BY DEF RereadProject
  <2> QED
    BY <1>5, <2>1, <2>2, <2>3, <2>4
<1>6. ASSUME finalize_project_reconciliation_state
      PROVE  /\ OnProject /\ UNCHANGED <<routes, workers, gateway, files, requests, cli>>
             /\ (ProjectFails(job.id) /\ UNCHANGED <<projects, hostnames>>) \/ GoesOn(job.id)
  <2>1. OnProject /\ job # NoJob /\ UNCHANGED <<routes, workers, gateway, files, requests, cli>>
    BY <1>6 DEF finalize_project_reconciliation_state, At, gatewayState, OnProject
  <2>2. CASE job' = Rest \/ job' = [Rest EXCEPT !.todo = <<Resources, job.id>>, !.pass = 2]
    <3>1. PICK pass, todo : job' = [scope |-> job.scope, step |-> "next", pass |-> pass, todo |-> todo]
      BY <2>2 DEF Rest
    <3>2. job'.scope = job.scope
      BY <3>1
    <3>3. Linked' = Linked /\ \A i \in Linked : i # job.id => Untouched(i)
      BY <1>6, FinalizeKeeps
    <3> QED
      BY <1>2, <2>1, <3>2, <3>3
  <2> QED
    BY <1>6, <2>1, <2>2 DEF finalize_project_reconciliation_state
<1>7. OnProject => job # NoJob /\ (job.scope # System => job.id = job.scope)
  BY DEF ScopeInv, OnProject
<1> HIDE DEF GoesOn
<1>8. /\ job # NoJob /\ UNCHANGED <<routes, workers, gateway, files, requests, cli>>
      /\ \E id : /\ job.scope # System => id = job.scope
                 /\ (ProjectFails(id) /\ UNCHANGED <<projects, hostnames>>) \/ GoesOn(id)
  BY <1>4, <1>5, <1>6, <1>7 DEF Visit
<1> QED
  BY <1>8 DEF GoesOn

LEMMA JobsKeepRoutes ==
  ASSUME RegistryInv, RegistryInv', ScopeInv, RouteInv, DaemonStep
  PROVE  RouteInv'
<1>1. job # NoJob => job.scope \in Ids \cup {System} /\ job.scope # None
  BY MarkersAssumption DEF RegistryInv, JobTypeOK, Ids
<1>3. \A r : job # NoJob /\ r.scope = job.scope => r # NoJob
  BY <1>1 DEF NoJob
<1>5. ASSUME NEW scope \in requests, StartJob(scope) PROVE RouteInv'
  <2>1. /\ UNCHANGED <<routes, workers, gateway, projects, hostnames, env, cli>> /\ job = NoJob
        /\ requests' = requests \ {scope}
    BY <1>5 DEF StartJob, db, gatewayState
  <2>2. PICK todo : job' = [scope |-> scope, step |-> "next", pass |-> 1, todo |-> todo]
    BY <1>5 DEF StartJob
  <2>3. job'.scope = scope /\ scope \in Ids \cup {System}
    BY <2>2, RowFacts
  <2>4. job' # NoJob
    BY <2>3, MarkersAssumption DEF NoJob, Ids
  <2>5. (SystemDue => SystemDue') /\ \A i \in Linked : Due(i) => Due(i)'
    BY <2>1, <2>3, <2>4 DEF SystemDue, Due, Unlinking
  <2> QED
    BY <2>1, <2>5, RowsKeptRoutesKept
<1>6. ASSUME Visit PROVE RouteInv'
  <2>1. /\ UNCHANGED <<routes, workers, gateway, requests, cli>> /\ job # NoJob
    BY <1>6, VisitOutcome
  <2>2. PICK id : /\ job.scope # System => id = job.scope
                  /\ \/ ProjectFails(id) /\ UNCHANGED <<projects, hostnames>>
                     \/ /\ job' # NoJob /\ job'.scope = job.scope /\ Linked' = Linked
                        /\ \A i \in Linked : i # id => Untouched(i)
    BY <1>6, VisitOutcome
  <2>3. CASE ProjectFails(id) /\ UNCHANGED <<projects, hostnames>>
    BY <2>1, <2>2, <2>3, FailureKeepsDue, RowsKeptRoutesKept
  <2>4. CASE /\ job' # NoJob /\ job'.scope = job.scope /\ Linked' = Linked
             /\ \A i \in Linked : i # id => Untouched(i)
    <3>1. (SystemDue => SystemDue') /\ \A i \in Linked' : Due(i) => Due(i)'
      BY <2>1, <2>4, JobKeepsDue DEF Unlinking
    <3>2. \A i \in {id} : Due(i)'
      BY <2>2, <2>4 DEF Due
    <3>3. \A i \in Linked' : i \notin {id} =>
            /\ i \in Linked /\ projects'[i] = projects[i]
            /\ additional_hostnames_for_project(i)' = additional_hostnames_for_project(i)
            /\ env[i] = "failed" => env'[i] = "failed"
            /\ Due(i) => Due(i)' \/ env'[i] = "failed"
      BY <2>4, <3>1 DEF Untouched
    <3> QED
      BY <2>1, <2>4, <3>1, <3>2, <3>3, RoutesKept
  <2> QED
    BY <2>2, <2>3, <2>4
<1>7. ASSUME ReconcileResources PROVE RouteInv'
  <2> SUFFICES ASSUME gateway' # "skipped" PROVE RouteInv'
    BY DEF RouteInv
  <2>1. /\ UNCHANGED <<routes, workers, gateway, projects, hostnames, env, requests, cli>>
        /\ job # NoJob /\ job'.scope = job.scope
    BY <1>7 DEF ReconcileResources, Visits, At, db, Rest
  <2>2. job' # NoJob /\ Linked' = Linked
    BY <1>3, <2>1 DEF Linked
  <2>3. (SystemDue => SystemDue') /\ \A i \in Linked' : Due(i) => Due(i)'
    BY <2>1, <2>2, JobKeepsDue DEF Unlinking
  <2> QED
    BY <2>1, <2>2, <2>3, RowsKeptRoutesKept
<1> QED
  BY <1>5, <1>6, <1>7, GatewayRoutes DEF DaemonStep, Visit, Ids

LEMMA RouteInvStep ==
  ASSUME RegistryInv, RegistryInv', ScopeInv, RouteInv, [Next]_vars
  PROVE  RouteInv'
<1>1. ASSUME UNCHANGED <<routes, workers, gateway, projects, hostnames, env, job, cli>>,
             requests \subseteq requests'
      PROVE  RouteInv'
  <2>1. (SystemDue => SystemDue') /\ \A i \in Linked' : Due(i) => Due(i)'
    BY <1>1, JobKeepsDue DEF Unlinking
  <2>2. Linked' = Linked
    BY <1>1 DEF Linked
  <2> QED
    BY <1>1, <2>1, <2>2, RowsKeptRoutesKept
<1>2. CASE UNCHANGED vars
  BY <1>1, <1>2 DEF vars, db, gatewayState
<1>3. CASE \E path \in Paths, config \in Configs \cup {Invalid} : EditConfig(path, config)
  BY <1>1, <1>3 DEF EditConfig, db, gatewayState
<1> QED
  BY <1>2, <1>3, CommandsKeepRoutes, JobsKeepRoutes DEF Next

(* When nothing is left to do after a successful Gateway reconciliation, every
   served project that is not reported as failed is routed under exactly its
   hostnames to a worker that knows it, no unlinked project is routed, and a
   resource-only one only while it is reported; the hostname rows always agree
   with the projects. *)
THEOREM RoutesFollowProjects == Spec => []ServedRoutesCurrent
<1> DEFINE Inv == RegistryInv /\ ScopeInv /\ RouteInv
<1>1. Init => Inv
  <2>1. Init => ScopeInv /\ RouteInv
    BY DEF Init, ScopeInv, RouteInv
  <2> QED
    BY <2>1, RegistryInvInit
<1>2. Inv /\ [Next]_vars => Inv'
  BY RegistryInvStep, ScopeInvStep, RouteInvStep
<1>3. Inv => ServedRoutesCurrent
  <2> SUFFICES ASSUME RegistryInv, RouteInv, Quiescent, gateway = "ok"
               PROVE  /\ \A id \in DOMAIN routes : id \in Linked /\ (id \in Served \/ env[id] = "failed")
                      /\ \A id \in Served : env[id] = "failed" \/ Routed(id)
    BY DEF ServedRoutesCurrent, RegistryInv
  <2>1. ~SystemDue /\ \A id : ~Due(id)
    BY MarkersAssumption DEF Quiescent, SystemDue, Due, Unlinking, Idle
  <2> QED
    BY <2>1 DEF RouteInv
<1> QED
  BY <1>1, <1>2, <1>3, PTL DEF Spec
-----------------------------------------------------------------------------
(* The runtimes *)

(* A runtime has no extension that pv.yml did not ask for: not the one a job
   resolved, and not the one a row records. *)
Trimmed(runtime) == runtime.loaded \subseteq runtime.requested
JobTrimmed == OnProject /\ job.runtime # None => Trimmed(job.runtime)
RowsTrimmed == \A id \in Linked : Trimmed(projects[id])

(* A project that names its PHP version is served with the track of its row and
   with extensions the row asks for. *)
Named(id) == files[projects[id].path] # Invalid /\ Selector(files[projects[id].path]) # None
KeyFits(id) == routes[id].key[1] = projects[id].track /\ routes[id].key[2] \subseteq projects[id].requested
Awaited(id) == Due(id) \/ System \in requests
KeyInv ==
  gateway = "ok" =>
    \A id \in Served \cap DOMAIN routes :
      Named(id) => env[id] = "failed" \/ Awaited(id) \/ KeyFits(id)

LEMMA ResolvedTrims ==
  ASSUME NEW p, NEW config, NEW runtime, runtime = maybe_resolve_project_php_runtime(p, config),
         runtime \notin {None, Invalid}
  PROVE  Trimmed(runtime)
<1>1. runtime = resolve_project_php_runtime(p, config)
  BY DEF maybe_resolve_project_php_runtime
<1>2. PICK track, requested :
        runtime = Runtime(track, requested, resolve_php_extension_request(track, requested))
  BY <1>1 DEF resolve_project_php_runtime
<1>3. /\ runtime.requested = requested
      /\ runtime.loaded = resolve_php_extension_request(track, requested)
  BY <1>2 DEF Runtime
<1> QED
  BY <1>3 DEF Trimmed, resolve_php_extension_request

LEMMA JobTrimmedStep ==
  ASSUME RegistryInv, JobTrimmed, [Next]_vars
  PROVE  JobTrimmed'
<1> SUFFICES ASSUME OnProject', job'.runtime # None PROVE Trimmed(job'.runtime)
  BY DEF JobTrimmed, Trimmed
<1>1. ASSUME NEW scope \in requests, StartJob(scope) PROVE FALSE
  <2>1. job'.step = "next"
    BY <1>1 DEF StartJob
  <2> QED
    BY <2>1 DEF OnProject
<1>2. ASSUME OnProject, job'.runtime = job.runtime PROVE Trimmed(job'.runtime)
  BY <1>2 DEF JobTrimmed
<1>3. CASE job' = job
  BY <1>2, <1>3 DEF OnProject
<1>4. Rest.step = "next"
  BY DEF Rest
<1>5. ASSUME NEW id, ProjectFails(id) PROVE FALSE
  BY <1>4, <1>5 DEF ProjectFails, OnProject
<1>6. ASSUME NEW id \in Ids, LoadProject(id) PROVE Trimmed(job'.runtime)
  <2>1. PICK p, config, runtime, host :
          /\ runtime = maybe_resolve_project_php_runtime(p, config) /\ runtime # Invalid
          /\ job' = [scope |-> job.scope, step |-> "apply", pass |-> job.pass, todo |-> job.todo,
                     id |-> id, config |-> config, runtime |-> runtime, host |-> host]
    BY <1>5, <1>6, Zenon DEF LoadProject
  <2>2. job'.runtime = runtime
    BY <2>1
  <2> QED
    BY <2>1, <2>2, ResolvedTrims
<1>7. ASSUME ApplyProject \/ RereadProject PROVE Trimmed(job'.runtime)
  <2>1. OnProject
    BY <1>7 DEF ApplyProject, RereadProject, At, OnProject
  <2>2. \/ job' = [job EXCEPT !.step = "reread"]
        \/ job' = [job EXCEPT !.step = "finalize", !.host = served_hostname(projects[job.id])]
    BY <1>5, <1>7 DEF ApplyProject, RereadProject
  <2>3. job'.runtime = job.runtime
    BY <2>1, <2>2, WorkFacts
  <2> QED
    BY <1>2, <2>1, <2>3
<1>8. ASSUME finalize_project_reconciliation_state \/ ReconcileResources \/ ReconcileGateway PROVE FALSE
  <2>1. ASSUME finalize_project_reconciliation_state PROVE FALSE
    <3>1. job' = Rest \/ job' = [Rest EXCEPT !.todo = <<Resources, job.id>>, !.pass = 2]
      BY <1>5, <2>1 DEF finalize_project_reconciliation_state
    <3>2. PICK pass, todo :
            job' = [scope |-> job.scope, step |-> "next", pass |-> pass, todo |-> todo]
      BY <3>1 DEF Rest
    <3>3. job'.step = "next"
      BY <3>2
    <3> QED
      BY <3>3 DEF OnProject
  <2>2. ASSUME ReconcileResources PROVE FALSE
    <3>1. job' # NoJob => job'.step = "next"
      BY <2>2 DEF ReconcileResources, Rest
    <3> QED
      BY <3>1 DEF OnProject
  <2> QED
    BY <1>8, <2>1, <2>2 DEF ReconcileGateway, OnProject
<1>9. CASE CliStep
  <2>1. job' = job
    BY <1>9 DEF CliStep, Link, link_project_with_mode, Unlink, unlink_project, PhpUse,
       write_project_php_track, replace_project_desired_php_track, PhpInstall, PhpUseGlobal,
       record_global_php_default_track, PhpUpdate, PhpUninstall, uninstall_php_pair
  <2> QED
    BY <1>3, <2>1
<1>10. CASE DaemonStep
  BY <1>1, <1>6, <1>7, <1>8, <1>10 DEF DaemonStep, Ids
<1>11. CASE \E path \in Paths, config \in Configs \cup {Invalid} : EditConfig(path, config)
  BY <1>3, <1>11 DEF EditConfig
<1>12. CASE UNCHANGED vars
  BY <1>3, <1>12 DEF vars
<1> QED
  BY <1>9, <1>10, <1>11, <1>12 DEF Next

(* A command or an edit asks for a visit of each project it touches. *)
LEMMA CommandTouches ==
  ASSUME RegistryInv,
         \/ CliStep
         \/ \E path \in Paths, config \in Configs \cup {Invalid} : EditConfig(path, config)
         \/ UNCHANGED vars
  PROVE  /\ UNCHANGED <<routes, gateway, job>> /\ requests \subseteq requests'
         /\ \E T \in SUBSET requests' : \A i \in Linked' : i \notin T =>
              /\ i \in Linked /\ projects'[i] = projects[i] /\ env'[i] = env[i]
              /\ files'[projects[i].path] = files[projects[i].path]
              /\ Unlinking(i) => Unlinking(i)'
<1> DEFINE Alone(i) == /\ i \in Linked /\ projects'[i] = projects[i] /\ env'[i] = env[i]
                       /\ files'[projects[i].path] = files[projects[i].path]
                       /\ Unlinking(i) => Unlinking(i)'
           Goal == /\ UNCHANGED <<routes, gateway, job>> /\ requests \subseteq requests'
                   /\ \E T \in SUBSET requests' : \A i \in Linked' : i \notin T => Alone(i)
<1> SUFFICES Goal
  OBVIOUS
<1>1. \A i, j \in Linked : i # j => projects[i].path # projects[j].path
  BY DEF RegistryInv, HostnameRowsMatch
<1>2. cli = Idle => cli.cmd # "unlink"
  BY MarkersAssumption DEF Idle
<1>3. ASSUME UNCHANGED <<routes, gateway, job, projects, env, files>>, requests \subseteq requests',
             cli.cmd # "unlink" \/ cli' = cli
      PROVE  Goal
  <2>1. Linked' = Linked /\ \A i \in Linked : Alone(i)
    BY <1>3 DEF Linked, Unlinking
  <2>2. \A i \in Linked' : i \notin {} => Alone(i)
    BY <2>1
  <2> HIDE DEF Alone
  <2> QED
    BY <1>3, <2>2
<1>4. ASSUME NEW T \in SUBSET Linked, UNCHANGED <<routes, gateway, job, projects, env, cli>>,
             requests' = requests \cup T,
             \A i \in Linked : i \notin T => files'[projects[i].path] = files[projects[i].path]
      PROVE  Goal
  <2>1. Linked' = Linked /\ \A i \in Linked : i \notin T => Alone(i)
    BY <1>4 DEF Linked, Unlinking
  <2>2. T \in SUBSET requests'
    BY <1>4
  <2> HIDE DEF Alone
  <2> QED
    BY <1>4, <2>1, <2>2
<1>5. CASE link_project_with_mode
  <2>1. /\ UNCHANGED <<routes, gateway, job, files>> /\ requests \subseteq requests' /\ cli.cmd = "link"
    BY <1>5 DEF link_project_with_mode, gatewayState
  <2>2. PICK T \in SUBSET requests' : \A i \in Linked' : i \notin T => Untouched(i)
    BY <1>5, LinkEnds
  <2>3. \A i \in Linked' : i \notin T => Alone(i)
    BY <2>1, <2>2 DEF Untouched, Unlinking
  <2> HIDE DEF Alone
  <2> QED
    BY <2>1, <2>3
<1>6. CASE unlink_project
  <2>1. UNCHANGED <<routes, gateway, job, files>> /\ requests \subseteq requests'
    BY <1>6 DEF unlink_project, gatewayState
  <2>2. /\ Linked' = Linked \ {cli.id}
        /\ \A i \in Linked' : i \in Linked /\ projects'[i] = projects[i] /\ env'[i] = env[i]
    BY <1>6 DEF unlink_project, Linked
  <2>3. \A i \in Linked' : i \notin {} => Alone(i)
    BY <2>1, <2>2 DEF Unlinking
  <2> HIDE DEF Alone
  <2> QED
    BY <2>1, <2>3
<1>7. CASE replace_project_desired_php_track
  <2>1. PICK id : id = cli.id
    OBVIOUS
  <2>2. /\ UNCHANGED <<routes, gateway, job, env, files>>
        /\ requests' = requests \cup {id} /\ cli.cmd = "php:record"
        /\ projects' = [projects EXCEPT ![id].track = cli.track, ![id].requested = {}, ![id].loaded = {}]
    BY <1>7, <2>1 DEF replace_project_desired_php_track, gatewayState
  <2>3. Linked' = Linked /\ \A i \in Linked : i # id => projects'[i] = projects[i]
    BY <2>2, RowFacts DEF Linked
  <2>4. \A i \in Linked' : i \notin {id} => Alone(i)
    BY <2>2, <2>3 DEF Unlinking
  <2>5. {id} \in SUBSET requests'
    BY <2>2
  <2> HIDE DEF Alone
  <2> QED
    BY <2>2, <2>4, <2>5
<1>8. CASE write_project_php_track
  <2>1. PICK id \in Linked : id = cli.id
    BY <1>8, CommandFacts DEF write_project_php_track
  <2>2. UNCHANGED <<routes, gateway, job, projects, env>> /\ cli.cmd = "php:use"
    BY <1>8 DEF write_project_php_track, db, gatewayState
  <2>3. CASE files' = files /\ requests' = requests
    BY <1>3, <2>2, <2>3
  <2>4. CASE \E config : /\ files' = [files EXCEPT ![projects[id].path] = config]
                         /\ requests' = requests \cup {id}
    <3>1. Linked' = Linked
      BY <2>2 DEF Linked
    <3>2. \A i \in Linked : i # id => files'[projects[i].path] = files[projects[i].path]
      BY <1>1, <2>4, RowFacts DEF Row
    <3>3. \A i \in Linked' : i \notin {id} => Alone(i)
      BY <2>2, <3>1, <3>2 DEF Unlinking
    <3>4. {id} \in SUBSET requests'
      BY <2>4
    <3> HIDE DEF Alone
    <3> QED
      BY <2>2, <2>4, <3>3, <3>4
  <2> QED
    BY <1>8, <2>1, <2>3, <2>4 DEF write_project_php_track
<1>9. ASSUME \/ \E path \in Paths, h \in Hostnames \cup {None} : Link(path, h)
             \/ \E selector \in Hostnames \cup Range(Slugs) : Unlink(selector)
             \/ \E id \in Linked, selector \in Tracks \cup {"latest"}, catalog \in Catalogs :
                  PhpUse(id, selector, catalog)
      PROVE  Goal
  <2>1. UNCHANGED <<routes, gateway, job, projects, env, files, requests>> /\ cli = Idle
    BY <1>9 DEF Link, Unlink, PhpUse, Busy, db, gatewayState
  <2> QED
    BY <1>2, <1>3, <2>1
<1>10. ASSUME \/ \E t \in Tracks, catalog \in Catalogs :
                   PhpInstall(t, catalog) \/ PhpUseGlobal(t, catalog) \/ PhpUpdate(t, catalog)
              \/ record_global_php_default_track
              \/ \E t \in Tracks, force \in BOOLEAN : PhpUninstall(t, force)
              \/ uninstall_php_pair
       PROVE  Goal
  <2>1. /\ UNCHANGED <<routes, gateway, job, projects, env, files>> /\ requests \subseteq requests'
        /\ cli.cmd # "unlink"
    BY <1>2, <1>10 DEF PhpInstall, PhpUseGlobal, record_global_php_default_track, PhpUpdate,
       PhpUninstall, uninstall_php_pair, Busy, db, gatewayState
  <2> QED
    BY <1>3, <2>1
<1>11. ASSUME NEW path \in Paths, NEW config \in Configs \cup {Invalid}, EditConfig(path, config) PROVE Goal
  <2>1. PICK T \in SUBSET Linked : T = project_by_path(path)
    BY DEF project_by_path
  <2>2. /\ UNCHANGED <<routes, gateway, job, projects, env, cli>> /\ requests' = requests \cup T
        /\ files' = [files EXCEPT ![path] = config]
    BY <1>11, <2>1 DEF EditConfig, db, gatewayState
  <2>3. \A i \in Linked : i \notin T => files'[projects[i].path] = files[projects[i].path]
    BY <2>1, <2>2, RowFacts DEF project_by_path, Row
  <2> QED
    BY <1>4, <2>2, <2>3
<1>12. CASE UNCHANGED vars
  BY <1>3, <1>12 DEF vars, db, gatewayState
<1> HIDE DEF Goal
<1> QED
  BY <1>5, <1>6, <1>7, <1>8, <1>9, <1>10, <1>11, <1>12 DEF CliStep

(* The final transaction records the runtime the job resolved. *)
LEMMA FinalizeRecords ==
  ASSUME RegistryInv, OnProject, NEW runtime,
         runtime = IF job.runtime = None THEN Runtime(None, {}, {}) ELSE job.runtime,
         finalize_project_reconciliation(job.id, job.host, job.config, runtime)
  PROVE  /\ projects'[job.id].track = runtime.track /\ projects'[job.id].requested = runtime.requested
         /\ projects'[job.id].loaded = runtime.loaded
<1>1. PICK id, p : id = job.id /\ p = projects[id]
  OBVIOUS
<1>2. id \in Linked /\ p \in Row
  BY <1>1, RowFacts DEF finalize_project_reconciliation
<1>3. PICK q : q = [p EXCEPT !.track = runtime.track, !.requested = runtime.requested,
                              !.loaded = runtime.loaded]
  OBVIOUS
<1>4. PICK host, mode :
        projects' = [i \in Linked \cup {id} |->
           IF i = id THEN update_project(q, host, mode, runtime.track) ELSE projects[i]]
  <2>1. WriteProject(id, q, job.host, job.config.hostnames, Mode(job.config), runtime.track)
    BY <1>1, <1>3 DEF finalize_project_reconciliation
  <2> QED
    BY <2>1, Zenon DEF WriteProject
<1>5. projects'[id] = update_project(q, host, mode, runtime.track)
  BY <1>4
<1>6. /\ q = [path |-> p.path, slug |-> p.slug, mode |-> p.mode, primary |-> p.primary,
              track |-> runtime.track, requested |-> runtime.requested, loaded |-> runtime.loaded]
  BY <1>2, <1>3 DEF Row
<1> QED
  BY <1>1, <1>5, <1>6 DEF update_project

LEMMA RowsTrimmedStep ==
  ASSUME RegistryInv, JobTrimmed, RowsTrimmed, [Next]_vars
  PROVE  RowsTrimmed'
<1>1. CASE projects' = projects
  BY <1>1 DEF RowsTrimmed, Linked, Trimmed
<1>2. ASSUME link_project_with_mode PROVE RowsTrimmed'
  <2>1. PICK id, p, host, mode, track :
          /\ \/ id \in Linked /\ p = projects[id]
             \/ p = [path |-> cli.path, slug |-> generate_project_slug, mode |-> None, primary |-> None,
                     track |-> None, requested |-> {}, loaded |-> {}]
          /\ \/ projects' = projects
             \/ projects' = [i \in Linked \cup {id} |->
                              IF i = id THEN update_project(p, host, mode, track) ELSE projects[i]]
    <3> DEFINE existing == project_by_path(cli.path)
               id == IF existing = {} THEN ids + 1 ELSE CHOOSE i \in existing : TRUE
               new == [path |-> cli.path, slug |-> generate_project_slug, mode |-> None, primary |-> None,
                       track |-> None, requested |-> {}, loaded |-> {}]
               p == IF existing = {} THEN new ELSE projects[id]
    <3>1. existing # {} => id \in Linked
      BY DEF project_by_path
    <3>2. \/ projects' = projects
          \/ WriteProject(id, p, cli.primary, cli.config.hostnames, Mode(cli.config), cli.track)
      BY <1>2, Zenon DEF link_project_with_mode, db
    <3>3. \/ projects' = projects
          \/ \E host, mode, track : projects' = [i \in Linked \cup {id} |->
                 IF i = id THEN update_project(p, host, mode, track) ELSE projects[i]]
      <4>1. ASSUME NEW a, NEW q, NEW primary, NEW hosts, NEW kind, NEW chosen,
                   WriteProject(a, q, primary, hosts, kind, chosen)
            PROVE  \E host, mode, track : projects' = [i \in Linked \cup {a} |->
                     IF i = a THEN update_project(q, host, mode, track) ELSE projects[i]]
        BY <4>1, Zenon DEF WriteProject
      <4> HIDE DEF id, p
      <4> QED
        BY <3>2, <4>1
    <3>4. (id \in Linked /\ p = projects[id]) \/ p = new
      BY <3>1
    <3> HIDE DEF id, p, new, existing
    <3>5. \E host, mode, track :
          /\ (id \in Linked /\ p = projects[id]) \/ p = new
          /\ \/ projects' = projects
             \/ projects' = [i \in Linked \cup {id} |->
                              IF i = id THEN update_project(p, host, mode, track) ELSE projects[i]]
      BY <3>3, <3>4
    <3> QED
      BY <3>5, Zenon DEF new
  <2>2. CASE projects' = projects
    BY <1>1, <2>2
  <2>3. CASE projects' = [i \in Linked \cup {id} |->
                            IF i = id THEN update_project(p, host, mode, track) ELSE projects[i]]
    <3>1. Trimmed(p)
      BY <2>1 DEF RowsTrimmed, Trimmed
    <3>2. Trimmed(update_project(p, host, mode, track))
      <4>1. /\ update_project(p, host, mode, track).loaded = IF p.track = track THEN p.loaded ELSE {}
            /\ update_project(p, host, mode, track).requested = IF p.track = track THEN p.requested ELSE {}
        <5>1. CASE id \in Linked /\ p = projects[id]
          <6>1. p \in Row
            BY <5>1, RowFacts
          <6> QED
            BY <6>1 DEF update_project, Row
        <5>2. CASE p = [path |-> cli.path, slug |-> generate_project_slug, mode |-> None, primary |-> None,
                        track |-> None, requested |-> {}, loaded |-> {}]
          BY <5>2 DEF update_project
        <5> QED
          BY <2>1, <5>1, <5>2
      <4> QED
        BY <3>1, <4>1 DEF Trimmed
    <3>3. \A i \in Linked' : Trimmed(projects'[i])
      BY <2>3, <3>2 DEF RowsTrimmed, Linked
    <3> QED
      BY <3>3 DEF RowsTrimmed, Trimmed
  <2> QED
    BY <2>1, <2>2, <2>3
<1>3. ASSUME unlink_project PROVE RowsTrimmed'
  <2>1. \A i \in Linked' : i \in Linked /\ projects'[i] = projects[i]
    BY <1>3 DEF unlink_project, Linked
  <2> QED
    BY <2>1 DEF RowsTrimmed, Trimmed
<1>4. ASSUME replace_project_desired_php_track PROVE RowsTrimmed'
  <2>1. PICK id, track : id = cli.id /\ track = cli.track
    OBVIOUS
  <2>2. id \in Linked
    BY <1>4, <2>1, CommandFacts DEF replace_project_desired_php_track
  <2>3. projects' = [projects EXCEPT ![id].track = track, ![id].requested = {}, ![id].loaded = {}]
    BY <1>4, <2>1 DEF replace_project_desired_php_track
  <2>4. Linked' = Linked /\ \A i \in Linked : i # id => projects'[i] = projects[i]
    BY <2>3, RowFacts DEF Linked
  <2>5. projects'[id].loaded = {}
    BY <2>2, <2>3, RowFacts DEF Row
  <2> QED
    BY <2>4, <2>5 DEF RowsTrimmed, Trimmed
<1>5. ASSUME finalize_project_reconciliation_state, projects' # projects PROVE RowsTrimmed'
  <2>1. OnProject
    BY <1>5 DEF finalize_project_reconciliation_state, At, OnProject
  <2>2. PICK runtime :
          /\ runtime = IF job.runtime = None THEN Runtime(None, {}, {}) ELSE job.runtime
          /\ finalize_project_reconciliation(job.id, job.host, job.config, runtime)
    BY <1>5 DEF finalize_project_reconciliation_state
  <2>3. /\ projects'[job.id].requested = runtime.requested
        /\ projects'[job.id].loaded = runtime.loaded
    BY <2>1, <2>2, FinalizeRecords
  <2>4. Trimmed(runtime)
    <3>1. CASE job.runtime = None
      BY <2>2, <3>1 DEF Runtime, Trimmed
    <3>2. CASE job.runtime # None
      BY <2>1, <2>2, <3>2 DEF JobTrimmed
    <3> QED
      BY <3>1, <3>2
  <2>5. Linked' = Linked /\ \A i \in Linked : i # job.id => Untouched(i)
    BY <1>5, FinalizeKeeps
  <2> QED
    BY <2>3, <2>4, <2>5 DEF RowsTrimmed, Trimmed, Untouched
<1>6. CASE CliStep
  <2>1. ASSUME \/ \E path \in Paths, h \in Hostnames \cup {None} : Link(path, h)
               \/ \E selector \in Hostnames \cup Range(Slugs) : Unlink(selector)
               \/ \E id \in Linked, selector \in Tracks \cup {"latest"}, catalog \in Catalogs :
                    PhpUse(id, selector, catalog)
               \/ write_project_php_track
               \/ \E t \in Tracks, catalog \in Catalogs :
                    PhpInstall(t, catalog) \/ PhpUseGlobal(t, catalog) \/ PhpUpdate(t, catalog)
               \/ record_global_php_default_track
               \/ \E t \in Tracks, force \in BOOLEAN : PhpUninstall(t, force)
               \/ uninstall_php_pair
        PROVE  projects' = projects
    BY <2>1 DEF Link, Unlink, PhpUse, write_project_php_track, PhpInstall, PhpUseGlobal, PhpUpdate,
       record_global_php_default_track, PhpUninstall, uninstall_php_pair, db
  <2> QED
    BY <1>1, <1>2, <1>3, <1>4, <1>6, <2>1 DEF CliStep
<1>7. CASE DaemonStep
  <2>1. ASSUME \/ \E scope \in requests : StartJob(scope)
               \/ \E id \in 1..MaxIds : LoadProject(id)
               \/ ApplyProject \/ RereadProject \/ ReconcileResources \/ ReconcileGateway
        PROVE  projects' = projects
    BY <2>1 DEF StartJob, LoadProject, ApplyProject, RereadProject, ReconcileResources, ReconcileGateway, db
  <2> QED
    BY <1>1, <1>5, <1>7, <2>1 DEF DaemonStep
<1>8. CASE \E path \in Paths, config \in Configs \cup {Invalid} : EditConfig(path, config)
  BY <1>1, <1>8 DEF EditConfig, db
<1>9. CASE UNCHANGED vars
  BY <1>1, <1>9 DEF vars, db
<1> QED
  BY <1>6, <1>7, <1>8, <1>9 DEF Next

(* A step that leaves the fragments alone: the projects it touches are awaited,
   and none that was is forgotten unless it is reported. *)
LEMMA KeysKept ==
  ASSUME KeyInv, NEW T, UNCHANGED <<routes, gateway>>,
         \A i \in T : Awaited(i)',
         \A i \in Linked' : i \notin T =>
           /\ i \in Linked /\ projects'[i] = projects[i]
           /\ files'[projects[i].path] = files[projects[i].path]
           /\ env[i] = "failed" => env'[i] = "failed"
           /\ Awaited(i) => Awaited(i)' \/ env'[i] = "failed"
  PROVE  KeyInv'
<1> SUFFICES ASSUME gateway = "ok", NEW i \in Linked', projects'[i].mode = "served", i \in DOMAIN routes,
                    Named(i)'
             PROVE  env'[i] = "failed" \/ Awaited(i)' \/ KeyFits(i)'
  BY DEF KeyInv, Served
<1>1. CASE i \in T
  BY <1>1
<1>2. CASE i \notin T
  <2>1. i \in Served /\ Named(i) /\ (KeyFits(i) => KeyFits(i)')
    BY <1>2 DEF Served, Named, KeyFits
  <2> QED
    BY <1>2, <2>1 DEF KeyInv
<1> QED
  BY <1>1, <1>2

(* A successful Gateway reconciliation serves an applied project that names its
   version with the track of its row. *)
LEMMA GatewayKeys ==
  ASSUME RegistryInv, ReconcileGateway
  PROVE  KeyInv'
<1> SUFFICES ASSUME gateway' = "ok" PROVE KeyInv'
  BY DEF KeyInv
<1>1. /\ job # NoJob /\ job.step = "next" /\ job.todo = <<>> /\ job' = NoJob
      /\ UNCHANGED <<files, projects, hostnames, requests, cli>>
  BY DEF ReconcileGateway, At
<1>2. PICK fails :
        /\ fails = {id \in Reached : Persists(id) /\ (files[projects[id].path] = Invalid
                      \/ files[projects[id].path].serve \/ (projects[id].track # None /\ ~Rebuilt(id)))}
        /\ env' = [id \in Linked |-> IF id \in fails THEN "failed" ELSE env[id]]
        /\ routes' = gateway_project_config_fragments
        /\ Invalid \notin {PlannedRuntime(id) : id \in Planned}
        /\ \A id \in Planned : installed_php_release(PlannedRuntime(id).track)
  BY DEF ReconcileGateway, reconcile_gateway_runtimes
<1>2a. Reached = Served
  BY <1>2 DEF Reached, PlanStops, Planned
<1>3. Linked' = Linked /\ Served' = Served /\ Served \subseteq Linked
  BY <1>1 DEF Linked, Served
<1> SUFFICES ASSUME NEW id \in Served, Named(id), env'[id] # "failed", ~Awaited(id)' PROVE KeyFits(id)'
  BY <1>1, <1>3 DEF KeyInv, Named
<1>4. id \in Linked /\ id \notin fails /\ env[id] # "failed"
  BY <1>2, <1>3
<1>5. id \notin requests /\ System \notin requests /\ ~Unlinking(id)
  BY <1>1 DEF Awaited, Due, Unlinking
<1>6. Applied(id)
  BY <1>1, <1>4, <1>5 DEF RegistryInv, ProjectsAreCaredFor, Cared, OnProject
<1>7. PICK config, p : config = files[p.path] /\ p = projects[id]
  OBVIOUS
<1>8. /\ config \in ConfigSpace /\ config.serve /\ p \in Row /\ p.requested = requested_extensions(config)
      /\ p.track # None /\ Selector(config) \in {"latest", p.track} /\ Selector(config) # None
  <2>1. /\ config \in ConfigSpace /\ p.mode = "served" /\ p.mode = Mode(config) /\ p \in Row
        /\ p.requested = requested_extensions(config) /\ Selects(config, p.track)
        /\ Selector(config) # None
    BY <1>4, <1>6, <1>7, RowFacts DEF Applied, Served, Row, Named
  <2> QED
    BY <2>1 DEF Mode, Selects
<1>9. ~Persists(id) /\ id \in Planned
  BY <1>2, <1>2a, <1>4, <1>7, <1>8 DEF Planned
<1>10. PICK runtime : runtime = PlannedRuntime(id) /\ installed_php_release(runtime.track)
  BY <1>2, <1>9
<1>11. runtime = resolve_project_php_runtime(p, config)
  BY <1>7, <1>9, <1>10 DEF PlannedRuntime
<1>12. resolve_project_php_track(Selector(config), p.track) = p.track
  <2>1. CASE Selector(config) = "latest"
    BY <1>8, <2>1 DEF resolve_project_php_track
  <2>2. CASE Selector(config) # "latest"
    BY <1>8, <2>2 DEF resolve_project_php_track
  <2> QED
    BY <2>1, <2>2
<1>13. runtime = Runtime(p.track, p.requested, resolve_php_extension_request(p.track, p.requested))
  BY <1>8, <1>11, <1>12 DEF resolve_project_php_runtime
<1>14. runtime.track = p.track /\ runtime.loaded = p.requested \cap php[p.track].catalog
  BY <1>10, <1>13 DEF Runtime, resolve_php_extension_request
<1>15. routes'[id].key = <<runtime.track, runtime.loaded>>
  <2>1. routes'[id] = [hosts |-> RenderedHosts(id), key |-> php_runtime_key(runtime)]
    BY <1>2, <1>9, <1>10 DEF gateway_project_config_fragments
  <2> QED
    BY <2>1 DEF php_runtime_key
<1> QED
  BY <1>1, <1>7, <1>14, <1>15 DEF KeyFits

LEMMA KeyInvStep ==
  ASSUME RegistryInv, ScopeInv, KeyInv, [Next]_vars
  PROVE  KeyInv'
<1>1. ASSUME UNCHANGED <<routes, gateway, projects, files>>,
             \A i \in Linked : env[i] = "failed" => env'[i] = "failed",
             \A i \in Linked : Awaited(i) => Awaited(i)' \/ env'[i] = "failed"
      PROVE  KeyInv'
  <2>1. Linked' = Linked
    BY <1>1 DEF Linked
  <2>2. PICK T : T = {}
    OBVIOUS
  <2>3. \A i \in T : Awaited(i)'
    BY <2>2
  <2> QED
    BY <1>1, <2>1, <2>3, KeysKept
<1>2. CASE \/ CliStep
           \/ \E path \in Paths, config \in Configs \cup {Invalid} : EditConfig(path, config)
           \/ UNCHANGED vars
  <2>1. UNCHANGED <<routes, gateway, job>> /\ requests \subseteq requests'
    BY <1>2, CommandTouches
  <2>2. PICK T \in SUBSET requests' : \A i \in Linked' : i \notin T =>
          /\ i \in Linked /\ projects'[i] = projects[i] /\ env'[i] = env[i]
          /\ files'[projects[i].path] = files[projects[i].path]
          /\ Unlinking(i) => Unlinking(i)'
    BY <1>2, CommandTouches
  <2>3. \A i \in T : Awaited(i)'
    BY <2>2 DEF Awaited, Due
  <2>4. \A i \in Linked' : i \notin T => (Awaited(i) => Awaited(i)')
    BY <2>1, <2>2 DEF Awaited, Due
  <2> QED
    BY <2>1, <2>2, <2>3, <2>4, KeysKept
<1>3. ASSUME NEW scope \in requests, StartJob(scope) PROVE KeyInv'
  <2>1. /\ UNCHANGED <<routes, gateway, projects, files, env, cli>> /\ job = NoJob
        /\ requests' = requests \ {scope}
    BY <1>3 DEF StartJob, db, gatewayState
  <2>2. PICK todo : job' = [scope |-> scope, step |-> "next", pass |-> 1, todo |-> todo]
    BY <1>3 DEF StartJob
  <2>3. job'.scope = scope /\ scope \in Ids \cup {System}
    BY <2>2, RowFacts
  <2>4. job' # NoJob
    BY <2>3, MarkersAssumption DEF NoJob, Ids
  <2>5. \A i : Awaited(i) => Awaited(i)'
    BY <2>1, <2>3, <2>4 DEF Awaited, Due, Unlinking
  <2> QED
    BY <1>1, <2>1, <2>5
<1>4. CASE Visit
  <2>1. UNCHANGED <<routes, gateway, files, requests, cli>> /\ job # NoJob
    BY <1>4, VisitOutcome
  <2>2. PICK id : /\ job.scope # System => id = job.scope
                  /\ \/ ProjectFails(id) /\ UNCHANGED <<projects, hostnames>>
                     \/ /\ job' # NoJob /\ job'.scope = job.scope /\ Linked' = Linked
                        /\ \A i \in Linked : i # id => Untouched(i)
    BY <1>4, VisitOutcome
  <2>3. CASE ProjectFails(id) /\ UNCHANGED <<projects, hostnames>>
    BY <1>1, <2>1, <2>2, <2>3, FailureKeepsDue DEF Awaited
  <2>4. CASE /\ job' # NoJob /\ job'.scope = job.scope /\ Linked' = Linked
             /\ \A i \in Linked : i # id => Untouched(i)
    <3>1. \A i : Awaited(i) => Awaited(i)'
      BY <2>1, <2>4 DEF Awaited, Due, Unlinking
    <3>2. \A i \in {id} : Awaited(i)'
      BY <2>2, <2>4 DEF Awaited, Due
    <3>3. \A i \in Linked' : i \notin {id} =>
            /\ i \in Linked /\ projects'[i] = projects[i]
            /\ files'[projects[i].path] = files[projects[i].path]
            /\ env[i] = "failed" => env'[i] = "failed"
            /\ Awaited(i) => Awaited(i)'
      BY <2>1, <2>4, <3>1 DEF Untouched
    <3> QED
      BY <2>1, <3>2, <3>3, KeysKept
  <2> QED
    BY <2>2, <2>3, <2>4
<1>5. ASSUME ReconcileResources PROVE KeyInv'
  <2> SUFFICES ASSUME gateway' # "skipped" PROVE KeyInv'
    BY DEF KeyInv
  <2>1. /\ UNCHANGED <<routes, gateway, projects, files, env, requests, cli>>
        /\ job # NoJob /\ job'.scope = job.scope
    BY <1>5 DEF ReconcileResources, Visits, At, db, Rest
  <2>2. job' # NoJob
    BY <2>1, MarkersAssumption DEF NoJob, RegistryInv, JobTypeOK, Ids
  <2>3. \A i : Awaited(i) => Awaited(i)'
    BY <2>1, <2>2 DEF Awaited, Due, Unlinking
  <2> QED
    BY <1>1, <2>1, <2>3
<1> QED
  BY <1>2, <1>3, <1>4, <1>5, GatewayKeys DEF Next, DaemonStep, Visit, Ids

(* When nothing is left to do after a successful Gateway reconciliation, the php
   shim starts a project that names its PHP version on the track the Gateway
   serves it with, and neither loads an extension its pv.yml does not ask for,
   however links, edits, php commands and jobs interleave. *)
THEOREM ShimsFollowWorkers == Spec => []ShimMatchesWorker
<1> DEFINE Inv == RegistryInv /\ ScopeInv /\ JobTrimmed /\ RowsTrimmed /\ KeyInv
<1>1. Init => Inv
  <2>1. Init => ScopeInv /\ JobTrimmed /\ KeyInv
    BY DEF Init, ScopeInv, JobTrimmed, KeyInv, OnProject
  <2>2. Init => RowsTrimmed
    BY DEF Init, RowsTrimmed, Linked
  <2> QED
    BY <2>1, <2>2, RegistryInvInit
<1>2. Inv /\ [Next]_vars => Inv'
  BY RegistryInvStep, ScopeInvStep, JobTrimmedStep, RowsTrimmedStep, KeyInvStep
<1>3. Inv => ShimMatchesWorker
  <2> SUFFICES ASSUME RegistryInv, RowsTrimmed, KeyInv, Quiescent, gateway = "ok",
                      NEW id \in Served \cap DOMAIN routes,
                      env[id] # "failed", Selector(files[projects[id].path]) # None
               PROVE  LET shim == resolve_php_runtime_for_shim(id)
                      IN /\ shim # Invalid /\ routes[id].key[1] = shim.track
                         /\ shim.loaded \cup routes[id].key[2]
                              \subseteq requested_extensions(files[projects[id].path])
    BY DEF ShimMatchesWorker
  <2>1. requests = {} /\ job = NoJob /\ ~Unlinking(id)
    BY MarkersAssumption DEF Quiescent, Unlinking, Idle
  <2>2. id \in Linked
    BY DEF Served
  <2>3. Applied(id)
    BY <2>1, <2>2 DEF RegistryInv, ProjectsAreCaredFor, Cared, OnProject
  <2>4. KeyFits(id)
    BY <2>1, <2>3 DEF KeyInv, Named, Applied, Awaited, Due
  <2>5. PICK config, p : config = files[p.path] /\ p = projects[id]
    OBVIOUS
  <2>6. /\ config # Invalid /\ p.requested = requested_extensions(config) /\ p.track # None
        /\ Selector(config) \in {"latest", p.track} /\ Selector(config) # None
    BY <2>3, <2>5 DEF Applied, Selects
  <2>7. resolve_php_runtime_for_shim(id) =
          IF p.requested = {} THEN Runtime(p.track, {}, {}) ELSE Runtime(p.track, p.requested, p.loaded)
    BY <2>5, <2>6 DEF resolve_php_runtime_for_shim
  <2>8. /\ resolve_php_runtime_for_shim(id).track = p.track
        /\ resolve_php_runtime_for_shim(id).loaded \in {{}, p.loaded}
    BY <2>7 DEF Runtime
  <2>9. p.loaded \subseteq p.requested
    BY <2>2, <2>5 DEF RowsTrimmed, Trimmed
  <2>10. p.track \in Tracks /\ p.requested \subseteq Extensions /\ p.loaded \subseteq Extensions
    BY <2>2, <2>5, <2>6 DEF RegistryInv, RowsTypeOK, Row, Linked
  <2>11. resolve_php_runtime_for_shim(id) \in
           [track : Tracks, requested : SUBSET Extensions, loaded : SUBSET Extensions]
    BY <2>7, <2>10 DEF Runtime
  <2>12. resolve_php_runtime_for_shim(id) # Invalid
    BY <2>11, MarkersAssumption
  <2> QED
    BY <2>4, <2>5, <2>6, <2>8, <2>9, <2>12 DEF KeyFits
<1> QED
  BY <1>1, <1>2, <1>3, PTL DEF Spec
=============================================================================
