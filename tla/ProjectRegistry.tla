-------------------------- MODULE ProjectRegistry --------------------------
(***************************************************************************)
(* Linked projects: the tables projects and project_hostnames with their   *)
(* triggers (state/database.rs, sql/), pv link, pv unlink and pv php:*      *)
(* (cli/commands/project.rs, php.rs), the project half of a reconciliation *)
(* (daemon/project_env.rs), the runtime plan and the route fragments made  *)
(* from it (daemon/gateway.rs), PHP extensions (resources/php_extensions). *)
(*                                                                         *)
(* One CLI command and one job of the daemon run at a time, each in steps; *)
(* the user edits project configs between any two of them.  Every request  *)
(* reaches the queue (ConfigWatch, ReconciliationQueue).  The resources of *)
(* a project other than PHP are in ManagedResources, processes in          *)
(* RuntimeSupervisor.  A hostname is its label: "a" stands for a.test.     *)
(***************************************************************************)
EXTENDS Naturals, Sequences, FiniteSets, SequencesExt, FiniteSetsExt, TLC

CONSTANTS None,         \* an absent value
          Invalid,      \* a pv.yml that does not parse, a result that is an error
          System,       \* the scope of a job for everything
          Resources,    \* the step of a job that is about no project
          Paths,        \* canonical project directories, all with the base name Slugs[1]
          Slugs,        \* the base name and its numbered forms, in order
          Hostnames,    \* hostnames a user may give with --hostname
          Configs,      \* contents of pv.yml
          Tracks,       \* PHP tracks
          Extensions,   \* PHP extensions
          Catalogs,     \* the extensions that published PHP releases have
          Latest,       \* the track "latest" stands for in a cached manifest
          MaxIds,       \* bound: projects ever linked
          MaxCommands,  \* bound: CLI commands
          MaxEdits      \* bound: edits of pv.yml, changes of PHP artifacts

\* What pv.yml says: whether the project is served, its additional hostnames,
\* its PHP version and extensions (None: no php key) and whether its env
\* mappings use TLS placeholders.
Config(serve, hosts, php, tls) == [serve |-> serve, hostnames |-> hosts, php |-> php, tls |-> tls]
Php(version, extensions) == [version |-> version, extensions |-> extensions]

\* The labels of hostnames, and what a pv.yml that parses may say.
Labels == Hostnames \cup Range(Slugs)
ConfigSpace == [serve : BOOLEAN, hostnames : SUBSET Labels, tls : BOOLEAN,
                php : {None} \cup [version : Tracks \cup {"latest", None}, extensions : SUBSET Extensions]]

ASSUME RegistryAssumption ==
  /\ Slugs \in Seq(Labels) /\ Slugs # <<>> /\ \A i, j \in DOMAIN Slugs : Slugs[i] = Slugs[j] => i = j
  /\ Configs \subseteq ConfigSpace /\ Latest \in Tracks /\ Catalogs \subseteq SUBSET Extensions /\ MaxIds \in Nat
  /\ {MaxCommands, MaxEdits} \subseteq Nat

\* An absent value, and each of the markers, is none of the values it stands beside.
ASSUME MarkersAssumption ==
  /\ None \notin Labels /\ None \notin Tracks /\ None \notin 1..MaxIds /\ None # System
  /\ None \notin {"link", "unlink", "php:use", "php:record", "php:global", "php:uninstall"}
  /\ Invalid \notin ConfigSpace /\ Invalid # None
  /\ None \notin [version : Tracks \cup {"latest", None}, extensions : SUBSET Extensions]
  /\ \A x \in {None, Invalid} :
       x \notin [track : Tracks, requested : SUBSET Extensions, loaded : SUBSET Extensions]
  /\ System \notin 1..MaxIds /\ Resources \notin 1..MaxIds

VARIABLES
  files,      \* pv.yml of each path: a config or Invalid
  projects,   \* rows of projects, by project id
  hostnames,  \* rows of project_hostnames, by hostname
  env,        \* observed env state of a project: None, "failed" or "rendered"
  tls,        \* stable TLS files, by project id
  php,        \* rows of managed_resource_tracks for a PHP pair, by track
  globalPhp,  \* global_php_default_track
  manifest,   \* is an artifact manifest cached?
  routes,     \* active Gateway fragments, by project id
  workers,    \* worker configs: the projects with a fragment, by runtime key
  gateway,    \* how the last job that got past its projects ended
  requests,   \* scopes in the mutation queue: project ids and System
  job,        \* the job the daemon runs
  cli,        \* the CLI command that runs
  ids,        \* project ids handed out
  commands, edits

db == <<projects, hostnames, env>>
phpState == <<php, globalPhp, manifest>>
gatewayState == <<routes, workers, gateway>>
counters == <<ids, commands, edits>>
vars == <<files, db, tls, phpState, gatewayState, requests, job, cli, counters>>

Idle == [cmd |-> None]
NoJob == [scope |-> None]
NoRow == [desired |-> None, installed |-> FALSE, catalog |-> Extensions]
Linked == DOMAIN projects

-----------------------------------------------------------------------------
(* The registry *)

additional_hostnames_for_project(id) ==
  {h \in DOMAIN hostnames : hostnames[h].project = id /\ ~hostnames[h].primary}

project_by_path(path) == {id \in Linked : projects[id].path = path}

\* A project that was first linked resource-only has an internal hostname,
\* which the records show as None.
served_hostname(p) == IF p.primary = None THEN p.slug ELSE p.primary

validate_project_hostname_set(id, primary, additional) ==
  /\ primary \notin additional
  /\ \A h \in {primary} \cup additional :
       h \in DOMAIN hostnames => hostnames[h].project = id

generate_project_slug ==
  LET free == {i \in 1..Len(Slugs) : \A id \in Linked : projects[id].slug # Slugs[i]}
  IN IF free = {} THEN None ELSE Slugs[Min(free)]

\* The column update, the trigger that renames the primary row, and the
\* statements that replace the additional rows.
replace_project_hostnames(id, primary, additional) ==
  LET kept == {h \in DOMAIN hostnames : hostnames[h].project # id}
      mine == {primary} \cup additional
  IN [h \in kept \cup mine |-> IF h \in mine THEN [project |-> id, primary |-> h = primary]
                                              ELSE hostnames[h]]

\* A new track clears the extensions that were resolved for the old one.
update_project(p, primary, mode, track) ==
  [p EXCEPT !.primary = primary, !.mode = mode, !.track = track,
            !.requested = IF p.track = track THEN @ ELSE {},
            !.loaded = IF p.track = track THEN @ ELSE {}]

\* Hostnames, mode and track of a project row as link and finalize write them.
WriteProject(id, p, primary, additional, mode, track) ==
  LET keeps == mode = "resource-only"
      host == IF keeps THEN p.primary ELSE primary
      more == IF keeps THEN additional_hostnames_for_project(id) ELSE additional
  IN /\ projects' = [i \in Linked \cup {id} |->
           IF i = id THEN update_project(p, host, mode, track) ELSE projects[i]]
     /\ hostnames' = IF host # None THEN replace_project_hostnames(id, host, more) ELSE hostnames

Mode(config) == IF config.serve THEN "served" ELSE "resource-only"

-----------------------------------------------------------------------------
(* PHP runtimes *)

Selector(config) == IF config.php = None THEN None ELSE config.php.version
requested_extensions(config) == IF config.php = None THEN {} ELSE config.php.extensions

default_project_php_track == IF manifest THEN Latest ELSE None

\* Mutant: the global default wins over the version of pv.yml.
GlobalDefaultFirst(selector, stored) ==
  CASE globalPhp # None -> globalPhp
    [] globalPhp = None /\ selector \notin {None, "latest"} -> selector
    [] globalPhp = None /\ selector \in {None, "latest"} /\ stored # None -> stored
    [] OTHER -> default_project_php_track

\* None stands for an error: no manifest to resolve "latest" with.
resolve_project_php_track(selector, stored) ==
  CASE selector = "latest" -> IF stored # None THEN stored ELSE default_project_php_track
    [] selector \notin {None, "latest"} -> selector
    [] selector = None /\ stored # None -> stored
    [] selector = None /\ stored = None /\ globalPhp # None -> globalPhp
    [] OTHER -> default_project_php_track

installed_php_release(track) == php[track].desired = "installed" /\ php[track].installed

resolve_php_extension_request(track, requested) ==
  IF installed_php_release(track) THEN requested \cap php[track].catalog ELSE {}

Runtime(track, requested, loaded) == [track |-> track, requested |-> requested, loaded |-> loaded]
php_runtime_key(runtime) == <<runtime.track, runtime.loaded>>

resolve_project_php_runtime(p, config) ==
  LET uses == Selector(config) # None \/ (~manifest /\ globalPhp = None)
      track == resolve_project_php_track(Selector(config), IF uses THEN p.track ELSE None)
      requested == requested_extensions(config)
  IN IF track = None THEN Invalid
     ELSE Runtime(track, requested, resolve_php_extension_request(track, requested))

maybe_resolve_project_php_runtime(p, config) ==
  IF \/ ~config.serve /\ config.php = None
     \/ config.php = None /\ p.track = None /\ ~manifest /\ globalPhp = None
  THEN None
  ELSE resolve_project_php_runtime(p, config)

\* The runtime the php shim starts in a project's directory; Invalid: it fails.
ShimGlobal == IF globalPhp # None THEN globalPhp ELSE default_project_php_track

resolve_project_config_php_track_for_shim(config) ==
  CASE Selector(config) = "latest" -> default_project_php_track
    [] Selector(config) \notin {None, "latest"} -> Selector(config)
    [] OTHER -> ShimGlobal

resolve_project_config_php_runtime_for_shim(track, config) ==
  CASE track # None /\ requested_extensions(config) = {} -> Runtime(track, {}, {})
    [] track # None /\ requested_extensions(config) # {} /\ installed_php_release(track) ->
         Runtime(track, requested_extensions(config),
                 resolve_php_extension_request(track, requested_extensions(config)))
    [] OTHER -> Invalid

resolve_php_runtime_for_shim(id) ==
  LET p == projects[id]
      config == files[p.path]
      selector == Selector(config)
      asked == CASE selector \notin {None, "latest", p.track} -> selector
                 [] config.php # None /\ selector = None
                      /\ (globalPhp # None \/ manifest) /\ ShimGlobal # p.track -> ShimGlobal
                 [] OTHER -> None
      current == IF asked = None THEN p.track ELSE asked
  IN IF config = Invalid
     THEN IF p.track = None THEN Invalid ELSE Runtime(p.track, p.requested, p.loaded)
     ELSE CASE p.track # None /\ requested_extensions(config) = {} -> Runtime(current, {}, {})
            [] p.track # None /\ requested_extensions(config) # {} ->
                 IF asked = None /\ p.requested = requested_extensions(config)
                 THEN Runtime(p.track, p.requested, p.loaded)
                 ELSE resolve_project_config_php_runtime_for_shim(current, config)
            [] p.track = None /\ config.php # None ->
                 resolve_project_config_php_runtime_for_shim(
                   resolve_project_config_php_track_for_shim(config), config)
            [] OTHER -> Runtime(ShimGlobal, {}, {})

\* Fails when the track is not installed or lost a recorded extension.
resolve_persisted_php_extension_modules(track, loaded) ==
  loaded = {} \/ (installed_php_release(track) /\ loaded \subseteq php[track].catalog)

-----------------------------------------------------------------------------
(* pv link and pv unlink *)

Busy(cmd) == cli = Idle /\ commands < MaxCommands /\ commands' = commands + 1 /\ cli' = cmd
Quits == cli' = Idle

\* Reads config, row and track; the transaction is a step of its own.
Link(path, hostname) ==
  LET config == files[path]
      track == CASE Selector(config) = "latest" -> default_project_php_track
                 [] OTHER -> Selector(config)
      existing == project_by_path(path)
      named == config.serve /\ hostname # None
      primary == CASE named -> hostname
                   [] ~named /\ existing # {} -> served_hostname(projects[CHOOSE id \in existing : TRUE])
                   [] OTHER -> Slugs[1]
  IN /\ config # Invalid
     /\ Selector(config) = "latest" => track # None
     /\ Busy([cmd |-> "link", path |-> path, config |-> config, track |-> track, primary |-> primary])
     /\ UNCHANGED <<files, db, tls, phpState, gatewayState, requests, job, ids, edits>>

link_project_with_mode ==
  /\ cli.cmd = "link"
  /\ LET existing == project_by_path(cli.path)
         id == IF existing = {} THEN ids + 1 ELSE CHOOSE i \in existing : TRUE
         new == [path |-> cli.path, slug |-> generate_project_slug, mode |-> None, primary |-> None,
                 track |-> None, requested |-> {}, loaded |-> {}]
         p == IF existing = {} THEN new ELSE projects[id]
     IN \/ /\ cli.config.serve => validate_project_hostname_set(id, cli.primary, cli.config.hostnames)
           /\ id <= MaxIds /\ p.slug # None
           /\ WriteProject(id, p, cli.primary, cli.config.hostnames, Mode(cli.config), cli.track)
           /\ env' = [i \in Linked \cup {id} |-> IF i \in Linked THEN env[i] ELSE None]
           /\ ids' = IF existing = {} THEN id ELSE ids
           /\ requests' = requests \cup {id}
        \/ /\ \/ cli.config.serve /\ ~validate_project_hostname_set(id, cli.primary, cli.config.hostnames)
              \/ id > MaxIds \/ p.slug = None
           /\ UNCHANGED <<db, ids, requests>>
  /\ Quits
  /\ UNCHANGED <<files, tls, phpState, gatewayState, job, commands, edits>>

\* A bare selector is a slug or the label of a hostname; it is refused when
\* the two name different projects.
resolve_project_selector(selector) ==
  LET slug == {id \in Linked : projects[id].slug = selector}
      host == IF selector \in DOMAIN hostnames THEN {hostnames[selector].project} ELSE {}
  IN CASE slug = {} -> host
       [] slug # {} /\ host \in {{}, slug} -> slug
       [] OTHER -> {}

Unlink(selector) ==
  \E id \in resolve_project_selector(selector) :
    /\ Busy([cmd |-> "unlink", id |-> id])
    /\ tls' = [i \in DOMAIN tls \ {id} |-> tls[i]]
    /\ UNCHANGED <<files, db, phpState, gatewayState, requests, job, ids, edits>>

unlink_project ==
  /\ cli.cmd = "unlink"
  /\ projects' = [i \in Linked \ {cli.id} |-> projects[i]]
  /\ hostnames' = [h \in {g \in DOMAIN hostnames : hostnames[g].project # cli.id} |-> hostnames[h]]
  /\ env' = [i \in Linked \ {cli.id} |-> env[i]]
  /\ requests' = requests \cup {System}
  /\ Quits
  /\ UNCHANGED <<files, tls, phpState, gatewayState, job, counters>>

-----------------------------------------------------------------------------
(* pv php:use, php:install, php:update, php:uninstall *)

\* Installs the newest release of the track, whatever extensions that brings.
InstallPair(track, catalog) ==
  /\ php' = [php EXCEPT ![track] = [desired |-> "installed", installed |-> TRUE, catalog |-> catalog]]
  /\ manifest' = TRUE

\* Without --global: pv.yml and the row are written after the installation.
PhpUse(id, selector, catalog) ==
  LET track == IF selector = "latest" THEN Latest ELSE selector
  IN /\ files[projects[id].path] # Invalid
     /\ Busy([cmd |-> "php:use", id |-> id, selector |-> selector, track |-> track])
     /\ InstallPair(track, catalog)
     /\ UNCHANGED <<files, db, tls, globalPhp, gatewayState, requests, job, ids, edits>>

write_project_php_track ==
  /\ cli.cmd = "php:use"
  /\ LET path == projects[cli.id].path
         config == files[path]
     IN IF config = Invalid
        THEN Quits /\ UNCHANGED <<files, requests>>
        ELSE /\ files' = [files EXCEPT ![path] =
                  [config EXCEPT !.php = Php(cli.selector, requested_extensions(config))]]
             /\ cli' = [cli EXCEPT !.cmd = "php:record"]
             /\ requests' = requests \cup {cli.id}
  /\ UNCHANGED <<db, tls, phpState, gatewayState, job, counters>>

replace_project_desired_php_track ==
  /\ cli.cmd = "php:record"
  /\ projects' = [projects EXCEPT ![cli.id].track = cli.track,
                       ![cli.id].requested = {}, ![cli.id].loaded = {}]
  /\ requests' = requests \cup {cli.id}
  /\ Quits
  /\ UNCHANGED <<files, hostnames, env, tls, phpState, gatewayState, job, counters>>

PhpInstall(track, catalog) ==
  /\ cli = Idle /\ commands < MaxCommands /\ commands' = commands + 1
  /\ InstallPair(track, catalog)
  /\ requests' = requests \cup {System}
  /\ UNCHANGED <<files, db, tls, globalPhp, gatewayState, job, cli, ids, edits>>

PhpUseGlobal(track, catalog) ==
  /\ Busy([cmd |-> "php:global", track |-> track])
  /\ InstallPair(track, catalog)
  /\ UNCHANGED <<files, db, tls, globalPhp, gatewayState, requests, job, ids, edits>>

record_global_php_default_track ==
  /\ cli.cmd = "php:global"
  /\ globalPhp' = cli.track
  /\ requests' = requests \cup {System}
  /\ Quits
  /\ UNCHANGED <<files, db, tls, php, manifest, gatewayState, job, counters>>

\* php:update: a new release of an installed track may bring other extensions.
PhpUpdate(track, catalog) ==
  /\ commands < MaxCommands /\ cli = Idle /\ commands' = commands + 1
  /\ installed_php_release(track) /\ manifest' = TRUE
  /\ php' = [php EXCEPT ![track].catalog = catalog]
  /\ requests' = requests \cup {System}
  /\ UNCHANGED <<files, db, tls, globalPhp, gatewayState, job, cli, ids, edits>>

active_php_selection_usage_count(track) ==
  Cardinality({id \in Linked :
    IF projects[id].track # None THEN projects[id].track = track ELSE ShimGlobal = track})
  + (IF ShimGlobal = track THEN 1 ELSE 0)

\* The usage is counted in one transaction and the intent recorded in another.
PhpUninstall(track, force) ==
  /\ php[track].installed
  /\ force \/ active_php_selection_usage_count(track) = 0
  /\ Busy([cmd |-> "php:uninstall", track |-> track])
  /\ UNCHANGED <<files, db, tls, phpState, gatewayState, requests, job, ids, edits>>

uninstall_php_pair ==
  /\ cli.cmd = "php:uninstall"
  /\ php' = [php EXCEPT ![cli.track].desired = "removed"]
  /\ requests' = requests \cup {System}
  /\ Quits
  /\ UNCHANGED <<files, db, tls, globalPhp, manifest, gatewayState, job, counters>>

\* The user saves pv.yml; the watcher requests the linked project.
EditConfig(path, config) ==
  /\ edits < MaxEdits /\ edits' = edits + 1
  /\ files[path] # config
  /\ files' = [files EXCEPT ![path] = config]
  /\ requests' = requests \cup project_by_path(path)
  /\ UNCHANGED <<db, tls, phpState, gatewayState, job, cli, ids, commands>>

-----------------------------------------------------------------------------
(* A job: projects one by one, the PHP resources, the Gateway *)

SlugPlace(id) == CHOOSE i \in DOMAIN Slugs : Slugs[i] = projects[id].slug
ProjectOrder ==
  CHOOSE s \in SetToSeqs(Linked) : \A i, j \in DOMAIN s : i < j => SlugPlace(s[i]) < SlugPlace(s[j])

\* A system job visits the projects, then the resources, then the projects again.
StartJob(scope) ==
  /\ job = NoJob /\ scope \in requests
  /\ requests' = requests \ {scope}
  /\ job' = [scope |-> scope, step |-> "next", pass |-> 1,
             todo |-> IF scope = System THEN ProjectOrder \o <<Resources>> ELSE <<scope>>]
  /\ UNCHANGED <<files, db, tls, phpState, gatewayState, cli, counters>>

At(step) == job # NoJob /\ job.step = step
Rest == [scope |-> job.scope, step |-> "next", pass |-> job.pass, todo |-> Tail(job.todo)]
Visits(id) == At("next") /\ job.todo # <<>> /\ Head(job.todo) = id

\* Mutant: the failure is not recorded.
FailsSilently(id) ==
  /\ UNCHANGED env
  /\ job' = IF job.scope = System THEN Rest ELSE NoJob

\* A failing project ends its own job; a system job goes on.
ProjectFails(id) ==
  /\ env' = IF id \in Linked THEN [env EXCEPT ![id] = "failed"] ELSE env
  /\ job' = IF job.scope = System THEN Rest ELSE NoJob

project_with_config_mode(p, config) ==
  [p EXCEPT !.mode = Mode(config),
            !.primary = IF config.serve THEN served_hostname(p) ELSE @]

validate_project_config(id, p, config) ==
  p.mode = "served" /\ config.serve =>
    validate_project_hostname_set(id, p.primary, config.hostnames)

generate_project_certificate(host, key) == [host |-> host, key |-> key]
project_certificate_matches(id, host) == tls[id].host = host
project_tls_files_are_current(id, host) ==
  id \in DOMAIN tls /\ tls[id].key /\ project_certificate_matches(id, host)

\* The certificate is written first, the private key in the step after it.
WriteCertificate(id, host) ==
  tls' = IF project_tls_files_are_current(id, host) THEN tls
         ELSE [i \in DOMAIN tls \cup {id} |-> IF i = id THEN generate_project_certificate(host, FALSE) ELSE tls[i]]

\* After a config error existing TLS files of a served project are kept fresh.
maintain_existing_project_tls(id, p, required) ==
  tls' = IF p.mode = "served" /\ p.primary # None /\ (required \/ id \in DOMAIN tls)
         THEN [i \in DOMAIN tls \cup {id} |-> IF i = id THEN generate_project_certificate(p.primary, TRUE) ELSE tls[i]]
         ELSE tls

\* Reads the row and pv.yml; everything up to the final transaction works on them.
LoadProject(id) ==
  LET p == projects[id]
      config == files[p.path]
      candidate == project_with_config_mode(p, config)
      runtime == maybe_resolve_project_php_runtime(candidate, config)
  IN /\ Visits(id) /\ id # Resources
     /\ CASE id \notin Linked -> ProjectFails(id) /\ UNCHANGED tls
          [] id \in Linked /\ config = Invalid ->
               ProjectFails(id) /\ maintain_existing_project_tls(id, p, FALSE)
          [] id \in Linked /\ config # Invalid /\ (~validate_project_config(id, candidate, config) \/ runtime = Invalid) ->
               ProjectFails(id) /\ maintain_existing_project_tls(id, p, config.tls)
          [] OTHER ->
               /\ IF config.serve /\ config.tls THEN WriteCertificate(id, candidate.primary) ELSE UNCHANGED tls
               /\ job' = [scope |-> job.scope, step |-> "apply", pass |-> job.pass,
                          todo |-> job.todo, id |-> id, config |-> config, runtime |-> runtime, host |-> candidate.primary]
               /\ UNCHANGED env
     /\ UNCHANGED <<files, projects, hostnames, phpState, gatewayState, requests, cli, counters>>

\* The private key, and the PHP pair the project requires from now on.
ApplyProject ==
  /\ At("apply")
  /\ tls' = IF job.config.serve /\ job.config.tls
            THEN [i \in DOMAIN tls \cup {job.id} |->
                    IF i = job.id THEN generate_project_certificate(job.host, TRUE) ELSE tls[i]]
            ELSE tls
  /\ php' = IF job.runtime = None THEN php ELSE [php EXCEPT ![job.runtime.track].desired = "installed"]
  /\ IF job.id \in Linked
     THEN job' = [job EXCEPT !.step = "reread"] /\ UNCHANGED env
     ELSE ProjectFails(job.id)
  /\ UNCHANGED <<files, projects, hostnames, globalPhp, manifest, gatewayState, requests, cli, counters>>

MissingTracks == {t \in Tracks : php[t].desired = "installed" /\ ~php[t].installed}
missing_gateway_runtime_resource == MissingTracks # {}

record_project_env_observed_snapshot(id, status) == [env EXCEPT ![id] = status]

\* The row is read once more for its hostname ...
RereadProject ==
  /\ At("reread")
  /\ IF job.id \in Linked
     THEN job' = [job EXCEPT !.step = "finalize", !.host = served_hostname(projects[job.id])] /\ UNCHANGED env
     ELSE ProjectFails(job.id)
  /\ UNCHANGED <<files, projects, hostnames, tls, phpState, gatewayState, requests, cli, counters>>

\* ... which the transaction writes with mode, additional hostnames and runtime.
finalize_project_reconciliation(id, host, config, runtime) ==
  LET p == projects[id]
  IN /\ id \in Linked
     /\ config.serve => validate_project_hostname_set(id, host, config.hostnames)
     /\ WriteProject(id, [p EXCEPT !.track = runtime.track, !.requested = runtime.requested,
                                   !.loaded = runtime.loaded],
                     host, config.hostnames, Mode(config), runtime.track)
     /\ env' = record_project_env_observed_snapshot(id, "rendered")

\* A project with extensions whose PHP pair is missing has it installed and is
\* then reconciled once more.
AgainWithResources ==
  /\ job.scope # System /\ job.pass = 1
  /\ requested_extensions(job.config) # {} /\ missing_gateway_runtime_resource

finalize_project_reconciliation_state ==
  LET runtime == IF job.runtime = None THEN Runtime(None, {}, {}) ELSE job.runtime
  IN /\ At("finalize")
     /\ \/ /\ finalize_project_reconciliation(job.id, job.host, job.config, runtime)
           /\ job' = IF AgainWithResources THEN [Rest EXCEPT !.todo = <<Resources, job.id>>, !.pass = 2]
                                            ELSE Rest
        \/ /\ \/ job.id \notin Linked
              \/ /\ job.id \in Linked /\ job.config.serve
                 /\ ~validate_project_hostname_set(job.id, job.host, job.config.hostnames)
           /\ ProjectFails(job.id) /\ UNCHANGED <<projects, hostnames>>
     /\ UNCHANGED <<files, tls, phpState, gatewayState, requests, cli, counters>>

\* Missing desired tracks are installed, as many as can be; the job goes on only
\* when nothing failed, other resources included.  The second round of a system
\* job is over the projects that are linked by then.
ReconcileResources ==
  /\ Visits(Resources)
  /\ \E done \in SUBSET MissingTracks, catalog \in [MissingTracks -> Catalogs] :
       /\ php' = [t \in Tracks |-> IF t \in done
             THEN [desired |-> "installed", installed |-> TRUE, catalog |-> catalog[t]] ELSE php[t]]
       /\ manifest' \in {manifest, TRUE} /\ (done # {} => manifest')
       /\ \/ /\ done = MissingTracks /\ (done = {} => manifest' = manifest)
             /\ job' = [Rest EXCEPT !.pass = 2, !.todo = IF job.scope = System THEN ProjectOrder ELSE @]
             /\ UNCHANGED gateway
          \/ job' = NoJob /\ gateway' = "skipped"
  /\ UNCHANGED <<files, db, tls, globalPhp, routes, workers, requests, cli, counters>>

-----------------------------------------------------------------------------
(* The runtime plan *)

Served == {id \in Linked : projects[id].mode = "served"}

\* A config that cannot be used: the project is served as it was.
Persists(id) ==
  LET config == files[projects[id].path]
  IN config = Invalid \/ ~config.serve \/ ~validate_project_config(id, projects[id], config)

persisted_project_php_runtime(id) ==
  Runtime(projects[id].track, projects[id].requested, projects[id].loaded)

\* Left out: no recorded runtime, or one that cannot be put together again.
Rebuilt(id) ==
  /\ projects[id].track # None
  /\ resolve_persisted_php_extension_modules(projects[id].track, projects[id].loaded)

PlannedRuntime(id) ==
  IF Persists(id) THEN persisted_project_php_runtime(id)
  ELSE resolve_project_php_runtime(projects[id], files[projects[id].path])

Planned == {id \in Served : Persists(id) => Rebuilt(id)}

\* Hostnames of a fragment: those of the row and those of pv.yml.
RenderedHosts(id) ==
  {projects[id].primary} \cup additional_hostnames_for_project(id) \cup files[projects[id].path].hostnames

\* Mutant: every project with a fragment keeps it.
PreserveEveryFragment ==
  [id \in {i \in Planned : Persists(i) => i \in DOMAIN routes} |->
     IF id \in DOMAIN routes THEN routes[id]
     ELSE [hosts |-> RenderedHosts(id), key |-> php_runtime_key(PlannedRuntime(id))]]

\* A project that persists keeps the fragment it has, if it has one.
gateway_project_config_fragments ==
  [id \in {i \in Planned : Persists(i) => i \in DOMAIN routes} |->
     IF Persists(id) THEN routes[id]
     ELSE [hosts |-> RenderedHosts(id), key |-> php_runtime_key(PlannedRuntime(id))]]

worker_project_config_fragments ==
  [key \in {php_runtime_key(PlannedRuntime(id)) : id \in Planned} |->
     {id \in Planned : /\ php_runtime_key(PlannedRuntime(id)) = key
                       /\ Persists(id) => key \in DOMAIN workers /\ id \in workers[key]}]

\* FrankenPHP refuses a config in which two sites have the same address.
ValidatedByFrankenphp(fragments) ==
  \A i, j \in DOMAIN fragments : i # j => fragments[i].hosts \cap fragments[j].hosts = {}

\* The plan stops at the first project, by slug, whose runtime cannot be resolved.
PlanStops(id) == ~Persists(id) /\ PlannedRuntime(id) = Invalid
Reached == {id \in Served : \A i \in Served : PlanStops(i) => SlugPlace(id) <= SlugPlace(i)}

\* A plan that cannot be built, or a worker whose track is not installed, fails
\* the whole reconciliation and leaves the active configs alone.  Then each worker
\* has its config validated, promoted and started, then the Gateway; the first
\* that fails ends it.  Workers no longer planned go last.
reconcile_gateway_runtimes ==
  LET runtimes == {PlannedRuntime(id) : id \in Planned}
      fragments == gateway_project_config_fragments
      planned == worker_project_config_fragments
      fails == {id \in Reached : Persists(id) /\ (files[projects[id].path] = Invalid
                  \/ files[projects[id].path].serve \/ (projects[id].track # None /\ ~Rebuilt(id)))}
      ready == Invalid \notin runtimes /\ \A r \in runtimes : installed_php_release(r.track)
      sites(key) == [id \in planned[key] \cap DOMAIN fragments |-> fragments[id]]
  IN /\ env' = [id \in Linked |-> IF id \in fails THEN "failed" ELSE env[id]]
     /\ \/ /\ ready /\ ValidatedByFrankenphp(fragments)
           /\ routes' = fragments /\ workers' = planned /\ gateway' = "ok"
        \/ /\ ready /\ gateway' = "failed"
           /\ \E done \in SUBSET {key \in DOMAIN planned : ValidatedByFrankenphp(sites(key))} :
                /\ workers' = [key \in DOMAIN workers \cup done |->
                                 IF key \in done THEN planned[key] ELSE workers[key]]
                /\ routes' \in IF done = DOMAIN planned /\ ValidatedByFrankenphp(fragments)
                               THEN {routes, fragments} ELSE {routes}
        \/ ~ready /\ gateway' = "failed" /\ UNCHANGED <<routes, workers>>

\* Without any FrankenPHP there is nothing to run.
ReconcileGateway ==
  /\ At("next") /\ job.todo = <<>>
  /\ IF \E t \in Tracks : installed_php_release(t)
     THEN reconcile_gateway_runtimes
     ELSE gateway' = "absent" /\ UNCHANGED <<env, routes, workers>>
  /\ job' = NoJob
  /\ UNCHANGED <<files, projects, hostnames, tls, phpState, requests, cli, counters>>

-----------------------------------------------------------------------------
Init ==
  /\ files \in [Paths -> Configs]
  /\ projects = <<>> /\ hostnames = <<>> /\ env = <<>> /\ tls = <<>>
  /\ php = [t \in Tracks |-> NoRow] /\ globalPhp = None /\ manifest = FALSE
  /\ routes = <<>> /\ workers = <<>> /\ gateway = "absent"
  /\ requests = {} /\ job = NoJob /\ cli = Idle
  /\ ids = 0 /\ commands = 0 /\ edits = 0

CliStep ==
  \/ \E path \in Paths, h \in Hostnames \cup {None} : Link(path, h)
  \/ link_project_with_mode
  \/ \E selector \in Hostnames \cup Range(Slugs) : Unlink(selector)
  \/ unlink_project
  \/ \E id \in Linked, selector \in Tracks \cup {"latest"}, catalog \in Catalogs :
       PhpUse(id, selector, catalog)
  \/ write_project_php_track
  \/ replace_project_desired_php_track
  \/ \E t \in Tracks, catalog \in Catalogs : PhpInstall(t, catalog)
  \/ \E t \in Tracks, catalog \in Catalogs : PhpUseGlobal(t, catalog)
  \/ record_global_php_default_track
  \/ \E t \in Tracks, catalog \in Catalogs : PhpUpdate(t, catalog)
  \/ \E t \in Tracks, force \in BOOLEAN : PhpUninstall(t, force)
  \/ uninstall_php_pair

DaemonStep ==
  \/ \E scope \in requests : StartJob(scope)
  \/ \E id \in 1..MaxIds : LoadProject(id)
  \/ ApplyProject
  \/ RereadProject
  \/ finalize_project_reconciliation_state
  \/ ReconcileResources
  \/ ReconcileGateway

Next ==
  \/ CliStep
  \/ DaemonStep
  \/ \E path \in Paths, config \in Configs \cup {Invalid} : EditConfig(path, config)

Spec == Init /\ [][Next]_vars

-----------------------------------------------------------------------------
(* Properties *)

Quiescent == requests = {} /\ job = NoJob /\ cli = Idle

\* Every hostname belongs to one linked project, and the primary row of a
\* project is the hostname its own row names, after any sequence of links,
\* relinks with another hostname, mode changes and unlinks (link_project_with_mode,
\* finalize_project_reconciliation and the trigger of migration 003).
HostnameRowsMatch ==
  /\ \A h \in DOMAIN hostnames : hostnames[h].project \in Linked
  /\ \A id \in Linked :
       {h \in DOMAIN hostnames : hostnames[h].project = id /\ hostnames[h].primary}
         = IF projects[id].primary = None THEN {} ELSE {projects[id].primary}
  /\ \A i, j \in Linked : i # j => projects[i].slug # projects[j].slug /\ projects[i].path # projects[j].path

\* A track that the version of pv.yml may have been resolved to.
Selects(config, track) ==
  Selector(config) # None => track # None /\ Selector(config) \in {"latest", track}

\* Row, hostname rows and TLS files are what pv.yml asks for.
Applied(id) ==
  LET p == projects[id]
      config == files[p.path]
  IN /\ config # Invalid
     /\ Selects(config, p.track)
     /\ p.mode = Mode(config)
     /\ config.serve => additional_hostnames_for_project(id) = config.hostnames
     /\ p.requested = requested_extensions(config)
     /\ config.serve /\ config.tls => project_tls_files_are_current(id, p.primary)

\* When nothing is left to do, each linked project either is what its pv.yml
\* says or is reported as failed (reconcile_loaded_project, build_runtime_plan),
\* although edits, links and php:use fall between the steps of a job that
\* works on what it read at its start.
AppliedOrReported ==
  Quiescent => \A id \in Linked : env[id] = "failed" \/ Applied(id)

\* A project's fragment has exactly its hostnames and leads to a worker that
\* knows the project.
Routed(id) ==
  /\ id \in DOMAIN routes
  /\ routes[id].hosts = {projects[id].primary} \cup additional_hostnames_for_project(id)
  /\ routes[id].key \in DOMAIN workers /\ id \in workers[routes[id].key]

\* When nothing is left to do and the last job that got past its projects
\* reconciled the Gateway (a resource that cannot be installed ends it before), a
\* served project that was applied is routed under exactly its hostnames to a
\* worker that knows it, no unlinked project is routed, and a resource-only one
\* only while it is reported as failed: a job that fails on its second visit
\* leaves the Gateway as it was (gateway_project_config_fragments,
\* complete_project_reconciliation_with_progress).
ServedRoutesCurrent ==
  /\ HostnameRowsMatch
  /\ Quiescent /\ gateway = "ok" =>
    /\ \A id \in DOMAIN routes : id \in Linked /\ (id \in Served \/ env[id] = "failed")
    /\ \A id \in Served : env[id] = "failed" \/ Routed(id)

\* In the directory of a project that names its PHP version the php shim resolves
\* the track the project is served with, and neither has an extension pv.yml does
\* not ask for: two independent resolutions, one from the row, pv.yml and the
\* defaults (cli/commands/php.rs), one in the daemon (resolve_project_php_runtime).
\* A project on the default version may differ in its track: its worker follows
\* the manifest at once, its row only with its next reconciliation.
ShimMatchesWorker ==
  Quiescent /\ gateway = "ok" =>
    \A id \in Served \cap DOMAIN routes :
      LET config == files[projects[id].path]
          shim == resolve_php_runtime_for_shim(id)
      IN env[id] # "failed" /\ Selector(config) # None =>
           /\ shim # Invalid /\ routes[id].key[1] = shim.track
           /\ shim.loaded \cup routes[id].key[2] \subseteq requested_extensions(config)

\* DESIGN.md: "When run inside a linked Project, it uses that Project's resolved
\* PHP runtime identity", which is the track and the extensions its worker runs.
ShimIsTheProjectsRuntime ==
  Quiescent /\ gateway = "ok" =>
    \A id \in Served \cap DOMAIN routes :
      env[id] # "failed" /\ Selector(files[projects[id].path]) # None =>
        php_runtime_key(resolve_php_runtime_for_shim(id)) = routes[id].key

\* DESIGN.md: the primary hostname "comes from `pv link --hostname` or the
\* directory-derived default", and a link with another one "updates that Project's
\* hostname": no step of a job puts another one in its place
\* (finalize_project_reconciliation); resource-only projects have none.
HostnameComesFromLink ==
  [][DaemonStep => \A id \in Linked : projects[id].primary # None =>
       projects'[id].primary \in {projects[id].primary, None}]_vars
=============================================================================
