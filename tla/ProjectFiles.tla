---------------------------- MODULE ProjectFiles ----------------------------
(***************************************************************************)
(* A project's own files and everybody who writes them: the user's editor, *)
(* pv init and pv php:use, which rewrite pv.yml, and the daemon, which     *)
(* rewrites PV's block of the .env after a check, the work on the          *)
(* resources and the rendering.                                            *)
(***************************************************************************)
EXTENDS ProjectInit

CONSTANTS
  Documents,      \* the YAML documents the user may write
  EnvFiles,       \* the .env files the user may write
  UserLine,       \* a line the user may append to a .env
  EnvPaths,       \* the env_file paths that may be written
  Examples,       \* .env.example or None
  SignalSets,     \* what composer.json, package.json and the directory may say
  Answers,        \* the answers to the structured edit of pv init
  PhpTracks,      \* the tracks given to php:use
  PrimaryHostname,
  MaxEdits,       \* bound on the user's edits
  MaxCommands     \* bound on commands

VARIABLES
  docs,      \* pv.yml and pv.yaml: a document or None
  envs,      \* the environment files: path -> file or None
  project,   \* the rest of the directory: [example, signals]
  cli,       \* the command that waits for its answer, or None
  job,       \* the daemon's reconciliation of the project
  edits, commands

vars == <<docs, envs, project, cli, job, edits, commands>>

\* A check as one value, where TLC would otherwise take its conjuncts as steps.
Passes(check) == check = TRUE

Files == {path \in EnvPaths : envs[path] # None}
Idle == [pc |-> "idle", config |-> None, read |-> None, touched |-> FALSE, result |-> None]

Init ==
  /\ docs = ("pv.yml" :> None) @@ ("pv.yaml" :> None)
  /\ envs = [path \in EnvPaths |-> None]
  /\ project \in [example : Examples, signals : SignalSets]
  /\ cli = None /\ job = Idle /\ edits = 0 /\ commands = 0

---------------------------------------------------------------------------
\* read_from_root: both names at once are a conflict, none is an empty file.
ConfigPath == IF docs["pv.yaml"] # None THEN "pv.yaml" ELSE "pv.yml"
ConfigAt(documents) ==
  ProjectConfigOf(CASE documents["pv.yml"] # None -> documents["pv.yml"]
                    [] documents["pv.yml"] = None /\ documents["pv.yaml"] # None -> documents["pv.yaml"]
                    [] OTHER -> Null)
Config == ConfigAt(docs)
read_from_root ==
  /\ docs["pv.yml"] = None \/ docs["pv.yaml"] = None
  /\ LET doc == docs[ConfigPath]
     IN doc # None => parse_project_mapping(doc) /\ validate_project_paths(Config, Files)

\* The user's editor.
EditConfig(name, doc) ==
  /\ edits < MaxEdits /\ edits' = edits + 1 /\ docs[name] # doc
  /\ docs' = [docs EXCEPT ![name] = doc]
  /\ UNCHANGED <<envs, project, cli, job, commands>>

\* Anything may happen to a .env: it is replaced, gets a line, a second copy of
\* PV's block, or loses a marker.
EditedFiles(file) ==
  EnvFiles \cup
  IF file = None THEN {}
  ELSE {EnvFile(Append(file.lines, UserLine), file.crlf, FALSE)}
         \cup {EnvFile(file.lines \o SubSeq(file.lines, b[1], b[2]), file.crlf, file.ended) :
                 b \in Range(managed_blocks(file.lines))}
         \cup {EnvFile(SelectSeq(file.lines, LAMBDA l : l # EndMarker), file.crlf, file.ended)}
EditEnv(path) ==
  /\ edits < MaxEdits /\ edits' = edits + 1
  /\ \E file \in EditedFiles(envs[path]) :
       /\ file # envs[path]
       /\ envs' = [envs EXCEPT ![path] = file]
  /\ job' = [job EXCEPT !.touched = @ \/ job.pc # "idle"]
  /\ UNCHANGED <<docs, project, cli, commands>>

---------------------------------------------------------------------------
\* pv php:use and pv init: read, decide, perhaps ask, then write.

Begin == cli = None /\ commands < MaxCommands /\ commands' = commands + 1 /\ Passes(read_from_root)

Shape == read_env_shape(project.example, envs[<<".env">>])

Proposes(op, config) ==
  /\ cli' = [op |-> op, read |-> Config, config |-> config, shape |-> Shape]
  /\ UNCHANGED <<docs, envs, project, job, edits>>

\* write_project_php_track
PhpUse(track) ==
  /\ Begin
  /\ LET php == IF Config.php = None THEN [version |-> track, extensions |-> <<>>]
                ELSE [Config.php EXCEPT !.version = track]
     IN Proposes("php", [Config EXCEPT !.php = php])

Detected == detect_project_init(Config, project.signals, Shape)
Proposal(detection) == render_project_init_config(detection, default_project_init_selection(detection))

\* --yes, or a first answer of yes.
InitDefaults ==
  /\ Begin /\ Passes(InitValidates(Proposal(Detected), Files))
  /\ Proposes("init", Proposal(Detected))

\* run_structured_edit
InitEdited(answers) ==
  /\ Begin /\ Passes(InitValidates(Proposal(Detected), Files))
  /\ LET selection == prompt_resource_details(default_project_init_selection(Detected), answers)
         detection == prune_explicitly_edited_allocations(Detected, selection, answers)
         config == render_project_init_config(detection, selection)
     IN Passes(InitValidates(config, Files)) /\ Proposes("edit", config)

\* write_project_config: to the file that is there now.
CliWrites ==
  /\ cli # None /\ Passes(read_from_root /\ validate_config_for_root(cli.config, Files))
  /\ docs' = [docs EXCEPT ![ConfigPath] = SerializeConfig(cli.config)]
  /\ cli' = None
  /\ UNCHANGED <<envs, project, job, edits, commands>>

\* The last answer was no, or what is there now cannot be read or kept.
CliEnds ==
  /\ cli # None /\ cli' = None
  /\ UNCHANGED <<docs, envs, project, job, edits, commands>>

---------------------------------------------------------------------------
\* The daemon.

FileOf(config) == envs[config.env_file]
LinesOf(file) == IF file = None THEN <<>> ELSE file.lines

\* validate_project_config_and_plan
validate_project_config_and_plan(config) ==
  /\ config.serve =>
       /\ \A i \in DOMAIN config.hostnames : validate_project_hostname(config.hostnames[i])
       /\ PrimaryHostname \notin Range(config.hostnames)
  /\ validate_project_env_shape(config)
  /\ has_env_mappings(config) =>
       /\ resolve_project_env_file_path(config, Files)
       /\ validate_managed_env_block(LinesOf(FileOf(config)))

Preflight ==
  /\ job.pc = "idle"
  /\ Passes(read_from_root /\ validate_project_config_and_plan(Config))
  /\ job' = [Idle EXCEPT !.pc = "planned", !.config = Config]
  /\ UNCHANGED <<docs, envs, project, cli, edits, commands>>

JobEnds(result) == job' = [job EXCEPT !.pc = "idle", !.result = result, !.read = None]

\* The resources are ready: the context is complete, and the file is read.
Render ==
  /\ job.pc = "planned"
  /\ LET config == job.config
         renders == /\ render_project_env(config) /\ resolve_project_env_file_path(config, Files)
                    /\ validate_managed_env_block(LinesOf(FileOf(config)))
     IN IF ~has_env_mappings(config) THEN JobEnds("unchanged")
        ELSE IF renders THEN job' = [job EXCEPT !.pc = "write", !.read = FileOf(config)]
        ELSE JobEnds("failed")
  /\ UNCHANGED <<docs, envs, project, cli, edits, commands>>

\* write_project_env_file
WriteEnv ==
  /\ job.pc = "write"
  /\ envs' = [envs EXCEPT ![job.config.env_file] =
                transform_managed_env_block(job.read, RenderedValues(job.config))]
  /\ JobEnds(IF duplicate_existing_key_warnings(LinesOf(job.read), RenderedValues(job.config)) = {}
             THEN "rendered" ELSE "warning")
  /\ UNCHANGED <<docs, project, cli, edits, commands>>

DaemonDies ==
  /\ job.pc # "idle" /\ job' = Idle
  /\ UNCHANGED <<docs, envs, project, cli, edits, commands>>

Next ==
  \/ \E name \in DOMAIN docs, doc \in Documents \cup {None} : EditConfig(name, doc)
  \/ \E path \in EnvPaths : EditEnv(path)
  \/ \E track \in PhpTracks : PhpUse(track)
  \/ InitDefaults
  \/ \E answers \in Answers : InitEdited(answers)
  \/ CliWrites \/ CliEnds
  \/ Preflight \/ Render \/ WriteEnv \/ DaemonDies

Spec == Init /\ [][Next]_vars

---------------------------------------------------------------------------
\* The check before the resources are touched is the whole check: what passed it
\* renders once the resources are ready (parser, registry and adapters agree on
\* the placeholders, the shape check on the keys), unless the .env was edited
\* meanwhile; and its hostnames are all answered by the DNS responder.
PreflightDecides ==
  /\ job.result = "failed" => job.touched
  /\ job.config # None =>
       \A i \in DOMAIN job.config.hostnames :
         is_test_name(job.config.hostnames[i]) /\ validate_project_hostname(job.config.hostnames[i])

\* The daemon's write keeps the user's lines and their order, leaves one
\* well-formed block with each rendered key once, whatever the values hold, and
\* the same write again would change nothing.
UserLinesKept ==
  [][job.pc = "write" /\ job'.pc = "idle" /\ job'.result # None =>
       LET values == RenderedValues(job.config)
           old == LinesOf(job.read)
           new == envs'[job.config.env_file]
           block == managed_blocks(new.lines)[1]
       IN IF DOMAIN values = {} /\ managed_blocks(old) = <<>> THEN new = job.read
          ELSE /\ validate_managed_env_block(new.lines) /\ Len(managed_blocks(new.lines)) = 1
               /\ OutsideBlocks(new.lines) = OutsideBlocks(old)
               /\ block[2] - block[1] - 1 = Cardinality(DOMAIN values)
               /\ transform_managed_env_block(new, values) = new]_vars

ConfigWritten == cli # None /\ cli' = None /\ docs' # docs
Kept(old, new) == \A key \in DOMAIN old : key \in DOMAIN new /\ new[key] = old[key]
Stays(old, new) == old # None => new = old

\* Every value of a configuration is there, unchanged, in another.
Preserves(old, new) ==
  /\ \A field \in {"serve", "env_file", "hostnames"} : new[field] = old[field]
  /\ old.php # None =>
       /\ new.php # None /\ Stays(old.php.version, new.php.version)
       /\ new.php.extensions = old.php.extensions
  /\ Stays(old.document_root, new.document_root)
  /\ Kept(old.env, new.env)
  /\ \A r \in DOMAIN old.resources :
       /\ r \in DOMAIN new.resources
       /\ Stays(old.resources[r].track, new.resources[r].track)
       /\ Kept(old.resources[r].env, new.resources[r].env)
       /\ \A a \in DOMAIN old.resources[r].allocations :
            /\ a \in DOMAIN new.resources[r].allocations
            /\ Kept(old.resources[r].allocations[a], new.resources[r].allocations[a])

\* pv init keeps every value the configuration had when it was read, PHP,
\* document root and tracks included, and proposes only keys that the daemon's
\* check accepts.  Run again on the project as it is by then, it keeps what it
\* wrote, and once nothing else has changed it changes nothing.
InitSafeToRerun ==
  [][ConfigWritten /\ cli.op = "init" =>
       LET new == ConfigAt(docs')
           Rerun(config) == Proposal(detect_project_init(config, project.signals, Shape))
           again == Rerun(new)
       IN /\ Preserves(cli.read, new)
          /\ validate_project_env_shape(new)
          /\ IF Shape = cli.shape THEN again = new
             ELSE Preserves(new, again) /\ Rerun(again) = again]_vars

\* What a command writes to pv.yml reads back as what it showed or was asked
\* for; php:use changes nothing but the version.
WrittenConfigReadsBack ==
  [][ConfigWritten =>
       LET new == ConfigAt(docs')
           rest == [new EXCEPT !.php = None]
       IN /\ parse_project_mapping(docs'[ConfigPath]) /\ new = cli.config
          /\ cli.op = "php" =>
               /\ rest = [cli.read EXCEPT !.php = None]
               /\ cli.read.php # None => new.php.extensions = cli.read.php.extensions]_vars
=============================================================================
