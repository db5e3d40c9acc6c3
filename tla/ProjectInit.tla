---------------------------- MODULE ProjectInit ----------------------------
(***************************************************************************)
(* pv init: what it detects in a project, what it proposes, and how the    *)
(* proposal is merged into the configuration that is already there.        *)
(***************************************************************************)
EXTENDS ProjectEnv, TLC

CONSTANTS AllocationOrder,  \* the allocations' names, in alphabetical order
          MaxSuffix         \* the last number tried for a key's prefix

ResourceOrder == <<"mailpit", "mysql", "postgres", "redis", "rustfs">>
SupportedPhpTracks == {"8.3", "8.4", "8.5"}

\* What is read of composer.json, package.json and the directory; constraint is
\* the pair of an operator and a version, or None.
Signals(framework, artisan, vite, constraint, public) ==
  [framework |-> framework, artisan |-> artisan, vite |-> vite,
   constraint |-> constraint, public |-> public]

---------------------------------------------------------------------------
\* detect_project_init

\* The last assignment of a key counts.  `export` stays part of the key.
read_env_file(file) ==
  LET lines == IF file = None THEN <<>> ELSE file.lines
      read == {i \in DOMAIN lines : lines[i].kind = "assign" /\ lines[i].form \in {"plain", "indented"}}
      keys == {lines[i].key : i \in read}
      last(key) == CHOOSE i \in read : /\ lines[i].key = key
                                       /\ \A j \in read : lines[j].key = key => j <= i
  IN [key \in keys |-> lines[last(key)].value]

\* .env.example if there is one, else .env.
read_env_shape(example, env) == read_env_file(IF example # None THEN example ELSE env)

is_laravel_project(signals) == signals.framework /\ signals.artisan

\* One version with at most a caret, a tilde or an equals sign before it.
detect_php_track_from_composer(constraint) ==
  IF constraint # None /\ constraint[1] \in {"", "^", "~", "=", "=="}
       /\ constraint[2] \in SupportedPhpTracks
  THEN constraint[2] ELSE None

Is(env, key, texts) == key \in DOMAIN env /\ env[key] \in {<<t>> : t \in texts}
detect_resources(env) ==
  {r \in Backing :
     \/ r = "mysql" /\ Is(env, <<"DB", "CONNECTION">>, {"mysql"})
     \/ r = "postgres" /\ Is(env, <<"DB", "CONNECTION">>, {"pgsql", "postgres"})
     \/ r = "redis" /\ \/ {<<"REDIS", "HOST">>, <<"REDIS", "URL">>} \cap DOMAIN env # {}
                       \/ \E key \in {<<"CACHE", "STORE">>, <<"CACHE", "DRIVER">>,
                                      <<"SESSION", "DRIVER">>, <<"QUEUE", "CONNECTION">>} :
                            Is(env, key, {"redis"})
     \/ r = "mailpit" /\ \/ Is(env, <<"MAIL", "MAILER">>, {"smtp"})
                         \/ {<<"MAIL", "HOST">>, <<"MAIL", "PORT">>,
                             <<"MAIL", "FROM", "ADDRESS">>} \cap DOMAIN env # {}
     \/ r = "rustfs" /\ \E key \in DOMAIN env : Len(key) > 1 /\ key[1] \in {"AWS", "S3"}}

default_allocations(r) ==
  CASE r \in {"mysql", "postgres"} -> <<Allocation(<<"app">>, "-")>>
    [] r = "redis" -> <<Allocation(<<"cache">>, "-")>>
    [] r = "rustfs" -> <<Allocation(<<"uploads">>, "-")>>
    [] r = "mailpit" -> <<>>

detect_project_init(config, signals, env) ==
  [config |-> config,
   php |-> LET track == detect_php_track_from_composer(signals.constraint)
           IN IF track = None THEN "latest" ELSE track,
   document_root |-> IF signals.public THEN <<"public">> ELSE None,
   app_url |-> <<"APP", "URL">> \in DOMAIN env \/ is_laravel_project(signals),
   vite_tls |-> signals.vite,
   resources |-> detect_resources(env)]

\* Mutant of or_else: what was detected wins.
DetectedFirst(existing, detected) == IF detected # None THEN detected ELSE existing

\* What the configuration says already stays.
or_else(existing, detected) == IF existing # None THEN existing ELSE detected
default_project_init_selection(detection) ==
  LET config == detection.config
      existing == DOMAIN config.resources
  IN [php |-> or_else(IF config.php = None THEN None ELSE config.php.version, detection.php),
      document_root |-> or_else(config.document_root, detection.document_root),
      app_url |-> detection.app_url \/ <<"APP", "URL">> \in DOMAIN config.env,
      vite_tls |-> detection.vite_tls,
      selected |-> detection.resources \cup existing,
      track |-> [r \in Backing |->
        or_else(IF r \in existing THEN config.resources[r].track ELSE None, "latest")],
      allocations |-> [r \in Backing |->
        IF r \in existing
        THEN SelectSeq(AllocationOrder, LAMBDA a : a \in DOMAIN config.resources[r].allocations)
        ELSE default_allocations(r)]]

---------------------------------------------------------------------------
\* render_project_init_config

Or(f, g) == f @@ g      \* or_insert: what f has already stays

merge_resource_structure(config, selection, r) ==
  LET old == IF r \in DOMAIN config.resources THEN config.resources[r]
             ELSE [track |-> None, env |-> Empty, allocations |-> Empty]
      names == Range(selection.allocations[r])
      merged == [track |-> selection.track[r], env |-> old.env,
                 allocations |-> Or(old.allocations, [a \in names |-> Empty])]
  IN [config EXCEPT !.resources = (r :> merged) @@ @]

\* Keys of the depths above an allocation, and of all allocations.
ResourceKeys(config) == UNION {DOMAIN config.resources[r].env : r \in DOMAIN config.resources}
AncestorKeys(config) == DOMAIN config.env \cup ResourceKeys(config)
AllocationKeys(config) == UNION {DOMAIN AllocationEnv(config, p) : p \in AllocationPairs(config)}

\* A mapping from its keys and the placeholders they take.
Placeholders(pairs) == [key \in {pair[1] : pair \in pairs} |->
  <<Placeholder((CHOOSE pair \in pairs : pair[1] = key)[2])>>]

MailDefaults ==
  (<<"MAIL", "MAILER">> :> <<Text("smtp")>>)
    @@ Placeholders({<<<<"MAIL", "HOST">>, "smtp_host">>, <<<<"MAIL", "PORT">>, "smtp_port">>})

merge_generated_resource_env(config, selection) ==
  IF "mailpit" \notin selection.selected THEN config
  ELSE LET new == DOMAIN MailDefaults \ AncestorKeys(config)
       IN [config EXCEPT !.resources["mailpit"].env = Or(@, [k \in new |-> MailDefaults[k]])]

AllocationDefaults(r) ==
  CASE r \in {"mysql", "postgres"} ->
         (<<"DB", "CONNECTION">> :> <<Text(IF r = "mysql" THEN "mysql" ELSE "pgsql")>>)
           @@ Placeholders({<<<<"DB", "HOST">>, "host">>, <<<<"DB", "PORT">>, "port">>,
                            <<<<"DB", "DATABASE">>, "database">>, <<<<"DB", "USERNAME">>, "username">>,
                            <<<<"DB", "PASSWORD">>, "password">>})
    [] r = "redis" ->
         Placeholders({<<<<"REDIS", "HOST">>, "host">>, <<<<"REDIS", "PORT">>, "port">>,
                       <<<<"REDIS", "PREFIX">>, "prefix">>})
    [] r = "rustfs" ->
         Placeholders({<<<<"AWS", "ENDPOINT">>, "endpoint">>, <<<<"AWS", "BUCKET">>, "bucket">>,
                       <<<<"AWS", "ACCESS", "KEY", "ID">>, "access_key">>,
                       <<<<"AWS", "SECRET", "ACCESS", "KEY">>, "secret_key">>})

UpperCase == ("app" :> "APP") @@ ("cache" :> "CACHE") @@ ("uploads" :> "UPLOADS") @@ ("pg" :> "PG")
          @@ ("mysql" :> "MYSQL") @@ ("postgres" :> "POSTGRES") @@ ("redis" :> "REDIS")
          @@ ("rustfs" :> "RUSTFS")
allocation_env_prefix(words) == [i \in DOMAIN words |-> UpperCase[words[i]]]
generated_env_key(prefix, key) == prefix \o key

\* A prefix will do if each default is there under its plain or prefixed name,
\* or nobody else has the prefixed one.
prefix_available(env, others, defaults, prefix) ==
  \A key \in DOMAIN defaults :
    \/ key \in DOMAIN env
    \/ generated_env_key(prefix, key) \in DOMAIN env
    \/ generated_env_key(prefix, key) \notin others

\* No prefix, the allocation's name, the resource's before it, then numbers.
ChosenPrefix(r, a, env, others, defaults) ==
  LET resource == allocation_env_prefix(<<r>> \o a.words)
      candidates == <<<<>>, allocation_env_prefix(a.words), resource>>
                      \o [n \in 1..MaxSuffix - 1 |-> Append(resource, ToString(n + 1))]
  IN candidates[SelectInSeq(candidates, LAMBDA p : prefix_available(env, others, defaults, p))]

merge_prefixed_env_defaults(env, prefix, others, defaults) ==
  LET missing == {key \in DOMAIN defaults :
                    /\ key \notin DOMAIN env
                    /\ generated_env_key(prefix, key) \notin DOMAIN env \cup others}
  IN Or(env, [k \in {generated_env_key(prefix, key) : key \in missing} |->
                defaults[CHOOSE key \in missing : generated_env_key(prefix, key) = k]])

\* One allocation; the keys of those before it count as taken.
merge_allocation_env_defaults(config, ancestors, pair) ==
  LET r == pair[1]
      a == pair[2]
      env == AllocationEnv(config, pair)
      others == ancestors \cup AllocationKeys(config)
      prefix == ChosenPrefix(r, a, env, others, AllocationDefaults(r))
  IN [config EXCEPT !.resources[r].allocations[a] =
        merge_prefixed_env_defaults(env, prefix, others, AllocationDefaults(r))]

merge_generated_allocation_env(config, selection) ==
  LET chosen == SelectSeq(ResourceOrder, LAMBDA r : r \in selection.selected /\ r # "mailpit")
      pairs(r) == [i \in DOMAIN selection.allocations[r] |-> <<r, selection.allocations[r][i]>>]
      all == FlattenSeq([i \in DOMAIN chosen |-> pairs(chosen[i])])
      ancestors == AncestorKeys(config)
  IN FoldLeft(LAMBDA c, pair : merge_allocation_env_defaults(c, ancestors, pair), config, all)

\* The configuration pv init proposes; it is written only if it validates.
render_project_init_config(detection, selection) ==
  LET old == detection.config
      php == IF old.php = None THEN [version |-> selection.php, extensions |-> <<>>]
             ELSE [old.php EXCEPT !.version = selection.php]
      app_url == IF selection.app_url THEN <<"APP", "URL">> :> <<Placeholder("project_url")>> ELSE Empty
      vite == IF selection.vite_tls
              THEN Placeholders({<<<<"VITE", "DEV", "SERVER", "CERT">>, "tls_cert">>,
                                 <<<<"VITE", "DEV", "SERVER", "KEY">>, "tls_key">>})
              ELSE Empty
      base == [old EXCEPT !.php = php, !.document_root = selection.document_root,
                          !.env = Or(Or(@, app_url), vite)]
      merged == FoldLeft(LAMBDA c, r : merge_resource_structure(c, selection, r), base,
                         SelectSeq(ResourceOrder, LAMBDA r : r \in selection.selected))
  IN merge_generated_allocation_env(merge_generated_resource_env(merged, selection), selection)

InitValidates(config, files) ==
  /\ validate_config_for_root(config, files)
  /\ validate_project_env_shape(ProjectConfigOf(SerializeConfig(config)))

---------------------------------------------------------------------------
\* The answers to the prompts of the structured edit.  None keeps the default.

apply_selected_resources(selection, answers) ==
  IF answers.selected = None THEN selection.selected ELSE answers.selected

prompt_resource_details(selection, answers) ==
  LET selected == apply_selected_resources(selection, answers)
  IN [selection EXCEPT
        !.php = IF answers.php = None THEN @ ELSE answers.php,
        !.document_root = IF answers.document_root = None THEN @ ELSE answers.document_root,
        !.selected = selected,
        !.track = [r \in Backing |->
           IF r \in selected \cap DOMAIN answers.track THEN answers.track[r] ELSE @[r]],
        !.allocations = [r \in Backing |->
           IF r \in selected \cap DOMAIN answers.allocations THEN answers.allocations[r] ELSE @[r]]]

\* An allocation that was there and is not named any more goes.
prune_explicitly_edited_allocations(detection, selection, answers) ==
  LET edited == selection.selected \cap DOMAIN answers.allocations \cap DOMAIN detection.config.resources
      kept(r) == Range(selection.allocations[r]) \cap DOMAIN detection.config.resources[r].allocations
  IN [detection EXCEPT !.config.resources =
        [r \in DOMAIN @ |-> IF r \in edited
           THEN [@[r] EXCEPT !.allocations = [a \in kept(r) |-> @[a]]] ELSE @[r]]]
=============================================================================
