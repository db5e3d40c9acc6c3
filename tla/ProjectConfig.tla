--------------------------- MODULE ProjectConfig ---------------------------
(***************************************************************************)
(* pv.yml: the YAML a user writes, the configuration PV reads out of it,   *)
(* the checks against the project's directory and the YAML PV writes back. *)
(*                                                                         *)
(* Errors are not told apart: an operator named after a validating function*)
(* is the condition under which it succeeds, and the value it returns is   *)
(* an operator of its own.  Texts are cut into the pieces the code tells   *)
(* apart: a hostname is a sequence of labels, a path of components, an     *)
(* environment key of words (joined by "_"), an environment value of       *)
(* tokens, and an allocation's name of words and the character between.    *)
(***************************************************************************)
EXTENDS Naturals, Sequences, FiniteSets, SequencesExt

CONSTANTS None,  \* an absent optional value
          Disk   \* the project's directory: path -> [dir, inside] of what is there

---------------------------------------------------------------------------
\* YAML values.
Null == [type |-> "null"]
Str(s) == [type |-> "string", text |-> s]
Num(s) == [type |-> "number", text |-> s]
Bool(b) == [type |-> "bool", bool |-> b]
List(q) == [type |-> "sequence", items |-> q]
Map(f) == [type |-> "mapping", map |-> f]

Scalar(v) == v.type \in {"string", "number"}
Empty == <<>>                      \* a mapping without keys

\* Tokens of an environment value: literal text, $$, a placeholder, and the two
\* ways to get a dollar sign wrong.
Text(t) == <<"text", t>>
Dollar == <<"dollar", "$">>
Placeholder(name) == <<"placeholder", name>>
LoneDollar == <<"lone", "$">>
Unterminated == <<"open", "${">>

Allocation(words, separator) == [words |-> words, separator |-> separator]

---------------------------------------------------------------------------
\* hostname.rs

\* Labels are short but for two at the limit; some hold a character or a hyphen
\* that is not allowed there.
BadLabels == {"-acme", "acme-", "a_b", "*"}
LabelLength(label) == CASE label = "long63" -> 63 [] label = "long64" -> 64
                        [] OTHER -> Len(label)
lowercase(label) == CASE label = "Acme" -> "acme" [] label = "TEST" -> "test"
                      [] OTHER -> label
HostnameLength(h) == FoldLeft(LAMBDA n, label : n + LabelLength(label) + 1, 0, h) - 1

validate_dns_label(label) ==
  /\ label # "" /\ LabelLength(label) <= 63
  /\ label \notin BadLabels

EndsInTest(h) == Len(h) > 1 /\ Last(h) = "test"

validate_hostname(h) ==
  /\ h # <<"pv", "test">> /\ EndsInTest(h) /\ HostnameLength(h) <= 253
  /\ \A i \in DOMAIN h : validate_dns_label(h[i])

\* One trailing dot is dropped, a bare label gets .test if it may.
normalize_hostname(h, allow_bare_label) ==
  LET trimmed == IF Len(h) > 1 /\ Last(h) = "" THEN Front(h) ELSE h
      lower == [i \in DOMAIN trimmed |-> lowercase(trimmed[i])]
  IN IF allow_bare_label /\ Len(lower) = 1 THEN Append(lower, "test") ELSE lower

normalize_additional_hostname(h) == normalize_hostname(h, FALSE)

\* database.rs accepts only what is normalized already.
validate_project_hostname(h) ==
  /\ h # <<"">> /\ h # <<"pv", "test">> /\ EndsInTest(h) /\ HostnameLength(h) <= 253
  /\ \A i \in DOMAIN h : validate_dns_label(h[i]) /\ lowercase(h[i]) = h[i]

\* dns.rs: the names the responder answers with loopback addresses.
is_test_name(h) ==
  LET end == {i \in DOMAIN h : h[i] # ""}
      last == CHOOSE i \in end : \A j \in end : j <= i
  IN end # {} /\ lowercase(h[last]) = "test"

---------------------------------------------------------------------------
\* registry.rs: backing services, their aliases and placeholders.

Backing == {"mailpit", "mysql", "postgres", "redis", "rustfs"}

project_config_resource_name(name) ==
  CASE name \in Backing -> name
    [] name \in {"postgresql", "pg"} -> "postgres"
    [] name = "mail" -> "mailpit"
    [] name = "s3" -> "rustfs"
    [] OTHER -> None

resource_supports_allocations(resource) == resource # "mailpit"

resource_env_placeholders(resource) ==
  CASE resource \in {"mysql", "postgres"} -> {"host", "password", "port", "url", "username"}
    [] resource = "redis" -> {"host", "port", "url"}
    [] resource = "mailpit" -> {"dashboard_url", "smtp_host", "smtp_port"}
    [] resource = "rustfs" -> {"access_key", "endpoint", "host", "port", "secret_key", "url"}

allocation_env_placeholders(resource) ==
  CASE resource \in {"mysql", "postgres"} -> resource_env_placeholders(resource) \cup {"database"}
    [] resource = "redis" -> resource_env_placeholders(resource) \cup {"prefix"}
    [] resource = "rustfs" -> resource_env_placeholders(resource) \cup {"bucket"}
    [] OTHER -> {}

ProjectPlaceholders == {"project_url", "tls_ca", "tls_cert", "tls_key"}

---------------------------------------------------------------------------
\* parser.rs

validate_placeholder_name(name) == name \notin {"", "Host"}
validate_env_key(key) == key # <<>> /\ key[1] \notin {"2", "host"}
validate_allocation_name(allocation) == allocation.words # <<>> /\ allocation.words[1] # "2"
ValidTrack(track) == track \notin {"", "8..4"}

\* A scope is the pair of a depth and the resource the mapping belongs to.
allows_placeholder(scope, name) ==
  \/ name \in ProjectPlaceholders
  \/ scope[1] = "resource" /\ name \in resource_env_placeholders(scope[2])
  \/ scope[1] = "allocation" /\ name \in resource_env_placeholders(scope[2])
                                            \cup allocation_env_placeholders(scope[2])

validate_env_placeholders(scope, value) ==
  \A i \in DOMAIN value :
    \/ value[i] = Dollar \/ value[i][1] = "text"
    \/ /\ value[i][1] = "placeholder"
       /\ validate_placeholder_name(value[i][2])
       /\ allows_placeholder(scope, value[i][2])

\* A number is printed as it was parsed; how it was spelled is lost.
number_to_string(spelling) ==
  CASE spelling = "8.40" -> "8.4" [] spelling = "0x10" -> "16" [] OTHER -> spelling
string_or_number_to_string(v) == IF v.type = "number" THEN number_to_string(v.text) ELSE v.text

env_scalar_to_string(v) ==
  CASE v.type = "string" -> v.text
    [] v.type = "number" -> <<Text(number_to_string(v.text))>>
    [] v.type = "bool" -> <<Text(IF v.bool THEN "true" ELSE "false")>>

\* What every mapping of the file has in common: null is an empty one.
MapOrNull(v) == v.type \in {"null", "mapping"}
Entries(v) == IF v.type = "null" THEN Empty ELSE v.map

parse_env_mapping(scope, v) ==
  /\ MapOrNull(v)
  /\ \A key \in DOMAIN Entries(v) :
       LET value == Entries(v)[key]
       IN /\ validate_env_key(key)
          /\ Scalar(value) \/ value.type = "bool"
          /\ validate_env_placeholders(scope, env_scalar_to_string(value))
EnvOf(v) == [key \in DOMAIN Entries(v) |-> env_scalar_to_string(Entries(v)[key])]

\* Two names of one resource must not stand for the same generated name.
normalized_allocation_name(resource, allocation) ==
  IF resource \in {"mysql", "postgres", "redis", "rustfs"} THEN allocation.words ELSE allocation

parse_allocation_config(resource, v) ==
  /\ MapOrNull(v) /\ DOMAIN Entries(v) \subseteq {"env"}
  /\ "env" \in DOMAIN Entries(v) => parse_env_mapping(<<"allocation", resource>>, v.map.env)
AllocationOf(v) == IF "env" \in DOMAIN Entries(v) THEN EnvOf(v.map.env) ELSE Empty

parse_allocations(resource, v) ==
  /\ MapOrNull(v)
  /\ \A a \in DOMAIN Entries(v) :
       /\ validate_allocation_name(a)
       /\ parse_allocation_config(resource, Entries(v)[a])
       /\ \A b \in DOMAIN Entries(v) \ {a} :
            normalized_allocation_name(resource, a) # normalized_allocation_name(resource, b)

resource_track(v) == Scalar(v) /\ ValidTrack(string_or_number_to_string(v))

parse_resource_config(resource, v) ==
  /\ MapOrNull(v) /\ DOMAIN Entries(v) \subseteq {"version", "env", "allocations"}
  /\ \A key \in DOMAIN Entries(v) :
       LET value == v.map[key]
       IN CASE key = "version" -> resource_track(value)
            [] key = "env" -> parse_env_mapping(<<"resource", resource>>, value)
            [] key = "allocations" -> /\ resource_supports_allocations(resource)
                                      /\ parse_allocations(resource, value)
ResourceOf(v) ==
  LET has(key) == key \in DOMAIN Entries(v)
      allocations == IF has("allocations") THEN Entries(v.map.allocations) ELSE Empty
  IN [track |-> IF has("version") THEN string_or_number_to_string(v.map.version) ELSE None,
      env |-> IF has("env") THEN EnvOf(v.map.env) ELSE Empty,
      allocations |-> [a \in DOMAIN allocations |-> AllocationOf(allocations[a])]]

php_extensions(v) ==
  v.type = "sequence" /\ \A i \in DOMAIN v.items : v.items[i].type = "string" /\ v.items[i].text # ""

php_config(v) ==
  IF v.type = "mapping"
  THEN /\ DOMAIN v.map \subseteq {"version", "extensions"}
       /\ "version" \in DOMAIN v.map => resource_track(v.map.version)
       /\ "extensions" \in DOMAIN v.map => php_extensions(v.map.extensions)
  ELSE resource_track(v)
PhpOf(v) ==
  IF v.type # "mapping" THEN [version |-> string_or_number_to_string(v), extensions |-> <<>>]
  ELSE [version |-> IF "version" \in DOMAIN v.map THEN string_or_number_to_string(v.map.version) ELSE None,
        extensions |-> IF "extensions" \in DOMAIN v.map
                       THEN [i \in DOMAIN v.map.extensions.items |-> v.map.extensions.items[i].text]
                       ELSE <<>>]

\* A relative path never climbs above the directory it starts from.
ValidRelativePath(path) ==
  /\ path[1] # "/"
  /\ \A n \in DOMAIN path :
       LET up == Cardinality({i \in 1..n : path[i] = ".."})
           here == Cardinality({i \in 1..n : path[i] = "."})
       IN 2 * up + here <= n
validate_env_file(path) == ValidRelativePath(path)
validate_document_root_shape(path) == ValidRelativePath(path)

parse_hostnames(v) ==
  \/ v.type = "null"
  \/ /\ v.type = "sequence"
     /\ \A i \in DOMAIN v.items :
          /\ v.items[i].type = "string" /\ v.items[i].text # <<"">>
          /\ validate_hostname(normalize_additional_hostname(v.items[i].text))
     /\ \A i, j \in DOMAIN v.items :
          i # j => normalize_additional_hostname(v.items[i].text)
                     # normalize_additional_hostname(v.items[j].text)
HostnamesOf(v) == IF v.type = "null" THEN <<>>
                  ELSE [i \in DOMAIN v.items |-> normalize_additional_hostname(v.items[i].text)]

FieldKeys == {"serve", "env_file", "php", "document_root", "hostnames", "env"}

\* ProjectConfig::parse accepts the document.
parse_project_mapping(doc) ==
  /\ MapOrNull(doc)
  /\ LET keys == DOMAIN Entries(doc)
         name(key) == project_config_resource_name(key)
     IN /\ \A key \in keys :
             LET v == doc.map[key]
             IN CASE key = "serve" -> v.type = "bool"
                  [] key = "env_file" -> v.type = "string" /\ validate_env_file(v.text)
                  [] key = "php" -> php_config(v)
                  [] key = "document_root" -> v.type = "string" /\ validate_document_root_shape(v.text)
                  [] key = "hostnames" -> parse_hostnames(v)
                  [] key = "env" -> parse_env_mapping(<<"project", None>>, v)
                  [] OTHER -> name(key) # None /\ parse_resource_config(name(key), v)
        /\ \A a, b \in keys \ FieldKeys : a # b => name(a) # name(b)

\* The configuration it returns.
ProjectConfigOf(doc) ==
  LET has(key) == key \in DOMAIN Entries(doc)
      at(key) == doc.map[key]
      resources == DOMAIN Entries(doc) \ FieldKeys
      names == {project_config_resource_name(key) : key \in resources}
  IN [serve |-> has("serve") => at("serve").bool,
      env_file |-> IF has("env_file") THEN at("env_file").text ELSE <<".env">>,
      php |-> IF has("php") THEN PhpOf(at("php")) ELSE None,
      document_root |-> IF has("document_root") THEN at("document_root").text ELSE None,
      hostnames |-> IF has("hostnames") THEN HostnamesOf(at("hostnames")) ELSE <<>>,
      env |-> IF has("env") THEN EnvOf(at("env")) ELSE Empty,
      resources |-> [r \in names |->
        ResourceOf(at(CHOOSE key \in resources : project_config_resource_name(key) = r))]]

---------------------------------------------------------------------------
\* model.rs: how a configuration is written.  Defaults are left out.

NonEmpty(f) == {key \in DOMAIN f : f[key] # None}
Written(f) == Map([key \in NonEmpty(f) |-> f[key]])
EnvValue(env) == IF DOMAIN env = {} THEN None ELSE Map([k \in DOMAIN env |-> Str(env[k])])

\* Mutant of PhpValue: a version is written in the short form, whatever else is set.
PhpValueShort(php) ==
  IF php.version # None THEN Str(php.version)
  ELSE Map("extensions" :> List([i \in DOMAIN php.extensions |-> Str(php.extensions[i])]))

PhpValue(php) ==
  IF php.extensions = <<>> /\ php.version # None THEN Str(php.version)
  ELSE Written([version |-> IF php.version = None THEN None ELSE Str(php.version),
                extensions |-> IF php.extensions = <<>> THEN None
                               ELSE List([i \in DOMAIN php.extensions |-> Str(php.extensions[i])])])

ResourceValue(resource) ==
  Written([version |-> IF resource.track = None THEN None ELSE Str(resource.track),
           env |-> EnvValue(resource.env),
           allocations |->
             IF DOMAIN resource.allocations = {} THEN None
             ELSE Map([a \in DOMAIN resource.allocations |->
                         Written([env |-> EnvValue(resource.allocations[a])])])])

SerializeConfig(config) ==
  Written([serve |-> IF config.serve THEN None ELSE Bool(FALSE),
           env_file |-> IF config.env_file = <<".env">> THEN None ELSE Str(config.env_file),
           php |-> IF config.php = None THEN None ELSE PhpValue(config.php),
           document_root |-> IF config.document_root = None THEN None ELSE Str(config.document_root),
           hostnames |-> IF config.hostnames = <<>> THEN None
                         ELSE List([i \in DOMAIN config.hostnames |-> Str(config.hostnames[i])]),
           env |-> EnvValue(config.env)]
          @@ [r \in DOMAIN config.resources |-> ResourceValue(config.resources[r])])

AnyEnv(config) ==
  {config.env} \cup {config.resources[r].env : r \in DOMAIN config.resources}
    \cup UNION {{config.resources[r].allocations[a] : a \in DOMAIN config.resources[r].allocations}
                : r \in DOMAIN config.resources}
has_env_mappings(config) == \E env \in AnyEnv(config) : DOMAIN env # {}

value_uses_serving_placeholder(value) ==
  \E i \in DOMAIN value : value[i][1] = "placeholder" /\ value[i][2] \in ProjectPlaceholders

---------------------------------------------------------------------------
\* discovery.rs: the paths of a configuration against the directory.

\* files are the environment files there are, which PV itself may have made.
Present(path, files) == path \in DOMAIN Disk \/ path \in files
EntryAt(path, files) == IF path \in files THEN [dir |-> FALSE, inside |-> TRUE] ELSE Disk[path]

resolve_project_env_file_path(config, files) ==
  LET path == config.env_file
      parent == Front(path)
      At(p) == EntryAt(p, files)
  IN IF Present(path, files)
     THEN At(path).inside /\ ~At(path).dir
     ELSE parent # <<>> => Present(parent, files) /\ At(parent).inside /\ At(parent).dir

validate_project_paths(config, files) ==
  /\ resolve_project_env_file_path(config, files)
  /\ config.serve /\ config.document_root # None =>
       LET root == config.document_root
       IN Present(root, files) /\ EntryAt(root, files).inside /\ EntryAt(root, files).dir

\* What validates before it is written: the text is parsed again.
validate_config_for_root(config, files) ==
  /\ parse_project_mapping(SerializeConfig(config))
  /\ validate_project_paths(ProjectConfigOf(SerializeConfig(config)), files)
=============================================================================
