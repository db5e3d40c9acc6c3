----------------------------- MODULE ProjectEnv -----------------------------
(***************************************************************************)
(* The values PV renders for a project and the block it keeps them in: the *)
(* check before a reconciliation, the rendering once every resource is     *)
(* ready, and the rewriting of a .env that also holds the user's lines.    *)
(*                                                                         *)
(* A rendered value is a sequence of pieces of text.  Pieces in Unsafe     *)
(* need quotes; NewLine and the markers are pieces of their own, since a   *)
(* value may hold them too.                                                *)
(***************************************************************************)
EXTENDS ProjectConfig

NewLine == "\n"
StartText == "# >>> PV MANAGED"
EndText == "# <<< PV MANAGED"
Unsafe == {" ", "#", "$", NewLine, StartText, EndText}

\* Lines of a .env: PV's two markers, assignments in four spellings, the rest.
StartMarker == [kind |-> "start"]
EndMarker == [kind |-> "end"]
Other(text) == [kind |-> "other", text |-> text]
Assign(form, key, value) == [kind |-> "assign", form |-> form, key |-> key, value |-> value]

\* A file is its lines, what ends them, and whether the last one is ended.
EnvFile(lines, crlf, ended) == [lines |-> lines, crlf |-> crlf, ended |-> ended]

---------------------------------------------------------------------------
\* validate_project_env_shape: a key comes once per depth.

Rendered(config, env) ==
  {key \in DOMAIN env : config.serve \/ ~value_uses_serving_placeholder(env[key])}

AllocationPairs(config) ==
  UNION {{<<r, a>> : a \in DOMAIN config.resources[r].allocations} : r \in DOMAIN config.resources}
AllocationEnv(config, pair) == config.resources[pair[1]].allocations[pair[2]]

SameDepthDistinct(config, envs) ==
  \A x, y \in DOMAIN envs :
    x # y => Rendered(config, envs[x]) \cap Rendered(config, envs[y]) = {}

validate_project_env_shape(config) ==
  /\ SameDepthDistinct(config, [r \in DOMAIN config.resources |-> config.resources[r].env])
  /\ SameDepthDistinct(config, [p \in AllocationPairs(config) |-> AllocationEnv(config, p)])

---------------------------------------------------------------------------
\* The values a ready resource and a ready allocation bring: name -> text.

Same(names) == [name \in names |-> <<name>>]

sql_resource_env == Same({"host", "password", "port", "url", "username"})
sql_allocation_env == Same({"database", "host", "password", "port", "url", "username"})
mailpit_resource_env == Same({"smtp_host", "smtp_port", "dashboard_url"})
rustfs_resource_env == Same({"access_key", "secret_key", "endpoint", "host", "port", "url"})
rustfs_allocation_env == Same({"bucket"})

\* Mutant of redis_env: the prefix is forgotten.
RedisEnvWithoutPrefix(prefixed) == Same({"host", "port", "url"})

redis_env(prefixed) == Same({"host", "port", "url"} \cup IF prefixed THEN {"prefix"} ELSE {})

\* The adapter of a resource.
resource_env(resource) ==
  CASE resource \in {"mysql", "postgres"} -> sql_resource_env
    [] resource = "redis" -> redis_env(FALSE)
    [] resource = "mailpit" -> mailpit_resource_env
    [] resource = "rustfs" -> rustfs_resource_env

allocation_env(resource) ==
  CASE resource \in {"mysql", "postgres"} -> sql_allocation_env
    [] resource = "redis" -> redis_env(TRUE)
    [] resource = "rustfs" -> rustfs_allocation_env

project_context_values(config) == IF config.serve THEN Same(ProjectPlaceholders) ELSE Empty

resource_context_values(config, r) == project_context_values(config) @@ resource_env(r)

allocation_context_values(config, r) ==
  project_context_values(config) @@ allocation_env(r) @@ Same({"generated_name"}) @@ resource_env(r)

\* render_env_value: None if a placeholder has no value or the value is malformed.
render_env_value(value, context) ==
  IF \E i \in DOMAIN value :
       \/ value[i][1] \in {"lone", "open"}
       \/ value[i][1] = "placeholder" /\ value[i][2] \notin DOMAIN context
  THEN None
  ELSE FlattenSeq([i \in DOMAIN value |->
         IF value[i][1] = "placeholder" THEN context[value[i][2]] ELSE <<value[i][2]>>])

render_mapping(config, env, context) ==
  [key \in Rendered(config, env) |-> render_env_value(env[key], context)]

\* Deeper mappings win over shallower ones.
RenderedValues(config) ==
  LET rs == DOMAIN config.resources
      resource(r) == render_mapping(config, config.resources[r].env, resource_context_values(config, r))
      allocation(p) == render_mapping(config, AllocationEnv(config, p),
                                      allocation_context_values(config, p[1]))
      union(f, g) == g @@ f
      all(S, value(_)) == FoldSet(LAMBDA x, f : union(f, value(x)), Empty, S)
  IN union(union(render_mapping(config, config.env, project_context_values(config)),
                 all(rs, resource)),
           all(AllocationPairs(config), allocation))

\* render_project_env succeeds.
render_project_env(config) ==
  /\ validate_project_env_shape(config)
  /\ \A r \in DOMAIN config.resources :
       LET rendered == render_mapping(config, config.resources[r].env, resource_context_values(config, r))
       IN \A key \in DOMAIN rendered : rendered[key] # None
  /\ \A p \in AllocationPairs(config) :
       LET rendered == render_mapping(config, AllocationEnv(config, p),
                                      allocation_context_values(config, p[1]))
       IN \A key \in DOMAIN rendered : rendered[key] # None
  /\ LET rendered == render_mapping(config, config.env, project_context_values(config))
     IN \A key \in DOMAIN rendered : rendered[key] # None

---------------------------------------------------------------------------
\* transform_managed_env_block

is_safe_unquoted_value(value) == value # <<>> /\ \A i \in DOMAIN value : value[i] \notin Unsafe

\* Mutant of format_env_value: line breaks stay as they are.
FormatWithoutEscapes(value) ==
  IF is_safe_unquoted_value(value) THEN value ELSE <<"\"">> \o value \o <<"\"">>

\* Inside quotes a line break is written as two characters.
format_env_value(value) ==
  IF is_safe_unquoted_value(value) THEN value
  ELSE <<"\"">> \o [i \in DOMAIN value |-> IF value[i] = NewLine THEN "\\n" ELSE value[i]] \o <<"\"">>

\* The lines a text file gets when a formatted value is written to it: a line
\* break that is still in it ends the line, and the rest is a line of its own.
TextLine(text) == CASE text = <<StartText>> -> StartMarker
                    [] text = <<EndText>> -> EndMarker
                    [] OTHER -> Other("rest")
PhysicalLines(key, formatted) ==
  LET breaks == {i \in DOMAIN formatted : formatted[i] = NewLine}
      first == CHOOSE i \in breaks : \A j \in breaks : i <= j
  IN IF breaks = {} THEN <<Assign("plain", key, formatted)>>
     ELSE <<Assign("plain", key, SubSeq(formatted, 1, first - 1)),
            TextLine(SubSeq(formatted, first + 1, Len(formatted)))>>

managed_block_lines(values) ==
  <<StartMarker>>
    \o FoldSet(LAMBDA key, lines : lines \o PhysicalLines(key, format_env_value(values[key])),
               <<>>, DOMAIN values)
    \o <<EndMarker>>

\* The complete blocks as pairs of line numbers; open is the start marker that
\* waits for its end, bad that the markers do not match.
ScanBlocks(lines) ==
  FoldLeft(LAMBDA s, i :
             CASE lines[i] = StartMarker -> [s EXCEPT !.bad = @ \/ s.open # 0, !.open = i]
               [] lines[i] = EndMarker -> [open |-> 0, bad |-> s.bad \/ s.open = 0,
                                           blocks |-> Append(s.blocks, <<s.open, i>>)]
               [] OTHER -> s,
           [open |-> 0, bad |-> FALSE, blocks |-> <<>>], [i \in 1..Len(lines) |-> i])
managed_blocks(lines) == ScanBlocks(lines).blocks

\* validate_managed_env_block
validate_managed_env_block(lines) == ~ScanBlocks(lines).bad /\ ScanBlocks(lines).open = 0

InBlock(blocks, i) == \E b \in Range(blocks) : b[1] <= i /\ i <= b[2]
OutsideBlocks(lines) ==
  LET blocks == managed_blocks(lines)
      outside == SelectSeq([i \in 1..Len(lines) |-> i], LAMBDA i : ~InBlock(blocks, i))
  IN [n \in DOMAIN outside |-> lines[outside[n]]]

replace_managed_block(lines, block, block_lines) ==
  SubSeq(lines, 1, block[1] - 1) \o block_lines \o SubSeq(lines, block[2] + 1, Len(lines))

fold_managed_blocks(lines, block_lines) == OutsideBlocks(lines) \o block_lines

\* The file as it is written: lines end in one line feed each.
transform_managed_env_block(file, values) ==
  LET lines == IF file = None THEN <<>> ELSE file.lines
      blocks == managed_blocks(lines)
      block_lines == managed_block_lines(values)
      transformed == CASE blocks = <<>> -> lines \o block_lines
                       [] Len(blocks) = 1 -> replace_managed_block(lines, blocks[1], block_lines)
                       [] OTHER -> fold_managed_blocks(lines, block_lines)
  IN IF DOMAIN values = {} /\ blocks = <<>> THEN file ELSE EnvFile(transformed, FALSE, TRUE)

is_env_key(key) == validate_env_key(key)
assignment_key(line) ==
  IF line.kind = "assign" /\ line.form # "comment" /\ is_env_key(line.key) THEN line.key ELSE None

duplicate_existing_key_warnings(lines, values) ==
  {key \in DOMAIN values : \E i \in DOMAIN OutsideBlocks(lines) :
     assignment_key(OutsideBlocks(lines)[i]) = key}
=============================================================================
