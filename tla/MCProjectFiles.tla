--------------------------- MODULE MCProjectFiles ---------------------------
(* Instances of ProjectFiles for TLC. *)
EXTENDS ProjectFiles

Host(labels) == Str(labels)
A(words) == Allocation(words, "-")
Value(tokens) == Str(tokens)

MCAllocationOrder == <<A(<<"app">>), A(<<"cache">>), A(<<"mysql", "app">>), A(<<"pg">>), A(<<"uploads">>)>>

MCDisk == (<<"public">> :> [dir |-> TRUE, inside |-> TRUE])
       @@ (<<"config">> :> [dir |-> TRUE, inside |-> TRUE])
       @@ (<<"shared">> :> [dir |-> TRUE, inside |-> FALSE])
MCEnvPaths == {<<".env">>, <<"config", ".env">>}

Host1 == <<"DB", "HOST">>
Url == <<"APP", "URL">>
Ref(name) == Value(<<Placeholder(name)>>)

\* Hostnames in the spellings the code accepts; PHP and a value as numbers that
\* are not printed as they are spelled.
Served ==
  Map(("hostnames" :> List(<<Host(<<"Acme", "TEST", "">>), Host(<<"long63", "test">>)>>))
      @@ ("php" :> Map(("version" :> Num("8.40")) @@ ("extensions" :> List(<<Str("redis")>>))))
      @@ ("document_root" :> Str(<<"public">>))
      @@ ("env" :> Map(Url :> Num("0x10"))))

\* A value whose text is PV's own marker on a line of its own, next to values
\* that need quotes.
Marker ==
  Map("env" :> Map((Url :> Value(<<Text("a"), Text(NewLine), Text(StartText)>>))
                   @@ (Host1 :> Value(<<Dollar, Text(" ")>>))))

\* Two databases, a user's own key in one of them, and aliases.
Databases ==
  Map(("env" :> Map(Url :> Ref("project_url")))
      @@ ("mysql" :> Map("allocations" :> Map(A(<<"app">>) :> Map("env" :> Map(Host1 :> Ref("host"))))))
      @@ ("pg" :> Map(("version" :> Str("17")) @@ ("allocations" :> Map(A(<<"app">>) :> Null)))))

\* A resource-only project: the keys that need serving are dormant, even where
\* they would clash.
Dormant ==
  Map(("serve" :> Bool(FALSE))
      @@ ("env_file" :> Str(<<"config", ".env">>))
      @@ ("mysql" :> Map("env" :> Map(Url :> Ref("project_url"))))
      @@ ("s3" :> Map("env" :> Map(Url :> Ref("endpoint")))))

\* Taken keys on every level the generated ones could go to.
Crowded ==
  Map(("env" :> Map((Host1 :> Value(<<Text("db")>>)) @@ (<<"APP", "DB", "HOST">> :> Bool(TRUE))))
      @@ ("mysql" :> Map("allocations" :>
            Map((A(<<"app">>) :> Null)
                @@ (A(<<"mysql", "app">>) :> Map("env" :> Map(<<"MYSQL", "APP", "DB", "HOST">> :> Ref("host"))))))))

\* A configuration whose keys clash, and two the parser refuses.
Clashing ==
  Map(("mysql" :> Map("env" :> Map(Host1 :> Ref("host"))))
      @@ ("redis" :> Map("env" :> Map(Host1 :> Ref("host")))))
Refused ==
  {Map(("postgres" :> Null) @@ ("pg" :> Null)),
   Map("mail" :> Map("allocations" :> Map(A(<<"app">>) :> Null)))}

MCDocuments == {Served, Marker, Databases, Dormant, Crowded, Clashing} \cup Refused

Line(key, value) == Assign("plain", key, <<value>>)
Laravel == EnvFile(<<Line(<<"DB", "CONNECTION">>, "mysql"), Line(<<"REDIS", "HOST">>, "host"),
                     Line(<<"MAIL", "HOST">>, "host"), Line(<<"AWS", "BUCKET">>, "b")>>, FALSE, TRUE)
MCExamples == {None, Laravel}
MCSignalSets == {Signals(TRUE, TRUE, TRUE, <<"^", "8.4">>, TRUE), Signals(FALSE, FALSE, FALSE, None, FALSE)}

MCUserLine == Assign("export", Host1, <<"mine">>)
Block(value) == <<StartMarker, Line(Url, value), EndMarker>>
MCEnvFiles ==
  {EnvFile(<<Other("note"), Line(Host1, "mine")>>, TRUE, FALSE),
   EnvFile(<<Other("note")>> \o Block("old") \o <<Line(Url, "mine")>> \o Block("older"), FALSE, TRUE)}

MCAnswers ==
  {[php |-> "8.3", document_root |-> <<"public">>, selected |-> {"mysql", "postgres"},
    track |-> "mysql" :> "8.0",
    allocations |-> "mysql" :> <<A(<<"pg">>), A(<<"app">>)>>]}
MCPrimaryHostname == <<"shop", "test">>
=============================================================================
