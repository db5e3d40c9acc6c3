----------------------------- MODULE HostFiles -----------------------------
(* The files PV shares with macOS: /etc/resolver/test, the pf anchor, the    *)
(* reference in /etc/pf.conf, the LaunchAgent plist, the local CA and the    *)
(* shell profile (crates/platform and the shell part of `pv setup`).         *)
(* A file is a sequence of lines; a line is its kind and the value it        *)
(* carries.  Lines of the kinds in Comment are blank or start with '#'.      *)
EXTENDS Naturals, Sequences, FiniteSets, SequencesExt

L(kind) == [kind |-> kind, value |-> ""]
PortLine(kind, port) == [kind |-> kind, value |-> port]
Absent == <<L("absent")>>
Lines(kinds) == [i \in DOMAIN kinds |-> L(kinds[i])]

Comment == {"marker", "source", "comment"}
active_pf_line(line) == line.kind \notin Comment
ActiveLines(file) == SelectSeq(file, active_pf_line)
Has(file, kind) == \E i \in DOMAIN file : file[i].kind = kind
Count(file, kind) == Len(SelectSeq(file, LAMBDA line : line.kind = kind))
TheLine(file, kind) == file[CHOOSE i \in DOMAIN file : file[i].kind = kind]

\* What was parsed: a sequence of ports, and <<>> for None.
None == <<>>

RenderResolver(port) == Lines(<<"marker", "source", "nameserver">>) \o <<PortLine("port", port)>>
ParseResolver(file) ==
    IF /\ Len(ActiveLines(file)) = 2
       /\ Count(file, "nameserver") = 1
       /\ Count(file, "port") = 1
    THEN <<TheLine(file, "port").value>>
    ELSE None

RenderAnchor(config) ==
    Lines(<<"marker", "source">>) \o <<PortLine("rdr80", config[1]), PortLine("rdr443", config[2])>>
ParseAnchor(file) ==
    IF /\ Len(ActiveLines(file)) = 2
       /\ Count(file, "rdr80") = 1
       /\ Count(file, "rdr443") = 1
    THEN <<TheLine(file, "rdr80").value, TheLine(file, "rdr443").value>>
    ELSE None

\* The LaunchAgent's program is the link to the active release.
RenderLaunchAgent(program) == Lines(<<"marker">>) \o <<PortLine("program", program)>>
ParseLaunchAgent(file) ==
    IF Has(file, "marker") /\ Has(file, "program") THEN <<TheLine(file, "program").value>> ELSE None

\* The reference in pf.conf.  "legacy" and "odd" are an old and a garbled
\* form of it, "filter" and "other" are the user's rules.
Directives == {"rdr-anchor", "load-anchor", "legacy", "odd"}
FilterRules == {"filter", "legacy"}
RenderReference == Lines(<<"marker", "source", "rdr-anchor", "load-anchor">>)
ParseReferenceBlock(file) ==
    IF /\ Len(ActiveLines(file)) = 2
       /\ Count(file, "rdr-anchor") = 1
       /\ Count(file, "load-anchor") = 1
    THEN <<"reference">>
    ELSE None
ParseEmbeddedReference(file) ==
    IF /\ Count(file, "rdr-anchor") = 1
       /\ Count(file, "load-anchor") = 1
       /\ ~Has(file, "legacy") /\ ~Has(file, "odd")
    THEN <<"reference">>
    ELSE None

\* The anchor goes before the first filter rule, as pf wants translation rules
\* first, and the load directive to the end.
append_pf_reference(file) ==
    LET rdr  == Lines(<<"marker", "source", "rdr-anchor">>)
        load == Lines(<<"marker", "source", "load-anchor">>)
        at   == SelectInSeq(file, LAMBDA line : line.kind \in FilterRules)
    IN IF file = <<>> THEN RenderReference
       ELSE IF at = 0 THEN file \o rdr \o load
       ELSE SubSeq(file, 1, at - 1) \o rdr \o SubSeq(file, at, Len(file)) \o load

ReferenceLines == {"marker", "source", "rdr-anchor", "legacy", "load-anchor"}
\* As below, but only what this version writes.
remove_current_lines(file) == SelectSeq(file, LAMBDA line : line.kind \notin ReferenceLines \ {"legacy"})
remove_pf_reference_lines(file) == SelectSeq(file, LAMBDA line : line.kind \notin ReferenceLines)

-----------------------------------------------------------------------------
\* What a PV file is found to be; `expected` is None where any will do.
classify_pv_file_state(expected, actual) ==
    IF actual /= None /\ expected \in {None, actual} THEN "Current" ELSE "Stale"

inspect_pf_anchor_file(file, expected) ==
    IF file = Absent THEN "Missing"
    ELSE IF ~Has(file, "marker") THEN "Conflict"
    ELSE classify_pv_file_state(expected, ParseAnchor(file))

inspect_pf_conf_reference(file) ==
    IF file = Absent THEN "Missing"
    ELSE IF Has(file, "marker") THEN classify_pv_file_state(None, ParseEmbeddedReference(file))
    ELSE IF \E kind \in Directives : Has(file, kind) THEN "Conflict"
    ELSE "Missing"

inspect_resolver_file(file, expected) ==
    IF file = Absent THEN "Missing"
    ELSE IF ~Has(file, "marker") THEN "Conflict"
    ELSE classify_pv_file_state(expected, ParseResolver(file))

inspect_launch_agent_file(file, expected) ==
    IF file = Absent THEN "Missing"
    ELSE IF ~Has(file, "marker") THEN "Conflict"
    ELSE classify_pv_file_state(expected, ParseLaunchAgent(file))

\* The local CA: certificate and key carry the number of their key pair, 0 for
\* a missing file.
inspect_local_ca_files(ca) ==
    IF ca.cert = 0 /\ ca.key = 0 THEN "Missing"
    ELSE IF ca.cert = ca.key THEN "Current"
    ELSE "RepairRequired"

\* keychain[c] is what the administrator's trust settings say of PV's CA c.
StaleTrust(ca, keychain) == {c \in DOMAIN keychain \ {ca.cert} : keychain[c] = "trusted"}
inspect_system_ca_trust(ca, keychain) ==
    IF inspect_local_ca_files(ca) /= "Current" THEN "Unknown"
    ELSE IF keychain[ca.cert] = "trusted" THEN "Current"
    ELSE IF keychain[ca.cert] = "denied" THEN "Denied"
    ELSE IF StaleTrust(ca, keychain) /= {} THEN "Stale"
    ELSE "NotTrusted"
trusted_pv_ca_fingerprints(keychain) == {c \in DOMAIN keychain : keychain[c] /= "absent"}

-----------------------------------------------------------------------------
\* The shell profile: lines "start", "body", "end" of PV's block, others the
\* user's.
ScanProfileLine(acc, line) ==
    CASE line.kind = "start" /\ ~acc.in_block -> [acc EXCEPT !.found = TRUE, !.in_block = TRUE]
      [] line.kind = "start" /\ acc.in_block  -> [acc EXCEPT !.complete = FALSE]
      [] line.kind = "end" /\ acc.in_block    -> [acc EXCEPT !.in_block = FALSE]
      [] line.kind \notin {"start", "end"} /\ acc.in_block -> acc
      [] OTHER -> [acc EXCEPT !.content = Append(@, line)]
remove_pv_env_block(file) ==
    LET scan == FoldLeft(ScanProfileLine,
                         [content |-> <<>>, found |-> FALSE, in_block |-> FALSE, complete |-> TRUE], file)
    IN [scan EXCEPT !.complete = @ /\ ~scan.in_block]
shell_profile_block == Lines(<<"start", "body", "end">>)
append_shell_block(file) == file \o shell_profile_block
UserLines(file) == SelectSeq(file, LAMBDA line : line.kind \in {"user", "filter", "other", "odd"})
=============================================================================
