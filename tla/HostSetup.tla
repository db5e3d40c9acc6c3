----------------------------- MODULE HostSetup -----------------------------
(* `pv setup`, `pv uninstall` and the dns:, ports:, ca: and daemon: commands *)
(* (crates/cli/src/commands), the system files and services they change      *)
(* through sudo, security and launchctl (crates/platform), and the daemon's   *)
(* DNS socket.  A command is a list of procedures, a procedure a few steps;   *)
(* each step is one change that survives the process.                        *)
EXTENDS HostFiles, TLC

CONSTANTS MaxCommands,  \* commands the user runs
          MaxFaults,    \* steps that fail, and deaths of the process
          MaxEvents,    \* changes to the host between commands
          Events,       \* which changes those may be
          Commands      \* which commands are run

VARIABLES mac,   \* the host: system files, pf, keychain, launchd, the daemon
          pv,    \* what is below ~/.pv: prepared files, port rows, CA, parts
          cli,   \* the command that runs, or how the last one ended
          left   \* what is left of the three bounds
vars == <<mac, pv, cli, left>>

CaIds == 1..MaxCommands + 1
Candidates == [dns   |-> <<"35353", "fallback1", "fallback2">>,
               http  |-> <<"48080", "fallback1", "fallback2">>,
               https |-> <<"48443", "fallback1", "fallback2">>]
Program == "active pv binary"
DefaultParts == {"bin", "run", "config", "downloads"}

\* The tracks of the manifest that setup plans for: FrankenPHP has to have the
\* default track of PHP.
DEFAULT_SETUP_RESOURCES == {"php", "frankenphp", "mysql"}
resolve_default_resource_plan(catalog) ==
    {r \in DEFAULT_SETUP_RESOURCES :
        LET selector == IF r = "frankenphp" THEN catalog["php"].default ELSE catalog[r].default
        IN selector \in catalog[r].tracks}

-----------------------------------------------------------------------------
(* Derived state, as the commands and `pv doctor` read it.                   *)

Taken == mac.foreign \cup (IF mac.daemon = "up" THEN {mac.listen} ELSE {})
Rows == {pv.dns, pv.http, pv.https} \ {"none"}
FirstFree(owner, rows) ==
    LET free == SelectSeq(Candidates[owner], LAMBDA p : p \notin Taken \cup rows)
    IN IF free = <<>> THEN "none" ELSE Head(free)
assign_port(owner, row) == IF row /= "none" THEN row ELSE FirstFree(owner, Rows)
assign_gateway_ports ==
    LET http == assign_port("http", pv.http)
        https == IF pv.https /= "none" THEN pv.https ELSE FirstFree("https", Rows \cup {http})
    IN <<http, https>>
expected_redirect_config ==
    IF pv.http = "none" \/ pv.https = "none" THEN None ELSE <<pv.http, pv.https>>

pf_files_current(config) ==
    /\ inspect_pf_anchor_file(pv.anchor, config) = "Current"
    /\ inspect_pf_conf_reference(pv.reference) = "Current"
    /\ inspect_pf_anchor_file(mac.anchor, config) = "Current"
    /\ inspect_pf_conf_reference(mac.conf) = "Current"
\* The redirects pf has loaded, where its rules may be read.
active_pf_redirect_config == mac.active
\* The doctor's verdict on low-port routing, where pfctl may be read.
classify_pfctl ==
    IF mac.active = expected_redirect_config /\ mac.active /= None
    THEN IF mac.enabled /\ pf_files_current(mac.active) THEN "Active" ELSE "Drifted"
    ELSE IF mac.active /= None THEN "Drifted" ELSE "Inactive"
\* The daemon's verdict, which selects the Gateway's readiness check.
classify_gateway_pf_routing_state(config) ==
    IF mac.active = None THEN "Inactive"
    ELSE IF mac.active = config /\ mac.enabled /\ pf_files_current(config) THEN "Active"
    ELSE "Drifted"

\* The checks of `pv doctor`.
layout_check == DefaultParts \cup {"certificates", "database"} \subseteq pv.parts
launch_agent_check == inspect_launch_agent_file(mac.plist, None) = "Current"
daemon_socket_check == mac.daemon = "up"
dns_check ==
    /\ inspect_resolver_file(pv.resolver, None) = "Current"
    /\ inspect_resolver_file(mac.resolver, ParseResolver(pv.resolver)) = "Current"
ports_check == classify_pfctl = "Active"
ca_check == inspect_system_ca_trust(pv.ca, mac.keychain) = "Current"

\* Whether a setup that may not ask would have to.
dns_setup_requires_privileged_auth ==
    inspect_resolver_file(mac.resolver, ParseResolver(pv.resolver)) \in {"Missing", "Stale"}
ports_setup_requires_privileged_auth ==
    \/ inspect_pf_anchor_file(mac.anchor, ParseAnchor(pv.anchor)) \in {"Missing", "Stale"}
    \/ inspect_pf_conf_reference(mac.conf) \in {"Missing", "Stale"}
    \/ /\ ParseAnchor(pv.anchor) /= None
       /\ active_pf_redirect_config /= ParseAnchor(pv.anchor)
ca_setup_requires_privileged_auth == inspect_system_ca_trust(pv.ca, mac.keychain) /= "Current"
setup_requires_privileged_auth ==
    \/ dns_setup_requires_privileged_auth
    \/ ports_setup_requires_privileged_auth
    \/ ca_setup_requires_privileged_auth

-----------------------------------------------------------------------------
(* Control: the procedures of a command, and where a failing step leads.     *)

Setup(shell) == <<"layout", "shims", "manifest">> \o shell
                    \o <<"dns", "ports", "ca", "defaults", "enable", "reconcile", "gaps">>
Enable == <<"layout", "enable", "submit">>
Restart == Enable
Uninstall(last) == <<"disable", "undns", "unports", "unca", "unshell", last>>
Procedures ==
    [c \in Commands |->
        CASE c = "setup"                   -> Setup(<<"shell">>)
          [] c = "setup --non-interactive" -> Setup(<<"auth", "shell">>)
          [] c = "uninstall"               -> Uninstall("wipe")
          [] c = "uninstall --prune"       -> Uninstall("prune")
          [] c = "dns:install"             -> <<"dns">>
          [] c = "dns:uninstall"           -> <<"undns">>
          [] c = "ports:install"           -> <<"ports">>
          [] c = "ports:uninstall"         -> <<"unports">>
          [] c = "ca:trust"                -> <<"ca">>
          [] c = "ca:untrust"              -> <<"untrust">>
          [] c = "daemon:enable"           -> Enable
          [] c = "daemon:restart"          -> Restart
          [] c = "daemon:disable"          -> <<"disable">>]

Ended == {"idle", "ok", "fail", "dead"}
Running == cli.pc \notin Ended
At(pc) == cli.pc = pc
Goto(pc) == cli' = [cli EXCEPT !.pc = pc]
NoBackup == [anchor |-> Absent, conf |-> Absent]
End(pc) == [cli EXCEPT !.pc = pc, !.todo = <<>>, !.had = {}, !.plan = {}, !.saved = NoBackup,
                       !.said = IF pc = "ok" THEN @ ELSE {}]
Stop == cli' = End("fail")
\* run_required_step: the next procedure follows a success only.
Proceed(from) ==
    IF from.todo = <<>> THEN [End("ok") EXCEPT !.said = from.said]
    ELSE [from EXCEPT !.pc = Head(from.todo), !.todo = Tail(from.todo)]
run_required_step == cli' = Proceed(cli)
\* A procedure that is done and says that it found its work done.
FoundDone(what) == cli' = Proceed([cli EXCEPT !.said = @ \cup {what}])
Calm == UNCHANGED left

\* release_new_dns_port, release_new_gateway_ports and the rollback of the pf
\* files; every other error just ends the command.
OnError ==
    [dns_prepare |-> "release_dns", dns_install |-> "release_dns",
     ports_prepare |-> "release_http", ports_reference |-> "release_http",
     pf_anchor |-> "release_http", ports_verify |-> "release_http",
     pf_conf |-> "undo_conf", pf_reload |-> "undo_conf", pf_enable |-> "undo_conf",
     undo_conf |-> "undo_anchor", undo_anchor |-> "release_http",
     ports_query |-> "release_http", manifest |-> "fail", shell |-> "fail", ca_key |-> "fail", ca_add |-> "fail", ca_remove |-> "fail",
     bootout |-> "fail", dis_bootout |-> "fail", bootstrap |-> "fail", kickstart |-> "fail", healthy |-> "fail",
     undns_remove |-> "fail", rm_conf |-> "fail", rm_anchor |-> "fail", rm_reload |-> "fail",
     unca_stale |-> "fail", untrust_remove |-> "fail", reconcile |-> "fail"]
CommandFails ==
    /\ cli.pc \in DOMAIN OnError
    /\ left.faults > 0
    /\ left' = [left EXCEPT !.faults = @ - 1]
    /\ cli' = [(IF OnError[cli.pc] = "fail" THEN End("fail") ELSE cli)
                    EXCEPT !.pc = OnError[cli.pc], !.clean = FALSE]
    /\ UNCHANGED <<mac, pv>>
Dies ==
    /\ Running
    /\ left.faults > 0
    /\ left' = [left EXCEPT !.faults = @ - 1]
    /\ cli' = End("dead")
    /\ UNCHANGED <<mac, pv>>

Run(c) ==
    /\ ~Running
    /\ left.commands > 0
    /\ left' = [left EXCEPT !.commands = @ - 1]
    /\ cli' = [cmd |-> c, pc |-> Head(Procedures[c]), todo |-> Tail(Procedures[c]), had |-> {},
               plan |-> {}, saved |-> NoBackup, said |-> {}, clean |-> TRUE]
    /\ UNCHANGED <<mac, pv>>

-----------------------------------------------------------------------------
(* Layout, shims, manifest and shell profile.                                *)

ensure_layout ==
    /\ At("layout")
    /\ pv' = [pv EXCEPT !.parts = @ \cup (DefaultParts \ {"bin"}) \cup {"certificates"}]
    /\ run_required_step /\ Calm /\ UNCHANGED mac
install_command_shims ==
    /\ At("shims")
    /\ pv' = [pv EXCEPT !.parts = @ \cup {"bin"}]
    /\ run_required_step /\ Calm /\ UNCHANGED mac
refresh_setup_artifact_manifest ==
    /\ At("manifest")
    /\ cli' = [cli EXCEPT !.pc = Head(cli.todo), !.todo = Tail(cli.todo),
                          !.plan = resolve_default_resource_plan(mac.catalog)]
    /\ Calm /\ UNCHANGED <<mac, pv>>
CheckAuth ==
    /\ At("auth")
    /\ IF setup_requires_privileged_auth THEN Stop ELSE run_required_step
    /\ Calm /\ UNCHANGED <<mac, pv>>

configure_shell_integration ==
    /\ At("shell")
    /\ LET user == IF mac.profile = Absent THEN <<>> ELSE mac.profile
           scan == remove_pv_env_block(user)
           next == append_shell_block(scan.content)
       IN \/ /\ ~scan.complete \/ (next /= user /\ cli.cmd = "setup --non-interactive")
             /\ Stop /\ UNCHANGED mac
          \/ /\ scan.complete /\ next = user
             /\ run_required_step /\ UNCHANGED mac
          \/ /\ scan.complete /\ next /= user /\ cli.cmd = "setup"
             /\ mac' = [mac EXCEPT !.profile = next]
             /\ run_required_step
    /\ Calm /\ UNCHANGED pv
remove_shell_integration ==
    /\ At("unshell")
    /\ LET scan == remove_pv_env_block(mac.profile)
       IN \/ /\ ~scan.complete
             /\ Stop /\ UNCHANGED mac
          \/ /\ scan.complete
             /\ mac' = [mac EXCEPT !.profile = IF scan.found THEN scan.content ELSE @]
             /\ run_required_step
    /\ Calm /\ UNCHANGED pv

-----------------------------------------------------------------------------
(* /etc/resolver/test and the row of the DNS port.                           *)

prepared_dns_port ==
    /\ At("dns")
    /\ LET port == assign_port("dns", pv.dns)
       IN \/ port = "none" /\ Stop /\ UNCHANGED pv
          \/ /\ port /= "none"
             /\ pv' = [pv EXCEPT !.dns = port, !.parts = @ \cup {"database"}]
             /\ cli' = [cli EXCEPT !.pc = "dns_prepare",
                                   !.had = IF pv.dns = "none" THEN {} ELSE {"dns"}]
    /\ Calm /\ UNCHANGED mac
PrepareResolver ==
    /\ At("dns_prepare")
    /\ pv' = [pv EXCEPT !.resolver = RenderResolver(pv.dns), !.parts = @ \cup {"config"}]
    /\ Goto("dns_check") /\ Calm /\ UNCHANGED mac
DnsInstallInner ==
    /\ At("dns_check")
    /\ LET state == inspect_resolver_file(mac.resolver, <<pv.dns>>)
       IN \/ /\ state = "Conflict" \/ (cli.cmd = "dns:install" /\ mac.daemon /= "up")
             /\ Goto("release_dns")
          \/ /\ state /= "Conflict" /\ (cli.cmd = "dns:install" => mac.daemon = "up")
             /\ IF state = "Current" THEN run_required_step ELSE Goto("dns_install")
    /\ Calm /\ UNCHANGED <<mac, pv>>
install_resolver_config ==
    /\ At("dns_install")
    /\ mac' = [mac EXCEPT !.resolver = pv.resolver]
    /\ run_required_step /\ Calm /\ UNCHANGED pv
\* mac.strayed notes that a running daemon has lost its row (no code does).
NoteStray == mac' = [mac EXCEPT !.strayed = @ \/ (mac.daemon = "up" /\ pv'.dns = "none")]
release_new_dns_port ==
    /\ At("release_dns")
    /\ pv' = [pv EXCEPT !.dns = IF "dns" \in cli.had THEN @ ELSE "none"]
    /\ NoteStray /\ Stop /\ Calm

DnsUninstall ==
    /\ At("undns")
    /\ pv' = [pv EXCEPT !.resolver = Absent, !.parts = @ \cup {"database"}]
    /\ LET state == inspect_resolver_file(mac.resolver, None)
       IN CASE state = "Missing"  -> Goto("undns_release")
            [] state = "Conflict" -> Stop
            [] OTHER              -> Goto("undns_remove")
    /\ Calm /\ UNCHANGED mac
remove_resolver_config ==
    /\ At("undns_remove")
    /\ mac' = [mac EXCEPT !.resolver = Absent]
    /\ Goto("undns_release") /\ Calm /\ UNCHANGED pv
ReleaseDnsRow ==
    /\ At("undns_release")
    /\ pv' = [pv EXCEPT !.dns = "none"]
    /\ NoteStray /\ run_required_step /\ Calm

-----------------------------------------------------------------------------
(* pf: the anchor, the reference in pf.conf and the rows of the Gateway.     *)

\* What `pfctl -f /etc/pf.conf` loads (external).
Loaded(conf, anchor) == IF Has(conf, "rdr-anchor") /\ Has(conf, "load-anchor") THEN ParseAnchor(anchor) ELSE None

PortsInstall ==
    /\ At("ports")
    /\ LET config == assign_gateway_ports
       IN \/ /\ {"80", "443"} \cap Taken /= {} \/ "none" \in Range(config)
             /\ Stop /\ UNCHANGED pv
          \/ /\ {"80", "443"} \cap Taken = {} /\ "none" \notin Range(config)
             /\ pv' = [pv EXCEPT !.http = config[1], !.https = config[2], !.parts = @ \cup {"database"}]
             /\ cli' = [cli EXCEPT !.pc = "ports_prepare",
                                   !.had = {o \in {"http", "https"} : pv[o] /= "none"}]
    /\ Calm /\ UNCHANGED mac
PrepareAnchor ==
    /\ At("ports_prepare")
    /\ pv' = [pv EXCEPT !.anchor = RenderAnchor(expected_redirect_config), !.parts = @ \cup {"config"}]
    /\ Goto("ports_reference") /\ Calm /\ UNCHANGED mac
PrepareReference ==
    /\ At("ports_reference")
    /\ pv' = [pv EXCEPT !.reference = RenderReference]
    /\ LET anchor == inspect_pf_anchor_file(mac.anchor, expected_redirect_config)
           reference == inspect_pf_conf_reference(mac.conf)
       IN CASE "Conflict" \in {anchor, reference} -> Goto("release_http")
            [] anchor = "Current" /\ reference = "Current" -> Goto("ports_query")
            [] OTHER -> Goto("pf_anchor")
    /\ Calm /\ UNCHANGED mac

\* The probe may succeed only where requests to 80 and 443 reach the Gateway.
refresh_gateway_observation_after_pf_repair ==
    \/ /\ mac.daemon = "up" /\ mac.enabled /\ mac.active = expected_redirect_config
       /\ pv' = [pv EXCEPT !.gateway = "running"]
    \/ pv' = [pv EXCEPT !.gateway = IF @ = "low-port" THEN "pending" ELSE @]
\* As below, but trusting the files to tell what pf has loaded.
FilesMatch ==
    /\ At("ports_query")
    /\ run_required_step /\ Calm /\ UNCHANGED <<mac, pv>>
ActiveRedirectsMatch ==
    /\ At("ports_query")
    /\ \/ /\ active_pf_redirect_config = expected_redirect_config
          /\ refresh_gateway_observation_after_pf_repair
          /\ FoundDone("already matches PV")
       \/ /\ active_pf_redirect_config /= expected_redirect_config
          /\ Goto("pf_anchor") /\ UNCHANGED pv
    /\ Calm /\ UNCHANGED mac

install_pf_anchor ==
    /\ At("pf_anchor")
    /\ mac' = [mac EXCEPT !.anchor = pv.anchor]
    /\ cli' = [cli EXCEPT !.pc = "pf_conf", !.saved = [anchor |-> mac.anchor, conf |-> mac.conf]]
    /\ Calm /\ UNCHANGED pv
PfConfCandidate(conf) ==
    LET state == inspect_pf_conf_reference(conf)
    IN CASE state = "Current" -> conf
         [] state = "Stale"   -> append_pf_reference(remove_pf_reference_lines(conf))
         [] OTHER -> append_pf_reference(IF conf = Absent THEN <<>> ELSE conf)
InstallPfConf ==
    /\ At("pf_conf")
    /\ mac' = [mac EXCEPT !.conf = PfConfCandidate(@)]
    /\ Goto("pf_reload") /\ Calm /\ UNCHANGED pv
reload_pf ==
    /\ At("pf_reload")
    /\ mac' = [mac EXCEPT !.active = Loaded(mac.conf, mac.anchor)]
    /\ Goto("pf_enable") /\ Calm /\ UNCHANGED pv
EnablePf ==
    /\ At("pf_enable")
    /\ mac' = [mac EXCEPT !.enabled = TRUE]
    /\ Goto("ports_verify") /\ Calm /\ UNCHANGED pv
\* As below, but without the backup.
RemovePfConf ==
    /\ At("undo_conf")
    /\ mac' = [mac EXCEPT !.conf = Absent]
    /\ Goto("undo_anchor") /\ Calm /\ UNCHANGED pv
rollback_pf_conf ==
    /\ At("undo_conf")
    /\ mac' = [mac EXCEPT !.conf = cli.saved.conf]
    /\ Goto("undo_anchor") /\ Calm /\ UNCHANGED pv
rollback_pf_anchor ==
    /\ At("undo_anchor")
    /\ mac' = [mac EXCEPT !.anchor = cli.saved.anchor]
    /\ Goto("release_http") /\ Calm /\ UNCHANGED pv
ensure_active_gateway_ports ==
    /\ At("ports_verify")
    /\ \/ /\ active_pf_redirect_config = expected_redirect_config
          /\ refresh_gateway_observation_after_pf_repair
          /\ run_required_step
       \/ /\ active_pf_redirect_config /= expected_redirect_config
          /\ Goto("release_http") /\ UNCHANGED pv
    /\ Calm /\ UNCHANGED mac
release_new_gateway_ports ==
    /\ \/ /\ At("release_http")
          /\ pv' = [pv EXCEPT !.http = IF "http" \in cli.had THEN @ ELSE "none"]
          /\ Goto("release_https")
       \/ /\ At("release_https")
          /\ pv' = [pv EXCEPT !.https = IF "https" \in cli.had THEN @ ELSE "none"]
          /\ Stop
    /\ Calm /\ UNCHANGED mac

PortsUninstall ==
    /\ At("unports")
    /\ pv' = [pv EXCEPT !.anchor = Absent, !.reference = Absent]
    /\ LET states == {inspect_pf_anchor_file(mac.anchor, None), inspect_pf_conf_reference(mac.conf)}
       IN CASE "Conflict" \in states -> Stop
            [] states = {"Missing"}  -> FoundDone("already absent")
            [] OTHER                 -> Goto("rm_conf")
    /\ Calm /\ UNCHANGED mac
remove_pf_redirects ==
    /\ \/ /\ At("rm_conf")
          /\ mac' = [mac EXCEPT !.conf = IF inspect_pf_conf_reference(@) = "Missing" THEN @
                                         ELSE remove_pf_reference_lines(@)]
          /\ Goto("rm_anchor")
       \/ /\ At("rm_anchor")
          /\ mac' = [mac EXCEPT !.anchor = Absent]
          /\ Goto("rm_reload")
       \/ /\ At("rm_reload")
          /\ mac' = [mac EXCEPT !.active = Loaded(mac.conf, mac.anchor)]
          /\ run_required_step
    /\ Calm /\ UNCHANGED pv

-----------------------------------------------------------------------------
(* The local CA and its trust in the System keychain.                        *)

ensure_local_ca ==
    /\ At("ca")
    /\ \/ /\ inspect_local_ca_files(pv.ca) = "Current"
          /\ Goto("ca_trust") /\ UNCHANGED pv
       \/ /\ inspect_local_ca_files(pv.ca) /= "Current"
          /\ pv' = [pv EXCEPT !.ca.cert = mac.issued + 1, !.parts = @ \cup {"certificates"}]
          /\ Goto("ca_key")
    /\ mac' = [mac EXCEPT !.issued = IF cli'.pc = "ca_key" THEN @ + 1 ELSE @]
    /\ Calm
WriteCaKey ==
    /\ At("ca_key")
    /\ pv' = [pv EXCEPT !.ca.key = pv.ca.cert]
    /\ Goto("ca_trust") /\ Calm /\ UNCHANGED mac
trust_with_mode ==
    /\ At("ca_trust")
    /\ LET state == inspect_system_ca_trust(pv.ca, mac.keychain)
       IN CASE state = "Current"    -> run_required_step
            [] state = "NotTrusted" -> Goto("ca_add")
            [] OTHER                -> Goto("ca_remove")
    /\ Calm /\ UNCHANGED <<mac, pv>>
\* The certificate that Denied, Current or Stale names.
NamedCertificate ==
    IF mac.keychain[pv.ca.cert] /= "absent" THEN pv.ca.cert
    ELSE CHOOSE c \in StaleTrust(pv.ca, mac.keychain) :
            \A d \in StaleTrust(pv.ca, mac.keychain) : d <= c
untrust_system_ca ==
    /\ cli.pc \in {"ca_remove", "untrust_remove"}
    /\ mac' = [mac EXCEPT !.keychain[NamedCertificate] = "absent"]
    /\ IF At("ca_remove") THEN Goto("ca_add") ELSE run_required_step
    /\ Calm /\ UNCHANGED pv
trust_system_ca ==
    /\ At("ca_add")
    /\ mac' = [mac EXCEPT !.keychain[pv.ca.cert] = "trusted"]
    /\ run_required_step /\ Calm /\ UNCHANGED pv

untrust_with_mode ==
    /\ At("untrust")
    /\ LET state == inspect_system_ca_trust(pv.ca, mac.keychain)
       IN CASE state = "NotTrusted" -> run_required_step
            [] state = "Unknown"    -> Stop
            [] OTHER                -> Goto("untrust_remove")
    /\ Calm /\ UNCHANGED <<mac, pv>>
untrust_ca_for_uninstall ==
    /\ At("unca")
    /\ IF inspect_local_ca_files(pv.ca) = "Missing" THEN Goto("unca_stale") ELSE Goto("untrust")
    /\ Calm /\ UNCHANGED <<mac, pv>>
UntrustStale ==
    /\ At("unca_stale")
    /\ LET known == trusted_pv_ca_fingerprints(mac.keychain)
       IN \/ known = {} /\ run_required_step /\ UNCHANGED mac
          \/ \E c \in known :
                /\ \A d \in known : c <= d
                /\ mac' = [mac EXCEPT !.keychain[c] = "absent"]
                /\ UNCHANGED cli
    /\ Calm /\ UNCHANGED pv

-----------------------------------------------------------------------------
(* The LaunchAgent and the daemon.                                           *)

\* As below, but without unloading the agent of the stale file.
EnableOverLoaded ==
    /\ At("enable")
    /\ LET state == inspect_launch_agent_file(mac.plist, <<Program>>)
       IN CASE state = "Current"  -> Goto("kickstart")
            [] state = "Conflict" -> Stop
            [] OTHER              -> Goto("plist")
    /\ Calm /\ UNCHANGED <<mac, pv>>
enable_inner ==
    /\ At("enable")
    /\ LET state == inspect_launch_agent_file(mac.plist, <<Program>>)
       IN CASE state = "Current"  -> Goto("kickstart")
            [] state = "Missing"  -> Goto("plist")
            [] state = "Stale"    -> Goto("bootout")
            [] state = "Conflict" -> Stop
    /\ Calm /\ UNCHANGED <<mac, pv>>
bootout_launch_agent_if_loaded ==
    /\ cli.pc \in {"bootout", "dis_bootout"}
    /\ mac' = [mac EXCEPT !.loaded = FALSE, !.daemon = "down"]
    /\ IF At("bootout") THEN Goto("plist")
       ELSE IF mac.plist = Absent THEN run_required_step ELSE Goto("dis_remove")
    /\ Calm /\ UNCHANGED pv
write_launch_agent_file ==
    /\ At("plist")
    /\ mac' = [mac EXCEPT !.plist = RenderLaunchAgent(Program)]
    /\ Goto("bootstrap") /\ Calm /\ UNCHANGED pv
\* launchd refuses to load a loaded agent, and starts what it loads.
bootstrap_launch_agent ==
    /\ At("bootstrap")
    /\ \/ /\ ~mac.loaded
          /\ mac' = [mac EXCEPT !.loaded = TRUE, !.daemon = "starting"]
          /\ Goto("kickstart")
       \/ mac.loaded /\ Stop /\ UNCHANGED mac
    /\ Calm /\ UNCHANGED pv
kickstart_launch_agent ==
    /\ At("kickstart")
    /\ \/ /\ mac.loaded
          /\ mac' = [mac EXCEPT !.daemon = "starting"]
          /\ Goto("healthy")
       \/ ~mac.loaded /\ Stop /\ UNCHANGED mac
    /\ Calm /\ UNCHANGED pv
CannotBind == IF pv.dns = "none" THEN FirstFree("dns", Rows) = "none" ELSE pv.dns \in mac.foreign
wait_for_daemon ==
    /\ At("healthy")
    /\ \/ mac.daemon = "up" /\ run_required_step
       \/ mac.daemon = "starting" /\ CannotBind /\ Stop
    /\ Calm /\ UNCHANGED <<mac, pv>>
submit_system_reconciliation ==
    /\ At("submit")
    /\ IF mac.daemon = "up" THEN run_required_step ELSE Stop
    /\ Calm /\ UNCHANGED <<mac, pv>>
DaemonDisable ==
    /\ At("disable")
    /\ IF inspect_launch_agent_file(mac.plist, None) = "Conflict" THEN Stop ELSE Goto("dis_bootout")
    /\ Calm /\ UNCHANGED <<mac, pv>>
remove_launch_agent_file ==
    /\ At("dis_remove")
    /\ mac' = [mac EXCEPT !.plist = Absent]
    /\ run_required_step /\ Calm /\ UNCHANGED pv

\* The daemon binds the port of its row, or one that it assigns; launchd keeps
\* starting one that cannot.
bind_assigned_dns_sockets ==
    /\ mac.daemon = "starting" /\ ~CannotBind
    /\ LET port == IF pv.dns = "none" THEN FirstFree("dns", Rows) ELSE pv.dns
       IN /\ mac' = [mac EXCEPT !.daemon = "up", !.listen = port, !.strayed = FALSE]
          /\ pv' = [pv EXCEPT !.dns = port, !.parts = @ \cup {"run", "database"}]
    /\ UNCHANGED <<cli, left>>

record_default_resource_desired_state ==
    /\ At("defaults")
    /\ pv' = [pv EXCEPT !.desired = @ \cup cli.plan]
    /\ run_required_step /\ Calm /\ UNCHANGED mac
\* Where the redirects have drifted the Gateway may only be reachable directly.
ReconcileSystem ==
    /\ At("reconcile")
    /\ \/ /\ mac.daemon = "up"
          /\ \E seen \in {"running", "low-port"} :
                /\ seen = "low-port" =>
                      classify_gateway_pf_routing_state(expected_redirect_config) = "Drifted"
                /\ pv' = [pv EXCEPT !.gateway = seen]
          /\ run_required_step
       \/ mac.daemon /= "up" /\ Stop /\ UNCHANGED pv
    /\ Calm /\ UNCHANGED mac
ReportGaps ==
    /\ At("gaps")
    /\ IF cli.plan = DEFAULT_SETUP_RESOURCES THEN run_required_step ELSE Stop
    /\ Calm /\ UNCHANGED <<mac, pv>>

remove_default_state ==
    /\ At("wipe")
    /\ \/ \E part \in DefaultParts \cap pv.parts :
             /\ pv' = [(IF part = "config"
                        THEN [pv EXCEPT !.resolver = Absent, !.anchor = Absent, !.reference = Absent]
                        ELSE pv) EXCEPT !.parts = @ \ {part}]
             /\ UNCHANGED cli
       \/ /\ DefaultParts \cap pv.parts = {}
          /\ run_required_step /\ UNCHANGED pv
    /\ Calm /\ UNCHANGED mac
NoState == [resolver |-> Absent, anchor |-> Absent, reference |-> Absent,
            dns |-> "none", http |-> "none", https |-> "none",
            ca |-> [cert |-> 0, key |-> 0], parts |-> {}, desired |-> {}, gateway |-> "none"]
prune_state ==
    /\ At("prune")
    /\ pv' = NoState
    /\ run_required_step /\ Calm /\ UNCHANGED mac

-----------------------------------------------------------------------------
(* What happens to the host between two commands.                            *)

Happens(event) ==
    /\ event \in Events
    /\ ~Running
    /\ left.events > 0
    /\ left' = [left EXCEPT !.events = @ - 1]
    /\ cli' = [End("idle") EXCEPT !.cmd = "none"]
\* pf.conf is loaded at boot, pf itself is off until somebody enables it.
Reboot ==
    /\ Happens("reboot")
    /\ LET starts == ParseLaunchAgent(mac.plist) /= None
       IN mac' = [mac EXCEPT !.enabled = FALSE, !.active = Loaded(mac.conf, mac.anchor),
                             !.loaded = starts, !.daemon = IF starts THEN "starting" ELSE "down"]
    /\ UNCHANGED pv
SystemUpdate ==
    /\ Happens("system update")
    /\ mac' = [mac EXCEPT !.conf = Lines(<<"other", "filter">>)]
    /\ UNCHANGED pv
KeyLost ==
    /\ Happens("key lost")
    /\ \E cert \in {0, pv.ca.cert} : pv' = [pv EXCEPT !.ca = [cert |-> cert, key |-> 0]]
    /\ UNCHANGED mac
TrustDenied ==
    /\ Happens("trust denied")
    /\ \E c \in DOMAIN mac.keychain :
          /\ mac.keychain[c] = "trusted"
          /\ mac' = [mac EXCEPT !.keychain[c] = "denied"]
    /\ UNCHANGED pv
ListenerStarts ==
    /\ Happens("listener")
    /\ \E p \in {"80", "35353", "48080"} \ Taken : mac' = [mac EXCEPT !.foreign = @ \cup {p}]
    /\ UNCHANGED pv
ListenersStop ==
    /\ Happens("listener")
    /\ mac.foreign /= {}
    /\ mac' = [mac EXCEPT !.foreign = {}]
    /\ UNCHANGED pv

-----------------------------------------------------------------------------
FullCatalog == [r \in DEFAULT_SETUP_RESOURCES |-> [default |-> "new", tracks |-> {"new", "old"}]]
FreshHost ==
    [resolver |-> Absent, anchor |-> Absent, conf |-> Lines(<<"other", "filter">>), plist |-> Absent,
     profile |-> Lines(<<"user">>), keychain |-> [c \in CaIds |-> "absent"], issued |-> 0,
     enabled |-> FALSE, active |-> None, loaded |-> FALSE, daemon |-> "down", listen |-> "none",
     strayed |-> FALSE,
     foreign |-> {}, catalog |-> FullCatalog]
\* A fresh host, or one with a single thing in PV's way.
InitialHosts ==
    {FreshHost,
     [FreshHost EXCEPT !.resolver = Lines(<<"nameserver">>)],
     [FreshHost EXCEPT !.resolver = Lines(<<"marker", "nameserver">>)],
     [FreshHost EXCEPT !.anchor = <<PortLine("rdr80", "8080")>>],
     [FreshHost EXCEPT !.conf = Absent],
     [FreshHost EXCEPT !.conf = Lines(<<"other", "load-anchor", "filter">>)],
     [FreshHost EXCEPT !.conf = Lines(<<"other", "marker", "rdr-anchor", "legacy", "filter", "load-anchor">>)],
     [FreshHost EXCEPT !.conf = Lines(<<"other", "marker", "rdr-anchor", "odd", "filter", "load-anchor">>)],
     [FreshHost EXCEPT !.plist = <<PortLine("program", "other")>>],
     [FreshHost EXCEPT !.plist = RenderLaunchAgent("old release"), !.loaded = TRUE, !.daemon = "starting"],
     [FreshHost EXCEPT !.profile = Absent],
     [FreshHost EXCEPT !.profile = Lines(<<"user", "start", "body">>)],
     [FreshHost EXCEPT !.foreign = {"35353", "48443"}],
     [FreshHost EXCEPT !.foreign = {"35353", "fallback1", "fallback2"}],
     [FreshHost EXCEPT !.catalog["frankenphp"].tracks = {"old"}]}

Init ==
    /\ mac \in InitialHosts
    /\ pv = NoState
    /\ cli = [cmd |-> "none", pc |-> "idle", todo |-> <<>>, had |-> {}, plan |-> {}, saved |-> NoBackup,
              said |-> {}, clean |-> TRUE]
    /\ left = [commands |-> MaxCommands, faults |-> MaxFaults, events |-> MaxEvents]

Next ==
    \/ \E c \in Commands : Run(c)
    \/ CommandFails \/ Dies
    \/ ensure_layout \/ install_command_shims \/ refresh_setup_artifact_manifest \/ CheckAuth
    \/ configure_shell_integration \/ remove_shell_integration
    \/ prepared_dns_port \/ PrepareResolver \/ DnsInstallInner \/ install_resolver_config
    \/ release_new_dns_port \/ DnsUninstall \/ remove_resolver_config \/ ReleaseDnsRow
    \/ PortsInstall \/ PrepareAnchor \/ PrepareReference \/ ActiveRedirectsMatch
    \/ install_pf_anchor \/ InstallPfConf \/ reload_pf \/ EnablePf
    \/ rollback_pf_conf \/ rollback_pf_anchor \/ ensure_active_gateway_ports
    \/ release_new_gateway_ports \/ PortsUninstall \/ remove_pf_redirects
    \/ ensure_local_ca \/ WriteCaKey \/ trust_with_mode \/ untrust_system_ca \/ trust_system_ca
    \/ untrust_with_mode \/ untrust_ca_for_uninstall \/ UntrustStale
    \/ enable_inner \/ bootout_launch_agent_if_loaded \/ write_launch_agent_file
    \/ bootstrap_launch_agent \/ kickstart_launch_agent \/ wait_for_daemon
    \/ submit_system_reconciliation \/ DaemonDisable \/ remove_launch_agent_file
    \/ bind_assigned_dns_sockets \/ record_default_resource_desired_state \/ ReconcileSystem \/ ReportGaps
    \/ remove_default_state \/ prune_state
    \/ Reboot \/ SystemUpdate \/ KeyLost \/ TrustDenied \/ ListenerStarts \/ ListenersStop

Spec == Init /\ [][Next]_vars

-----------------------------------------------------------------------------
(* Properties.                                                               *)

Succeeded(commands) == cli.pc = "ok" /\ cli.cmd \in commands
SetupCommands == {"setup", "setup --non-interactive"}

\* A command that reports success has done its work, whatever failed or was
\* interrupted before it and whatever it found: the prepared and the system
\* file agree with the port rows, the daemon listens on the port the resolver
\* file names, pf is on and its loaded redirects are those of the rows, the CA of
\* the certificate in use is trusted.  The code's three exceptions are named:
\* a daemon whose row was released while it ran, ports:install that found the
\* redirects loaded, and a directive of pf.conf that PV does not know.
SuccessIsHealthy ==
    /\ Succeeded(SetupCommands \cup {"dns:install"}) =>
          /\ dns_check /\ ParseResolver(mac.resolver) = <<pv.dns>>
          /\ mac.daemon = "up" /\ (mac.listen = pv.dns \/ mac.strayed)
    /\ Succeeded(SetupCommands \cup {"ports:install"}) =>
          /\ expected_redirect_config /= None
          /\ mac.active = expected_redirect_config
          /\ mac.enabled \/ "already matches PV" \in cli.said
          /\ pf_files_current(mac.active) \/ Has(mac.conf, "odd")
    /\ Succeeded(SetupCommands \cup {"ca:trust"}) => ca_check
    /\ Succeeded(SetupCommands \cup {"daemon:enable", "daemon:restart"}) =>
          launch_agent_check /\ daemon_socket_check /\ mac.listen = pv.dns
    /\ Succeeded(SetupCommands) => layout_check /\ mac.profile /= Absent

\* "`pv ports:install` enables `pf` if needed" (DESIGN.md:305), and so does
\* setup.  The code asks whether the redirects are loaded, not whether pf is on.
InstallEnablesPf == Succeeded({"setup", "ports:install"}) => mac.enabled

\* "`pv dns:install` ... ensures the PV daemon is running so the resolver can
\* answer `.test` lookups" (DESIGN.md:301): the resolver file names the port the
\* daemon listens on.  The code checks that a daemon runs, not on which port.
ResolverIsAnswered ==
    Succeeded({"dns:install"}) => mac.daemon = "up" /\ ParseResolver(mac.resolver) = <<mac.listen>>

\* A removal that reports success leaves nothing of PV's behind that macOS
\* still uses: no resolver file, no anchor, no line in pf.conf and no loaded
\* redirect, no LaunchAgent or daemon, no trusted PV certificate, old ones
\* included, and no block in the shell profile.  The code's exceptions are named:
\* what is loaded is not looked at where the files are found absent, and a
\* directive for PV's anchor in a form PV does not know stays.
RemovalLeavesNothing ==
    LET uninstall == {"uninstall", "uninstall --prune"}
    IN /\ Succeeded(uninstall \cup {"dns:uninstall"}) => mac.resolver = Absent
       /\ Succeeded(uninstall \cup {"ports:uninstall"}) =>
             /\ mac.anchor = Absent /\ \A kind \in ReferenceLines : ~Has(mac.conf, kind)
             /\ mac.active = None \/ "already absent" \in cli.said
       /\ Succeeded(uninstall \cup {"daemon:disable"}) =>
             mac.plist = Absent /\ ~mac.loaded /\ mac.daemon = "down"
       /\ Succeeded(uninstall \cup {"ca:untrust"}) =>
             \A c \in DOMAIN mac.keychain : mac.keychain[c] /= "trusted"
       /\ Succeeded(uninstall) => ~Has(mac.profile, "start") /\ DefaultParts \cap pv.parts = {}

\* "`pv ports:uninstall` removes PV-owned rules" (DESIGN.md:305): after it pf has
\* none loaded.  The code returns early where both files are absent already.
UninstallUnloadsRules == Succeeded({"ports:uninstall"}) => mac.active = None

\* No command, rollbacks included, changes a file that is not PV's or a line of
\* pf.conf or of the profile that the user wrote.
UserContentKept ==
    [][left'.events = left.events =>
         /\ UserLines(mac'.conf) = UserLines(mac.conf)
         /\ UserLines(mac'.profile) = UserLines(mac.profile)
         /\ inspect_resolver_file(mac.resolver, None) = "Conflict" => mac'.resolver = mac.resolver
         /\ inspect_pf_anchor_file(mac.anchor, None) = "Conflict" => mac'.anchor = mac.anchor
         /\ inspect_launch_agent_file(mac.plist, None) = "Conflict" => mac'.plist = mac.plist]_vars

\* What setup cannot repair: somebody else's file, listener or unfinished edit,
\* a manifest with gaps, and a LaunchAgent that is installed but not loaded.
Blocked ==
    \/ inspect_resolver_file(mac.resolver, None) = "Conflict"
    \/ inspect_pf_anchor_file(mac.anchor, None) = "Conflict"
    \/ inspect_pf_conf_reference(mac.conf) = "Conflict"
    \/ inspect_launch_agent_file(mac.plist, None) = "Conflict"
    \/ {"80", "443"} \cap mac.foreign /= {}
    \/ CannotBind \/ "none" \in Range(assign_gateway_ports)
    \/ ~remove_pv_env_block(mac.profile).complete
    \/ resolve_default_resource_plan(mac.catalog) /= DEFAULT_SETUP_RESOURCES
    \/ launch_agent_check /\ ~mac.loaded
\* Setup repairs: run again after any failed or interrupted command, it fails
\* only if a step of its own fails or the user has to act first.
RerunRepairs == (cli.cmd = "setup" /\ cli.pc = "fail" /\ cli.clean) => Blocked

=============================================================================
