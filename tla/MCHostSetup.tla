---------------------------- MODULE MCHostSetup ----------------------------
(* Instances of HostSetup for TLC. *)
EXTENDS HostSetup

AllEvents == {"reboot", "system update", "key lost", "trust denied", "listener"}
AllCommands == {"setup", "setup --non-interactive", "uninstall", "uninstall --prune",
                "dns:install", "dns:uninstall", "ports:install", "ports:uninstall",
                "ca:trust", "ca:untrust", "daemon:enable", "daemon:restart", "daemon:disable"}
=============================================================================
