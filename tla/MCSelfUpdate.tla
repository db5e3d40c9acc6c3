---------------------------- MODULE MCSelfUpdate ----------------------------
(* Instances of SelfUpdate for TLC. *)
EXTENDS SelfUpdate

\* Every version adds a migration.
MCMigrations == <<<<"core">>, <<"core", "intent">>, <<"core", "intent", "ports">>>>
\* The last version changes the daemon protocol.
MCProtocol == <<1, 1, 2>>

Asset(platform) == [platform |-> platform, size |-> 1]
Manifest(version, minimum, assets) ==
  [supported |-> TRUE, version |-> version, minimum |-> minimum, assets |-> assets]

\* Two releases for everybody, and one that needs the release before it and is
\* missing this platform.
MCManifests ==
  { Manifest(2, 1, <<Asset("darwin-arm64"), Asset("darwin-amd64")>>),
    Manifest(3, 1, <<Asset("darwin-arm64")>>),
    Manifest(3, 2, <<Asset("darwin-amd64")>>) }

UpdaterSymmetry == Permutations(Updaters)
=============================================================================
