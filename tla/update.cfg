\* Two updates, three versions that each add a migration.
SPECIFICATION Spec
CONSTANTS
    None = None
    Updaters = {u1, u2}
    Versions = {1, 2, 3}
    Protocol <- MCProtocol
    Migrations <- MCMigrations
    Manifests <- MCManifests
    Retention = 2
    MaxUpdates = 2
    MaxPublishes = 1
    MaxCommands = 1
    MaxSeconds = 1
    MaxFaults = 1
INVARIANTS
    ActiveResolves
    RollbackServesPrevious
PROPERTIES
    NeverDowngraded
    MigrationHasBackup
SYMMETRY UpdaterSymmetry
CHECK_DEADLOCK FALSE
