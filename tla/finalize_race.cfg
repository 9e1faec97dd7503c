SPECIFICATION MigrationSpec
CONSTANTS
    Ref <- MCRef
    Commit <- MCCommit
    Reach <- MCReach
    None = None
    NoLease = NoLease
    SupportedFormat = 1
    Pushers = {p1}
    Admins = {}
    Compactors = {}
    Attempts = 2
    LostReplies = FALSE
    GracePasses = FALSE
    Batches <- NewPushes
    Holds <- MCHolds
    Partial = {}
    Shallow = {}
    AdminOps = {}
    Seeds <- NoManifest
    NewerClient = FALSE
    Doctors = {}
    Migrators = {g1}
    Finalizers = {z1}
    FullClone <- MigratorClone
    ShallowClone = {}
    LegacySeeds <- OldRepositories
    LegacyWrites <- OldPushes
    LegacyStops = TRUE
    FinalizeAfter = {"migrated", "exists"}
PROPERTIES
    FinalizeLosesNothing
