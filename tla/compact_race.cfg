SPECIFICATION MigrationSpec
SYMMETRY Symmetry
CONSTANTS
    Ref <- MCRef
    Commit <- MCCommit
    Reach <- MCReach
    None = None
    NoLease = NoLease
    SupportedFormat = 1
    Pushers = {p1}
    Admins = {}
    Compactors = {k1, k2}
    Attempts = 2
    LostReplies = FALSE
    GracePasses = TRUE
    Batches <- CompactBatches
    Holds <- MCHolds
    Partial = {}
    Shallow = {}
    AdminOps = {}
    Seeds <- CompactSeeds
    NewerClient = FALSE
    Doctors = {d1}
    Migrators = {}
    Finalizers = {}
    FullClone <- MigratorClone
    ShallowClone = {}
    LegacySeeds = {{}}
    LegacyWrites = {}
    LegacyStops = TRUE
    FinalizeAfter = {}
CONSTRAINT
    DoctorOrSecondCompactor
INVARIANTS
    NoMissingPack
    InFlightKept
PROPERTIES
    AlarmMeansReplaced
    PacksBuiltAnew
