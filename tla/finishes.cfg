SPECIFICATION FairSpec
CONSTANTS
    Ref <- MCRef
    Commit <- MCCommit
    Reach <- MCReach
    None = None
    NoLease = NoLease
    SupportedFormat = 1
    Pushers = {p1}
    Admins = {a1}
    Compactors = {k1}
    Attempts = 2
    LostReplies = FALSE
    GracePasses = TRUE
    Batches <- MixedBatches
    Holds <- MCHolds
    Partial = {}
    Shallow = {}
    AdminOps <- MixedOps
    Seeds <- MixedSeeds
    NewerClient = TRUE
INVARIANTS
    TypeOK
    RefsResolve
    ReportsHonest
PROPERTIES
    FutureFormatUntouched
    EveryClientFinishes
