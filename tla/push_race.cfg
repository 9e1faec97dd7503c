SPECIFICATION Spec
CONSTANTS
    Ref <- MCRef
    Commit <- MCCommit
    Reach <- MCReach
    None = None
    NoLease = NoLease
    SupportedFormat = 1
    Pushers = {p1, p2}
    Admins = {a1}
    Compactors = {}
    Attempts = 2
    LostReplies = TRUE
    GracePasses = FALSE
    Batches <- RaceBatches
    Holds <- MCHolds
    Partial = {p2}
    Shallow = {}
    AdminOps <- RaceOps
    Seeds <- RaceSeeds
    NewerClient = FALSE
INVARIANTS
    RefsResolve
    LogValid
    NoLostUpdate
    OkMeansApplied
PROPERTIES
    SeqGrows
    ProtectedNeverRewound
    ImplementsLinearRepo
