SPECIFICATION Spec
CONSTANTS
    Ref <- MCRef
    Commit <- MCCommit
    Reach <- MCReach
    None = None
    NoLease = NoLease
    SupportedFormat = 1
    Pushers = {p1}
    Admins = {}
    Compactors = {k1}
    Attempts = 2
    LostReplies = FALSE
    GracePasses = TRUE
    Batches <- SidePush
    Holds <- MCHolds
    Partial = {}
    Shallow = {}
    AdminOps = {}
    Seeds <- DroppedOnly
    NewerClient = FALSE
INVARIANTS
    NoMissingPack
