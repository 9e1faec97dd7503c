SPECIFICATION Spec
CONSTANTS
    Ref <- MCRef
    Commit <- MCCommit
    Reach <- MCReach
    None = None
    NoLease = NoLease
    SupportedFormat = 1
    Pushers = {p1}
    Admins = {}
    Compactors = {}
    Attempts = 2
    LostReplies = TRUE
    GracePasses = FALSE
    Batches <- MainPush
    Holds <- MCHolds
    Partial = {}
    Shallow = {}
    AdminOps = {}
    Seeds <- MainAt2Only
    NewerClient = FALSE
INVARIANTS
    ExhaustedMeansUncommitted
