SPECIFICATION Spec
CONSTANTS
    Ref <- MCRef
    Commit <- MCCommit
    Reach <- MCReach
    None = None
    NoLease = NoLease
    SupportedFormat = 1
    Pushers = {p1}
    Admins = {a1}
    Compactors = {k1}
    Attempts = 2
    LostReplies = FALSE
    GracePasses = FALSE
    Batches <- MainPush
    Holds <- MCHolds
    Partial = {}
    Shallow = {}
    AdminOps <- MainDeletion
    Seeds <- ForkedOnly
    NewerClient = FALSE
INVARIANTS
    RefsResolve
