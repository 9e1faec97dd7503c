SPECIFICATION ClonesSpec
SYMMETRY FetcherSymmetry
CONSTANTS
    Ref <- MCRef
    Commit <- MCCommit
    Reach <- MCReach
    None = None
    NoLease = NoLease
    SupportedFormat = 1
    Attempts = 2
    LostReplies = FALSE
    Holds <- MCHolds
    Partial = {}
    Shallow = {}
    NewerClient = FALSE
    clone1 = clone1
    Clones = {clone1}
    CloneOf <- OneClone
    Pushers = {p1}
    Admins = {}
    Compactors = {k1}
    GracePasses = FALSE
    Batches <- FetchPushes
    AdminOps = {}
    Seeds <- GrownOnly
    Fetchers = {f1, f2}
    ByURL = {}
    MarksFound = {0}
    ObjectsFound = {{}}
    Prunes = FALSE
INVARIANTS
    FetchTypeOK
    MarkSound
    MissingMeansReplaced
