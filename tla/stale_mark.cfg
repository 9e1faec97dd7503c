SPECIFICATION FairClonesSpec
CONSTANTS
    Ref <- MCRef
    Commit <- MCCommit
    Reach <- MCReach
    None = None
    NoLease = NoLease
    SupportedFormat = 1
    Attempts = 2
    LostReplies = FALSE
    Holds <- MCHolds
    Partial = {}
    Shallow = {}
    NewerClient = FALSE
    clone1 = clone1
    Clones = {clone1}
    CloneOf <- OneClone
    Pushers = {}
    Admins = {a1}
    Compactors = {k1}
    GracePasses = FALSE
    Batches <- FetchPushes
    AdminOps <- StaleOps
    Seeds <- StaleSeeds
    Fetchers = {f1}
    ByURL = {}
    MarksFound = {0, 2, 9}
    ObjectsFound <- StaleClones
    Prunes = TRUE
INVARIANTS
    IncompleteMeansGone
PROPERTIES
    FetchDelivers
    EveryFetchEnds
