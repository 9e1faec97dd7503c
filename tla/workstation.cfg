SPECIFICATION WorkstationSpec
SYMMETRY Symmetry
CONSTANTS
    Bucket = {"b1", "b2"}
    Dns = "dns"
    Region = {"r1", "r2"}
    None = None
    Ours = Ours
    Foreign = Foreign
    Clones <- MCClones
    MaxMoves = 1
    Sessions = {h1, h2, h3}
    Installers = {i1}
    Unbuilt = Unbuilt
    Ref = {"main", "side"}
    NoLease = NoLease
    Batches <- MCBatches
    MaxTalk = 2
CONSTRAINT
    OneTalks
    ThirdSession
INVARIANTS
    WorkstationTypeOK
    BatchesAsMeant
    QuietMeansBound
PROPERTIES
    CalmNeverRedirected
