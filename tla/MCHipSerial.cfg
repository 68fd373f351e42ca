SPECIFICATION SerialSpec
CONSTANTS
    jp = jp
    en = en
    p1 = p1
    p2 = p2
    b1 = b1
    v1 = v1
    v2 = v2
    f1 = f1
    f2 = f2
    f3 = f3
    x1 = x1
    x2 = x2
    x3 = x3
    j1 = j1
    j2 = j2
    e1 = e1
    e2 = e2
    r1 = r1
    m1 = m1
    m2 = m2
    h1 = h1
    Hashes = {h1}
    Servers = {jp, en}
    Versions = {v1, v2}
    Bundles = {b1}
    NoBundle = NoBundle
    NoSha = NoSha
    NoRow = NoRow
    Keys <- AllKeys
    LegacyTables <- NoLegacy
    PutRows <- AllRows
    Completions <- AllCompletions
    ServerOf <- ServerMap
    VersionOf <- VersionMap
    HashOf <- HashMap
    RunOf <- RunMap
    Declared <- OffersDeclared
    Paths = {p1, p2}
    Fps = {f1, f2, f3}
    Shas = {x1, x2, x3}
    Sessions = {j1, e1, j2, e2}
    Streams = {m1, m2}
    Offers <- OffersDiverge
    MaxRows = 9
    MaxPending = 1
    MaxLeaks = 0
    MaxCrashes = 1
SYMMETRY StreamSymmetry
INVARIANTS
    PublishedServed
    OneSharedBaseline
    SharedBytesFixed
    FinalBytesVerified
    IncrementalIsRebuild
    ReuseBacked
PROPERTIES
    UploadedRecorded
    RetryChangesNothing
CHECK_DEADLOCK FALSE
