SPECIFICATION FairReadSpec
CONSTANTS
    jp = jp
    en = en
    kr = kr
    p1 = p1
    b1 = b1
    v1 = v1
    v2 = v2
    f1 = f1
    f2 = f2
    x = x
    k = k
    r1 = r1
    h1 = h1
    Hashes = {h1}
    Servers = {jp, en, kr}
    Paths = {p1}
    Versions = {v1, v2}
    Fps = {f1, f2}
    Shas = {x}
    Keys = {k}
    Bundles = {b1}
    NoBundle = NoBundle
    NoSha = NoSha
    NoRow = NoRow
    LegacyTables <- Legacy
    PutRows <- RowsMove
    Completions <- NoCompletions
    MaxRows = 3
    MaxItems = 2
    Ttl = 2
    Readers = {r1}
    MaxCommits = 2
INVARIANTS
    ReadTypeOK
    StaleOnlyByRace
    LookupFinds
    RegionIsolation
PROPERTIES
    StaleEnds
