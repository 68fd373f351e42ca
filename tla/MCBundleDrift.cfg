SPECIFICATION StoreSpec
CONSTANTS
    jp = jp
    en = en
    p1 = p1
    p2 = p2
    b1 = b1
    b2 = b2
    v1 = v1
    v2 = v2
    f1 = f1
    f2 = f2
    x = x
    k = k
    h1 = h1
    Hashes = {h1}
    Servers = {jp, en}
    Paths = {p1, p2}
    Versions = {v1, v2}
    Fps = {f1, f2}
    Shas = {x}
    Keys = {k}
    Bundles = {b1, b2}
    NoBundle = NoBundle
    NoSha = NoSha
    NoRow = NoRow
    PutRows <- RowsTwoBundles
    Completions <- OneCompletion
    LegacyTables <- Legacy
    MaxRows = 3
INVARIANTS
    NoBundleDrift
