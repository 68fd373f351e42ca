SPECIFICATION ApiSpec
CONSTANTS
    jp = jp
    en = en
    kr = kr
    v1 = v1
    v2 = v2
    h1 = h1
    h2 = h2
    f1 = f1
    f2 = f2
    x1 = x1
    x2 = x2
    obj = obj
    c1 = c1
    c2 = c2
    NoSha = NoSha
    NoRow = NoRow
    NoFp = NoFp
    NoBundle <- EmptyPath
    Servers = {jp, en}
    Paths <- ThePaths
    Bundles <- TheBundles
    Versions = {v1, v2}
    Hashes = {h1, h2}
    Fps = {f1, f2}
    Shas = {x1, x2}
    Keys = {obj}
    SizeOf <- Sizes
    Mp3 <- m
    LegacyTables = {}
    PutRows = {}
    Completions = {}
    MaxRows = 9
    Clients = {c1}
    Scenarios <- TypedScenes
    StartBatches <- Before1
    MaxCommits = 2
    DefaultLimit = 1
    MaxLimit = 2
    MaxCacheItems = 2
    DefaultTypes <- Types
    DefaultMinMp3Size = 2
INVARIANT
    OwnAnswer
