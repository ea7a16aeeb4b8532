SPECIFICATION Spec
INVARIANT TypeOK
INVARIANT CountsExact
INVARIANT TallyBracketed
INVARIANT TallyMonotone
CONSTANTS
    NumOptions = 2
    Fingerprints = {f1, f2}
    IPs = {i1, i2}
    Empty = "none"
    Clients <- SomeBrowser
    Choices = {1}
    CreateReq = create
    CastReqs = {v1}
    ResultsReqs = {results}
    LoadReqs = {load}
    ListReqs = {list}
    CloseReqs = {}
    ReopenReqs = {}
    DeleteReqs = {}
    FlakyMongo = {}
    FlakyRedis = {load, list}
    MayExpire = FALSE
    MayEvict = FALSE
    MayCrash = TRUE
    f1 = f1
    f2 = f2
    i1 = i1
    i2 = i2
    v1 = v1
    v2 = v2
