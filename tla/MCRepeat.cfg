SPECIFICATION Spec
INVARIANT OneVotePerBrowser
CONSTANTS
    NumOptions = 2
    Fingerprints = {f1, f2}
    IPs = {i1, i2}
    Empty = "none"
    Clients <- SomeBrowser
    Choices = {1}
    CreateReq = create
    CastReqs = {v1, v2}
    ResultsReqs = {}
    LoadReqs = {}
    ListReqs = {}
    CloseReqs = {}
    ReopenReqs = {}
    DeleteReqs = {}
    FlakyMongo = {}
    FlakyRedis = {}
    MayExpire = FALSE
    MayEvict = FALSE
    MayCrash = FALSE
    f1 = f1
    f2 = f2
    i1 = i1
    i2 = i2
    v1 = v1
    v2 = v2
