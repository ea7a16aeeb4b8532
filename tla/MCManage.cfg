SPECIFICATION Spec
INVARIANT AnswersTellStorage
INVARIANT ClosedRefusesLaterVotes
INVARIANT MissingPollTakesNoVote
PROPERTY DeletedForGood
PROPERTY ImplementsBallot
CONSTANTS
    NumOptions = 2
    Fingerprints = {f1, f2}
    IPs = {i1, i2}
    Empty = "none"
    Clients <- SomeBrowser
    Choices = {1}
    CreateReq = create
    CastReqs = {v1}
    ResultsReqs = {}
    LoadReqs = {}
    ListReqs = {}
    CloseReqs = {close}
    ReopenReqs = {reopen}
    DeleteReqs = {delete}
    FlakyMongo = {v1, close, delete}
    FlakyRedis = {delete}
    MayExpire = TRUE
    MayEvict = FALSE
    MayCrash = TRUE
    f1 = f1
    f2 = f2
    i1 = i1
    i2 = i2
    v1 = v1
    v2 = v2
