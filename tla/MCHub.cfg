SPECIFICATION FairSpec
INVARIANT TypeOK
INVARIANT MembersAreServed
INVARIANT NothingSkipped
INVARIANT AtMostOnce
INVARIANT PanicTakesTwo
PROPERTY DroppedIsTold
PROPERTY GoneLeaves
PROPERTY DueIsDelivered
CONSTANTS
    c1 = c1
    c2 = c2
    Clients = {c1, c2}
    NoClient = NoClient
    SendCap = 1
    MaxEvents = 2
    MayDisconnect = TRUE
