SPECIFICATION Spec
INVARIANT LastOneOutCloses
CONSTANTS
    c1 = c1
    c2 = c2
    Clients = {c1}
    NoClient = NoClient
    SendCap = 1
    MaxEvents = 2
    MayDisconnect = FALSE
