SPECIFICATION FairSpec
INVARIANT TypeOK
INVARIANT ShownUserIsTokens
INVARIANT ActsAsShown
INVARIANT OneSignupWins
PROPERTY EveryCallEnds
CONSTANTS
    t1 = t1
    t2 = t2
    alice = alice
    bob = bob
    Tabs = {t1, t2}
    Emails = {alice, bob}
    Registered = {alice}
    Nobody = Nobody
    MaxAttempts = 2
    UniqueIndex = TRUE
