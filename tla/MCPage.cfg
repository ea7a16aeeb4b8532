SPECIFICATION FairSpec
INVARIANT TypeOK
INVARIANT NothingOutlivesItsPage
INVARIANT StatusTellsTruth
INVARIANT VotedMeansCounted
INVARIANT OwnVoteShown
INVARIANT ChartAddsUp
PROPERTY ComesBack
PROPERTY HeardIsShown
CONSTANTS
    Yes = Yes
    No = No
    Options = {Yes, No}
    OwnOptions = {Yes}
    OtherOptions = {No}
    MaxVotes = 2
    MaxVisits = 2
    MaxLosses = 1
