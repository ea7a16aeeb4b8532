SPECIFICATION FairSpec
INVARIANT TypeOK
INVARIANT DashboardIsCurrent
INVARIANT RefusedWhenReadDifferently
INVARIANT TwinsTakeALostReply
PROPERTY SpinnerEnds
CONSTANTS
    MaxOptions = 3
    Texts <- SomeTexts
    Questions <- SomeQuestions
    Example <- ExampleForm
    MaxPolls = 2
    Scopes <- SomeScopes
    MaxActs = 2
