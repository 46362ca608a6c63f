SPECIFICATION FairSpec
CONSTANTS
    UpdateInterval = 2
    ForceUpdateAfter = 5
    Size = 2
    Values = {0, 1}
INVARIANTS
    InputNotLost
PROPERTIES
    InputIsShown
    ImplementsLatestValue
