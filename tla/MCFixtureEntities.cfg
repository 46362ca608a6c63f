SPECIFICATION Spec
CONSTANTS
    Base = 16
    Fixtures <- MCFixtures
    Levels = {0, 7, 12}
    None = None
    MaxSteps = 3
CHECK_DEADLOCK FALSE
INVARIANTS
    TypeOK
    SelectShowsChannel
    LatestCommandStays
    RestoredOptionStays
    AvailableNumberShows
    OnlyCurrentAvailable
    SelectedIsShown
