SPECIFICATION Spec
CONSTANTS
    Kinds <- MCKinds
    Colors <- MCColors
    Brightnesses = {100}
    Kelvins = {3125, 7000}
    Levels = {0, 200}
    MaxSteps = 3
    MinKelvin = 2000
    MaxKelvin = 6500
CHECK_DEADLOCK FALSE
INVARIANTS
    TypeOK
    StateShowsChannels
    OnIfLit
    CommandsMakeVisible
    LastIsWhatWasShown
