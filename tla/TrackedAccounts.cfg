SPECIFICATION Spec
CONSTANTS
    Dids <- MCDids
    Gone <- MCGone
    BatchSize = 2
    MaxEvents = 3
    InitiallyOpen <- MCOpen
CHECK_DEADLOCK FALSE
INVARIANT TypeOK
INVARIANT ListedAreTracked
PROPERTY RefreshHappens
PROPERTY LoadsArrive
