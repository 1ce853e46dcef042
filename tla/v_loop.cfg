SPECIFICATION FairSpec
CONSTANTS
    Scenes <- OneBar
    Ticks = 2
PROPERTY SignalsAreForChanges
CHECK_DEADLOCK FALSE
