SPECIFICATION FairSpec
CONSTANTS
    Scenes <- AllScenes
    Ticks = 2
INVARIANTS TypeOK NoSilentChange
PROPERTIES BarsCatchUp SignalsStop
