SPECIFICATION Spec
CONSTANTS
    Torrents = {t1, t2}
    Blank = Blank
    MaxFiles = 2
INVARIANTS
    SavedIsLoaded
CHECK_DEADLOCK FALSE
