\* Two writers and two readers, torn writes, lines that grow too long, Close.
CONSTANTS
    Writers = {w1, w2}
    Readers = {r1, r2}
    Actions <- TwoActions
    Filters <- Creations
    Sizes = {2, 4}
    WriteFaults = TRUE
    MaxTailBytes = 4
    MaxLine = 4
    MaxTime = 1
    MaxSaves = 2
    Nobody = Nobody
SPECIFICATION FairSpec
INVARIANTS
    TypeOK
    ReadIsExact
    NothingLeftOutQuietly
    SavedIsInFile
PROPERTY CallsReturn
