SPECIFICATION FairSpec
CONSTANTS
    movie = movie
    show = show
    name = name
    Movers = {m1}
    Files = {movie, show}
    NameOf <- SameName
    LongNames = {}
    Contents = {a, b}
    Nothing = Nothing
    CrossDevice = {}
    TicksPerDay = 2
    TTL = 1
    Faults = {"rename", "crash"}
    Changes = {"write", "overwrite", "recover"}
    MaxNow = 4
    MaxNumber = 1
INVARIANT TypeOK
PROPERTY NeverUnlinked
PROPERTY NoClobber
PROPERTY PurgedOnTime
PROPERTY MovesEnd
CHECK_DEADLOCK FALSE
