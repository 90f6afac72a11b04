SPECIFICATION Spec
CONSTANTS
    movie = movie
    show = show
    name = name
    Movers = {m1, m2}
    Files = {movie, show}
    NameOf <- SameName
    LongNames = {}
    Contents = {a, b}
    Nothing = Nothing
    CrossDevice = {movie, show}
    TicksPerDay = 2
    TTL = 0
    Faults = {"mkdir", "copy", "cleanup", "unlink", "crash"}
    Changes = {}
    MaxNow = 0
    MaxNumber = 2
PROPERTY NeverUnlinked
PROPERTY NoClobber
CHECK_DEADLOCK FALSE
