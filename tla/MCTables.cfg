\* Two goroutines everywhere.  Three trips in a cache of two; two names, three
\* values and three instants; two registrations of a policy that may overlap,
\* windows of two instants; four records in any order of three times, of which
\* an index keeps two.
SPECIFICATION Spec
CONSTANTS
    c1 = c1
    c2 = c2
    r1 = r1
    r2 = r2
    r3 = r3
    Handlers = {c1, c2}
    Trips = {r1, r2, r3}
    Capacity = 2
    MaxVersion = 2
    Nothing = Nothing
    Names = {k1, k2}
    Getters = {c1, c2}
    LastInstant = 2
    MaxPuts = 3
    NoName = NoName
    Callers = {c1, c2}
    Registrations <- Calls
    Policy <- SomePolicies
    Window = 2
    MaxTime = 3
    KeepLast = 2
    Moments = {1, 2, 3}
    MaxRecords = 4
SYMMETRY Symmetry
CHECK_DEADLOCK FALSE
INVARIANTS
    HoldsTheMostRecent
    EntriesAreComputed
    WindowWithinLimit
    TwoPeriodsAtMost
    LatestIsNewest
    CountsAreExact
PROPERTIES
    HitIsLive
