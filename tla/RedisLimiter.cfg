\* Seconds of two ticks, a window of two seconds, a limit of one: two calls
\* overlap, Redis stops once, and somebody runs cleanup_expired once.
SPECIFICATION RedisSpec
CONSTANTS
    Users = {u1}
    Calls = {c1, c2}
    NoUser = NoUser
    Limit = 1
    Window = 4
    Buffer = 1
    Frac = 2
    MaxTime = 7
    MaxAdmitted = 3
    MaxStops = 1
    MaxCleanups = 1
INVARIANTS WithinLimit
SYMMETRY CallSymmetry
