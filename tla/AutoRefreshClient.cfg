\* Two requests and the background task over four instants.
CONSTANTS
    u1 = u1
    phone = phone
    Users <- MCUsers
    Devices <- MCDevices
    ClientSlot <- MCClientSlot
    Calls = {r1, r2, bg}
    Background = bg
    NoToken = NoToken
    NoSlot = NoSlot
    RefreshLife = 4
    StoreTtl = 4
    AccessLife = 2
    RefreshThreshold = 2
    LockThreshold = 1
    RetryAttempts = 2
    MaxTime = 5
    MaxTokens = 4
SPECIFICATION ClientFairSpec
INVARIANTS
    OneRefreshAtATime
    HeldIsCurrent
PROPERTIES
    TasksEnd
