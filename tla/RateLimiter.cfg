\* Three requests a minute of six ticks, five an hour of twelve, bursts of two:
\* each of the three limits is the one that bites in some behaviour.
SPECIFICATION LimiterSpec
CONSTANTS
    Clients = {u1}
    PerMinute = 3
    PerHour = 5
    Burst = 2
    Second = 2
    Minute = 6
    Hour = 12
    MaxTime = 16
    MaxRequests = 8
INVARIANTS WindowLimits BurstBound
PROPERTIES WindowRetryHonoured
