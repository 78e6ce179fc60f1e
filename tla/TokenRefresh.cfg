\* Two devices of one user, two calls at a time, three tokens: rotation, logout
\* of one device and of all, failures, and keys that reach their TTL.
CONSTANTS
    Users = {u1}
    Devices = {phone, laptop}
    Calls = {c1, c2}
    NoToken = NoToken
    NoSlot = NoSlot
    RefreshLife = 1
    StoreTtl = 1
    MaxTime = 1
    MaxTokens = 3
SYMMETRY CallSymmetry
SPECIFICATION Spec
INVARIANTS
    RotationRetires
    PromisedLifetime
    RevokeAllComplete
PROPERTIES
    QuietStaysQuiet
    OneLifePerToken
