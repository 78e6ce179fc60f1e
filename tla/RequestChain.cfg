CONSTANTS
    Tasks = {t1, t2}
    Users = {u1}
    Nobody = Nobody
    RowRoles = {"user"}
    RoleSets <- MCRoleSets
    Keys <- MCKeys
    Grants <- MCGrants
    Matches <- MCMatches
    Changes <- MCChanges
    MaxCalls = 3
    Inheritance = TRUE
    Chains <- MCChains
    Requests <- MCRequests
SPECIFICATION Spec
INVARIANTS CacheIsCurrent AllowedIsChecked RefusedNeverRan AccountsAgree
CHECK_DEADLOCK FALSE
SYMMETRY TaskSymmetry
