\* Two sessions that may overlap or follow each other, two sources, one call of
\* any tool.  A server whose sessions have all ended stops.
CONSTANTS
    Sessions = {s1, s2}
    Requests = {r1}
    Web = "tavily"
    Vectors = "qdrant"
    Database = "postgres"
    Sources <- TwoSources
SPECIFICATION Spec
INVARIANTS
    FailureIsContained
    NoSearchOutlivesItsCall
    AloneLeavesNothingOpen
    HealthCheckAnswers
PROPERTIES
    CallsEnd
CHECK_DEADLOCK FALSE
