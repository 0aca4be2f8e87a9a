\* Two requests on a pool of one connection.
SPECIFICATION ApiSpec
CONSTANTS
    r1 = r1
    r2 = r2
    JobTypes <- MCJobTypes
    Requests = {r1, r2}
    Sessions = {r1, r2}
    PoolSize = 1
    MaxOverflow = 0
INVARIANTS
    ApiTypeOK
    CompletedAnswerIsWhole
    AnswersOnlyGrow
PROPERTIES
    OverloadMeansLoad
    
