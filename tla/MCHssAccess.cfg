\* Two workers and three clients; the counter comes round after three numbers,
\* so that a number that was read may come back before it is compared.
SPECIFICATION FairSpec
CONSTANTS
    Worker = {w1, w2}
    None = None
    Modulus = 3
    Step = 1
    PoolSize = 3
    MaxRetries = 2
    MaxCalls = 5
    MaxEdits = 1
    MaxFailures = 1
    Requests <- MCRequests
INVARIANT PoolConsistent
PROPERTIES ConflictMeansProgress OneCounter CallsReturn
CHECK_DEADLOCK FALSE
