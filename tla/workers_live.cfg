SPECIFICATION FairWorkersSpec
CONSTANTS
    JobIds = {j1, j2}
    Handlers = {h1, h2}
    None = None
    MaxFaults <- OneOverdue
    MaxMishaps <- LostReports
    Blank = Blank
    WorkerIds = {w1, w2}
    References = {r1}
    ErrorMessages = {e1}
    OverlappingReports = TRUE
PROPERTIES EveryJobEnds ImplementsPort
CHECK_DEADLOCK FALSE
