SPECIFICATION FairWorkersSpec
CONSTANTS
    JobIds = {j1}
    Handlers = {h1, h2}
    None = None
    MaxFaults <- NoFaults
    MaxMishaps <- LostReports
    Blank = Blank
    WorkerIds = {w1}
    References = {r1}
    ErrorMessages = {e1}
    OverlappingReports = TRUE
PROPERTIES TerminalIsFinal
CHECK_DEADLOCK FALSE
