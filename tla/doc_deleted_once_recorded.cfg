SPECIFICATION ServiceSpec
CONSTANTS
    JobIds = {j1}
    Handlers = {h1, h2}
    None = None
    MaxFaults <- NoFaults
    Blank = Blank
    WorkerIds = {w1}
    References = {r1}
    ErrorMessages = {e1}
    OverlappingReports = FALSE
INVARIANTS DeletedOnceRecorded
CHECK_DEADLOCK FALSE
