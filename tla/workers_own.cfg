SPECIFICATION WorkersSpec
CONSTANTS
    JobIds = {j1, j2}
    Handlers = {h1, h2}
    None = None
    MaxFaults <- OneOfEachButExpiry
    MaxMishaps <- EveryMishap
    Blank = Blank
    WorkerIds = {w1, w2}
    References = {r1}
    ErrorMessages = {e1}
    OverlappingReports = TRUE
SYMMETRY Symmetry
INVARIANTS WorkersTypeOK RunnersOwnTheirJob RowCoherent EveryLossHasACause
PROPERTIES RefusalMeansReported
CHECK_DEADLOCK FALSE
