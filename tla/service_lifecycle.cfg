SPECIFICATION FairServiceSpec
CONSTANTS
    JobIds = {j1, j2}
    Handlers = {h1, h2}
    None = None
    MaxFaults <- TwoCrashesAndTimeouts
    Blank = Blank
    WorkerIds = {w1, w2}
    References = {r1}
    ErrorMessages = {e1}
    OverlappingReports = FALSE
INVARIANTS ServiceTypeOK ClaimFindsJob OneFaultOneLoss
PROPERTIES ImplementsLifecycle EveryMessageIsTaken
CHECK_DEADLOCK FALSE
