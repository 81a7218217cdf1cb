SPECIFICATION EndpointsSpec
CONSTANTS
    h1 = h1
    h2 = h2
    p1 = p1
    p2 = p2
    JobIds = {j1}
    Handlers = {h1, h2}
    None = None
    MaxFaults <- EveryFault
    Blank = Blank
    WorkerIds = {w1, w2}
    References = {r1}
    ErrorMessages = {e1}
    OverlappingReports = FALSE
    Hosts = {p1, p2}
    HostOf <- OneEach
    MaxOutages = 1
SYMMETRY Symmetry
INVARIANTS EndpointsTypeOK AnswersAreCurrent RefusalsChangeNothing FailuresHaveACause ServiceIsComplete ClaimStillCurrent OnlyClaimantReports HandedOutOnce RowCoherent OneFaultOneLoss
PROPERTIES OwnerIsStable WritesAreAllowed
CHECK_DEADLOCK FALSE
