SPECIFICATION FairFormSpec
CONSTANTS
    JobIds = {j1, j2}
    Handlers = {h1, h2}
    None = None
    MaxFaults <- OneStop
    Blank = Blank
    WorkerIds = {w1}
    References = {r1}
    ErrorMessages = {e1}
    OverlappingReports = FALSE
    ParameterNames = {particles, release}
    user_email = user_email
    particles = particles
    release = release
    Generated <- Pages
    NumberTexts = {number}
    OtherTexts = {text}
    ValidEmails = {address}
    MaxRequests = 2
    MaxLostAnswers = 1
INVARIANTS FormTypeOK ShownJobsAreEnqueued UntoldJobsHaveACause
PROPERTIES SentAsEntered EverySubmissionIsAnswered
CHECK_DEADLOCK FALSE
