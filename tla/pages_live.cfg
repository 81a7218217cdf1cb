SPECIFICATION FairPagesSpec
CONSTANTS
    f1 = f1
    f2 = f2
    f3 = f3
    FormIds = {f1, f2, f3}
    NoId = NoId
    Versions = 2
    Releases <- TwoReleases
    Settings <- FromLocalToAzure
    Processes = {p1}
    Threads = {t1, t2}
    Eager = FALSE
    Container = Container
    PUBLIC_FORM_NAME = PublicForm
    MaxOutages = 2
PROPERTIES LandingPageAppears
CHECK_DEADLOCK FALSE
