SPECIFICATION PagesSpec
CONSTANTS
    f1 = f1
    f2 = f2
    f3 = f3
    FormIds = {f1, f2}
    NoId = NoId
    Versions = 3
    Releases <- AnySecondRelease
    Settings <- ConnectionLost
    Processes = {p1, p2}
    Threads = {t1}
    Eager = TRUE
    Container = Container
    PUBLIC_FORM_NAME = PublicForm
    MaxOutages = 2
SYMMETRY Symmetry
INVARIANTS FailsFast ServesPublished
CHECK_DEADLOCK FALSE
