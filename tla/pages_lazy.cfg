SPECIFICATION PagesSpec
CONSTANTS
    f1 = f1
    f2 = f2
    f3 = f3
    FormIds = {f1, f2, f3}
    NoId = NoId
    Versions = 2
    Releases <- TwoReleases
    Settings <- InAzure
    Processes = {p1, p2}
    Threads = {t1, t2}
    Eager = FALSE
    Container = Container
    PUBLIC_FORM_NAME = PublicForm
    MaxOutages = 1
SYMMETRY Symmetry
INVARIANTS PagesTypeOK LinkedPagesAreCurrent
CHECK_DEADLOCK FALSE
