SPECIFICATION PipelineSpec
CONSTANTS
    None = None
    Branches = {b1, b2}
    Runs = {r1, r2}
    Versions <- ThreeVersions
    FirstVersion <- First
    MaxEvents = 6
    MaxUnsound = 1
SYMMETRY Symmetry
INVARIANTS PipelineTypeOK VersionsRise OnlyReleasedCode GreenMeansServing
CHECK_DEADLOCK FALSE
