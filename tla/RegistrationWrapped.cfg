SPECIFICATION FocusSpec
CONSTANTS
    Tab = {t1, t2}
    DisplayName = {n1, n2}
    None = None
    Foci = {"one"}
    Solo = t1
    Wraps = {FALSE, TRUE}
    MinAge = 1
    Term = 3
    MaxTime = 4
    MaxLag = 2
    MaxRuns = 3
    MaxFaults = 2
    MaxMisreads = 1
CONSTRAINTS
    Focused
    Typed
SYMMETRY Names
CHECK_DEADLOCK FALSE
PROPERTY
    ResumesWrapped

