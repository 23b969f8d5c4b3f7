SPECIFICATION FocusSpec
CONSTANTS
    Label = {ops, dev}
    Swarm = {c1, c2, c3}
    Treasury = {none, t1}
    Usual = t1
    None = None
    Here = Here
    Operator = {cli, tab}
    Solo = cli
    First = ops
    Foci = {"one", "two", "misread"}
    MaxRuns = 4
    MaxFaults = 2
    MaxMisreads = 1
CONSTRAINTS
    Focused
    Typed
SYMMETRY Addresses
CHECK_DEADLOCK FALSE
INVARIANTS
    PublishedStays
    WizardAdopts
PROPERTY RetractionHonest
