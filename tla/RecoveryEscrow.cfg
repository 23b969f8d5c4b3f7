SPECIFICATION FairSpec
CONSTANTS
    Agent = {atlas}
    EscrowEpoch = {1, 2}
    Archive = {x, y}
    NoFile = NoFile
    Proc = {p}
    MaxKick = 2
    MaxFault = 2
CONSTRAINT Typed
CHECK_DEADLOCK FALSE
INVARIANTS
    HeaderOpensBody
    SweptRestores
    RotationKills
PROPERTY SweepCompletes
