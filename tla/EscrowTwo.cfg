SPECIFICATION EscrowSpec
CONSTANTS
    Agent = {atlas, boreas}
    EscrowEpoch = {1, 2}
    Archive = {x}
    NoFile = NoFile
    Proc = {p, q}
    MaxKick = 2
    MaxFault = 0
CHECK_DEADLOCK FALSE
INVARIANT RotationKills
