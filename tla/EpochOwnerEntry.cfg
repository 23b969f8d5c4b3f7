SPECIFICATION FocusSpec
CONSTANTS
    Account = {alice, owner}
    Owner = owner
    Pubkey = {k1}
    Operator = {opA}
    Ref <- Refs
    Epoch <- Epochs
    ExplicitEpoch = {}
    MaxEpoch = 1
    MaxVersion = 2
    MaxUploads = 1
    MaxFaults = 0
    Foci = {"rekey"}
CHECK_DEADLOCK FALSE
INVARIANT OwnerEscrowEntry
