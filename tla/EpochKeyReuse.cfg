SPECIFICATION FocusSpec
CONSTANTS
    Account = {alice, bob}
    Owner = owner
    Pubkey = {k1}
    Operator = {opA}
    Ref <- Refs
    Epoch <- Epochs
    ExplicitEpoch = {}
    MaxEpoch = 1
    MaxVersion = 2
    MaxUploads = 2
    MaxFaults = 1
    Foci = {"rekey"}
CHECK_DEADLOCK FALSE
INVARIANT NewKeyPerRoster
