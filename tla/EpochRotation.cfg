SPECIFICATION FocusFairSpec
CONSTANTS
    Account = {alice, bob}
    Owner = owner
    Pubkey = {k1, k2}
    Operator = {opA}
    Ref <- Refs
    Epoch <- Epochs
    ExplicitEpoch = {2}
    MaxEpoch = 6
    MaxVersion = 3
    MaxUploads = 6
    MaxFaults = 1
    Foci = {"window", "rekey"}
CONSTRAINT Typed
CHECK_DEADLOCK FALSE
INVARIANTS
    RotationMatchesBundle
    KeyStoreAgrees
    EntriesFromWindow
PROPERTY RekeyFocusCatchesUp
