SPECIFICATION SignedSpec
CONSTANTS
    Account = {owner, alice}
    Owner = owner
    NoAddress = NoAddress
    Pubkey = {k1}
    NoPubkey = NoPubkey
    Ref = {r1}
    NoRef = NoRef
    Hash = {h1}
    Amount = {1}
    SigLifetime = 0
    MaxRequestId = 2
    MaxFundRequestId = 1
    MaxEpoch = 1
    MaxSeq = 1
    MaxNonce = 2
    MaxTime = 1
    MaxEvents = 9
    MaxSigned = 2
SYMMETRY Symmetry
CHECK_DEADLOCK FALSE
CONSTRAINT SignedBound
PROPERTY PauseGuardsEveryFlow
