SPECIFICATION MemberSpec
CONSTANTS
    Account = {owner, alice, bob}
    Owner = owner
    NoAddress = NoAddress
    Pubkey = {k1, k2}
    NoPubkey = NoPubkey
    Ref = {r1}
    NoRef = NoRef
    Hash = {h1}
    Amount = {}
    SigLifetime = 0
    MaxRequestId = 3
    MaxFundRequestId = 0
    MaxEpoch = 2
    MaxSeq = 2
    MaxNonce = 0
    MaxTime = 0
    MaxEvents = 4
    MaxSigned = 0
SYMMETRY Symmetry
CHECK_DEADLOCK FALSE
CONSTRAINTS
    MemberBound
    Typed
INVARIANTS
    RosterLedger
    MessagesFollowEpochs
PROPERTIES
    VersionNamesRoster
    RefinesRegistry
