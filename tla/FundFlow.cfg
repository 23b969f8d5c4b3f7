SPECIFICATION FocusSpec
CONSTANTS
    Swarm = {s1, s2}
    Treasury = {t1, t2}
    Account = {owner, bob}
    Owner = owner
    Member = {owner}
    NoAddress = NoAddress
    Amount = {1}
    Funds = 1
    MaxRequest = 2
    MaxSigned = 2
SYMMETRY Symmetry
CHECK_DEADLOCK FALSE
CONSTRAINTS
    Focused
    Typed
INVARIANTS
    Accounted
    OneIntentPerNonce
    SignedTermsKept
PROPERTY DecidedForEver
