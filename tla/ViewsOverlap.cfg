SPECIFICATION FocusSpec
CONSTANTS
    NumSwarms = 2
    Published <- Alone
    Treasury = {t1, t2}
    Active = t1
    Account = {founder, bob}
    founder = founder
    bob = bob
    Nobody = Nobody
    Founders <- OneFounder
    Amount = {1, 2}
    MaxJoins = 3
    MaxRequests = 2
    MaxEpoch = 1
    MaxEvents = 12
    Foci = {"roster"}
CHECK_DEADLOCK FALSE
CONSTRAINTS
    Typed
INVARIANT PendingAwaits
