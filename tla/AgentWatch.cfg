SPECIFICATION FocusFairSpec
CONSTANTS
    Account = {me, peer}
    Me = me
    Peer = peer
    Pubkey = {k}
    Ref = {r}
    Process = {p1, p2}
    Watcher = {p1}
    Treasury = {t1, t2}
    None = None
    Test = Test
    Epoch <- Epochs
    MaxEpoch = 2
    Foci = {"backup", "message", "payout"}
    LookBack = 2
    MaxBlock = 4
    MaxSeq = 2
    MaxPush = 1
    MaxCrash = 1
CONSTRAINTS
    Focused
    Typed
CHECK_DEADLOCK FALSE
INVARIANTS
    WatchedInOrder
    ArchivesOpen
    FreshArchive
    SequencesDense
PROPERTY RequestsServed
