SPECIFICATION FairSpec
CONSTANTS
    Requests = 3
    Device = {d1, d2, d3, d4}
    Token = {t1, t2, t3, t4}
    None = None
    MaxAttempts = 1
CHECK_DEADLOCK FALSE
INVARIANTS
    AccountsInv
PROPERTIES
    RevokesWhatItSaw
    LockedPairingIsFinal
    RequestEnds
