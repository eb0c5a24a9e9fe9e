SPECIFICATION Spec
CONSTANTS
    h = h
    g = g
    j = j
    Peer = {h, g, j}
    Host = {h}
    Present = {h, g}
    Legacy = {g}
    MaxViewers = 1
    Budget = 3
INVARIANTS
    SharesInv
    HostMuteHolds
    ViewsAgree
    WatchersLeave
CHECK_DEADLOCK FALSE
