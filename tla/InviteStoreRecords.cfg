SPECIFICATION FairSpec
CONSTANTS
    Code = {c1, c2, c3}
    Room = {r1, r2}
    MaxUses = 2
    TTL = 1
    MaxPerRoom = 2
    MaxGlobal = 3
INVARIANTS
    StoreInv
    UsesAccounted
PROPERTIES
    DeadStaysDead
    LimitIsTemporary
