SPECIFICATION RegistrySpec
CONSTANTS
    p1 = p1
    p2 = p2
    p3 = p3
    c1 = c1
    c2 = c2
    NoPeer = NoPeer
    NoCode = NoCode
    Peer = {p1, p2, p3}
    Setups <- MCSetups
    MaxObjects = 2
    Code = {c1, c2}
    Room = {r1}
    TheRoom = r1
    MaxUses = 2
    TTL = 1
    MaxPerRoom = 2
    MaxGlobal = 2
SYMMETRY Symmetry
CHECK_DEADLOCK FALSE
INVARIANTS
    
    InviteUseIsAdmission
    JoinsRespectCapacity
