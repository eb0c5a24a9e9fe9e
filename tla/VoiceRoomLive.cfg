SPECIFICATION FairSpec
CONSTANTS
    p1 = p1
    p2 = p2
    p3 = p3
    ann = ann
    bob = bob
    NoPeer = NoPeer
    Peer = {p1, p2}
    User = {ann, bob}
    UserOf <- MCUserOf
    Mod = {}
    MaxParticipants = 1
    MaxSubRoom = 2
    DeleteAfter = 1
INVARIANT
    CapacityRespected
PROPERTIES
    ArmedSubRoomExpires
    
