SPECIFICATION Spec
CONSTANTS
    p1 = p1
    p2 = p2
    p3 = p3
    ann = ann
    bob = bob
    NoPeer = NoPeer
    Peer = {p1, p2}
    User = {ann, bob}
    UserOf <- MCUserOf
    Mod = {m1}
    MaxParticipants = 2
    MaxSubRoom = 2
    DeleteAfter = 1
INVARIANTS
    AssignmentsAgree
    DeadlineIffEmpty
    PassthroughValid
    RoomInv

    
