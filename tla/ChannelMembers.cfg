SPECIFICATION FairSpec
CONSTANTS
    User = {o, a}
    Owner = o
    VoiceUser = {a}
    Code = {c1, c2}
    Task = {k1, k2}
    None = None
    MaxUses = 1
CHECK_DEADLOCK FALSE
INVARIANTS
    ChannelInv
    UsesAreJoins
    
PROPERTIES
    RequestEnds
    BanOutlivesJoins
