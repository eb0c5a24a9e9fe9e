SPECIFICATION Spec
CONSTANTS
    c1 = c1
    c2 = c2
    c3 = c3
    a = a
    b = b
    t1 = t1
    t2 = t2
    Conn = {c1, c2, c3}
    Ip = {a, b}
    IpOf <- MCIpOf
    Ticket = {t1, t2}
    MaxPerSec = 1
    MaxPerIp = 1
    TicketTtl = 1
    Threshold = 1
    Window = 1
    BanDuration = 1
    MaxEntries = 1
    MaxClock = 1
INVARIANTS
    AdmissionInv
    CeilingUnlessRewound
PROPERTIES
    BanServed
CHECK_DEADLOCK FALSE
