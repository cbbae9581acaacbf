\* Two dynamic clients with names of their own share two addresses, through
\* lost replies, failed writes, expiry, releases and restarts.
CONSTANTS
    a = a
    b = b
    s = s
    na = na
    nb = nb
    NoMac = NoMac
    NoName = NoName
    Mac = {a, b}
    Name = {na, nb}
    NameOf <- OwnNames
    StaticIp <- NoStatic
    PoolSize = 2
    Task = {t1, t2}
    LeaseTime = 1
    OfferTime = 1
SPECIFICATION Spec
INVARIANTS AckedIsRecorded NamesResolve
CONSTRAINT Uncrossed
VIEW AckedView
SYMMETRY TaskSymmetry
