\* One dynamic client and one with a static binding share two addresses; two
\* tasks run at once. Cut off at the first blamed step.
CONSTANTS
    a = a
    b = b
    s = s
    na = na
    nb = nb
    NoMac = NoMac
    NoName = NoName
    Mac = {a, s}
    Name = {}
    NameOf <- Nameless
    StaticIp <- OneStatic
    PoolSize = 2
    Task = {t1, t2}
    LeaseTime = 1
    OfferTime = 1
SPECIFICATION Spec
INVARIANTS AddressesApart
CONSTRAINT Blameless
SYMMETRY TaskSymmetry
