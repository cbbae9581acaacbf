\* As Runtime, for what the listener answers with after an update.
CONSTANTS
    Body <- MCBody
    Factory <- MCFactory
    DomainOf <- MCDomainOf
    Hash <- MCHash
    Call = {c1, c2}
    MaxHosts = 3
SPECIFICATION Spec
INVARIANT ServesNewRouting
CONSTRAINT Orderly
VIEW View
