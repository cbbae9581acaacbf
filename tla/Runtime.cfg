\* Four configurations, two overlapping calls and three search-domain changes,
\* with exits, crashes and failures at every step.
CONSTANTS
    Body <- MCBody
    Factory <- MCFactory
    DomainOf <- MCDomainOf
    Hash <- MCHash
    Call = {c1, c2}
    MaxHosts = 3
SPECIFICATION Spec
INVARIANTS NeverDeaf SettledAgrees NoStrayRules ResolvRestored
CONSTRAINT Orderly
VIEW View
