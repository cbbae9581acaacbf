\* Two tasks, two names, four routers one after the other.
CONSTANTS
    s1 = s1
    s2 = s2
    block = block
    None = None
    Reqs = {q1, q2}
    Names = {"ad", "host"}
    Servers = {s1, s2, block}
    Rcode = {block}
    Ttls = {3}
    Timeout = 1
    Configs <- MCConfigs
SPECIFICATION Spec
INVARIANTS TypeOK
PROPERTIES StaticNamesWin AnsweredByTheRules BlockedIsRestored FailsOnlyIfAllFail KeptNoLonger
CONSTRAINT OneHost
SYMMETRY Symmetry
VIEW View
ACTION_CONSTRAINT Closed
