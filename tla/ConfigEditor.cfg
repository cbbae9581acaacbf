CONSTANTS
    Page = {p1, p2}
    Section = {"firewall"}
    Optional = {"firewall"}
    Null = Null
    Nobody = Nobody
    MaxEdits = 2
    MaxCalls = 4
SPECIFICATION FairSpec
INVARIANTS TypeOK CleanIsServed OwnSaveShown EditsKept
PROPERTIES Settles
CHECK_DEADLOCK FALSE
