\* Two files, one with rules of one group apart and names out of order, and
\* three edits in any tabs, with saves, reloads and remounts in between.
CONSTANTS
    Name <- MCName
    Path <- MCPath
    Typed = {"b/cn"}
    BaseOf <- MCBaseOf
    Settings = {"s0", "s2", "random"}
    Blank = "s0"
    Refused = {"random"}
    Subnet = {"net"}
    Null = none
    none = none
    Key = {"", "nas", "tv", "10"}
    NoKey = ""
    Index <- MCIndex
    Sorted <- MCSorted
    Ip = {"ip1", "ip2"}
    NoIp = ""
    Files <- MCFiles
    MaxEdits = 3
    MaxRows = 3
    MaxRules = 3
SPECIFICATION Spec
INVARIANTS TypeOK RulesAreRouted RemountKeepsRules
PROPERTIES RenameKeepsRouting DefaultKept TypingStaysInRow
CONSTRAINT Small
