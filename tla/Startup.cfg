CONSTANTS
    r1 = r1
    r2 = r2
    Requests <- MCRequests
    Settings <- MCSettings
    MaxFaults = 2
SPECIFICATION FairSpec
INVARIANTS
    TypeOK
    ServesWhenSufficient
    ScrapeTells
    PanicsWhenUntraceable
PROPERTIES
    ServesInTheEnd
