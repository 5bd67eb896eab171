CONSTANTS
    job = job
    hand = hand
    e1 = e1
    m1 = m1
    none = none
    Commands <- MCCommands
    Jobs <- MCJobs
    EntityIds <- MCEntityIds
    Mappings <- MCMappings
    NoMapping = none
    Absent = absent
    MaxRuns = 4
    MaxFaults = 2
SPECIFICATION FairSpec
INVARIANTS
    TypeOK
    VersionTrue
    MappingKept
    CheckTold
PROPERTIES
    DownReaches
    Migrated
