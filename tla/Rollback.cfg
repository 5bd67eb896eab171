CONSTANTS
    job = job
    hand = hand
    e1 = e1
    m1 = m1
    none = none
    Commands <- MCCommands
    Jobs <- MCJobs
    EntityIds <- MCEntityIds
    Mappings <- MCMappings
    NoMapping = none
    Absent = absent
    MaxRuns = 4
    MaxFaults = 2
SPECIFICATION Spec
INVARIANT RollsBackLast
