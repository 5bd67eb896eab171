CONSTANTS
    e1 = e1
    e2 = e2
    none = none
    m1 = m1
    m2 = m2
    noFile = noFile
    badFile = badFile
    a1 = a1
    a2 = a2
    a3 = a3
    EntityIds <- MCEntityIds
    AcsUrls <- MCAcsUrls
    Mappings <- MCMappings
    NoMapping = none
    Unregistered = unregistered
    UrlOf <- MCUrlOf
    NotAUrl = notAUrl
    OnlyNameId <- MCOnlyNameId
    NoFile = noFile
    BadFile = badFile
    NoNameId = "absent"
    Attempts <- MCAttempts
    NoAttempt = noAttempt
    CommandLines <- MCCommandLines
    Posts <- MCPosts
    MaxFaults = 1
SPECIFICATION Spec
SYMMETRY Alike
INVARIANTS
    TypeOK
    RowOfOneAttempt
    RegisteredAsAsked
    LateSaveHasCause
PROPERTIES
    OnlyRegisters
    MappingErasedByRequest
