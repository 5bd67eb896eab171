SPECIFICATION Spec
CONSTANTS
    Tokens <- MCTokens
    AttributeMappings <- MCMappings
    LowerCase <- MCLowerCase
    Urns <- MCUrns
    Absent = Absent
CHECK_DEADLOCK FALSE
INVARIANTS
    AnyClaimCanBeMapped
