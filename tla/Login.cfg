SPECIFICATION Spec
CONSTANTS
    t1 = t1  t2 = t2  a1 = a1  a2 = a2  r1 = r1  r2 = r2  e1 = e1  acs1 = acs1  m1 = m1
    NoUser = NoUser
    NoMapping = NoMapping
    Unregistered = Unregistered
    NoRequest = NoRequest
    EntityIds = {e1}
    AcsUrls = {acs1}
    Mappings = {NoMapping, m1}
    Texts = {"id1", "id2", "x", "https"}
    Agents = {a1, a2}
    Tabs = {t1, t2}
    AgentOf <- AgentEach
    Doubtful = {a2}
    Requests = {r1, r2}
    IdOf <- TwoIds
    IssuerOf <- TwoIssuers
    RelayOf <- TwoRelays
    MethodOf <- TwoGets
    InitialConfig <- PlainConfig
    Registrations <- Settled
    SessionIds <- TwoReadings
    SessionTTL = 1
    MaxIssueDelay = 0
    UniqueReadings = FALSE
    MaxTime = 1
    MaxFaults = 1
    MaxReloads = 1
INVARIANTS
    TypeOK
    ResponseIdentity
    AnswersAsked
    CapturedUnlessRaced
    FailuresExplained
PROPERTIES
    LeavesByItsCallback
