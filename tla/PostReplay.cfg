SPECIFICATION Spec
CONSTANTS
    t1 = t1  t2 = t2  a1 = a1  a2 = a2  r1 = r1  r2 = r2  e1 = e1  acs1 = acs1  m1 = m1
    NoUser = NoUser
    NoMapping = NoMapping
    Unregistered = Unregistered
    NoRequest = NoRequest
    EntityIds = {e1}
    AcsUrls = {acs1}
    Mappings = {NoMapping, m1}
    Texts = {"id1", "id2", "x", "https"}
    Agents = {a1}
    Tabs = {t1}
    AgentOf <- AgentOne
    Doubtful = {}
    Requests = {r1}
    IdOf <- OneId
    IssuerOf <- OneIssuer
    RelayOf <- OneRelay
    MethodOf <- OnePost
    InitialConfig <- PlainConfig
    Registrations <- Settled
    SessionIds <- TwoReadings
    SessionTTL = 1
    MaxIssueDelay = 1
    UniqueReadings = TRUE
    MaxTime = 0
    MaxFaults = 0
    MaxReloads = 1
INVARIANTS
    ReplayIsAccepted
